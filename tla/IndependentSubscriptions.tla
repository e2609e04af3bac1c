---------------------- MODULE IndependentSubscriptions ----------------------
(***************************************************************************)
(* What a shared raw context promises its subscribers.  A subscription has *)
(* a place (a capture key, a group and a source or AnySource) and, while   *)
(* it is joined, an inbox of the datagrams captured there that match it,   *)
(* as if it had a capture of its own.                                      *)
(*                                                                         *)
(* Sharing shows in two things.  A datagram that several subscriptions     *)
(* have is handed over once, for all of them.  And the host is a member of *)
(* a place once, for all who are joined there: on the interface that the   *)
(* first of them named when it joined, until the last of them leaves.      *)
(* That interface is the one captured unless the first to join has named   *)
(* it by an address that has moved.  Then those who share the membership   *)
(* do not have one where they capture, whatever they named themselves.     *)
(***************************************************************************)
EXTENDS Naturals, Sequences

CONSTANTS Keys, Groups, Sources, AnySource, DatagramTags

VARIABLES
  next_id,      \* the id of the subscription added next
  member,       \* id -> [place, interfaces it may name, joined]
  inbox,        \* id -> tags of the datagrams it has, in order
  memberships,  \* [place, interface]: where the host is a member
  handed        \* the tags the latest receive call has handed over

vars == <<next_id, member, inbox, memberships, handed>>

Places == [key: Keys, group: Groups, source: Sources \cup {AnySource}]

Elements(s) == {s[i] : i \in DOMAIN s}
Joined      == {id \in DOMAIN member : member[id].joined}
Held        == {member[id].place : id \in Joined}
Without(f, id) == [i \in DOMAIN f \ {id} |-> f[i]]

Init ==
  /\ next_id = 1
  /\ member = [id \in {} |-> {}]
  /\ inbox = [id \in {} |-> <<>>]
  /\ memberships = {}
  /\ handed = {}

Add(place, interfaces) ==
  /\ next_id' = next_id + 1
  /\ member' = [id \in DOMAIN member \cup {next_id} |->
                  IF id = next_id
                  THEN [place |-> place, interfaces |-> interfaces, joined |-> FALSE]
                  ELSE member[id]]
  /\ inbox' = [id \in DOMAIN member' |-> IF id = next_id THEN <<>> ELSE inbox[id]]
  /\ UNCHANGED <<memberships, handed>>

(* The first to join a place chooses the interface of its membership. *)
Join(id) ==
  /\ ~member[id].joined
  /\ member' = [member EXCEPT ![id].joined = TRUE]
  /\ IF member[id].place \in Held
     THEN UNCHANGED memberships
     ELSE \E interface \in member[id].interfaces :
            memberships' = memberships \cup {[place |-> member[id].place, interface |-> interface]}
  /\ UNCHANGED <<next_id, inbox, handed>>

(* A membership ends with the last who is joined at its place. *)
StillHeld == {m \in memberships : m.place \in Held'}

(* Leaving empties the inbox of the one who leaves, and no other. *)
Leave(id) ==
  /\ member[id].joined
  /\ member' = [member EXCEPT ![id].joined = FALSE]
  /\ inbox' = [inbox EXCEPT ![id] = <<>>]
  /\ memberships' = StillHeld
  /\ UNCHANGED <<next_id, handed>>

Remove(id) ==
  /\ member' = Without(member, id)
  /\ inbox' = Without(inbox, id)
  /\ memberships' = StillHeld
  /\ UNCHANGED <<next_id, handed>>

(* A datagram goes to every joined subscription that it matches. *)
Receive(key, group, source, tag) ==
  LET matching == {id \in Joined : LET p == member[id].place IN
                     p.key = key /\ p.group = group /\ p.source \in {AnySource, source}}
  IN
  /\ UNCHANGED <<next_id, handed, member, memberships>>
  /\ \A id \in matching : \A t \in Elements(inbox[id]) : t < tag
  /\ inbox' = [id \in DOMAIN inbox |->
                 IF id \in matching THEN Append(inbox[id], tag) ELSE inbox[id]]

(* The caller gets some datagrams: the oldest of every inbox they are in,  *)
(* and each leaves all the inboxes it is in.  The call is a new one or     *)
(* goes on.                                                                *)
Take(taken) ==
  /\ handed' \in {taken, handed \cup taken}
  /\ DOMAIN inbox' = DOMAIN inbox
  /\ \A id \in DOMAIN inbox : \E n \in 0..Len(inbox[id]) :
       /\ \A i \in DOMAIN inbox[id] : inbox[id][i] \in taken <=> i <= n
       /\ inbox'[id] = SubSeq(inbox[id], n + 1, Len(inbox[id]))
  /\ UNCHANGED <<next_id, member, memberships>>

(* Receiving a datagram that nobody wants changes nothing. *)
Changes == vars' # vars

Next ==
  /\ Changes
  /\ \/ \E place \in Places, interfaces \in SUBSET Keys : Add(place, interfaces)
     \/ \E id \in DOMAIN member : Join(id) \/ Leave(id) \/ Remove(id)
     \/ \E key \in Keys, group \in Groups, source \in Sources, tag \in DatagramTags :
          Receive(key, group, source, tag)
     \/ \E taken \in SUBSET UNION {Elements(inbox[id]) : id \in DOMAIN inbox} : Take(taken)

Spec == Init /\ [][Next]_vars
=============================================================================
