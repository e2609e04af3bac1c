--------------------- MODULE SharedRawRefinementProofs ---------------------
(***************************************************************************)
(* SharedRaw implements IndependentSubscriptions, for every choice of      *)
(* configurations, limits and bounds: each step of the context is a step   *)
(* of its subscriptions, each with a socket of its own, or none at all.    *)
(***************************************************************************)
EXTENDS SharedRawRefinement, SharedRawProofs

(* A socket has a membership for a group and source. *)
HasMembership(key, m) == \E e \in kernel[key] : e.membership = m

(* The host is a member where somebody is joined, and nowhere else. *)
HostExact ==
  \A key \in Keys, m \in MembershipKeys :
    HasMembership(key, m) <=> PlaceAt(key, m) \in Independent!Held

(* The memberships the kernel holds are at the places of the joined. *)
LEMMA HostFollows == Bookkeeping => HostExact
<1> SUFFICES ASSUME Bookkeeping, NEW key \in Keys, NEW m \in MembershipKeys
             PROVE  HasMembership(key, m) <=> PlaceAt(key, m) \in Independent!Held
  BY DEF HostExact
<1> USE DEF Bookkeeping
<1>1. ASSUME HasMembership(key, m) PROVE PlaceAt(key, m) \in Independent!Held
  <2>1. key \in DOMAIN captures
    BY <1>1 DEF KernelInSync, HasMembership
  <2>2. m \in DOMAIN captures[key].kernel_memberships
    BY <1>1, <2>1 DEF KernelInSync, KernelHolds, HasMembership
  <2>3. HoldersOf(key, m) # {}
    BY <2>1, <2>2 DEF MembershipCounts
  <2>4. PICK id \in HoldersOf(key, m) : TRUE
    BY <2>3
  <2>5. /\ id \in DOMAIN subscriptions /\ IsJoined(id)
        /\ subscriptions[id].capture_key = key
        /\ MembershipKey(subscriptions[id].config) = m
    BY <2>4 DEF HoldersOf, JoinedOn, IsJoined
  <2>6. PlaceAt(key, m) = PlaceOf(subscriptions[id].capture_key, subscriptions[id].config)
    BY <2>5 DEF PlaceOf
  <2>7. QED
    BY <2>5, <2>6 DEF Independent!Held, Independent!Joined, Member
<1>2. ASSUME PlaceAt(key, m) \in Independent!Held PROVE HasMembership(key, m)
  <2>1. PICK id \in DOMAIN subscriptions :
          /\ IsJoined(id)
          /\ PlaceAt(key, m) = PlaceOf(subscriptions[id].capture_key, subscriptions[id].config)
    BY <1>2 DEF Independent!Held, Independent!Joined, Member
  <2>2. subscriptions[id].capture_key = key /\ MembershipKey(subscriptions[id].config) = m
    BY <2>1 DEF PlaceOf, PlaceAt, MembershipKey, MembershipKeys
  <2>3. id \in JoinedOn(key) /\ id \in HoldersOf(key, m)
    BY <2>1, <2>2 DEF JoinedOn, HoldersOf, IsJoined
  <2>4. key \in DOMAIN captures
    BY <2>3 DEF MembershipCounts
  <2>5. m \in DOMAIN captures[key].kernel_memberships
    BY <2>3, <2>4 DEF MembershipCounts
  <2>6. QED
    BY <2>4, <2>5 DEF KernelInSync, KernelHolds, HasMembership
<1>3. QED
  BY <1>1, <1>2

(* The same after a step. *)
LEMMA HostStaysExact == Bookkeeping' => HostExact'
BY HostFollows, PTL

(* One abstract membership per entry of the kernel. *)
Entry(key, e) == [place |-> PlaceAt(key, e.membership), interface |-> e.interface]

(* The refinement mapping of the kernel, entry by entry. *)
LEMMA MembershipEntries ==
  /\ \A x : x \in Memberships <=> \E key \in Keys : \E e \in kernel[key] : x = Entry(key, e)
  /\ \A x : x \in Memberships' <=> \E key \in Keys : \E e \in kernel'[key] : x = Entry(key, e)
BY DEF Memberships, Entry, PlaceAt

(* Whatever a leave takes from the kernel, the independent memberships     *)
(* that remain are those somebody is still joined for.                     *)
LEMMA OthersStayMember ==
  ASSUME Bookkeeping, Bookkeeping', \A key \in Keys : kernel'[key] \subseteq kernel[key]
  PROVE  Memberships' = Independent!StillHeld
<1> USE DEF Bookkeeping
<1>1. \A key \in Keys : \A e \in kernel[key] :
        e.membership \in MembershipKeys /\ Entry(key, e).place = PlaceAt(key, e.membership)
  BY DEF SocketTypes, Entry
<1>2. HostExact'
  BY HostStaysExact
<1>3. \A key \in Keys, m \in MembershipKeys :
        (\E e \in kernel'[key] : e.membership = m) <=> PlaceAt(key, m) \in Independent!Held'
  BY <1>2 DEF HostExact, HasMembership, PlaceAt, MembershipKeys
<1>4. \A key \in Keys : \A e, f \in kernel[key] : e.membership = f.membership => e = f
  BY DEF KernelInSync, KernelHolds
<1>5. ASSUME NEW key \in Keys, NEW e \in kernel[key]
      PROVE  e \in kernel'[key] <=> Entry(key, e).place \in Independent!Held'
  <2>1. e \in kernel'[key] => PlaceAt(key, e.membership) \in Independent!Held'
    BY <1>1, <1>3
  <2>2. ASSUME PlaceAt(key, e.membership) \in Independent!Held' PROVE e \in kernel'[key]
    <3>1. PICK f \in kernel'[key] : f.membership = e.membership
      BY <1>1, <1>3, <2>2
    <3>2. f \in kernel[key] /\ f = e
      BY <1>4, <3>1
    <3>3. QED
      BY <3>2
  <2>3. QED
    BY <1>1, <2>1, <2>2
<1>6. \A x : x \in Memberships' <=> x \in Memberships /\ x.place \in Independent!Held'
  BY <1>5, MembershipEntries
<1>7. QED
  BY <1>6 DEF Independent!StillHeld

-----------------------------------------------------------------------------
(* What is pending for whom. *)

(* A datagram is pending for stored subscriptions only. *)
LEMMA NothingPending ==
  ASSUME ReceiveTypes, NEW p \in Seq(PacketType), NEW id, \A i \in DOMAIN p : id \notin p[i].ids
  PROVE  PendingFor(p, id) = <<>>
<1>1. {i \in DOMAIN p : id \in p[i].ids} = {}
  OBVIOUS
<1>2. QED
  BY <1>1, PickedNone DEF PendingFor

(* After a leave, nothing is pending for the one who left. *)
LEMMA LeaverKeepsNothing ==
  ASSUME RegistryTypes, ReceiveTypes, PendingNamesJoined, NEW id
  PROVE  PendingFor(RemovePendingMembership(pending_packets, id), id) = <<>>
<1> DEFINE R == RemovePendingMembership(pending_packets, id)
<1>1. /\ R \in Seq(PacketType)
      /\ \A n \in 1..Len(R) : R[n].ids = pending_packets[Nth(Kept(id), n)].ids \ {id}
  BY RemovePendingFacts
<1> HIDE DEF R
<1>2. \A n \in DOMAIN R : id \notin R[n].ids
  BY <1>1
<1>3. PendingFor(R, id) = <<>>
  BY <1>1, <1>2, NothingPending
<1>4. QED
  BY <1>3 DEF R

-----------------------------------------------------------------------------
(* Registration: the steps of one subscription. *)

(* The refinement mapping, subscription by subscription. *)
LEMMA MemberFacts ==
  /\ DOMAIN Member = DOMAIN subscriptions
  /\ \A id \in DOMAIN subscriptions :
       /\ Member[id].place = PlaceOf(subscriptions[id].capture_key, subscriptions[id].config)
       /\ Member[id].interfaces = Resolutions[subscriptions[id].config.selector]
       /\ Member[id].joined = IsJoined(id)
  /\ DOMAIN Inbox = DOMAIN subscriptions
  /\ \A id \in DOMAIN subscriptions : Inbox[id] = PendingFor(pending_packets, id)
BY DEF Member, Inbox

(* A member that joins or leaves stays at its place. *)
LEMMA JoinedSet ==
  \A p, r, b, v : [[place |-> p, interfaces |-> r, joined |-> b] EXCEPT !.joined = v]
                     = [place |-> p, interfaces |-> r, joined |-> v]
OBVIOUS

(* add_subscription adds an independent subscription. *)
LEMMA AddRefines ==
  ASSUME Bookkeeping, ReceiveInv, NEW cfg \in Configs, AddSubscription(cfg)
  PROVE  \E place \in Independent!Places, interfaces \in SUBSET Keys :
           Independent!Add(place, interfaces)
<1> DEFINE reach == Resolutions[cfg.selector]
<1>0. PICK new \in Nat : new = next_subscription_id
  BY ConstantAssumptions DEF Bookkeeping, RegistryTypes
<1>1. PICK key \in Keys : subscriptions' = Put(subscriptions, new,
                            [config |-> cfg, capture_key |-> key, state |-> "Bound"])
  BY <1>0 DEF AddSubscription
<1>2. UNCHANGED <<kernel, pending_packets, out>> /\ next_subscription_id' = new + 1
  BY <1>0 DEF AddSubscription, sockets
<1>3. new \notin DOMAIN subscriptions
  BY <1>0 DEF Bookkeeping, RegistryTypes, Ids
<1>4. PlaceOf(key, cfg) \in Independent!Places /\ reach \in SUBSET Keys
  BY ConstantAssumptions DEF PlaceOf, PlaceAt, MembershipKey, Independent!Places, ConfigType
<1>5. Member' = [id \in DOMAIN Member \cup {new} |->
                   IF id = new
                   THEN [place |-> PlaceOf(key, cfg), interfaces |-> reach, joined |-> FALSE]
                   ELSE Member[id]]
  <2>1. DOMAIN subscriptions' = DOMAIN subscriptions \cup {new}
    BY <1>1 DEF Put
  <2>2. ASSUME NEW id \in DOMAIN subscriptions
        PROVE  subscriptions'[id] = subscriptions[id] /\ id # new
    BY <1>1, <1>3 DEF Put
  <2>3. subscriptions'[new] = [config |-> cfg, capture_key |-> key, state |-> "Bound"]
    BY <1>1 DEF Put
  <2>4. ~IsJoined(new)'
    BY <2>3 DEF IsJoined
  <2>5. ASSUME NEW id \in DOMAIN subscriptions PROVE Member'[id] = Member[id]
    BY <2>1, <2>2 DEF Member, PlaceOf, PlaceAt, MembershipKey, IsJoined
  <2>6. Member'[new] = [place |-> PlaceOf(key, cfg), interfaces |-> reach, joined |-> FALSE]
    <3>1. Member'[new] = [place      |-> PlaceOf(subscriptions'[new].capture_key, subscriptions'[new].config),
                          interfaces |-> Resolutions[subscriptions'[new].config.selector],
                          joined     |-> IsJoined(new)']
      BY <2>1 DEF Member, PlaceOf, PlaceAt, MembershipKey
    <3>2. IsJoined(new)' = FALSE
      BY <2>4 DEF IsJoined
    <3>3. subscriptions'[new].capture_key = key /\ subscriptions'[new].config = cfg
      BY <2>3
    <3>4. QED
      BY <3>1, <3>2, <3>3, Zenon
  <2>7. Member' = [id \in DOMAIN subscriptions' |-> Member'[id]]
    BY DEF Member
  <2>8. QED
    BY <1>3, <2>1, <2>5, <2>6, <2>7, MemberFacts
<1>6. DOMAIN Member' = DOMAIN subscriptions'
  BY DEF Member
<1>7. PendingFor(pending_packets, new) = <<>>
  <2>1. \A i \in DOMAIN pending_packets : new \notin pending_packets[i].ids
    BY <1>3 DEF ReceiveInv, PendingNamesJoined, IsJoined
  <2>2. QED
    BY <2>1, NothingPending DEF ReceiveInv, ReceiveTypes
<1>8. Inbox' = [id \in DOMAIN Member' |-> IF id = new THEN <<>> ELSE Inbox[id]]
  <2>1. DOMAIN subscriptions' = DOMAIN subscriptions \cup {new}
    BY <1>1 DEF Put
  <2>2. Inbox' = [id \in DOMAIN subscriptions' |-> PendingFor(pending_packets, id)]
    BY <1>2 DEF Inbox
  <2>3. \A id \in DOMAIN subscriptions : Inbox[id] = PendingFor(pending_packets, id)
    BY DEF Inbox
  <2>4. QED
    BY <1>3, <1>6, <1>7, <2>1, <2>2, <2>3
<1>9. Memberships' = Memberships /\ Handed' = Handed
  BY <1>2 DEF Memberships, PlaceAt, Handed
<1>10. Independent!Add(PlaceOf(key, cfg), reach)
  BY <1>0, <1>2, <1>5, <1>8, <1>9 DEF Independent!Add
<1> HIDE DEF reach
<1>11. QED
  BY <1>4, <1>10

(* join_subscription joins one, whoever shares its capture. *)
LEMMA JoinRefines ==
  ASSUME Bookkeeping, Bookkeeping', NEW id \in DOMAIN subscriptions, JoinSubscription(id)
  PROVE  Independent!Join(id)
<1>1. /\ ~IsJoined(id)
      /\ subscriptions' = [subscriptions EXCEPT ![id].state = "Joined"]
      /\ UNCHANGED <<next_subscription_id, pending_packets, out>>
  BY DEF JoinSubscription
<1>2. subscriptions[id] \in SubscriptionType
  BY DEF Bookkeeping, RegistryTypes
<1>3. /\ DOMAIN subscriptions' = DOMAIN subscriptions
      /\ subscriptions'[id].state = "Joined"
      /\ subscriptions'[id].config = subscriptions[id].config
      /\ subscriptions'[id].capture_key = subscriptions[id].capture_key
      /\ \A x \in DOMAIN subscriptions \ {id} : subscriptions'[x] = subscriptions[x]
  BY <1>1, <1>2 DEF SubscriptionType
<1>4. Member' = [Member EXCEPT ![id].joined = TRUE]
  <2>1. PICK place, reach : /\ place = PlaceOf(subscriptions[id].capture_key, subscriptions[id].config)
                            /\ reach = Resolutions[subscriptions[id].config.selector]
    OBVIOUS
  <2>2. Member[id] = [place |-> place, interfaces |-> reach, joined |-> FALSE]
    <3>1. IsJoined(id) = FALSE
      BY <1>1 DEF IsJoined
    <3>2. QED
      BY <2>1, <3>1 DEF Member
  <2>3. [Member EXCEPT ![id].joined = TRUE] =
          [x \in DOMAIN Member |->
             IF x = id THEN [place |-> place, interfaces |-> reach, joined |-> TRUE] ELSE Member[x]]
    <3>1. [[place |-> place, interfaces |-> reach, joined |-> FALSE] EXCEPT !.joined = TRUE]
            = [place |-> place, interfaces |-> reach, joined |-> TRUE]
      BY JoinedSet, Zenon
    <3>2. [Member EXCEPT ![id].joined = TRUE] =
            [x \in DOMAIN Member |-> IF x = id THEN [Member[id] EXCEPT !.joined = TRUE] ELSE Member[x]]
      OBVIOUS
    <3>3. QED
      BY <2>2, <3>1, <3>2
  <2>4. Member' = [x \in DOMAIN subscriptions |->
                     IF x = id THEN [place |-> place, interfaces |-> reach, joined |-> TRUE]
                     ELSE Member[x]]
    BY <1>3, <2>1 DEF Member, IsJoined, PlaceOf, PlaceAt, MembershipKey
  <2>5. QED
    BY <2>3, <2>4, MemberFacts
<1>5. Inbox' = Inbox /\ Handed' = Handed
  BY <1>1, <1>3 DEF Inbox, Handed
<1>6. ~Member[id].joined
  BY <1>1, MemberFacts
<1>7. IF Member[id].place \in Independent!Held
      THEN Memberships' = Memberships
      ELSE \E interface \in Member[id].interfaces :
             Memberships' = Memberships \cup {[place |-> Member[id].place, interface |-> interface]}
  <2>1. PICK key \in Keys, cfg \in ConfigType :
          key = subscriptions[id].capture_key /\ cfg = subscriptions[id].config
    BY <1>2, ConstantAssumptions DEF SubscriptionType
  <2>2. PICK m \in MembershipKeys : m = MembershipKey(cfg)
    BY <2>1 DEF MembershipKey, MembershipKeys, ConfigType
  <2>3. /\ Member[id].place = PlaceAt(key, m)
        /\ Member[id].interfaces = Resolutions[cfg.selector]
    BY <2>1, <2>2, MemberFacts DEF PlaceOf
  <2>4. KernelJoin(key, cfg, CapturesWith(key)[key].kernel_memberships)
    BY <2>1 DEF JoinSubscription
  <2>5. m \in DOMAIN CapturesWith(key)[key].kernel_memberships <=> HasMembership(key, m)
    <3>1. CASE key \in DOMAIN captures
      BY <3>1 DEF CapturesWith, Bookkeeping, KernelInSync, KernelHolds, HasMembership
    <3>2. CASE key \notin DOMAIN captures
      <4>1. CapturesWith(key)[key] = NewCapture
        BY <3>2 DEF CapturesWith, Put
      <4>2. kernel[key] = {}
        BY <3>2 DEF Bookkeeping, KernelInSync
      <4>3. QED
        BY <4>1, <4>2 DEF NewCapture, NoEntry, HasMembership
    <3>3. QED
      BY <3>1, <3>2
  <2>6. HasMembership(key, m) <=> Member[id].place \in Independent!Held
    BY <2>3, HostFollows DEF HostExact
  <2>7. CASE Member[id].place \in Independent!Held
    <3>1. kernel' = kernel
      BY <2>2, <2>4, <2>5, <2>6, <2>7 DEF KernelJoin
    <3>2. QED
      BY <2>7, <3>1 DEF Memberships, PlaceAt
  <2>8. CASE Member[id].place \notin Independent!Held
    <3>1. PICK interface \in Resolutions[cfg.selector] :
            kernel' = [kernel EXCEPT ![key] = @ \cup {Membership(m, interface)}]
      BY <2>2, <2>4, <2>5, <2>6, <2>8 DEF KernelJoin
    <3>2. /\ kernel'[key] = kernel[key] \cup {Membership(m, interface)}
          /\ \A k \in Keys \ {key} : kernel'[k] = kernel[k]
      BY <3>1 DEF Bookkeeping, SocketTypes
    <3>3. Entry(key, Membership(m, interface)) = [place |-> PlaceAt(key, m), interface |-> interface]
      BY DEF Entry, Membership
    <3>4. \A x : x \in Memberships'
                <=> x \in Memberships \/ x = [place |-> PlaceAt(key, m), interface |-> interface]
      BY <3>2, <3>3, MembershipEntries
    <3>5. Memberships' = Memberships \cup {[place |-> PlaceAt(key, m), interface |-> interface]}
      BY <3>4
    <3>6. QED
      BY <2>3, <2>8, <3>5
  <2>9. QED
    BY <2>7, <2>8
<1>8. QED
  BY <1>1, <1>4, <1>5, <1>6, <1>7 DEF Independent!Join

(* A leave adds no membership to the kernel. *)
LEMMA LeaveTakes ==
  ASSUME Bookkeeping, NEW id, Leave(id)
  PROVE  \A key \in Keys : kernel'[key] \subseteq kernel[key]
<1>1. \/ kernel' = kernel
      \/ \E k, S : kernel' = [kernel EXCEPT ![k] = @ \ S]
  BY DEF Leave, KernelLeave
<1>2. kernel \in [Keys -> SUBSET [membership: MembershipKeys, interface: Keys]]
  BY DEF Bookkeeping, SocketTypes
<1>3. QED
  BY <1>1, <1>2

(* leave_subscription leaves one, and empties its inbox only. *)
LEMMA LeaveRefines ==
  ASSUME Bookkeeping, ReceiveInv, Bookkeeping', NEW id \in DOMAIN subscriptions,
         LeaveSubscription(id)
  PROVE  Independent!Leave(id)
<1>1. /\ IsJoined(id)
      /\ subscriptions' = [subscriptions EXCEPT ![id].state = "Bound"]
      /\ UNCHANGED <<next_subscription_id, out>>
      /\ pending_packets' = RemovePendingMembership(pending_packets, id)
  BY DEF LeaveSubscription, Leave
<1>2. subscriptions[id] \in SubscriptionType
  BY DEF Bookkeeping, RegistryTypes
<1>3. /\ DOMAIN subscriptions' = DOMAIN subscriptions
      /\ subscriptions'[id].state = "Bound"
      /\ subscriptions'[id].config = subscriptions[id].config
      /\ subscriptions'[id].capture_key = subscriptions[id].capture_key
      /\ \A x \in DOMAIN subscriptions \ {id} : subscriptions'[x] = subscriptions[x]
  BY <1>1, <1>2 DEF SubscriptionType
<1>4. Member' = [Member EXCEPT ![id].joined = FALSE]
  <2>1. PICK place, reach : /\ place = PlaceOf(subscriptions[id].capture_key, subscriptions[id].config)
                            /\ reach = Resolutions[subscriptions[id].config.selector]
    OBVIOUS
  <2>2. Member[id] = [place |-> place, interfaces |-> reach, joined |-> TRUE]
    <3>1. IsJoined(id) = TRUE
      BY <1>1 DEF IsJoined
    <3>2. QED
      BY <2>1, <3>1 DEF Member
  <2>3. [Member EXCEPT ![id].joined = FALSE] =
          [x \in DOMAIN Member |->
             IF x = id THEN [place |-> place, interfaces |-> reach, joined |-> FALSE] ELSE Member[x]]
    <3>1. [[place |-> place, interfaces |-> reach, joined |-> TRUE] EXCEPT !.joined = FALSE]
            = [place |-> place, interfaces |-> reach, joined |-> FALSE]
      BY JoinedSet, Zenon
    <3>2. [Member EXCEPT ![id].joined = FALSE] =
            [x \in DOMAIN Member |-> IF x = id THEN [Member[id] EXCEPT !.joined = FALSE] ELSE Member[x]]
      OBVIOUS
    <3>3. QED
      BY <2>2, <3>1, <3>2
  <2>4. Member' = [x \in DOMAIN subscriptions |->
                     IF x = id THEN [place |-> place, interfaces |-> reach, joined |-> FALSE]
                     ELSE Member[x]]
    BY <1>3, <2>1 DEF Member, IsJoined, PlaceOf, PlaceAt, MembershipKey
  <2>5. QED
    BY <2>3, <2>4, MemberFacts
<1>5. Inbox' = [Inbox EXCEPT ![id] = <<>>]
  <2>1. PendingFor(pending_packets', id) = <<>>
    BY <1>1, LeaverKeepsNothing DEF Bookkeeping, ReceiveInv
  <2>2. ASSUME NEW x \in DOMAIN subscriptions \ {id}
        PROVE  PendingFor(pending_packets', x) = PendingFor(pending_packets, x)
    BY <1>1, OthersKeepPending DEF Bookkeeping, ReceiveInv
  <2>3. QED
    BY <1>3, <2>1, <2>2 DEF Inbox
<1>6. Handed' = Handed /\ Member[id].joined
  BY <1>1, MemberFacts DEF Handed
<1>7. Memberships' = Independent!StillHeld
  <2>1. \A key \in Keys : kernel'[key] \subseteq kernel[key]
    BY LeaveTakes DEF LeaveSubscription
  <2>2. QED
    BY <2>1, OthersStayMember
<1>8. QED
  BY <1>1, <1>4, <1>5, <1>6, <1>7 DEF Independent!Leave

(* remove_subscription removes one with its inbox. *)
LEMMA RemoveRefines ==
  ASSUME Bookkeeping, ReceiveInv, Bookkeeping', NEW id \in DOMAIN subscriptions,
         RemoveSubscription(id)
  PROVE  Independent!Remove(id)
<1>1. /\ subscriptions' = Drop(subscriptions, id)
      /\ UNCHANGED <<next_subscription_id, out>>
      /\ pending_packets' \in {pending_packets, RemovePendingMembership(pending_packets, id)}
  BY DEF RemoveSubscription, Leave
<1>2. /\ DOMAIN subscriptions' = DOMAIN subscriptions \ {id}
      /\ \A x \in DOMAIN subscriptions \ {id} : subscriptions'[x] = subscriptions[x]
  BY <1>1 DEF Drop
<1>3. Member' = Independent!Without(Member, id)
  BY <1>2 DEF Member, IsJoined, PlaceOf, PlaceAt, MembershipKey, Independent!Without
<1>4. Inbox' = Independent!Without(Inbox, id)
  <2>1. ASSUME NEW x \in DOMAIN subscriptions \ {id}
        PROVE  PendingFor(pending_packets', x) = PendingFor(pending_packets, x)
    BY <1>1, OthersKeepPending DEF Bookkeeping, ReceiveInv
  <2>2. QED
    BY <1>2, <2>1 DEF Inbox, Independent!Without
<1>5. Memberships' = Independent!StillHeld /\ Handed' = Handed
  <2>1. \A key \in Keys : kernel'[key] \subseteq kernel[key]
    <3>1. CASE IsJoined(id)
      BY <3>1, LeaveTakes DEF RemoveSubscription
    <3>2. CASE ~IsJoined(id)
      BY <3>2 DEF RemoveSubscription, sockets
    <3>3. QED
      BY <3>1, <3>2
  <2>2. QED
    BY <1>1, <2>1, OthersStayMember DEF Handed
<1>6. QED
  BY <1>1, <1>3, <1>4, <1>5 DEF Independent!Remove

-----------------------------------------------------------------------------
(* Receiving. *)

(* The positions of the queue at which a subscription's packets are. *)
At(p, id) == {i \in DOMAIN p : id \in p[i].ids}

(* The inbox of a subscription, packet by packet. *)
LEMMA InboxFacts ==
  ASSUME NEW p \in Seq(PacketType), NEW id
  PROVE  /\ Tags(p) \in Seq(Nat) /\ Len(Tags(p)) = Len(p) /\ DOMAIN Tags(p) = 1..Len(p)
         /\ \A i \in 1..Len(p) : Tags(p)[i] = p[i].tag
         /\ At(p, id) \in SUBSET DOMAIN Tags(p)
         /\ Len(PendingFor(p, id)) = Cardinality(At(p, id))
         /\ DOMAIN PendingFor(p, id) = 1..Cardinality(At(p, id))
         /\ \A i \in 1..Cardinality(At(p, id)) :
              Nth(At(p, id), i) \in At(p, id) /\ PendingFor(p, id)[i] = p[Nth(At(p, id), i)].tag
         /\ \A k \in At(p, id) : \E i \in 1..Cardinality(At(p, id)) : Nth(At(p, id), i) = k
<1>1. Len(p) \in Nat /\ DOMAIN p = 1..Len(p) /\ \A i \in 1..Len(p) : p[i].tag \in Nat
  BY PacketsPlain
<1>2. Tags(p) \in Seq(Nat) /\ Len(Tags(p)) = Len(p) /\ DOMAIN Tags(p) = 1..Len(p)
  BY <1>1 DEF Tags
<1>3. \A i \in 1..Len(p) : Tags(p)[i] = p[i].tag
  BY <1>1 DEF Tags
<1> DEFINE K == At(p, id)
<1>4. K \in SUBSET DOMAIN Tags(p)
  BY <1>1, <1>2 DEF At
<1>5. PendingFor(p, id) = Picked(Tags(p), K)
  BY DEF PendingFor, At
<1> HIDE DEF K
<1>6. /\ Picked(Tags(p), K) \in Seq(Nat) /\ Len(Picked(Tags(p), K)) = Cardinality(K)
      /\ \A i \in 1..Cardinality(K) : Nth(K, i) \in K /\ Picked(Tags(p), K)[i] = Tags(p)[Nth(K, i)]
      /\ \A k \in K : \E i \in 1..Cardinality(K) : Nth(K, i) = k
  BY <1>2, <1>4, PickedFacts
<1>7. DOMAIN Picked(Tags(p), K) = 1..Cardinality(K)
  BY <1>6
<1>8. \A i \in 1..Cardinality(K) : Picked(Tags(p), K)[i] = p[Nth(K, i)].tag
  BY <1>2, <1>3, <1>4, <1>6
<1>9. QED
  BY <1>2, <1>3, <1>4, <1>5, <1>6, <1>7, <1>8 DEF K

(* The n oldest packets leave the queue for the caller: of every inbox,    *)
(* the oldest datagrams go, the ones that are among those n.               *)
LEMMA TakeRefines ==
  ASSUME ReceiveInv, UNCHANGED <<subscriptions, next_subscription_id, kernel>>,
         NEW n \in 0..Len(pending_packets),
         pending_packets' = Remaining(pending_packets, n),
         \/ out' = Drained(pending_packets, n)
         \/ out' = out \o Drained(pending_packets, n)
  PROVE  \E taken \in SUBSET UNION {Independent!Elements(Inbox[id]) : id \in DOMAIN Inbox} :
           Independent!Take(taken)
<1> USE DEF ReceiveInv
<1> DEFINE P == pending_packets
           taken == {P[i].tag : i \in 1..n}
<1>1. P \in Seq(PacketType) /\ Len(P) \in Nat /\ n \in Nat /\ n <= Len(P) /\ out \in Seq(PacketType)
  BY DEF ReceiveTypes
<1>2. taken \in SUBSET UNION {Independent!Elements(Inbox[id]) : id \in DOMAIN Inbox}
  <2>1. ASSUME NEW i \in 1..n
        PROVE  \E id \in DOMAIN Inbox : P[i].tag \in Independent!Elements(Inbox[id])
    <3>1. i \in 1..Len(P) /\ i \in DOMAIN P
      BY <1>1
    <3>2. PICK id \in P[i].ids : id \in DOMAIN subscriptions
      BY <3>1 DEF PendingNamesJoined, IsJoined
    <3>3. i \in At(P, id)
      BY <3>1, <3>2 DEF At
    <3>4. PICK j \in 1..Cardinality(At(P, id)) : Nth(At(P, id), j) = i
      BY <1>1, <3>3, InboxFacts
    <3>5. j \in DOMAIN PendingFor(P, id) /\ PendingFor(P, id)[j] = P[i].tag
      BY <1>1, <3>4, InboxFacts
    <3>6. QED
      BY <3>2, <3>5, MemberFacts DEF Independent!Elements
  <2>2. QED
    BY <2>1
<1>3. Handed' \in {taken, Handed \cup taken}
  <2> DEFINE D == Drained(P, n)
  <2>1. D \in Seq(PacketType) /\ Len(D) = n /\ \A i \in 1..n : D[i] = P[i]
    BY <1>1, DrainFacts
  <2>2. out' = D \/ out' = out \o D
    OBVIOUS
  <2> HIDE DEF D
  <2>3. DOMAIN D = 1..n /\ taken = {D[i].tag : i \in 1..n}
    BY <1>1, <2>1
  <2>4. CASE out' = D
    BY <2>3, <2>4 DEF Handed
  <2>5. CASE out' = out \o D
    <3>1. /\ DOMAIN (out \o D) = 1..(Len(out) + n) /\ Len(out) \in Nat
          /\ DOMAIN out = 1..Len(out)
          /\ \A i \in 1..Len(out) : (out \o D)[i] = out[i]
          /\ \A i \in 1..n : (out \o D)[Len(out) + i] = D[i]
      BY <1>1, <2>1
    <3>2. ASSUME NEW i \in 1..(Len(out) + n)
          PROVE  (out \o D)[i].tag \in Handed \cup taken
      <4>1. CASE i <= Len(out)
        <5>1. i \in 1..Len(out)
          BY <3>1, <4>1
        <5>2. QED
          BY <3>1, <5>1 DEF Handed
      <4>2. CASE ~(i <= Len(out))
        <5>1. PICK j \in 1..n : i = Len(out) + j
          <6>1. i - Len(out) \in 1..n /\ i = Len(out) + (i - Len(out))
            BY <1>1, <3>1, <4>2
          <6>2. QED
            BY <6>1
        <5>2. QED
          BY <2>3, <3>1, <5>1
      <4>3. QED
        BY <4>1, <4>2
    <3>3. ASSUME NEW i \in 1..Len(out) PROVE out[i].tag \in Handed'
      <4>1. i \in 1..(Len(out) + n) /\ (out \o D)[i] = out[i]
        BY <1>1, <3>1
      <4>2. QED
        BY <2>5, <3>1, <4>1 DEF Handed
    <3>4. ASSUME NEW i \in 1..n PROVE D[i].tag \in Handed'
      <4>1. Len(out) + i \in 1..(Len(out) + n) /\ (out \o D)[Len(out) + i] = D[i]
        BY <1>1, <3>1
      <4>2. QED
        BY <2>5, <3>1, <4>1 DEF Handed
    <3>5. Handed' = {(out \o D)[i].tag : i \in 1..(Len(out) + n)}
      BY <2>5, <3>1 DEF Handed
    <3>6. Handed = {out[i].tag : i \in 1..Len(out)}
      BY <3>1 DEF Handed
    <3>7. \A x \in Handed' : x \in Handed \cup taken
      BY <3>2, <3>5
    <3>8. \A x \in Handed : x \in Handed'
      BY <3>3, <3>6
    <3>9. \A x \in taken : x \in Handed'
      BY <2>3, <3>4
    <3> HIDE DEF taken
    <3>10. Handed' = Handed \cup taken
      BY <3>7, <3>8, <3>9
    <3>11. QED
      BY <3>10
  <2>6. QED
    BY <2>2, <2>4, <2>5
<1>4. Member' = Member /\ Memberships' = Memberships /\ DOMAIN Inbox' = DOMAIN Inbox
  BY DEF Member, Memberships, PlaceOf, PlaceAt, MembershipKey, Inbox, IsJoined
<1>5. ASSUME NEW id \in DOMAIN Inbox
      PROVE  \E c \in 0..Len(Inbox[id]) :
               /\ \A i \in DOMAIN Inbox[id] : Inbox[id][i] \in taken <=> i <= c
               /\ Inbox'[id] = SubSeq(Inbox[id], c + 1, Len(Inbox[id]))
  <2> DEFINE R == Remaining(P, n)
             K == At(P, id)
             L == At(R, id)
             s == Tags(P)
             N == Cardinality(K)
  <2>0. /\ R \in Seq(PacketType) /\ Len(R) = Len(P) - n
        /\ \A i \in 1..(Len(P) - n) : i + n \in 1..Len(P) /\ R[i] = P[i + n]
    BY <1>1, DrainFacts
  <2> HIDE DEF R
  <2>1. /\ R \in Seq(PacketType) /\ Len(R) = Len(P) - n
        /\ \A i \in 1..Len(R) : i + n \in 1..Len(P) /\ R[i] = P[i + n]
    BY <2>0
  <2>2. /\ s \in Seq(Nat) /\ Len(s) = Len(P) /\ K \in SUBSET DOMAIN s /\ DOMAIN s = 1..Len(P)
        /\ \A i \in 1..Len(P) : s[i] = P[i].tag
        /\ Len(PendingFor(P, id)) = N /\ DOMAIN PendingFor(P, id) = 1..N
        /\ \A i \in 1..N : Nth(K, i) \in K /\ PendingFor(P, id)[i] = P[Nth(K, i)].tag
    <3>1. P \in Seq(PacketType)
      BY <1>1
    <3> HIDE DEF P
    <3>2. s \in Seq(Nat) /\ Len(s) = Len(P) /\ K \in SUBSET DOMAIN s /\ DOMAIN s = 1..Len(P)
      BY <3>1, InboxFacts
    <3>3. \A i \in 1..Len(P) : s[i] = P[i].tag
      BY <3>1, InboxFacts
    <3>4. Len(PendingFor(P, id)) = N /\ DOMAIN PendingFor(P, id) = 1..N
      BY <3>1, InboxFacts
    <3>5. \A i \in 1..N : Nth(K, i) \in K /\ PendingFor(P, id)[i] = P[Nth(K, i)].tag
      BY <3>1, InboxFacts
    <3>6. QED
      BY <3>2, <3>3, <3>4, <3>5
  <2>3. L \in SUBSET 1..Len(R) /\ Tags(R) \in Seq(Nat) /\ Len(Tags(R)) = Len(R)
        /\ \A i \in 1..Len(R) : Tags(R)[i] = R[i].tag
    BY <2>1, InboxFacts
  <2>4. \A i \in DOMAIN P : (i \in K) <=> (id \in P[i].ids)
    BY DEF At
  <2>5. \A i \in 1..Len(R) : (i \in L) <=> (id \in R[i].ids)
    BY <2>1 DEF At
  <2> HIDE DEF s, K, L
  <2>6. Cut(Nat, s, K, n, L)
    <3>1. n \in 0..Len(s) /\ L \in SUBSET Int
      BY <1>1, <2>1, <2>2, <2>3
    <3>2. ASSUME NEW l \in Int PROVE (l \in L) <=> (1 <= l /\ l + n \in K)
      <4>1. ASSUME l \in L PROVE 1 <= l /\ l + n \in K
        <5>1. l \in 1..Len(R) /\ l + n \in 1..Len(P) /\ R[l] = P[l + n] /\ id \in R[l].ids
          BY <2>1, <2>3, <2>5, <4>1
        <5>2. QED
          BY <1>1, <2>4, <5>1
      <4>2. ASSUME 1 <= l, l + n \in K PROVE l \in L
        <5>1. l + n \in 1..Len(P) /\ id \in P[l + n].ids
          BY <1>1, <2>2, <2>4, <4>2
        <5>2. l \in 1..(Len(P) - n)
          BY <1>1, <4>2, <5>1
        <5>3. l \in 1..Len(R) /\ R[l] = P[l + n]
          BY <2>0, <5>2
        <5>4. QED
          BY <2>5, <5>1, <5>3
      <4>3. QED
        BY <4>1, <4>2
    <3>3. QED
      BY <2>2, <3>1, <3>2 DEF Cut
  <2>7. PICK c \in 0..N :
          /\ \A i \in 1..N : (Nth(K, i) <= n) <=> (i <= c)
          /\ Picked(SubSeq(s, n + 1, Len(s)), L) = SubSeq(Picked(s, K), c + 1, N)
    BY <2>6, PickedSplits
  <2>8. Tags(R) = SubSeq(s, n + 1, Len(s))
    <3> DEFINE t == SubSeq(s, n + 1, Len(s))
    <3>1. t \in Seq(Nat) /\ Len(t) = Len(s) - n /\ \A i \in 1..(Len(s) - n) : t[i] = s[i + n]
      <4>1. s \in Seq(Nat) /\ n \in 0..Len(s)
        BY <2>2
      <4>2. QED
        BY <4>1, SuffixFacts, Zenon
    <3> HIDE DEF t
    <3>2. \A i \in 1..Len(R) : Tags(R)[i] = t[i]
      BY <2>1, <2>2, <2>3, <3>1
    <3>3. Len(Tags(R)) = Len(t) /\ Len(R) = Len(t)
      BY <2>1, <2>2, <2>3, <3>1
    <3>4. t = [i \in 1..Len(t) |-> t[i]] /\ Tags(R) = [i \in 1..Len(t) |-> Tags(R)[i]]
      BY <2>3, <3>1, <3>3
    <3>5. Tags(R) = t
      BY <3>2, <3>3, <3>4
    <3>6. QED
      BY <3>5 DEF t
  <2>9. Inbox[id] = PendingFor(P, id) /\ Inbox'[id] = PendingFor(R, id)
    BY MemberFacts DEF Inbox, R
  <2>10. PendingFor(P, id) = Picked(s, K) /\ PendingFor(R, id) = Picked(Tags(R), L)
    BY DEF PendingFor, At, s, K, L
  <2>11. Inbox'[id] = SubSeq(Inbox[id], c + 1, Len(Inbox[id]))
    BY <2>2, <2>7, <2>8, <2>9, <2>10
  <2>12. ASSUME NEW i \in 1..N PROVE (PendingFor(P, id)[i] \in taken) <=> (i <= c)
    <3>1. Nth(K, i) \in 1..Len(P) /\ PendingFor(P, id)[i] = P[Nth(K, i)].tag
      BY <2>2
    <3>2. ASSUME i <= c PROVE P[Nth(K, i)].tag \in taken
      <4>1. Nth(K, i) \in 1..n
        BY <1>1, <2>7, <3>1, <3>2
      <4>2. QED
        BY <4>1
    <3>3. ASSUME P[Nth(K, i)].tag \in taken PROVE i <= c
      <4>1. PICK j \in 1..n : P[Nth(K, i)].tag = P[j].tag
        BY <3>3
      <4>2. j \in 1..Len(P)
        BY <1>1
      <4>3. Nth(K, i) = j
        BY <3>1, <4>1, <4>2 DEF Flow, TagsApart
      <4>4. QED
        BY <1>1, <2>7, <4>3
    <3>4. QED
      BY <3>1, <3>2, <3>3
  <2> HIDE DEF N
  <2>13. QED
    BY <2>2, <2>9, <2>11, <2>12
<1> HIDE DEF taken
<1>6. Independent!Take(taken)
  BY <1>3, <1>4, <1>5 DEF Independent!Take
<1>7. QED
  BY <1>2, <1>6

(* A datagram that is read goes to every inbox that it matches, and it is  *)
(* later than what is there.                                               *)
LEMMA CaptureRefines ==
  ASSUME Bookkeeping, ReceiveInv, CaptureDatagram
  PROVE  \E key \in Keys, group \in Groups, source \in Sources, tag \in 1..MaxArrivals :
           Independent!Receive(key, group, source, tag)
<1> USE DEF ReceiveInv
<1>1. call.pc = "read" /\ call.key \in DOMAIN captures /\ call.key \in Keys /\ queue[call.key] # <<>>
  BY DEF CaptureDatagram, MayRead, CallShape, Bookkeeping, SocketTypes
<1>2. PICK key \in Keys : key = call.key
  BY <1>1
<1>3. queue[key] \in Seq(DatagramType) /\ Len(queue[key]) \in Nat /\ Head(queue[key]) = queue[key][1]
      /\ 1 \in 1..Len(queue[key]) /\ Head(queue[key]) \in DatagramType
  BY <1>1, <1>2 DEF ReceiveTypes
<1>4. PICK d \in DatagramType : d = Head(queue[key])
  BY <1>3
<1> DEFINE P == pending_packets
           ids == Wanting(key, d)
           p == PacketOf(ids, key, d)
<1>5. d.tag \in 1..MaxArrivals /\ d.group \in Groups /\ d.source \in Sources
  BY DEF DatagramType
<1>6. Matches(captures[key].demultiplexer, d) = ids /\ ids \in SUBSET DOMAIN subscriptions
  BY <1>1, <1>2, MatchesExact
<1>7. /\ UNCHANGED <<subscriptions, next_subscription_id, kernel, out>>
      /\ pending_packets' = IF ids # {} THEN Append(P, p) ELSE P
  <2>1. pending_packets' = IF Matches(captures[key].demultiplexer, d) # {}
                           THEN Append(P, PacketOf(Matches(captures[key].demultiplexer, d), key, d)) ELSE P
    BY <1>2, <1>4 DEF CaptureDatagram
  <2>2. UNCHANGED <<subscriptions, next_subscription_id, kernel, out>>
    BY DEF CaptureDatagram, registry, sockets
  <2>3. QED
    BY <1>6, <2>1, <2>2
<1>8. Member' = Member /\ Memberships' = Memberships /\ Handed' = Handed
  BY <1>7 DEF Member, Memberships, PlaceOf, PlaceAt, MembershipKey, Handed, IsJoined
<1>9. ids = {id \in Independent!Joined : LET q == Member[id].place IN
               q.key = key /\ q.group = d.group /\ q.source \in {AnySource, d.source}}
  <2>1. Independent!Joined = {id \in DOMAIN subscriptions : IsJoined(id)}
    BY MemberFacts DEF Independent!Joined
  <2>2. ASSUME NEW id \in DOMAIN subscriptions
        PROVE  /\ Member[id].place.key = subscriptions[id].capture_key
               /\ Member[id].place.group = subscriptions[id].config.group
               /\ Member[id].place.source = subscriptions[id].config.source
    <3> DEFINE place == PlaceOf(subscriptions[id].capture_key, subscriptions[id].config)
    <3>1. /\ place.key = subscriptions[id].capture_key
          /\ place.group = subscriptions[id].config.group
          /\ place.source = subscriptions[id].config.source
      BY DEF PlaceOf, PlaceAt, MembershipKey
    <3>2. Member[id].place = place
      BY MemberFacts
    <3> HIDE DEF place
    <3>3. QED
      BY <3>1, <3>2
  <2>3. QED
    BY <2>1, <2>2 DEF Wanting, JoinedOn, IsJoined
<1>10. P \in Seq(PacketType)
  BY DEF ReceiveTypes
<1>11. ASSUME NEW id \in ids, NEW t \in Independent!Elements(Inbox[id]) PROVE t < d.tag
  <2>1. id \in DOMAIN subscriptions /\ subscriptions[id].capture_key = key
    BY DEF Wanting, JoinedOn
  <2>2. PICK i \in DOMAIN PendingFor(P, id) : t = PendingFor(P, id)[i]
    BY <2>1, MemberFacts DEF Independent!Elements
  <2>3. PICK k \in At(P, id) : t = P[k].tag
    <3>1. i \in 1..Cardinality(At(P, id))
      BY <1>10, <2>2, InboxFacts
    <3>2. Nth(At(P, id), i) \in At(P, id) /\ PendingFor(P, id)[i] = P[Nth(At(P, id), i)].tag
      BY <1>10, <3>1, InboxFacts
    <3>3. QED
      BY <2>2, <3>2
  <2>4. k \in 1..Len(P) /\ P[k].key = key
    BY <1>10, <2>1, <2>3 DEF At, PendingNamesJoined
  <2>5. QED
    BY <1>3, <1>4, <2>3, <2>4 DEF Flow, FifoParts, AheadOfQueues
<1>12. Inbox' = [id \in DOMAIN Inbox |-> IF id \in ids THEN Append(Inbox[id], d.tag) ELSE Inbox[id]]
  <2>1. CASE ids = {}
    <3>1. Inbox' = Inbox
      BY <1>7, <2>1 DEF Inbox
    <3>2. Inbox = [id \in DOMAIN Inbox |-> Inbox[id]]
      BY DEF Inbox
    <3>3. QED
      BY <2>1, <3>1, <3>2
  <2>2. CASE ids # {}
    <3>1. Labelled(p) /\ p.ids = ids /\ p.tag = d.tag
      BY <1>6, <2>2, PacketOfFacts DEF Bookkeeping
    <3>2. p \in PacketType /\ p.tag \in Nat
      BY <1>5, <3>1 DEF Labelled
    <3> HIDE DEF p, ids
    <3>3. ASSUME NEW id
          PROVE  PendingFor(Append(P, p), id) =
                   IF id \in ids THEN Append(PendingFor(P, id), d.tag) ELSE PendingFor(P, id)
      <4> DEFINE K == At(P, id)
                 Q == Append(P, p)
      <4>1. /\ Tags(P) \in Seq(Nat) /\ Len(Tags(P)) = Len(P) /\ K \in SUBSET DOMAIN Tags(P)
            /\ \A i \in 1..Len(P) : Tags(P)[i] = P[i].tag
        BY <1>10, InboxFacts
      <4>2. /\ Len(P) \in Nat /\ Q \in Seq(PacketType) /\ Len(Q) = Len(P) + 1 /\ Q[Len(P) + 1] = p
            /\ \A i \in 1..Len(P) : Q[i] = P[i]
        BY <1>10, <3>2
      <4> HIDE DEF Q
      <4>3. Tags(Q) = Append(Tags(P), d.tag)
        <5>1. Tags(Q) \in Seq(Nat) /\ Len(Tags(Q)) = Len(P) + 1
              /\ \A i \in 1..(Len(P) + 1) : Tags(Q)[i] = Q[i].tag
          BY <4>2, InboxFacts
        <5>2. Tags(Q) = [i \in 1..(Len(P) + 1) |-> Q[i].tag]
          BY <5>1
        <5>3. Append(Tags(P), d.tag) =
                [i \in 1..(Len(P) + 1) |-> IF i = Len(P) + 1 THEN d.tag ELSE P[i].tag]
          BY <4>1, <4>2
        <5>4. QED
          BY <3>1, <4>2, <5>2, <5>3
      <4>4. At(Q, id) = IF id \in ids THEN K \cup {Len(Tags(P)) + 1} ELSE K
        <5>1. DOMAIN Q = 1..(Len(P) + 1) /\ DOMAIN P = 1..Len(P)
          BY <1>10, <4>2
        <5>2. \A i \in 1..Len(P) : (i \in At(Q, id)) <=> (i \in K)
          BY <4>2, <5>1 DEF At
        <5>3. (Len(P) + 1 \in At(Q, id)) <=> (id \in ids)
          BY <3>1, <4>2, <5>1 DEF At
        <5>4. At(Q, id) \in SUBSET 1..(Len(P) + 1) /\ K \in SUBSET 1..Len(P)
          BY <5>1 DEF At
        <5> HIDE DEF K
        <5>5. \A i \in 1..(Len(P) + 1) : i \in 1..Len(P) \/ i = Len(P) + 1
          BY <4>2
        <5>6. Len(P) + 1 \notin 1..Len(P) /\ Len(Tags(P)) = Len(P)
          BY <4>1, <4>2
        <5> DEFINE A == At(Q, id)
                   l == Len(P) + 1
        <5>7. /\ \A i \in A : i \in K \/ i = l
              /\ \A i \in K : i \in A
              /\ (l \in A) <=> (id \in ids)
          BY <5>2, <5>3, <5>4, <5>5
        <5> HIDE DEF A, l
        <5>8. A = IF id \in ids THEN K \cup {l} ELSE K
          <6>1. l \notin K
            BY <5>4, <5>6 DEF l
          <6>2. QED
            BY <5>7, <6>1
        <5>9. QED
          BY <5>6, <5>8 DEF A, l
      <4>5. PendingFor(Q, id) = Picked(Tags(Q), At(Q, id)) /\ PendingFor(P, id) = Picked(Tags(P), K)
        BY DEF PendingFor, At
      <4> HIDE DEF K
      <4>6. d.tag \in Nat
        BY <3>1, <3>2
      <4>7. /\ Picked(Append(Tags(P), d.tag), K) = Picked(Tags(P), K)
            /\ Picked(Append(Tags(P), d.tag), K \cup {Len(Tags(P)) + 1}) = Append(Picked(Tags(P), K), d.tag)
        <5> DEFINE s == Tags(P)
                   e == d.tag
                   L == K \cup {Len(Tags(P)) + 1}
        <5>1. Grows(Nat, s, K, e, L)
          BY <4>1, <4>6 DEF Grows
        <5> HIDE DEF s, e, L
        <5>2. Picked(Append(s, e), K) = Picked(s, K) /\ Picked(Append(s, e), L) = Append(Picked(s, K), e)
          BY <5>1, PickedGrows
        <5>3. QED
          BY <5>2 DEF s, e, L
      <4>8. PendingFor(Q, id) = IF id \in ids THEN Append(PendingFor(P, id), d.tag) ELSE PendingFor(P, id)
        BY <4>3, <4>4, <4>5, <4>7
      <4>9. QED
        BY <4>8 DEF Q
    <3>4. Inbox' = [id \in DOMAIN subscriptions |-> PendingFor(Append(P, p), id)]
      BY <1>7, <2>2 DEF Inbox
    <3>5. QED
      BY <3>3, <3>4, MemberFacts
  <2>3. QED
    BY <2>1, <2>2
<1> HIDE DEF ids
<1>13. Independent!Receive(key, d.group, d.source, d.tag)
  BY <1>7, <1>8, <1>9, <1>11, <1>12 DEF Independent!Receive
<1>14. QED
  BY <1>5, <1>13

-----------------------------------------------------------------------------
(* The refinement. *)

(* The initial states map to initial states. *)
LEMMA InitRefines == Init => Independent!Init
<1> SUFFICES ASSUME Init PROVE Independent!Init
  OBVIOUS
<1>1. DOMAIN subscriptions = {} /\ out = <<>> /\ next_subscription_id = 1
  BY DEF Init, NoEntry
<1>2. Member = [id \in {} |-> {}] /\ Inbox = [id \in {} |-> <<>>]
  BY <1>1 DEF Member, Inbox
<1>3. Memberships = {}
  BY DEF Init, Memberships
<1>4. Handed = {}
  BY <1>1 DEF Handed
<1>5. QED
  BY <1>1, <1>2, <1>3, <1>4 DEF Independent!Init

(* A step that touches neither the subscriptions nor the kernel's          *)
(* memberships nor the packets is none to the subscribers.                 *)
LEMMA HiddenStep ==
  ASSUME UNCHANGED <<subscriptions, next_subscription_id, kernel, pending_packets, out>>
  PROVE  UNCHANGED Independent!vars
<1>1. Member' = Member /\ Inbox' = Inbox
  BY DEF Member, Inbox, IsJoined
<1>2. Memberships' = Memberships /\ Handed' = Handed
  BY DEF Memberships, PlaceAt, Handed
<1>3. QED
  BY <1>1, <1>2 DEF Independent!vars

(* Every step maps to a step of the independent subscriptions or to none. *)
LEMMA NextRefines ==
  Bookkeeping /\ ReceiveInv /\ Bookkeeping' /\ [Next]_vars => [Independent!Next]_(Independent!vars)
<1> SUFFICES ASSUME Bookkeeping, ReceiveInv, Bookkeeping', [Next]_vars, ~UNCHANGED Independent!vars
             PROVE  Independent!Next
  OBVIOUS
<1>0. Independent!Changes
  BY DEF Independent!Changes
<1>1. ASSUME NEW cfg \in Configs, AddSubscription(cfg) PROVE Independent!Next
  BY <1>0, <1>1, AddRefines DEF Independent!Next
<1>2. ASSUME NEW id \in DOMAIN subscriptions,
             JoinSubscription(id) \/ LeaveSubscription(id) \/ RemoveSubscription(id)
      PROVE  Independent!Next
  <2>1. Independent!Join(id) \/ Independent!Leave(id) \/ Independent!Remove(id)
    BY <1>2, JoinRefines, LeaveRefines, RemoveRefines
  <2>2. id \in DOMAIN Member
    BY MemberFacts
  <2>3. QED
    BY <1>0, <2>1, <2>2 DEF Independent!Next
<1>3. ASSUME NEW id \in DOMAIN subscriptions, JoinFails(id) PROVE Independent!Next
  <2>1. UNCHANGED <<subscriptions, next_subscription_id, kernel, pending_packets, out>>
    BY <1>3 DEF JoinFails, registry
  <2>2. QED
    BY <2>1, HiddenStep
<1>4. ASSUME UNCHANGED <<subscriptions, next_subscription_id, kernel>>,
             NEW n \in 0..Len(pending_packets),
             pending_packets' = Remaining(pending_packets, n),
             \/ out' = Drained(pending_packets, n)
             \/ out' = out \o Drained(pending_packets, n)
      PROVE  Independent!Next
  BY <1>0, <1>4, TakeRefines DEF Independent!Next
<1>5. pending_packets \in Seq(PacketType) /\ Len(pending_packets) \in Nat /\ call \in CallType
  BY DEF ReceiveInv, ReceiveTypes
<1>6. CASE TryRecvAny
  <2>0. UNCHANGED <<subscriptions, next_subscription_id, kernel>>
    BY <1>6 DEF TryRecvAny, registry, sockets
  <2>1. CASE pending_packets # <<>>
    <3>1. 1 \in 0..Len(pending_packets)
      BY <1>5, <2>1
    <3>2. QED
      BY <1>4, <1>6, <2>0, <2>1, <3>1 DEF TryRecvAny
  <2>2. CASE pending_packets = <<>>
    <3>1. out' = <<>> /\ pending_packets' = <<>>
      BY <1>6, <2>2 DEF TryRecvAny
    <3>2. 0 \in 0..Len(pending_packets) /\ Drained(pending_packets, 0) = <<>> /\ Remaining(pending_packets, 0) = <<>>
      BY <2>2 DEF Drained, Remaining
    <3>3. QED
      BY <1>4, <2>0, <3>1, <3>2
  <2>3. QED
    BY <2>1, <2>2
<1>7. ASSUME NEW max \in BatchSizes, TryRecvBatchInto(max) PROVE Independent!Next
  <2>1. Smaller(max, Len(pending_packets)) \in 0..Len(pending_packets)
    BY <1>5, ConstantAssumptions DEF Smaller
  <2>2. UNCHANGED <<subscriptions, next_subscription_id, kernel>>
    BY <1>7 DEF TryRecvBatchInto, registry, sockets
  <2>3. QED
    BY <1>4, <1>7, <2>1, <2>2 DEF TryRecvBatchInto
<1>8. CASE FillReturns
  <2> DEFINE n == IF call.op = "any" THEN Smaller(1, Len(pending_packets))
                  ELSE IF call.queued = 0 THEN 0
                  ELSE Smaller(call.max - call.received, Len(pending_packets))
  <2>1. n \in 0..Len(pending_packets)
    <3>1. Smaller(1, Len(pending_packets)) \in 0..Len(pending_packets)
      BY <1>5 DEF Smaller
    <3>2. ASSUME call.op # "any" PROVE Smaller(call.max - call.received, Len(pending_packets)) \in 0..Len(pending_packets)
      <4>1. call.op = "batch"
        BY <1>8, <3>2 DEF FillReturns, ReceiveInv, CallShape
      <4>2. call.received < call.max
        BY <4>1 DEF ReceiveInv, ReceiveBounded
      <4>3. call.max \in Nat /\ call.received \in Nat
        BY <1>5 DEF CallType
      <4>4. QED
        BY <1>5, <4>2, <4>3 DEF Smaller
    <3>3. QED
      BY <1>5, <3>1, <3>2
  <2>2. /\ UNCHANGED <<subscriptions, next_subscription_id, kernel>>
        /\ pending_packets' = Remaining(pending_packets, n)
        /\ out' = out \o Drained(pending_packets, n)
    BY <1>8 DEF FillReturns, registry, sockets
  <2> HIDE DEF n
  <2>3. QED
    BY <1>4, <2>1, <2>2
<1>9. CASE CaptureDatagram
  BY <1>0, <1>9, CaptureRefines DEF Independent!Next
<1>10. CASE VisitCapture \/ LeaveInnerLoop \/ SkipUnparsed \/ WouldBlock \/ ReceiveFails
  <2>1. UNCHANGED <<subscriptions, next_subscription_id, kernel, pending_packets, out>>
    BY <1>10 DEF VisitCapture, LeaveInnerLoop, SkipUnparsed, WouldBlock, ReceiveFails, registry, sockets
  <2>2. QED
    BY <2>1, HiddenStep
<1>11. ASSUME NEW key \in Keys, NEW group \in Groups, NEW source \in Sources, NEW parses \in BOOLEAN,
              Arrive(key, group, source, parses)
       PROVE  Independent!Next
  <2>1. UNCHANGED <<subscriptions, next_subscription_id, kernel, pending_packets, out>>
    BY <1>11 DEF Arrive, registry, sockets
  <2>2. QED
    BY <2>1, HiddenStep
<1>12. CASE UNCHANGED vars
  <2>1. UNCHANGED <<subscriptions, next_subscription_id, kernel, pending_packets, out>>
    BY <1>12 DEF vars
  <2>2. QED
    BY <2>1, HiddenStep
<1>13. QED
  BY <1>1, <1>2, <1>3, <1>6, <1>7, <1>8, <1>9, <1>10, <1>11, <1>12 DEF Next, Receive

(* A shared context captures as independent sockets would: nobody's join,  *)
(* leave, removal, failed call or full queue shows to another, every       *)
(* matching subscription gets every datagram read from its capture, and a  *)
(* datagram is handed over once.  Its host is a member once per place      *)
(* where somebody is joined, on the interface the first to join named.     *)
THEOREM Refinement == Spec => SubscriptionsIndependent
<1>1. Spec => Independent!Init /\ [][Independent!Next]_(Independent!vars)
  BY InitRefines, NextRefines, BookkeepingInvariant, ReceiveInvariant, PTL DEF Spec
<1>2. QED
  BY <1>1 DEF SubscriptionsIndependent, Independent!Spec
=============================================================================
