-------------------------- MODULE SharedRawProofs --------------------------
(***************************************************************************)
(* Proofs about SharedRaw, for every set of configurations, interfaces and *)
(* groups and for every limit.  First the bookkeeping: memberships, kernel *)
(* state, demultiplexers, captures and resolved interfaces are exact.      *)
(* Then, on top of it, the receive half: what is queued, for whom, in      *)
(* which order and how much of it, the counters, and that a receive call   *)
(* comes to an end.                                                        *)
(***************************************************************************)
EXTENDS SharedRaw, SubsequenceProofs, FiniteSetTheorems, TLAPS

(* A receive call in progress has a capture to visit: captures are closed  *)
(* only between calls.                                                     *)
CallHasCaptures == call.pc # "idle" => capture_order # <<>>

(* The inductive invariant. *)
Bookkeeping ==
  /\ RegistryTypes
  /\ SocketTypes
  /\ next_capture_index \in Nat
  /\ MembershipCounts
  /\ KernelInSync
  /\ DemultiplexerExact
  /\ ResolvedKeysExact
  /\ CaptureOrderInSync
  /\ CallHasCaptures

-----------------------------------------------------------------------------
(* Facts about the sets that the counts count. *)

(* Only finitely many subscriptions are stored, so every set of them that  *)
(* the reference counts stand for has a cardinality.                       *)
LEMMA FiniteHolders ==
  ASSUME RegistryTypes
  PROVE  /\ IsFiniteSet(DOMAIN subscriptions)
         /\ \A k : IsFiniteSet(JoinedOn(k))
         /\ \A k, m : IsFiniteSet(HoldersOf(k, m))
         /\ \A s : IsFiniteSet(StoredWith(s))
<1>1. next_subscription_id - 1 \in Int
  BY ConstantAssumptions DEF RegistryTypes
<1>2. IsFiniteSet(Ids)
  BY <1>1, FS_Interval DEF Ids
<1>3. IsFiniteSet(DOMAIN subscriptions)
  BY <1>2, FS_Subset DEF RegistryTypes
<1>4. \A S \in SUBSET DOMAIN subscriptions : IsFiniteSet(S)
  BY <1>3, FS_Subset
<1>5. \A k : JoinedOn(k) \in SUBSET DOMAIN subscriptions
  BY DEF JoinedOn
<1>6. \A k, m : HoldersOf(k, m) \in SUBSET DOMAIN subscriptions
  BY DEF JoinedOn, HoldersOf
<1>7. \A s : StoredWith(s) \in SUBSET DOMAIN subscriptions
  BY DEF StoredWith
<1>8. QED
  BY <1>3, <1>4, <1>5, <1>6, <1>7

(* A step that leaves the registry and the sockets alone and keeps the     *)
(* round-robin index where it is: every step of a receive call but the     *)
(* head of the loop over captures.                                         *)
LEMMA QuietStep ==
  ASSUME Bookkeeping, UNCHANGED <<registry, capture_order, kernel, next_capture_index>>,
         DOMAIN captures' = DOMAIN captures, \A k \in DOMAIN captures : captures'[k] = captures[k],
         CallHasCaptures'
  PROVE  Bookkeeping'
<1> USE DEF registry, Bookkeeping
<1>1. RegistryTypes' /\ SocketTypes' /\ (next_capture_index \in Nat)'
  BY DEF RegistryTypes, SocketTypes, Ids, CaptureOK
<1>2. MembershipCounts'
  <2>1. /\ \A k : JoinedOn(k)' = JoinedOn(k)
        /\ \A k, m : HoldersOf(k, m)' = HoldersOf(k, m)
    BY DEF JoinedOn, HoldersOf, MembershipKey
  <2>2. QED
    BY <2>1 DEF MembershipCounts
<1>3. KernelInSync'
  BY DEF KernelInSync, KernelHolds, MembershipKey
<1>4. DemultiplexerExact'
  BY DEF DemultiplexerExact, JoinedOn, DemuxEntry
<1>5. ResolvedKeysExact' /\ CaptureOrderInSync'
  BY DEF ResolvedKeysExact, CaptureOrderInSync, StoredWith
<1>6. QED
  BY <1>1, <1>2, <1>3, <1>4, <1>5

-----------------------------------------------------------------------------
(* An empty context keeps its books. *)
LEMMA InitBookkeeping == Init => Bookkeeping
<1> SUFFICES ASSUME Init PROVE Bookkeeping
  OBVIOUS
<1> USE ConstantAssumptions DEF Init
<1>1. DOMAIN subscriptions = {} /\ DOMAIN captures = {} /\ DOMAIN resolved_capture_keys = {}
  BY DEF NoEntry
<1>2. RegistryTypes
  BY <1>1 DEF RegistryTypes, NoEntry, Ids
<1>3. SocketTypes
  BY <1>1 DEF SocketTypes
<1>4. MembershipCounts
  BY <1>1 DEF MembershipCounts, JoinedOn
<1>5. KernelInSync /\ DemultiplexerExact
  BY <1>1 DEF KernelInSync, DemultiplexerExact
<1>6. ResolvedKeysExact
  BY <1>1 DEF ResolvedKeysExact, StoredWith
<1>7. CaptureOrderInSync
  BY <1>1 DEF CaptureOrderInSync
<1>8. CallHasCaptures
  BY DEF CallHasCaptures, IdleCall
<1>9. QED
  BY <1>2, <1>3, <1>4, <1>5, <1>6, <1>7, <1>8 DEF Bookkeeping

-----------------------------------------------------------------------------
(* The order of captures as a duplicate-free list of a set of keys. *)

Lists(order, S) ==
  /\ order \in Seq(Keys)
  /\ \A k : k \in S <=> \E i \in 1..Len(order) : order[i] = k
  /\ \A i, j \in 1..Len(order) : order[i] = order[j] => i = j

(* CaptureOrderInSync says that capture_order lists the open captures. *)
LEMMA OrderLists ==
  ASSUME SocketTypes, CaptureOrderInSync
  PROVE  Lists(capture_order, DOMAIN captures)
<1>1. capture_order \in Seq(Keys) /\ DOMAIN capture_order = 1..Len(capture_order)
  BY DEF SocketTypes
<1>2. QED
  BY <1>1 DEF Lists, CaptureOrderInSync

(* A sequence that lists a set names its members, each once. *)
LEMMA ListsOrder ==
  ASSUME NEW order, NEW S, Lists(order, S)
  PROVE  /\ {order[i] : i \in DOMAIN order} = S
         /\ \A i, j \in DOMAIN order : order[i] = order[j] => i = j
         /\ order = <<>> <=> Len(order) = 0
<1>1. order \in Seq(Keys) /\ DOMAIN order = 1..Len(order)
  BY DEF Lists
<1>2. {order[i] : i \in DOMAIN order} = S
  <2>1. \A k : k \in {order[i] : i \in DOMAIN order} <=> k \in S
    BY <1>1 DEF Lists
  <2>2. QED
    BY <2>1, Zenon
<1>3. QED
  BY <1>1, <1>2 DEF Lists

(* push of a key that is not in the order. *)
LEMMA ListsAppend ==
  ASSUME NEW order, NEW S, Lists(order, S), NEW key \in Keys, key \notin S
  PROVE  Lists(Append(order, key), S \cup {key})
<1> DEFINE longer == Append(order, key)
<1>1. order \in Seq(Keys) /\ longer \in Seq(Keys) /\ Len(longer) = Len(order) + 1
  BY DEF Lists
<1>2. /\ \A i \in 1..Len(order) : longer[i] = order[i]
      /\ longer[Len(order) + 1] = key
  BY <1>1
<1> HIDE DEF longer
<1>3. \A i \in 1..Len(longer) : i \in 1..Len(order) \/ i = Len(order) + 1
  BY <1>1
<1>4. \A k : k \in S \cup {key} <=> \E i \in 1..Len(longer) : longer[i] = k
  BY <1>1, <1>2, <1>3 DEF Lists
<1>5. \A i, j \in 1..Len(longer) : longer[i] = longer[j] => i = j
  BY <1>1, <1>2, <1>3 DEF Lists
<1>6. QED
  BY <1>1, <1>4, <1>5 DEF Lists, longer

(* Vec::remove at the position of a key of the order. *)
LEMMA ListsRemove ==
  ASSUME NEW order, NEW S, Lists(order, S), NEW key \in S
  PROVE  /\ Lists(RemoveAt(order, Position(order, key)), S \ {key})
         /\ Len(RemoveAt(order, Position(order, key))) = Len(order) - 1
<1> DEFINE p == Position(order, key)
           rest == RemoveAt(order, p)
           n == Len(order)
<1>1. order \in Seq(Keys) /\ n \in Nat /\ DOMAIN order = 1..n
  BY DEF Lists
<1>2. p \in 1..n /\ order[p] = key
  BY <1>1 DEF Lists, Position
<1> HIDE DEF p, n
<1>3. \A j \in 1..(n - 1) : rest[j] = IF j < p THEN order[j] ELSE order[j + 1]
  BY DEF RemoveAt, n
<1>4. \A j \in 1..(n - 1) : rest[j] \in Keys
  BY <1>1, <1>2, <1>3 DEF n
<1>5. n - 1 \in Nat /\ rest = [j \in 1..(n - 1) |-> rest[j]]
  BY <1>1, <1>2 DEF RemoveAt, n
<1> HIDE DEF rest
<1>6. rest \in [1..(n - 1) -> Keys]
  BY <1>4, <1>5
<1>7. rest \in Seq(Keys) /\ Len(rest) = n - 1
  BY <1>5, <1>6
<1>8. \A i, j \in 1..(n - 1) : rest[i] = rest[j] => i = j
  BY <1>1, <1>2, <1>3 DEF Lists, n
<1>9. ASSUME NEW k \in S \ {key}
      PROVE  \E i \in 1..(n - 1) : rest[i] = k
  <2>1. PICK i \in 1..n : order[i] = k
    BY DEF Lists, n
  <2>2. i # p
    BY <1>2, <2>1
  <2>3. CASE i < p
    BY <1>1, <1>2, <1>3, <2>1, <2>3
  <2>4. CASE i > p
    <3>1. i - 1 \in 1..(n - 1) /\ ~(i - 1 < p) /\ (i - 1) + 1 = i
      BY <1>1, <1>2, <2>1, <2>4
    <3>2. QED
      BY <1>3, <2>1, <3>1
  <2>5. QED
    BY <1>1, <1>2, <2>1, <2>2, <2>3, <2>4
<1>10. ASSUME NEW i \in 1..(n - 1)
       PROVE  rest[i] \in S \ {key}
  <2>1. CASE i < p
    BY <1>1, <1>2, <1>3, <2>1 DEF Lists, n
  <2>2. CASE ~(i < p)
    <3>1. i + 1 \in 1..n /\ i + 1 # p
      BY <1>1, <1>2, <2>2
    <3>2. QED
      BY <1>1, <1>2, <1>3, <2>2, <3>1 DEF Lists, n
  <2>3. QED
    BY <2>1, <2>2
<1>11. Lists(rest, S \ {key})
  BY <1>7, <1>8, <1>9, <1>10 DEF Lists
<1>12. QED
  BY <1>7, <1>11 DEF rest, p, n

-----------------------------------------------------------------------------
(* add_subscription stores a Bound subscription under a fresh id. *)
LEMMA AddPreserves ==
  ASSUME Bookkeeping, NEW cfg \in Configs, AddSubscription(cfg)
  PROVE  Bookkeeping'
<1> DEFINE id == next_subscription_id
           sel == cfg.selector
<1> USE ConstantAssumptions
<1>1. sel \in Selectors
  BY DEF ConfigType
<1>2. PICK key \in Keys :
        /\ ResolveCaptureKey(sel, key)
        /\ subscriptions' = Put(subscriptions, id,
                                [config |-> cfg, capture_key |-> key, state |-> "Bound"])
  BY DEF AddSubscription
<1>3. id \in 1..MaxId /\ next_subscription_id' = id + 1 /\ id \notin DOMAIN subscriptions
  BY DEF AddSubscription, Bookkeeping, RegistryTypes, Ids
<1>4. /\ DOMAIN subscriptions' = DOMAIN subscriptions \cup {id}
      /\ subscriptions'[id] = [config |-> cfg, capture_key |-> key, state |-> "Bound"]
      /\ \A i \in DOMAIN subscriptions : subscriptions'[i] = subscriptions[i]
      /\ subscriptions' = [i \in DOMAIN subscriptions' |-> subscriptions'[i]]
  BY <1>2, <1>3 DEF Put
<1>5. /\ DOMAIN resolved_capture_keys' = DOMAIN resolved_capture_keys \cup {sel}
      /\ \A s \in DOMAIN resolved_capture_keys \ {sel} :
           resolved_capture_keys'[s] = resolved_capture_keys[s]
      /\ resolved_capture_keys' = [s \in DOMAIN resolved_capture_keys' |-> resolved_capture_keys'[s]]
      /\ resolved_capture_keys'[sel].key = key
      /\ resolved_capture_keys'[sel] \in ResolvedType
      /\ resolved_capture_keys'[sel].references =
           IF sel \in DOMAIN resolved_capture_keys
           THEN resolved_capture_keys[sel].references + 1 ELSE 1
      /\ sel \in DOMAIN resolved_capture_keys => resolved_capture_keys[sel].key = key
  <2>1. CASE sel \in DOMAIN resolved_capture_keys
    <3>1. resolved_capture_keys[sel] \in ResolvedType
      BY <2>1 DEF Bookkeeping, RegistryTypes
    <3>2. /\ key = resolved_capture_keys[sel].key
          /\ resolved_capture_keys' =
               [resolved_capture_keys EXCEPT ![sel].references = @ + 1]
      BY <1>2, <2>1 DEF ResolveCaptureKey
    <3>4. DOMAIN resolved_capture_keys' = DOMAIN resolved_capture_keys
      BY <3>2
    <3>5. DOMAIN resolved_capture_keys \cup {sel} = DOMAIN resolved_capture_keys
      BY <2>1
    <3>6. /\ resolved_capture_keys'[sel] =
               [resolved_capture_keys[sel] EXCEPT !.references = @ + 1]
          /\ \A s \in DOMAIN resolved_capture_keys \ {sel} :
               resolved_capture_keys'[s] = resolved_capture_keys[s]
      BY <2>1, <3>2
    <3>7. resolved_capture_keys' = [s \in DOMAIN resolved_capture_keys' |-> resolved_capture_keys'[s]]
      BY <3>2
    <3>8. /\ resolved_capture_keys'[sel] \in ResolvedType
          /\ resolved_capture_keys'[sel].key = key
          /\ resolved_capture_keys'[sel].references = resolved_capture_keys[sel].references + 1
      BY <3>1, <3>2, <3>6 DEF ResolvedType
    <3>9. QED
      BY <2>1, <3>2, <3>4, <3>5, <3>6, <3>7, <3>8
  <2>2. CASE sel \notin DOMAIN resolved_capture_keys
    <3>1. resolved_capture_keys' =
            Put(resolved_capture_keys, sel, [key |-> key, references |-> 1])
      BY <1>2, <2>2 DEF ResolveCaptureKey
    <3>2. QED
      BY <2>2, <3>1 DEF Put, ResolvedType
  <2>3. QED
    BY <2>1, <2>2
<1>6. RegistryTypes'
  <2>1. DOMAIN subscriptions' \subseteq Ids'
    BY <1>3, <1>4 DEF Bookkeeping, RegistryTypes, Ids
  <2>2. \A i \in DOMAIN subscriptions' : subscriptions'[i] \in SubscriptionType
    BY <1>3, <1>4 DEF Bookkeeping, RegistryTypes, SubscriptionType
  <2>3. \A s \in DOMAIN resolved_capture_keys' : resolved_capture_keys'[s] \in ResolvedType
    BY <1>1, <1>5 DEF Bookkeeping, RegistryTypes
  <2>4. subscriptions' \in [DOMAIN subscriptions' -> SubscriptionType]
    BY <1>4, <2>2
  <2>5. resolved_capture_keys' \in [DOMAIN resolved_capture_keys' -> ResolvedType]
    BY <1>5, <2>3
  <2>6. QED
    BY <1>1, <1>3, <1>5, <2>1, <2>4, <2>5 DEF Bookkeeping, RegistryTypes
<1>7. \A k : JoinedOn(k)' = JoinedOn(k)
  BY <1>3, <1>4 DEF JoinedOn
<1>8. \A i \in DOMAIN subscriptions : subscriptions'[i] = subscriptions[i]
  BY <1>4
<1>9. UNCHANGED <<captures, capture_order, kernel, next_capture_index, call>>
  BY DEF AddSubscription, sockets
<1>10. SocketTypes' /\ CaptureOrderInSync' /\ CallHasCaptures' /\ (next_capture_index \in Nat)'
  BY <1>9 DEF Bookkeeping, SocketTypes, CaptureOrderInSync, CallHasCaptures
<1>11. \A k, m : HoldersOf(k, m)' = HoldersOf(k, m)
  BY <1>7, <1>8 DEF HoldersOf, JoinedOn, MembershipKey
<1>12. MembershipCounts'
  BY <1>7, <1>9, <1>11 DEF Bookkeeping, MembershipCounts
<1>13. KernelInSync'
  BY <1>9 DEF Bookkeeping, KernelInSync, KernelHolds, MembershipKey
<1>14. DemultiplexerExact'
  <2>1. \A k : {DemuxEntry(i, subscriptions[i].config) : i \in JoinedOn(k)}'
               = {DemuxEntry(i, subscriptions[i].config) : i \in JoinedOn(k)}
    BY <1>7, <1>8 DEF JoinedOn, DemuxEntry
  <2>2. QED
    BY <1>9, <2>1 DEF Bookkeeping, DemultiplexerExact
<1>15. ResolvedKeysExact'
  <2>1. \A s : StoredWith(s)' = IF s = sel THEN StoredWith(s) \cup {id} ELSE StoredWith(s)
    BY <1>3, <1>4 DEF StoredWith
  <2>2. id \notin StoredWith(sel) /\ IsFiniteSet(StoredWith(sel))
    BY <1>3, FiniteHolders DEF StoredWith, Bookkeeping
  <2>3. Cardinality(StoredWith(sel) \cup {id}) = Cardinality(StoredWith(sel)) + 1
    BY <2>2, FS_AddElement
  <2>4. StoredWith(sel) = {} => Cardinality(StoredWith(sel)) = 0
    BY FS_EmptySet
  <2>5. \A s \in Selectors : s \in DOMAIN resolved_capture_keys' <=> StoredWith(s)' # {}
    BY <1>5, <2>1 DEF Bookkeeping, ResolvedKeysExact
  <2>6. ASSUME NEW s \in DOMAIN resolved_capture_keys'
        PROVE  resolved_capture_keys'[s].references = Cardinality(StoredWith(s)')
    <3>1. CASE s = sel
      <4>1. StoredWith(s)' = StoredWith(sel) \cup {id}
        BY <2>1, <3>1
      <4>2. resolved_capture_keys'[sel].references = Cardinality(StoredWith(sel)) + 1
        BY <1>1, <1>5, <2>4 DEF Bookkeeping, ResolvedKeysExact
      <4>3. QED
        BY <2>3, <3>1, <4>1, <4>2
    <3>2. CASE s # sel
      BY <1>5, <2>1, <3>2 DEF Bookkeeping, ResolvedKeysExact
    <3>3. QED
      BY <3>1, <3>2
  <2>7. ASSUME NEW i \in DOMAIN subscriptions'
        PROVE  subscriptions'[i].capture_key
                 = resolved_capture_keys'[subscriptions'[i].config.selector].key
    <3>1. CASE i = id
      BY <1>4, <1>5, <3>1
    <3>2. CASE i # id
      <4>1. i \in DOMAIN subscriptions /\ subscriptions'[i] = subscriptions[i]
        BY <1>4, <3>2
      <4>2. subscriptions[i].config.selector \in Selectors
        BY <4>1 DEF Bookkeeping, RegistryTypes, SubscriptionType, ConfigType
      <4>3. i \in StoredWith(subscriptions[i].config.selector)
        BY <4>1 DEF StoredWith
      <4>4. subscriptions[i].config.selector \in DOMAIN resolved_capture_keys
        BY <4>2, <4>3 DEF Bookkeeping, ResolvedKeysExact
      <4>5. QED
        BY <1>5, <4>1, <4>4 DEF Bookkeeping, ResolvedKeysExact
    <3>3. QED
      BY <3>1, <3>2
  <2>8. ASSUME NEW s \in DOMAIN resolved_capture_keys'
        PROVE  resolved_capture_keys'[s].key \in Resolutions[s]
    <3>1. CASE s = sel
      <4>1. key \in Resolutions[sel]
        BY <1>2 DEF ResolveCaptureKey, Bookkeeping, ResolvedKeysExact
      <4>2. QED
        BY <1>5, <3>1, <4>1
    <3>2. CASE s # sel
      BY <1>5, <3>2 DEF Bookkeeping, ResolvedKeysExact
    <3>3. QED
      BY <3>1, <3>2
  <2>9. QED
    BY <2>5, <2>6, <2>7, <2>8 DEF ResolvedKeysExact
<1>16. QED
  BY <1>6, <1>10, <1>12, <1>13, <1>14, <1>15 DEF Bookkeeping

-----------------------------------------------------------------------------
(* The kernel's memberships of one socket follow the reference counts.     *)

(* A count that goes up or down, but not to zero, asks the kernel nothing. *)
LEMMA KernelHoldsSame ==
  ASSUME NEW key, NEW entries, NEW held, NEW new, KernelHolds(key, entries, held),
         DOMAIN new = DOMAIN held,
         \A m \in DOMAIN held : new[m].joined_config = held[m].joined_config
  PROVE  KernelHolds(key, entries, new)
BY DEF KernelHolds

(* The first join of a group and source adds one membership. *)
LEMMA KernelHoldsMore ==
  ASSUME NEW key, NEW entries, NEW held, NEW new, KernelHolds(key, entries, held),
         NEW cfg, NEW interface, {interface, key} \subseteq Resolutions[cfg.selector],
         NEW m0, m0 = MembershipKey(cfg), m0 \notin DOMAIN held,
         DOMAIN new = DOMAIN held \cup {m0}, new[m0].joined_config = cfg,
         \A m \in DOMAIN held : new[m].joined_config = held[m].joined_config
  PROVE  KernelHolds(key, entries \cup {Membership(m0, interface)}, new)
<1> DEFINE x == Membership(m0, interface)
           more == entries \cup {x}
<1>1. x.membership = m0 /\ x.interface = interface
  BY DEF Membership
<1>2. \A e \in entries : e.membership \in DOMAIN held /\ e.membership # m0
  BY DEF KernelHolds
<1> HIDE DEF x
<1>3. DOMAIN new = {e.membership : e \in more}
  BY <1>1 DEF KernelHolds
<1>4. \A e, f \in more : e.membership = f.membership => e = f
  BY <1>1, <1>2 DEF KernelHolds
<1>5. ASSUME NEW e \in more
      PROVE  /\ MembershipKey(new[e.membership].joined_config) = e.membership
             /\ {e.interface, key} \subseteq Resolutions[new[e.membership].joined_config.selector]
  <2>1. CASE e = x
    BY <1>1, <2>1
  <2>2. CASE e \in entries
    BY <1>2, <2>2 DEF KernelHolds
  <2>3. QED
    BY <2>1, <2>2
<1>6. KernelHolds(key, more, new)
  BY <1>3, <1>4, <1>5 DEF KernelHolds
<1>7. QED
  BY <1>6 DEF x

(* The last leave of a group and source takes its membership away. *)
LEMMA KernelHoldsLess ==
  ASSUME NEW key, NEW entries, NEW held, NEW new, KernelHolds(key, entries, held),
         NEW m0, NEW interface, Membership(m0, interface) \in entries,
         DOMAIN new = DOMAIN held \ {m0},
         \A m \in DOMAIN new : new[m].joined_config = held[m].joined_config
  PROVE  KernelHolds(key, entries \ {Membership(m0, interface)}, new)
<1> DEFINE x == Membership(m0, interface)
           less == entries \ {x}
<1>1. x.membership = m0
  BY DEF Membership
<1> HIDE DEF x
<1>2. \A e \in entries : e.membership \in DOMAIN held /\ (e.membership = m0 <=> e = x)
  BY <1>1 DEF KernelHolds, x
<1>3. DOMAIN new = {e.membership : e \in less}
  BY <1>2 DEF KernelHolds
<1>4. KernelHolds(key, less, new)
  BY <1>2, <1>3 DEF KernelHolds
<1>5. QED
  BY <1>4 DEF x

-----------------------------------------------------------------------------
(* join_subscription adds one holder to one membership of one capture. *)
LEMMA JoinPreserves ==
  ASSUME Bookkeeping, NEW id, id \in DOMAIN subscriptions, JoinSubscription(id)
  PROVE  Bookkeeping'
<1> USE ConstantAssumptions
<1>1. PICK cfg \in Configs, key \in Keys :
        cfg = subscriptions[id].config /\ key = subscriptions[id].capture_key
  BY DEF Bookkeeping, RegistryTypes, SubscriptionType
<1> DEFINE m0  == MembershipKey(cfg)
           old == CapturesWith(key)[key]
           new == captures'[key]
<1>2. m0 \in MembershipKeys /\ \A c \in Configs : MembershipKey(c) \in MembershipKeys
  BY DEF MembershipKey, MembershipKeys, ConfigType
<1>3. /\ DOMAIN subscriptions' = DOMAIN subscriptions
      /\ \A i \in DOMAIN subscriptions \ {id} : subscriptions'[i] = subscriptions[i]
      /\ subscriptions'[id] = [subscriptions[id] EXCEPT !.state = "Joined"]
      /\ subscriptions' \in [DOMAIN subscriptions' -> SubscriptionType]
      /\ subscriptions[id].state # "Joined"
  BY DEF JoinSubscription, IsJoined, Bookkeeping, RegistryTypes, SubscriptionType
<1>4. /\ subscriptions'[id].state = "Joined"
      /\ subscriptions'[id].config = cfg
      /\ subscriptions'[id].capture_key = key
      /\ \A i \in DOMAIN subscriptions :
           /\ subscriptions'[i].config = subscriptions[i].config
           /\ subscriptions'[i].capture_key = subscriptions[i].capture_key
  BY <1>1, <1>3 DEF Bookkeeping, RegistryTypes, SubscriptionType
<1>5. UNCHANGED <<next_subscription_id, resolved_capture_keys, next_capture_index, call>>
  BY DEF JoinSubscription
<1>6. RegistryTypes'
  BY <1>3, <1>5 DEF Bookkeeping, RegistryTypes, Ids
<1>7. ResolvedKeysExact'
  <2>1. \A s : StoredWith(s)' = StoredWith(s)
    BY <1>3, <1>4 DEF StoredWith
  <2>2. QED
    BY <1>3, <1>4, <1>5, <2>1 DEF Bookkeeping, ResolvedKeysExact
<1>8. /\ \A k : JoinedOn(k)' = IF k = key THEN JoinedOn(k) \cup {id} ELSE JoinedOn(k)
      /\ \A k : id \notin JoinedOn(k)
  <2>1. \A k : id \notin JoinedOn(k) /\ (id \in JoinedOn(k)' <=> k = key)
    BY <1>1, <1>3, <1>4 DEF JoinedOn
  <2>2. \A k : \A i : i # id => (i \in JoinedOn(k)' <=> i \in JoinedOn(k))
    BY <1>3 DEF JoinedOn
  <2>3. QED
    BY <2>1, <2>2
<1>9. /\ \A k, m : HoldersOf(k, m)' = IF k = key /\ m = m0 THEN HoldersOf(k, m) \cup {id}
                                      ELSE HoldersOf(k, m)
      /\ \A k, m : id \notin HoldersOf(k, m)
  BY <1>1, <1>3, <1>4, <1>8 DEF HoldersOf, JoinedOn, MembershipKey
<1>10. /\ old.memberships = Cardinality(JoinedOn(key))
       /\ DOMAIN old.kernel_memberships \subseteq MembershipKeys
       /\ old.kernel_memberships \in [DOMAIN old.kernel_memberships -> KernelMembershipType]
       /\ \A m \in MembershipKeys :
            /\ m \in DOMAIN old.kernel_memberships <=> HoldersOf(key, m) # {}
            /\ m \in DOMAIN old.kernel_memberships =>
                 old.kernel_memberships[m].references = Cardinality(HoldersOf(key, m))
       /\ KernelHolds(key, kernel[key], old.kernel_memberships)
       /\ old.demultiplexer = {DemuxEntry(i, subscriptions[i].config) : i \in JoinedOn(key)}
  <2>1. CASE key \in DOMAIN captures
    <3>1. old = captures[key]
      BY <2>1 DEF CapturesWith
    <3>2. QED
      BY <2>1, <3>1 DEF Bookkeeping, SocketTypes, CaptureOK, MembershipCounts, KernelInSync,
                        DemultiplexerExact
  <2>2. CASE key \notin DOMAIN captures
    <3>1. old = NewCapture
      BY <2>2 DEF CapturesWith, Put
    <3>2. JoinedOn(key) = {} /\ kernel[key] = {}
      BY <2>2 DEF Bookkeeping, MembershipCounts, KernelInSync
    <3>3. Cardinality(JoinedOn(key)) = 0 /\ \A m : HoldersOf(key, m) = {}
      BY <3>2, FS_EmptySet DEF HoldersOf
    <3>4. DOMAIN old.kernel_memberships = {} /\ old.memberships = 0 /\ old.demultiplexer = {}
      BY <3>1 DEF NewCapture, NoEntry
    <3>5. old.kernel_memberships \in [DOMAIN old.kernel_memberships -> KernelMembershipType]
      BY <3>1 DEF NewCapture, NoEntry
    <3>6. KernelHolds(key, kernel[key], old.kernel_memberships)
      BY <3>2, <3>4 DEF KernelHolds
    <3>7. QED
      BY <3>2, <3>3, <3>4, <3>5, <3>6
  <2>3. QED
    BY <2>1, <2>2
<1>11. /\ DOMAIN captures' = DOMAIN captures \cup {key}
       /\ \A k \in DOMAIN captures \ {key} : captures'[k] = captures[k]
       /\ new = JoinedCapture(old, id, cfg)
  BY <1>1 DEF JoinSubscription, CapturesWith, Put
<1>12. /\ capture_order' = OrderWith(key)
       /\ m0 \in DOMAIN old.kernel_memberships => kernel' = kernel
       /\ m0 \notin DOMAIN old.kernel_memberships =>
            \E interface \in Resolutions[cfg.selector] :
              kernel' = [kernel EXCEPT ![key] = @ \cup {Membership(m0, interface)}]
  BY <1>1 DEF JoinSubscription, KernelJoin
<1>24. key \in Resolutions[cfg.selector] /\ Resolutions[cfg.selector] \subseteq Keys
  <2>1. cfg.selector \in Selectors /\ id \in StoredWith(cfg.selector)
    BY <1>1 DEF StoredWith, ConfigType
  <2>2. cfg.selector \in DOMAIN resolved_capture_keys
    BY <2>1 DEF Bookkeeping, ResolvedKeysExact
  <2>3. QED
    BY <1>1, <2>1, <2>2 DEF Bookkeeping, ResolvedKeysExact
<1> HIDE DEF old, new, m0
<1>13. /\ new.memberships = Cardinality(JoinedOn(key)) + 1
       /\ new.demultiplexer = old.demultiplexer \cup {DemuxEntry(id, cfg)}
       /\ new.kernel_memberships =
            IF m0 \in DOMAIN old.kernel_memberships
            THEN [old.kernel_memberships EXCEPT ![m0].references = @ + 1]
            ELSE Put(old.kernel_memberships, m0, [references |-> 1, joined_config |-> cfg])
  BY <1>10, <1>11 DEF JoinedCapture, m0
<1>14. /\ DOMAIN new.kernel_memberships = DOMAIN old.kernel_memberships \cup {m0}
       /\ \A m \in DOMAIN old.kernel_memberships \ {m0} :
            new.kernel_memberships[m] = old.kernel_memberships[m]
       /\ new.kernel_memberships[m0].references =
            IF m0 \in DOMAIN old.kernel_memberships
            THEN old.kernel_memberships[m0].references + 1 ELSE 1
       /\ new.kernel_memberships[m0].joined_config =
            IF m0 \in DOMAIN old.kernel_memberships
            THEN old.kernel_memberships[m0].joined_config ELSE cfg
       /\ new.kernel_memberships[m0] \in KernelMembershipType
       /\ new.kernel_memberships = [m \in DOMAIN new.kernel_memberships |-> new.kernel_memberships[m]]
  <2> DEFINE km == old.kernel_memberships
             kn == new.kernel_memberships
  <2>1. km \in [DOMAIN km -> KernelMembershipType]
    BY <1>10
  <2>2. CASE m0 \in DOMAIN km
    <3>1. kn = [km EXCEPT ![m0].references = @ + 1]
      BY <1>13, <2>2
    <3> HIDE DEF km, kn
    <3>2. DOMAIN kn = DOMAIN km /\ DOMAIN km = DOMAIN km \cup {m0}
      BY <2>1, <2>2, <3>1
    <3>3. /\ \A m \in DOMAIN km \ {m0} : kn[m] = km[m]
          /\ kn[m0] = [km[m0] EXCEPT !.references = @ + 1]
          /\ kn = [m \in DOMAIN kn |-> kn[m]]
      BY <2>1, <2>2, <3>1
    <3>4. /\ kn[m0].references = km[m0].references + 1
          /\ kn[m0].joined_config = km[m0].joined_config
          /\ kn[m0] \in KernelMembershipType
      BY <2>1, <2>2, <3>3 DEF KernelMembershipType
    <3>5. QED
      BY <2>2, <3>2, <3>3, <3>4 DEF km, kn
  <2>3. CASE m0 \notin DOMAIN km
    <3>1. kn = Put(km, m0, [references |-> 1, joined_config |-> cfg])
      BY <1>13, <2>3
    <3> HIDE DEF km, kn
    <3>2. /\ DOMAIN kn = DOMAIN km \cup {m0}
          /\ \A m \in DOMAIN km \ {m0} : kn[m] = km[m]
          /\ kn[m0] = [references |-> 1, joined_config |-> cfg]
          /\ kn = [m \in DOMAIN kn |-> kn[m]]
      BY <3>1 DEF Put
    <3>3. QED
      BY <2>3, <3>2 DEF km, kn, KernelMembershipType
  <2>4. QED
    BY <2>2, <2>3
<1>15. /\ Cardinality(JoinedOn(key) \cup {id}) = Cardinality(JoinedOn(key)) + 1
       /\ Cardinality(HoldersOf(key, m0) \cup {id}) = Cardinality(HoldersOf(key, m0)) + 1
       /\ Cardinality(JoinedOn(key)) \in Nat
       /\ HoldersOf(key, m0) = {} => Cardinality(HoldersOf(key, m0)) = 0
  BY <1>8, <1>9, FiniteHolders, FS_AddElement, FS_CardinalityType, FS_EmptySet DEF Bookkeeping
<1>16. Lists(capture_order', DOMAIN captures')
  <2>1. Lists(capture_order, DOMAIN captures)
    BY OrderLists DEF Bookkeeping
  <2>2. CASE key \in DOMAIN captures
    <3>1. DOMAIN captures' = DOMAIN captures
      BY <1>11, <2>2
    <3>2. QED
      BY <1>12, <2>1, <2>2, <3>1 DEF OrderWith
  <2>3. CASE key \notin DOMAIN captures
    BY <1>11, <1>12, <2>1, <2>3, ListsAppend DEF OrderWith
  <2>4. QED
    BY <2>2, <2>3
<1>17. SocketTypes'
  <2>1. CaptureOK(new)
    <3>1. \A m \in DOMAIN new.kernel_memberships :
            m \in MembershipKeys /\ new.kernel_memberships[m] \in KernelMembershipType
      BY <1>2, <1>10, <1>14 DEF m0
    <3>2. new.kernel_memberships \in [DOMAIN new.kernel_memberships -> KernelMembershipType]
      BY <1>14, <3>1
    <3>3. QED
      BY <1>13, <1>15, <3>1, <3>2 DEF CaptureOK
  <2>2. \A k \in DOMAIN captures' : CaptureOK(captures'[k])
    BY <1>11, <2>1 DEF new, Bookkeeping, SocketTypes
  <2>3. kernel' \in [Keys -> SUBSET [membership: MembershipKeys, interface: Keys]]
    <3>1. kernel \in [Keys -> SUBSET [membership: MembershipKeys, interface: Keys]]
      BY DEF Bookkeeping, SocketTypes
    <3>2. ASSUME NEW interface \in Keys
          PROVE  Membership(m0, interface) \in [membership: MembershipKeys, interface: Keys]
      BY <1>2 DEF m0, Membership
    <3>3. QED
      BY <1>12, <1>24, <3>1, <3>2
  <2>4. (\A k \in DOMAIN captures : CaptureOK(captures[k]))'
    BY <2>2 DEF CaptureOK
  <2>5. QED
    BY <1>11, <1>16, <2>3, <2>4 DEF Bookkeeping, SocketTypes, Lists
<1>18. MembershipCounts'
  <2>1. \A k \in Keys : k \in DOMAIN captures' <=> JoinedOn(k)' # {}
    BY <1>8, <1>11 DEF Bookkeeping, MembershipCounts
  <2>2. ASSUME NEW k \in DOMAIN captures', k # key
        PROVE  /\ captures'[k] = captures[k] /\ k \in DOMAIN captures
               /\ JoinedOn(k)' = JoinedOn(k)
               /\ \A m : HoldersOf(k, m)' = HoldersOf(k, m)
    BY <1>8, <1>9, <1>11, <2>2
  <2>3. captures'[key].memberships = Cardinality(JoinedOn(key)')
    BY <1>8, <1>13, <1>15 DEF new
  <2>4. ASSUME NEW m \in MembershipKeys
        PROVE  /\ m \in DOMAIN new.kernel_memberships <=> HoldersOf(key, m)' # {}
               /\ m \in DOMAIN new.kernel_memberships =>
                    new.kernel_memberships[m].references = Cardinality(HoldersOf(key, m)')
    <3>1. CASE m = m0
      <4>1. HoldersOf(key, m)' = HoldersOf(key, m0) \cup {id}
        BY <1>9, <3>1
      <4>2. new.kernel_memberships[m0].references = Cardinality(HoldersOf(key, m0)) + 1
        BY <1>10, <1>14, <1>15, <3>1
      <4>3. QED
        BY <1>14, <1>15, <3>1, <4>1, <4>2
    <3>2. CASE m # m0
      <4>1. HoldersOf(key, m)' = HoldersOf(key, m)
        BY <1>9, <3>2
      <4>2. QED
        BY <1>10, <1>14, <3>2, <4>1
    <3>3. QED
      BY <3>1, <3>2
  <2>5. \A k \in DOMAIN captures' :
          /\ captures'[k].memberships = Cardinality(JoinedOn(k)')
          /\ \A m \in MembershipKeys :
               /\ m \in DOMAIN captures'[k].kernel_memberships <=> HoldersOf(k, m)' # {}
               /\ m \in DOMAIN captures'[k].kernel_memberships =>
                    captures'[k].kernel_memberships[m].references = Cardinality(HoldersOf(k, m)')
    BY <2>2, <2>3, <2>4 DEF new, Bookkeeping, MembershipCounts
  <2>6. QED
    BY <2>1, <2>5 DEF MembershipCounts
<1>19. KernelInSync'
  <2>1. kernel \in [Keys -> SUBSET [membership: MembershipKeys, interface: Keys]]
    BY DEF Bookkeeping, SocketTypes
  <2>2. KernelHolds(key, kernel'[key], new.kernel_memberships)
    <3>1. CASE m0 \in DOMAIN old.kernel_memberships
      <4>1. \A m \in DOMAIN old.kernel_memberships :
              new.kernel_memberships[m].joined_config = old.kernel_memberships[m].joined_config
        BY <1>14, <3>1
      <4>2. DOMAIN new.kernel_memberships = DOMAIN old.kernel_memberships
        BY <1>14, <3>1
      <4>3. kernel'[key] = kernel[key]
        BY <1>12, <3>1
      <4>4. KernelHolds(key, kernel[key], new.kernel_memberships)
        BY <1>10, <4>1, <4>2, KernelHoldsSame
      <4>5. QED
        BY <4>3, <4>4
    <3>2. CASE m0 \notin DOMAIN old.kernel_memberships
      <4>1. PICK interface \in Resolutions[cfg.selector] :
              kernel'[key] = kernel[key] \cup {Membership(m0, interface)}
        BY <1>12, <2>1, <3>2
      <4>2. /\ \A m \in DOMAIN old.kernel_memberships :
                 new.kernel_memberships[m].joined_config = old.kernel_memberships[m].joined_config
            /\ new.kernel_memberships[m0].joined_config = cfg
            /\ DOMAIN new.kernel_memberships = DOMAIN old.kernel_memberships \cup {m0}
        BY <1>14, <3>2
      <4>3. {interface, key} \subseteq Resolutions[cfg.selector] /\ m0 = MembershipKey(cfg)
        BY <1>24 DEF m0
      <4>4. KernelHolds(key, kernel[key] \cup {Membership(m0, interface)}, new.kernel_memberships)
        BY <1>10, <3>2, <4>2, <4>3, KernelHoldsMore
      <4>5. QED
        BY <4>1, <4>4
    <3>3. QED
      BY <3>1, <3>2
  <2>3. \A k \in Keys \ {key} : kernel'[k] = kernel[k]
    BY <1>12, <2>1
  <2>4. ASSUME NEW k \in DOMAIN captures'
        PROVE  KernelHolds(k, kernel'[k], captures'[k].kernel_memberships)
    <3>1. CASE k = key
      BY <2>2, <3>1 DEF new
    <3>2. CASE k # key
      <4>1. captures'[k] = captures[k] /\ kernel'[k] = kernel[k] /\ k \in DOMAIN captures
        BY <1>11, <2>3, <2>4, <3>2 DEF Bookkeeping, SocketTypes
      <4>2. QED
        BY <4>1 DEF Bookkeeping, KernelInSync
    <3>3. QED
      BY <3>1, <3>2
  <2>5. \A k \in Keys \ DOMAIN captures' : kernel'[k] = {}
    BY <1>11, <2>3 DEF Bookkeeping, KernelInSync
  <2>6. QED
    BY <2>4, <2>5 DEF KernelInSync, KernelHolds, MembershipKey
<1>20. DemultiplexerExact'
  <2>1. \A k : {DemuxEntry(i, subscriptions[i].config) : i \in JoinedOn(k)}'
               = IF k = key
                 THEN {DemuxEntry(i, subscriptions[i].config) : i \in JoinedOn(k)}
                        \cup {DemuxEntry(id, cfg)}
                 ELSE {DemuxEntry(i, subscriptions[i].config) : i \in JoinedOn(k)}
    BY <1>1, <1>4, <1>8 DEF JoinedOn, DemuxEntry
  <2>2. \A k \in DOMAIN captures' :
          captures'[k].demultiplexer =
            {DemuxEntry(i, subscriptions[i].config) : i \in JoinedOn(k)}'
    <3>1. ASSUME NEW k \in DOMAIN captures', k = key
          PROVE  captures'[k].demultiplexer = {DemuxEntry(i, subscriptions[i].config) : i \in JoinedOn(k)}'
      <4>1. new.demultiplexer = {DemuxEntry(i, subscriptions[i].config) : i \in JoinedOn(key)}
                                  \cup {DemuxEntry(id, cfg)}
        BY <1>10, <1>13
      <4>2. captures'[k].demultiplexer = new.demultiplexer
        BY <3>1 DEF new
      <4>3. QED
        BY <2>1, <3>1, <4>1, <4>2
    <3>2. ASSUME NEW k \in DOMAIN captures', k # key
          PROVE  captures'[k].demultiplexer = {DemuxEntry(i, subscriptions[i].config) : i \in JoinedOn(k)}'
      <4>1. k \in DOMAIN captures /\ captures'[k] = captures[k]
        BY <1>11, <3>2
      <4>2. captures[k].demultiplexer = {DemuxEntry(i, subscriptions[i].config) : i \in JoinedOn(k)}
        BY <4>1 DEF Bookkeeping, DemultiplexerExact
      <4>3. QED
        BY <2>1, <3>2, <4>1, <4>2
    <3>3. QED
      BY <3>1, <3>2
  <2>3. QED
    BY <2>2 DEF DemultiplexerExact
<1>21. CaptureOrderInSync'
  <2>1. /\ next_capture_index' = next_capture_index
        /\ Len(capture_order') # 0
        /\ next_capture_index < Len(capture_order')
    BY <1>5, <1>12 DEF OrderWith, Bookkeeping, SocketTypes, CaptureOrderInSync
  <2>2. QED
    BY <1>16, <2>1, ListsOrder DEF CaptureOrderInSync
<1>22. CallHasCaptures'
  BY <1>5 DEF JoinSubscription, Idle, CallHasCaptures
<1>23. QED
  BY <1>5, <1>6, <1>7, <1>17, <1>18, <1>19, <1>20, <1>21, <1>22 DEF Bookkeeping

-----------------------------------------------------------------------------
(* A failed join leaves everything as it was: a socket opened for it is    *)
(* closed again, and the order and the index are those of before.          *)
LEMMA JoinFailsPreserves ==
  ASSUME Bookkeeping, NEW id, id \in DOMAIN subscriptions, JoinFails(id)
  PROVE  Bookkeeping'
<1>1. PICK key \in Keys : key = subscriptions[id].capture_key
  BY DEF Bookkeeping, RegistryTypes, SubscriptionType
<1>2. UNCHANGED <<registry, kernel, call>> /\ Idle
  BY DEF JoinFails
<1>3. CallHasCaptures'
  BY <1>2 DEF Idle, CallHasCaptures
<1>4. CASE key \in DOMAIN captures
  <2>1. UNCHANGED <<captures, capture_order, next_capture_index>>
    BY <1>1, <1>4 DEF JoinFails
  <2>2. QED
    BY <1>2, <1>3, <2>1, QuietStep
<1>5. CASE key \notin DOMAIN captures
  <2> DEFINE longer == Append(capture_order, key)
             p == Position(longer, key)
             n == Len(capture_order)
  <2>1. RemoveCapture(key, CapturesWith(key), longer)
    BY <1>1, <1>5 DEF JoinFails, OrderWith
  <2>2. captures' = Drop(Put(captures, key, NewCapture), key)
    BY <1>5, <2>1 DEF RemoveCapture, CapturesWith
  <2>3. DOMAIN captures' = DOMAIN captures /\ \A k \in DOMAIN captures : captures'[k] = captures[k]
    BY <1>5, <2>2 DEF Drop, Put
  <2>4. Lists(capture_order, DOMAIN captures)
    BY OrderLists DEF Bookkeeping
  <2>5. /\ capture_order \in Seq(Keys) /\ n \in Nat
        /\ \A i \in 1..n : capture_order[i] # key
    BY <1>5, <2>4 DEF Lists
  <2>6. /\ Len(longer) = n + 1 /\ DOMAIN longer = 1..(n + 1)
        /\ longer[n + 1] = key
        /\ \A i \in 1..n : longer[i] = capture_order[i]
    BY <2>5
  <2>7. p = n + 1
    <3> HIDE DEF longer, n
    <3>1. p \in 1..(n + 1) /\ longer[p] = key
      BY <2>5, <2>6 DEF Position
    <3>2. QED
      BY <2>5, <2>6, <3>1
  <2>8. RemoveAt(longer, p) = capture_order
    <3>1. RemoveAt(longer, p) = [j \in 1..n |-> capture_order[j]]
      BY <2>5, <2>6, <2>7 DEF RemoveAt
    <3>2. QED
      BY <2>5, <3>1
  <2>9. capture_order' = capture_order
    BY <2>1, <2>8 DEF RemoveCapture
  <2>10. next_capture_index' = next_capture_index
    <3>1. next_capture_index' = IF n = 0 THEN 0 ELSE next_capture_index % n
      BY <2>1, <2>8 DEF RemoveCapture
    <3>2. /\ n = 0 => next_capture_index = 0
          /\ n # 0 => next_capture_index \in 0..(n - 1)
      BY <2>5 DEF Bookkeeping, CaptureOrderInSync
    <3>3. \A a \in Nat, b \in Nat \ {0} : a < b => a % b = a
      OBVIOUS
    <3>4. QED
      BY <2>5, <3>1, <3>2, <3>3
  <2>11. QED
    BY <1>2, <1>3, <2>3, <2>9, <2>10, QuietStep
<1>6. QED
  BY <1>4, <1>5

-----------------------------------------------------------------------------
(* leave_subscription takes one holder away from one membership of one     *)
(* capture, and closes the capture with its last holder.  The subscription *)
(* itself is kept Bound, or removed by remove_subscription.                *)
LEMMA LeaveStep ==
  ASSUME Bookkeeping, NEW id, IsJoined(id), Leave(id),
         DOMAIN subscriptions' \subseteq DOMAIN subscriptions,
         \A i \in DOMAIN subscriptions \ {id} :
           i \in DOMAIN subscriptions' /\ subscriptions'[i] = subscriptions[i],
         id \in DOMAIN subscriptions' => subscriptions'[id].state # "Joined"
  PROVE  /\ SocketTypes' /\ (next_capture_index \in Nat)'
         /\ MembershipCounts' /\ KernelInSync' /\ DemultiplexerExact' /\ CaptureOrderInSync'
<1> USE ConstantAssumptions
<1>1. PICK cfg \in Configs, key \in Keys :
        cfg = subscriptions[id].config /\ key = subscriptions[id].capture_key
  BY DEF IsJoined, Bookkeeping, RegistryTypes, SubscriptionType
<1> DEFINE m0   == MembershipKey(cfg)
           km   == captures[key].kernel_memberships
           left == LeftCapture(captures[key], id, cfg)
           lm   == left.kernel_memberships
           last == km[m0].references = 1
           H    == HoldersOf(key, m0)
           J    == JoinedOn(key)
<1>2. m0 \in MembershipKeys
  BY DEF MembershipKey, MembershipKeys, ConfigType
<1>3. id \in J /\ id \in H
  BY <1>1 DEF IsJoined, JoinedOn, HoldersOf
<1>4. /\ \A k : JoinedOn(k)' = IF k = key THEN J \ {id} ELSE JoinedOn(k)
      /\ \A k : JoinedOn(k) \subseteq DOMAIN subscriptions
  <2>1. \A k : id \notin JoinedOn(k)' /\ (k # key => id \notin JoinedOn(k))
    BY <1>1 DEF JoinedOn
  <2>2. \A k : \A i : i # id => (i \in JoinedOn(k)' <=> i \in JoinedOn(k))
    BY DEF JoinedOn
  <2>3. \A k : JoinedOn(k)' = IF k = key THEN JoinedOn(k) \ {id} ELSE JoinedOn(k)
    BY <2>1, <2>2
  <2>4. QED
    BY <2>3 DEF JoinedOn
<1>5. \A k, m : HoldersOf(k, m)' = IF k = key /\ m = m0 THEN H \ {id} ELSE HoldersOf(k, m)
  <2>1. \A k, m : id \notin HoldersOf(k, m)' /\ (k # key \/ m # m0 => id \notin HoldersOf(k, m))
    BY <1>1, <1>4 DEF HoldersOf, JoinedOn
  <2>2. \A k, m : \A i : i # id => (i \in HoldersOf(k, m)' <=> i \in HoldersOf(k, m))
    BY <1>4 DEF HoldersOf, JoinedOn, MembershipKey
  <2>3. ASSUME NEW k, NEW m
        PROVE  HoldersOf(k, m)' = IF k = key /\ m = m0 THEN H \ {id} ELSE HoldersOf(k, m)
    <3>1. CASE k = key /\ m = m0
      BY <2>1, <2>2, <3>1
    <3>2. CASE ~(k = key /\ m = m0)
      <4>1. id \notin HoldersOf(k, m) /\ id \notin HoldersOf(k, m)'
        BY <2>1, <3>2
      <4>2. QED
        BY <2>2, <3>2, <4>1
    <3>3. QED
      BY <3>1, <3>2
  <2>4. QED
    BY <2>3
<1>6. /\ IsFiniteSet(J) /\ IsFiniteSet(H)
      /\ Cardinality(J) \in Nat /\ Cardinality(H) \in Nat
      /\ Cardinality(J \ {id}) = Cardinality(J) - 1
      /\ Cardinality(H \ {id}) = Cardinality(H) - 1
      /\ Cardinality(J \ {id}) = 0 <=> J \ {id} = {}
      /\ Cardinality(H \ {id}) = 0 <=> H \ {id} = {}
      /\ Cardinality(J \ {id}) \in Nat /\ Cardinality(H \ {id}) \in Nat
  <2>1. IsFiniteSet(J) /\ IsFiniteSet(H)
    BY FiniteHolders DEF Bookkeeping
  <2> HIDE DEF J, H
  <2>2. IsFiniteSet(J \ {id}) /\ IsFiniteSet(H \ {id})
    BY <2>1, FS_RemoveElement
  <2>3. QED
    BY <1>3, <2>1, <2>2, FS_RemoveElement, FS_CardinalityType, FS_EmptySet
<1>7. /\ key \in DOMAIN captures
      /\ captures[key].memberships = Cardinality(J)
      /\ m0 \in DOMAIN km
      /\ km[m0].references = Cardinality(H)
      /\ km \in [DOMAIN km -> KernelMembershipType]
      /\ DOMAIN km \subseteq MembershipKeys
      /\ \A m \in MembershipKeys : m \in DOMAIN km <=> HoldersOf(key, m) # {}
      /\ \A m \in MembershipKeys : m \in DOMAIN km =>
           km[m].references = Cardinality(HoldersOf(key, m))
      /\ KernelHolds(key, kernel[key], km)
      /\ captures[key].demultiplexer = {DemuxEntry(i, subscriptions[i].config) : i \in J}
  <2>1. key \in DOMAIN captures
    BY <1>3 DEF Bookkeeping, MembershipCounts
  <2>2. QED
    BY <1>2, <1>3, <2>1 DEF Bookkeeping, MembershipCounts, SocketTypes, CaptureOK, KernelInSync,
                            DemultiplexerExact
<1>8. /\ left.memberships = Cardinality(J \ {id})
      /\ left.demultiplexer = captures[key].demultiplexer \ {DemuxEntry(id, cfg)}
      /\ lm = IF last THEN Drop(km, m0) ELSE [km EXCEPT ![m0].references = @ - 1]
  BY <1>6, <1>7 DEF LeftCapture
<1>9. /\ ~last => kernel' = kernel
      /\ last => \E interface : /\ Membership(m0, interface) \in kernel[key]
                                /\ kernel' = [kernel EXCEPT ![key] = @ \ {Membership(m0, interface)}]
      /\ IF left.memberships = 0
         THEN RemoveCapture(key, captures, capture_order)
         ELSE /\ captures' = [captures EXCEPT ![key] = left]
              /\ UNCHANGED <<capture_order, next_capture_index>>
  <2>1. km[m0].references > 1 <=> ~last
    BY <1>6, <1>7 DEF KernelMembershipType
  <2>2. KernelLeave(key, cfg)
    BY <1>1 DEF Leave
  <2>3. /\ ~last => kernel' = kernel
        /\ last => \E interface : /\ Membership(m0, interface) \in kernel[key]
                                  /\ kernel' = [kernel EXCEPT ![key] = @ \ {Membership(m0, interface)}]
    <3>1. CASE km[m0].references > 1
      BY <2>1, <2>2, <3>1 DEF KernelLeave
    <3>2. CASE ~(km[m0].references > 1)
      <4>1. PICK interface :
              /\ Membership(m0, interface) \in kernel[key]
              /\ kernel' = [kernel EXCEPT ![key] = @ \ {Membership(m0, interface)}]
        BY <2>2, <3>2 DEF KernelLeave
      <4>2. QED
        BY <2>1, <3>2, <4>1
    <3>3. QED
      BY <3>1, <3>2
  <2>4. QED
    BY <1>1, <2>3 DEF Leave
<1> HIDE DEF left, lm, km, m0, H, J, last
<1>10. /\ DOMAIN lm = IF last THEN DOMAIN km \ {m0} ELSE DOMAIN km
       /\ \A m \in DOMAIN km \ {m0} : lm[m] = km[m]
       /\ ~last => /\ lm[m0].references = Cardinality(H \ {id})
                   /\ lm[m0].joined_config = km[m0].joined_config
                   /\ lm[m0] \in KernelMembershipType
       /\ lm = [m \in DOMAIN lm |-> lm[m]]
  <2>1. CASE last
    BY <1>8, <2>1 DEF Drop
  <2>2. CASE ~last
    <3>1. lm = [km EXCEPT ![m0].references = @ - 1]
      BY <1>8, <2>2
    <3>2. /\ DOMAIN lm = DOMAIN km
          /\ \A m \in DOMAIN km \ {m0} : lm[m] = km[m]
          /\ lm[m0] = [km[m0] EXCEPT !.references = @ - 1]
          /\ lm = [m \in DOMAIN lm |-> lm[m]]
      BY <1>7, <3>1
    <3>3. km[m0] \in KernelMembershipType /\ km[m0].references # 1
      BY <1>7, <2>2 DEF last
    <3>4. /\ lm[m0].references = km[m0].references - 1
          /\ lm[m0].joined_config = km[m0].joined_config
          /\ lm[m0] \in KernelMembershipType
      BY <3>2, <3>3 DEF KernelMembershipType
    <3>5. QED
      BY <1>6, <1>7, <2>2, <3>2, <3>4
  <2>3. QED
    BY <2>1, <2>2
<1>11. last <=> H \ {id} = {}
  BY <1>6, <1>7 DEF last
<1>12. \A m \in MembershipKeys :
         /\ m \in DOMAIN lm <=> HoldersOf(key, m)' # {}
         /\ m \in DOMAIN lm => lm[m].references = Cardinality(HoldersOf(key, m)')
  <2>1. \A m \in MembershipKeys \ {m0} : HoldersOf(key, m)' = HoldersOf(key, m)
    BY <1>5
  <2>2. HoldersOf(key, m0)' = H \ {id}
    BY <1>5
  <2>3. m0 \in DOMAIN lm <=> ~last
    BY <1>7, <1>10
  <2>4. \A m \in MembershipKeys \ {m0} : /\ m \in DOMAIN lm <=> m \in DOMAIN km
                                         /\ m \in DOMAIN lm => lm[m] = km[m]
    BY <1>10
  <2>5. ASSUME NEW m \in MembershipKeys
        PROVE  /\ m \in DOMAIN lm <=> HoldersOf(key, m)' # {}
               /\ m \in DOMAIN lm => lm[m].references = Cardinality(HoldersOf(key, m)')
    <3>1. CASE m = m0
      BY <1>10, <1>11, <2>2, <2>3, <3>1
    <3>2. CASE m # m0
      BY <1>7, <2>1, <2>4, <3>2
    <3>3. QED
      BY <3>1, <3>2
  <2>6. QED
    BY <2>5
<1>13. J \ {id} = {} => DOMAIN lm = {}
  <2>1. \A m : HoldersOf(key, m)' \subseteq J \ {id}
    BY <1>4 DEF HoldersOf
  <2>2. J \ {id} = {} => \A m \in MembershipKeys : HoldersOf(key, m)' = {}
    BY <2>1
  <2>3. DOMAIN lm \subseteq MembershipKeys
    BY <1>7, <1>10
  <2>4. QED
    BY <1>12, <2>2, <2>3
<1>14. /\ kernel' \in [Keys -> SUBSET [membership: MembershipKeys, interface: Keys]]
       /\ \A k \in Keys \ {key} : kernel'[k] = kernel[k]
       /\ KernelHolds(key, kernel'[key], lm)
  <2>1. kernel \in [Keys -> SUBSET [membership: MembershipKeys, interface: Keys]]
    BY DEF Bookkeeping, SocketTypes
  <2>2. \A m \in DOMAIN lm : lm[m].joined_config = km[m].joined_config /\ m \in DOMAIN km
    BY <1>10
  <2>3. CASE last
    <3>1. PICK interface :
            /\ Membership(m0, interface) \in kernel[key]
            /\ kernel' = [kernel EXCEPT ![key] = @ \ {Membership(m0, interface)}]
      BY <1>9, <2>3
    <3>2. /\ kernel' \in [Keys -> SUBSET [membership: MembershipKeys, interface: Keys]]
          /\ \A k \in Keys \ {key} : kernel'[k] = kernel[k]
          /\ kernel'[key] = kernel[key] \ {Membership(m0, interface)}
      BY <2>1, <3>1
    <3>3. DOMAIN lm = DOMAIN km \ {m0}
      BY <1>10, <2>3
    <3>4. KernelHolds(key, kernel[key], km)
      BY <1>7
    <3>5. KernelHolds(key, kernel[key] \ {Membership(m0, interface)}, lm)
      BY <2>2, <3>1, <3>3, <3>4, KernelHoldsLess
    <3>6. QED
      BY <3>2, <3>5
  <2>4. CASE ~last
    <3>1. kernel' = kernel /\ DOMAIN lm = DOMAIN km
      BY <1>9, <1>10, <2>4
    <3>2. KernelHolds(key, kernel[key], lm)
      BY <1>7, <2>2, <3>1, KernelHoldsSame
    <3>3. QED
      BY <2>1, <3>1, <3>2
  <2>5. QED
    BY <2>3, <2>4
<1>15. left.demultiplexer = {DemuxEntry(i, subscriptions[i].config) : i \in JoinedOn(key)}'
  <2>1. JoinedOn(key)' = J \ {id}
    BY <1>4
  <2>2. \A i \in J \ {id} : subscriptions'[i].config = subscriptions[i].config
    BY <1>4 DEF J
  <2>3. QED
    BY <1>1, <1>7, <1>8, <2>1, <2>2 DEF DemuxEntry
<1>16. \A k \in DOMAIN captures \ {key} :
         captures[k].demultiplexer = {DemuxEntry(i, subscriptions[i].config) : i \in JoinedOn(k)}'
  <2>1. \A k \in DOMAIN captures \ {key} : JoinedOn(k)' = JoinedOn(k)
    BY <1>4
  <2>2. \A k \in DOMAIN captures \ {key} : \A i \in JoinedOn(k) :
          subscriptions'[i].config = subscriptions[i].config
    BY <1>1, <1>4 DEF JoinedOn
  <2>3. QED
    BY <2>1, <2>2 DEF Bookkeeping, DemultiplexerExact, DemuxEntry
<1>17. /\ DOMAIN captures' = IF left.memberships = 0 THEN DOMAIN captures \ {key}
                             ELSE DOMAIN captures
       /\ \A k \in DOMAIN captures \ {key} : captures'[k] = captures[k]
       /\ left.memberships # 0 => captures'[key] = left
  BY <1>7, <1>9 DEF RemoveCapture, Drop
<1>18. Lists(capture_order, DOMAIN captures)
  BY OrderLists DEF Bookkeeping
<1>19. Lists(capture_order', DOMAIN captures')
  <2>1. CASE left.memberships = 0
    BY <1>7, <1>9, <1>17, <1>18, <2>1, ListsRemove DEF RemoveCapture
  <2>2. CASE left.memberships # 0
    BY <1>9, <1>17, <1>18, <2>2
  <2>3. QED
    BY <2>1, <2>2
<1>20. /\ next_capture_index' \in Nat
       /\ Len(capture_order') = 0 => next_capture_index' = 0
       /\ Len(capture_order') # 0 => next_capture_index' < Len(capture_order')
  <2>1. next_capture_index \in Nat /\ Len(capture_order') \in Nat
    BY <1>19 DEF Bookkeeping, Lists
  <2>2. CASE left.memberships = 0
    <3>1. next_capture_index' = IF Len(capture_order') = 0 THEN 0
                                ELSE next_capture_index % Len(capture_order')
      BY <1>9, <2>2 DEF RemoveCapture
    <3>2. QED
      BY <2>1, <3>1
  <2>3. CASE left.memberships # 0
    <3>1. next_capture_index' = next_capture_index /\ capture_order' = capture_order
      BY <1>9, <2>3
    <3>2. capture_order = <<>> <=> Len(capture_order) = 0
      BY <1>18, ListsOrder
    <3>3. QED
      BY <2>1, <3>1, <3>2 DEF Bookkeeping, CaptureOrderInSync
  <2>4. QED
    BY <2>2, <2>3
<1>21. CaptureOrderInSync'
  BY <1>19, <1>20, ListsOrder DEF CaptureOrderInSync
<1>22. SocketTypes'
  <2>1. left.memberships # 0 => CaptureOK(left)
    <3>1. \A m \in DOMAIN lm : lm[m] \in KernelMembershipType
      BY <1>7, <1>10
    <3>2. lm \in [DOMAIN lm -> KernelMembershipType] /\ DOMAIN lm \subseteq MembershipKeys
      BY <1>7, <1>10, <3>1
    <3>3. QED
      BY <1>6, <1>8, <3>2 DEF CaptureOK, lm
  <2>2. \A k \in DOMAIN captures' : CaptureOK(captures'[k])
    BY <1>7, <1>17, <2>1 DEF Bookkeeping, SocketTypes
  <2>3. (\A k \in DOMAIN captures : CaptureOK(captures[k]))'
    BY <2>2 DEF CaptureOK
  <2>4. QED
    BY <1>14, <1>17, <1>19, <2>3 DEF Bookkeeping, SocketTypes, Lists
<1>23. MembershipCounts'
  <2>1. left.memberships = 0 <=> J \ {id} = {}
    BY <1>6, <1>8
  <2>2. \A k \in Keys : k \in DOMAIN captures' <=> JoinedOn(k)' # {}
    BY <1>4, <1>7, <1>17, <2>1 DEF Bookkeeping, MembershipCounts
  <2>3. ASSUME NEW k \in DOMAIN captures', k # key
        PROVE  /\ captures'[k] = captures[k] /\ k \in DOMAIN captures
               /\ JoinedOn(k)' = JoinedOn(k)
               /\ \A m : HoldersOf(k, m)' = HoldersOf(k, m)
    BY <1>4, <1>5, <1>17, <2>3
  <2>4. key \in DOMAIN captures' =>
          captures'[key] = left /\ left.memberships = Cardinality(JoinedOn(key)')
    BY <1>4, <1>8, <1>17
  <2>5. \A k \in DOMAIN captures' :
          /\ captures'[k].memberships = Cardinality(JoinedOn(k)')
          /\ \A m \in MembershipKeys :
               /\ m \in DOMAIN captures'[k].kernel_memberships <=> HoldersOf(k, m)' # {}
               /\ m \in DOMAIN captures'[k].kernel_memberships =>
                    captures'[k].kernel_memberships[m].references = Cardinality(HoldersOf(k, m)')
    BY <1>12, <2>3, <2>4 DEF lm, Bookkeeping, MembershipCounts
  <2>6. QED
    BY <2>2, <2>5 DEF MembershipCounts
<1>24. KernelInSync'
  <2>1. left.memberships = 0 => kernel'[key] = {}
    BY <1>6, <1>8, <1>13, <1>14 DEF KernelHolds
  <2>2. ASSUME NEW k \in DOMAIN captures'
        PROVE  KernelHolds(k, kernel'[k], captures'[k].kernel_memberships)
    <3>1. CASE k = key
      BY <1>14, <1>17, <2>2, <3>1 DEF lm
    <3>2. CASE k # key
      <4>1. captures'[k] = captures[k] /\ kernel'[k] = kernel[k] /\ k \in DOMAIN captures
        BY <1>14, <1>17, <2>2, <3>2 DEF Bookkeeping, SocketTypes
      <4>2. QED
        BY <4>1 DEF Bookkeeping, KernelInSync
    <3>3. QED
      BY <3>1, <3>2
  <2>3. ASSUME NEW k \in Keys \ DOMAIN captures'
        PROVE  kernel'[k] = {}
    <3>1. CASE k = key
      BY <1>7, <1>17, <2>1, <3>1
    <3>2. CASE k # key
      <4>1. k \notin DOMAIN captures /\ kernel'[k] = kernel[k]
        BY <1>14, <1>17, <3>2
      <4>2. QED
        BY <4>1 DEF Bookkeeping, KernelInSync
    <3>3. QED
      BY <3>1, <3>2
  <2>4. QED
    BY <2>2, <2>3 DEF KernelInSync, KernelHolds, MembershipKey
<1>25. DemultiplexerExact'
  <2>1. \A k \in DOMAIN captures' :
          captures'[k].demultiplexer =
            {DemuxEntry(i, subscriptions[i].config) : i \in JoinedOn(k)}'
    BY <1>15, <1>16, <1>17
  <2>2. QED
    BY <2>1 DEF DemultiplexerExact
<1>26. QED
  BY <1>20, <1>21, <1>22, <1>23, <1>24, <1>25

-----------------------------------------------------------------------------
(* leave_subscription keeps the books, also when it closes the capture. *)
LEMMA LeavePreserves ==
  ASSUME Bookkeeping, NEW id, id \in DOMAIN subscriptions, LeaveSubscription(id)
  PROVE  Bookkeeping'
<1>1. /\ DOMAIN subscriptions' = DOMAIN subscriptions
      /\ \A i \in DOMAIN subscriptions \ {id} : subscriptions'[i] = subscriptions[i]
      /\ subscriptions'[id] = [subscriptions[id] EXCEPT !.state = "Bound"]
      /\ subscriptions' \in [DOMAIN subscriptions' -> SubscriptionType]
  BY DEF LeaveSubscription, Bookkeeping, RegistryTypes, SubscriptionType
<1>2. /\ subscriptions'[id].state # "Joined"
      /\ \A i \in DOMAIN subscriptions :
           /\ subscriptions'[i].config = subscriptions[i].config
           /\ subscriptions'[i].capture_key = subscriptions[i].capture_key
  BY <1>1 DEF Bookkeeping, RegistryTypes, SubscriptionType
<1>3. IsJoined(id) /\ Leave(id) /\ Idle
  BY DEF LeaveSubscription
<1>4. UNCHANGED <<next_subscription_id, resolved_capture_keys, call>>
  BY <1>3 DEF LeaveSubscription, Leave
<1>5. /\ SocketTypes' /\ (next_capture_index \in Nat)'
      /\ MembershipCounts' /\ KernelInSync' /\ DemultiplexerExact' /\ CaptureOrderInSync'
  BY <1>1, <1>2, <1>3, LeaveStep
<1>6. RegistryTypes'
  BY <1>1, <1>4 DEF Bookkeeping, RegistryTypes, Ids
<1>7. \A s : StoredWith(s)' = StoredWith(s)
  BY <1>1, <1>2 DEF StoredWith
<1>8. ResolvedKeysExact'
  BY <1>1, <1>2, <1>4, <1>7 DEF Bookkeeping, ResolvedKeysExact
<1>9. CallHasCaptures'
  BY <1>3, <1>4 DEF Idle, CallHasCaptures
<1>10. QED
  BY <1>5, <1>6, <1>8, <1>9 DEF Bookkeeping

(* remove_subscription also gives up the selector's resolved key. *)
LEMMA RemovePreserves ==
  ASSUME Bookkeeping, NEW id, id \in DOMAIN subscriptions, RemoveSubscription(id)
  PROVE  Bookkeeping'
<1> USE ConstantAssumptions
<1>1. PICK sel \in Selectors : sel = subscriptions[id].config.selector
  BY DEF Bookkeeping, RegistryTypes, SubscriptionType, ConfigType
<1> DEFINE r  == resolved_capture_keys
           rn == resolved_capture_keys'
           T  == StoredWith(sel)
           last == r[sel].references = 1
<1>2. /\ DOMAIN subscriptions' = DOMAIN subscriptions \ {id}
      /\ \A i \in DOMAIN subscriptions \ {id} : subscriptions'[i] = subscriptions[i]
      /\ subscriptions' = [i \in DOMAIN subscriptions' |-> subscriptions'[i]]
  BY DEF RemoveSubscription, Drop
<1>3. rn = IF last THEN Drop(r, sel) ELSE [r EXCEPT ![sel].references = @ - 1]
  BY <1>1 DEF RemoveSubscription, ReleaseCaptureKey
<1>4. id \in T /\ \A s : StoredWith(s)' = IF s = sel THEN T \ {id} ELSE StoredWith(s)
  <2>1. \A s : id \notin StoredWith(s)' /\ (s # sel => id \notin StoredWith(s))
    BY <1>1, <1>2 DEF StoredWith
  <2>2. \A s : \A i : i # id => (i \in StoredWith(s)' <=> i \in StoredWith(s))
    BY <1>2 DEF StoredWith
  <2>3. \A s : StoredWith(s)' = IF s = sel THEN StoredWith(s) \ {id} ELSE StoredWith(s)
    BY <2>1, <2>2
  <2>4. QED
    BY <1>1, <2>3 DEF StoredWith
<1>5. /\ Cardinality(T \ {id}) = Cardinality(T) - 1
      /\ Cardinality(T) \in Nat
      /\ Cardinality(T \ {id}) = 0 <=> T \ {id} = {}
  <2>1. IsFiniteSet(T)
    BY FiniteHolders DEF Bookkeeping
  <2> HIDE DEF T
  <2>2. IsFiniteSet(T \ {id})
    BY <2>1, FS_RemoveElement
  <2>3. QED
    BY <1>4, <2>1, <2>2, FS_RemoveElement, FS_CardinalityType, FS_EmptySet
<1>6. /\ sel \in DOMAIN r
      /\ r \in [DOMAIN r -> ResolvedType]
      /\ r[sel].references = Cardinality(T)
  BY <1>4 DEF Bookkeeping, RegistryTypes, ResolvedKeysExact
<1> HIDE DEF r, rn, T, last
<1>7. /\ DOMAIN rn = IF last THEN DOMAIN r \ {sel} ELSE DOMAIN r
      /\ \A s \in DOMAIN r \ {sel} : rn[s] = r[s]
      /\ ~last => /\ rn[sel].references = Cardinality(T \ {id})
                  /\ rn[sel].key = r[sel].key
                  /\ rn[sel] \in ResolvedType
      /\ rn = [s \in DOMAIN rn |-> rn[s]]
  <2>1. CASE last
    BY <1>3, <2>1 DEF Drop
  <2>2. CASE ~last
    <3>1. rn = [r EXCEPT ![sel].references = @ - 1]
      BY <1>3, <2>2
    <3>2. /\ DOMAIN rn = DOMAIN r
          /\ \A s \in DOMAIN r \ {sel} : rn[s] = r[s]
          /\ rn[sel] = [r[sel] EXCEPT !.references = @ - 1]
          /\ rn = [s \in DOMAIN rn |-> rn[s]]
      BY <1>6, <3>1
    <3>3. r[sel] \in ResolvedType /\ r[sel].references # 1
      BY <1>6, <2>2 DEF last
    <3>4. /\ rn[sel].references = r[sel].references - 1
          /\ rn[sel].key = r[sel].key
          /\ rn[sel] \in ResolvedType
      BY <3>2, <3>3 DEF ResolvedType
    <3>5. QED
      BY <1>5, <1>6, <2>2, <3>2, <3>4
  <2>3. QED
    BY <2>1, <2>2
<1>8. last <=> T \ {id} = {}
  BY <1>5, <1>6 DEF last
<1>9. UNCHANGED <<next_subscription_id, call>> /\ Idle
  BY DEF RemoveSubscription, Leave
<1>10. RegistryTypes'
  <2>1. \A i \in DOMAIN subscriptions' : subscriptions'[i] \in SubscriptionType
    BY <1>2 DEF Bookkeeping, RegistryTypes
  <2>2. subscriptions' \in [DOMAIN subscriptions' -> SubscriptionType]
    BY <1>2, <2>1
  <2>3. \A s \in DOMAIN rn : rn[s] \in ResolvedType
    BY <1>6, <1>7
  <2>4. rn \in [DOMAIN rn -> ResolvedType]
    BY <1>7, <2>3
  <2>5. DOMAIN rn \subseteq Selectors
    BY <1>7 DEF r, Bookkeeping, RegistryTypes
  <2>6. QED
    BY <1>2, <1>9, <2>2, <2>4, <2>5 DEF rn, Bookkeeping, RegistryTypes, Ids
<1>11. ResolvedKeysExact'
  <2>1. ASSUME NEW s \in Selectors
        PROVE  s \in DOMAIN rn <=> StoredWith(s)' # {}
    <3>1. CASE s = sel
      BY <1>4, <1>6, <1>7, <1>8, <3>1
    <3>2. CASE s # sel
      BY <1>4, <1>7, <3>2 DEF r, Bookkeeping, ResolvedKeysExact
    <3>3. QED
      BY <3>1, <3>2
  <2>2. ASSUME NEW s \in DOMAIN rn
        PROVE  rn[s].references = Cardinality(StoredWith(s)')
    <3>1. CASE s = sel
      BY <1>4, <1>7, <2>2, <3>1
    <3>2. CASE s # sel
      BY <1>4, <1>7, <2>2, <3>2 DEF r, Bookkeeping, ResolvedKeysExact
    <3>3. QED
      BY <3>1, <3>2
  <2>3. ASSUME NEW i \in DOMAIN subscriptions'
        PROVE  subscriptions'[i].capture_key = rn[subscriptions'[i].config.selector].key
    <3>1. i \in DOMAIN subscriptions /\ i # id /\ subscriptions'[i] = subscriptions[i]
      BY <1>2
    <3>2. PICK s \in Selectors : s = subscriptions[i].config.selector
      BY <3>1 DEF Bookkeeping, RegistryTypes, SubscriptionType, ConfigType
    <3>3. i \in StoredWith(s) /\ i \in StoredWith(s)'
      BY <3>1, <3>2 DEF StoredWith
    <3>4. s \in DOMAIN r /\ s \in DOMAIN rn
      BY <2>1, <3>3 DEF r, Bookkeeping, ResolvedKeysExact
    <3>5. rn[s].key = r[s].key
      BY <1>7, <3>4
    <3>6. QED
      BY <3>1, <3>2, <3>5 DEF r, Bookkeeping, ResolvedKeysExact
  <2>4. \A s \in DOMAIN rn : rn[s].key \in Resolutions[s]
    <3>1. \A s \in DOMAIN rn : s \in DOMAIN r /\ rn[s].key = r[s].key
      BY <1>7
    <3>2. \A s \in DOMAIN r : r[s].key \in Resolutions[s]
      BY DEF r, Bookkeeping, ResolvedKeysExact
    <3>3. QED
      BY <3>1, <3>2
  <2>5. QED
    BY <2>1, <2>2, <2>3, <2>4 DEF rn, ResolvedKeysExact
<1>12. CallHasCaptures'
  BY <1>9 DEF Idle, CallHasCaptures
<1>13. /\ SocketTypes' /\ (next_capture_index \in Nat)'
       /\ MembershipCounts' /\ KernelInSync' /\ DemultiplexerExact' /\ CaptureOrderInSync'
  <2>1. CASE IsJoined(id)
    <3>1. Leave(id)
      BY <2>1 DEF RemoveSubscription
    <3>2. QED
      BY <1>2, <2>1, <3>1, LeaveStep
  <2>2. CASE ~IsJoined(id)
    <3>1. UNCHANGED <<captures, capture_order, kernel, next_capture_index>>
      BY <2>2 DEF RemoveSubscription, sockets
    <3>2. \A k : JoinedOn(k)' = JoinedOn(k)
      BY <1>2, <2>2 DEF JoinedOn, IsJoined
    <3>3. \A k : \A i \in JoinedOn(k) : subscriptions'[i] = subscriptions[i]
      BY <1>2, <2>2 DEF JoinedOn, IsJoined
    <3>4. \A k, m : HoldersOf(k, m)' = HoldersOf(k, m)
      BY <3>2, <3>3 DEF HoldersOf, MembershipKey
    <3>5. MembershipCounts'
      BY <3>1, <3>2, <3>4 DEF Bookkeeping, MembershipCounts
    <3>6. DemultiplexerExact'
      <4>1. \A k : {DemuxEntry(i, subscriptions[i].config) : i \in JoinedOn(k)}'
                   = {DemuxEntry(i, subscriptions[i].config) : i \in JoinedOn(k)}
        BY <3>2, <3>3 DEF DemuxEntry
      <4>2. QED
        BY <3>1, <4>1 DEF Bookkeeping, DemultiplexerExact
    <3>7. KernelInSync' /\ CaptureOrderInSync' /\ SocketTypes' /\ (next_capture_index \in Nat)'
      BY <3>1 DEF Bookkeeping, KernelInSync, KernelHolds, CaptureOrderInSync, SocketTypes, MembershipKey,
                  CaptureOK
    <3>8. QED
      BY <3>5, <3>6, <3>7
  <2>3. QED
    BY <2>1, <2>2
<1>14. QED
  BY <1>10, <1>11, <1>12, <1>13 DEF Bookkeeping

(* The head of the loop over captures advances the index within the order. *)
LEMMA VisitPreserves ==
  ASSUME Bookkeeping, VisitCapture
  PROVE  Bookkeeping'
<1>1. UNCHANGED <<registry, sockets>>
  BY DEF VisitCapture
<1>2. capture_order # <<>> /\ capture_order' = capture_order /\ Lists(capture_order, DOMAIN captures)
  BY <1>1, OrderLists DEF VisitCapture, Bookkeeping, CallHasCaptures, sockets
<1>3. Len(capture_order) \in Nat \ {0}
  BY <1>2, ListsOrder DEF Lists
<1>4. next_capture_index' \in 0..(Len(capture_order) - 1)
  BY <1>3 DEF VisitCapture, Bookkeeping
<1>5. CaptureOrderInSync' /\ (next_capture_index \in Nat)' /\ CallHasCaptures'
  BY <1>1, <1>2, <1>4 DEF Bookkeeping, CaptureOrderInSync, CallHasCaptures, sockets
<1>6. RegistryTypes' /\ SocketTypes'
  BY <1>1 DEF Bookkeeping, registry, sockets, RegistryTypes, SocketTypes, Ids, CaptureOK
<1>7. /\ \A k : JoinedOn(k)' = JoinedOn(k)
      /\ \A k, m : HoldersOf(k, m)' = HoldersOf(k, m)
  BY <1>1 DEF registry, JoinedOn, HoldersOf, MembershipKey
<1>8. MembershipCounts' /\ ResolvedKeysExact'
  BY <1>1, <1>7 DEF Bookkeeping, registry, sockets, MembershipCounts, ResolvedKeysExact, StoredWith
<1>9. KernelInSync'
  BY <1>1 DEF Bookkeeping, sockets, KernelInSync, KernelHolds, MembershipKey
<1>10. DemultiplexerExact'
  BY <1>1 DEF Bookkeeping, registry, sockets, DemultiplexerExact, JoinedOn, DemuxEntry
<1>11. QED
  BY <1>5, <1>6, <1>8, <1>9, <1>10 DEF Bookkeeping

(* Every other step of a receive call, and the network. *)
LEMMA ReceivePreserves ==
  ASSUME Bookkeeping,
         UNCHANGED <<registry, sockets, next_capture_index>>,
         \/ call' = call
         \/ call'.pc = "idle"
         \/ call.pc # "idle"
         \/ \E op, max, received, pending : call' = StartFill(op, max, received, pending)
  PROVE  Bookkeeping'
<1>1. UNCHANGED <<capture_order, captures, kernel>>
  BY DEF sockets
<1>2. CallHasCaptures'
  <2>1. CASE call' = call \/ call'.pc = "idle" \/ call.pc # "idle"
    BY <1>1, <2>1 DEF Bookkeeping, CallHasCaptures
  <2>2. ASSUME NEW op, NEW max, NEW received, NEW pending,
               call' = StartFill(op, max, received, pending)
        PROVE  CallHasCaptures'
    <3>1. CASE capture_order = <<>>
      <4>1. call' = IdleCall
        BY <2>2, <3>1 DEF StartFill
      <4>2. QED
        BY <4>1 DEF IdleCall, CallHasCaptures
    <3>2. CASE capture_order # <<>>
      BY <1>1, <3>2 DEF CallHasCaptures
    <3>3. QED
      BY <3>1, <3>2
  <2>3. QED
    BY <2>1, <2>2
<1>3. QED
  BY <1>1, <1>2, QuietStep

(* Every step keeps the books. *)
LEMMA NextBookkeeping == Bookkeeping /\ [Next]_vars => Bookkeeping'
<1> SUFFICES ASSUME Bookkeeping, [Next]_vars PROVE Bookkeeping'
  OBVIOUS
<1>1. ASSUME NEW cfg \in Configs, AddSubscription(cfg) PROVE Bookkeeping'
  BY <1>1, AddPreserves
<1>2. ASSUME NEW id \in DOMAIN subscriptions,
             \/ JoinSubscription(id) \/ JoinFails(id)
             \/ LeaveSubscription(id) \/ RemoveSubscription(id)
      PROVE  Bookkeeping'
  BY <1>2, JoinPreserves, JoinFailsPreserves, LeavePreserves, RemovePreserves
<1>3. CASE TryRecvAny
  BY <1>3, ReceivePreserves DEF TryRecvAny
<1>4. ASSUME NEW max \in BatchSizes, TryRecvBatchInto(max) PROVE Bookkeeping'
  BY <1>4, ReceivePreserves DEF TryRecvBatchInto, IdleCall
<1>5. CASE Receive
  <2>1. CASE VisitCapture
    BY <2>1, VisitPreserves
  <2>2. CASE LeaveInnerLoop
    BY <2>2, ReceivePreserves DEF LeaveInnerLoop
  <2>3. CASE SkipUnparsed
    BY <2>3, ReceivePreserves DEF SkipUnparsed, MayRead
  <2>4. CASE WouldBlock
    BY <2>4, ReceivePreserves DEF WouldBlock, MayRead
  <2>5. CASE CaptureDatagram
    BY <2>5, ReceivePreserves DEF CaptureDatagram, MayRead
  <2>6. CASE ReceiveFails
    BY <2>6, ReceivePreserves DEF ReceiveFails, MayRead
  <2>7. CASE FillReturns
    BY <2>7, ReceivePreserves DEF FillReturns
  <2>8. QED
    BY <1>5, <2>1, <2>2, <2>3, <2>4, <2>5, <2>6, <2>7 DEF Receive
<1>6. ASSUME NEW key, NEW group, NEW source, NEW parses, Arrive(key, group, source, parses)
      PROVE  Bookkeeping'
  BY <1>6, ReceivePreserves DEF Arrive
<1>7. CASE UNCHANGED vars
  BY <1>7, ReceivePreserves DEF vars, registry, sockets
<1>8. QED
  BY <1>1, <1>2, <1>3, <1>4, <1>5, <1>6, <1>7 DEF Next

-----------------------------------------------------------------------------
(* The counts, the kernel, the demultiplexers, the cache of interfaces and *)
(* the capture order are all exact at once, in every reachable state; each *)
(* part needs the others to be inductive.                                  *)
THEOREM BookkeepingInvariant == Spec => []Bookkeeping
<1>1. QED
  BY InitBookkeeping, NextBookkeeping, PTL DEF Spec

(* Membership and kernel reference counts are the numbers of joined        *)
(* subscriptions, and a capture is open exactly while it has one: no       *)
(* expect of join_subscription and leave_subscription can panic.           *)
THEOREM MembershipCountsAlways == Spec => []MembershipCounts
<1>1. Bookkeeping => MembershipCounts
  BY DEF Bookkeeping
<1>2. QED
  BY <1>1, BookkeepingInvariant, PTL

(* The kernel's memberships are those the reference counts stand for, held *)
(* under the configuration that leave_subscription will withdraw; a        *)
(* datagram is matched against exactly the subscriptions joined on its     *)
(* capture; the cache of resolved interfaces holds the selectors in use,   *)
(* and every subscription of a selector shares its key.                    *)
THEOREM SharedStateExactAlways == Spec => []SharedStateExact
<1>1. Bookkeeping => SharedStateExact
  BY DEF Bookkeeping, SharedStateExact
<1>2. QED
  BY <1>1, BookkeepingInvariant, PTL

(* capture_order lists each open capture once and next_capture_index stays *)
(* inside it: indexing it in fill_pending cannot panic.                    *)
THEOREM CaptureOrderInSyncAlways == Spec => []CaptureOrderInSync
<1>1. Bookkeeping => CaptureOrderInSync
  BY DEF Bookkeeping
<1>2. QED
  BY <1>1, BookkeepingInvariant, PTL

-----------------------------------------------------------------------------
(* The receive half. *)

(* A receive call in progress works for one of the two receive methods,    *)
(* within its target, on an open capture; between calls its locals are     *)
(* gone.                                                                   *)
CallShape ==
  /\ call.pc = "idle" => call = IdleCall
  /\ call.pc # "idle" =>
       /\ call.op \in {"any", "batch"}
       /\ call.target <= MaxPendingPackets
       /\ call.reads <= call.target
       /\ call.filtered < FilterBudget
  /\ call.pc = "read" => call.key \in DOMAIN captures

(* Datagrams are numbered as they arrive. *)
TagsSeen ==
  /\ \A i \in 1..Len(out) : out[i].tag <= arrivals
  /\ \A i \in 1..Len(pending_packets) : pending_packets[i].tag <= arrivals
  /\ \A key \in Keys : \A j \in 1..Len(queue[key]) : queue[key][j].tag <= arrivals

(* No datagram is at two places. *)
TagsApart ==
  /\ \A i, j \in 1..Len(pending_packets) : pending_packets[i].tag = pending_packets[j].tag => i = j
  /\ \A i \in 1..Len(pending_packets), key \in Keys : \A j \in 1..Len(queue[key]) :
       pending_packets[i].tag # queue[key][j].tag
  /\ \A k, l \in Keys : \A i \in 1..Len(queue[k]), j \in 1..Len(queue[l]) :
       queue[k][i].tag = queue[l][j].tag => k = l

(* CaptureFifo by parts: what was handed over, what is pending, what the   *)
(* sockets hold, and each of these against the next.                       *)
InOrder(s)  == \A i, j \in 1..Len(s) : i < j /\ s[i].key = s[j].key => s[i].tag < s[j].tag
Ahead(s, t) == \A i \in 1..Len(s), j \in 1..Len(t) : s[i].key = t[j].key => s[i].tag < t[j].tag
AheadOfQueues(s, q) ==
  \A i \in 1..Len(s) : \A j \in 1..Len(q[s[i].key]) : s[i].tag < q[s[i].key][j].tag
QueuesInOrder(q) ==
  \A key \in Keys : \A i, j \in 1..Len(q[key]) : i < j => q[key][i].tag < q[key][j].tag

FifoParts ==
  /\ InOrder(out) /\ InOrder(pending_packets) /\ Ahead(out, pending_packets)
  /\ AheadOfQueues(out, queue) /\ AheadOfQueues(pending_packets, queue)
  /\ QueuesInOrder(queue)

Flow == TagsSeen /\ TagsApart /\ FifoParts

(* The inductive invariant, next to Bookkeeping. *)
ReceiveInv ==
  /\ ReceiveTypes
  /\ CallShape
  /\ ReceiveBounded
  /\ PendingNamesJoined
  /\ Flow
  /\ MetricsAgree

-----------------------------------------------------------------------------
(* Facts about the operators of the model. *)

(* A set of ids that is not empty has a first one. *)
LEMMA LeastMember ==
  ASSUME NEW S \in SUBSET (1..MaxId), S # {}
  PROVE  Least(S) \in S /\ \A y \in S : Least(S) <= y
<1>1. S \in SUBSET Nat
  BY ConstantAssumptions
<1>2. \E x \in S : \A y \in S : x <= y
  BY <1>1, LeastNatural
<1>3. QED
  BY <1>2 DEF Least

(* A packet whose ids are stored subscriptions, labelled with the first. *)
Labelled(p) ==
  /\ p \in PacketType
  /\ p.ids # {} /\ p.ids \in SUBSET DOMAIN subscriptions
  /\ p.subscription_id \in p.ids /\ \A i \in p.ids : p.subscription_id <= i
  /\ p.interface = subscriptions[p.subscription_id].config.selector

SameDatagram(p, q) == p.tag = q.tag /\ p.key = q.key /\ p.group = q.group /\ p.source = q.source

(* What the registry stores has its type. *)
LEMMA StoredSelectors ==
  ASSUME RegistryTypes, NEW id \in DOMAIN subscriptions
  PROVE  id \in 1..MaxId /\ subscriptions[id].config.selector \in Selectors
<1>1. subscriptions[id] \in SubscriptionType /\ id \in Ids
  BY DEF RegistryTypes
<1>2. id \in 1..MaxId
  BY <1>1, ConstantAssumptions DEF RegistryTypes, Ids
<1>3. subscriptions[id].config \in ConfigType
  BY <1>1, ConstantAssumptions DEF SubscriptionType
<1>4. QED
  BY <1>2, <1>3 DEF ConfigType

(* remove_pending_membership on one packet that stays. *)
LEMMA WithoutIdFacts ==
  ASSUME RegistryTypes, NEW p, Labelled(p), NEW id, p.ids # {id}
  PROVE  /\ Labelled(WithoutId(p, id))
         /\ SameDatagram(WithoutId(p, id), p)
         /\ WithoutId(p, id).ids = p.ids \ {id}
<1> DEFINE ids == p.ids \ {id}
           first == Least(ids)
           w == [p EXCEPT !.ids = ids, !.subscription_id = first,
                          !.interface = subscriptions[first].config.selector]
<1>1. CASE id \notin p.ids
  <2>1. WithoutId(p, id) = p /\ p.ids \ {id} = p.ids
    BY <1>1 DEF WithoutId
  <2>2. QED
    BY <2>1 DEF SameDatagram
<1>2. CASE id \in p.ids
  <2>1. WithoutId(p, id) = w
    BY <1>2 DEF WithoutId
  <2>2. p \in PacketType /\ p.ids \in SUBSET DOMAIN subscriptions /\ p.ids \in SUBSET (1..MaxId)
    BY DEF Labelled, PacketType
  <2>3. ids # {} /\ ids \in SUBSET (1..MaxId) /\ ids \in SUBSET DOMAIN subscriptions
    BY <1>2, <2>2
  <2>4. first \in ids /\ \A y \in ids : first <= y
    BY <2>3, LeastMember
  <2>5. first \in 1..MaxId /\ subscriptions[first].config.selector \in Selectors
    BY <2>3, <2>4, StoredSelectors
  <2> HIDE DEF first, ids
  <2>6. /\ w.ids = ids /\ w.subscription_id = first
        /\ w.interface = subscriptions[first].config.selector
        /\ w.tag = p.tag /\ w.key = p.key /\ w.group = p.group /\ w.source = p.source
        /\ w \in PacketType
    BY <2>2, <2>3, <2>5 DEF PacketType
  <2> HIDE DEF w
  <2>7. QED
    BY <2>1, <2>3, <2>4, <2>6 DEF Labelled, SameDatagram, ids
<1>3. QED
  BY <1>1, <1>2

(* The packet made of a datagram that somebody wants. *)
LEMMA PacketOfFacts ==
  ASSUME RegistryTypes, NEW ids \in SUBSET DOMAIN subscriptions, ids # {},
         NEW key \in Keys, NEW d \in DatagramType
  PROVE  /\ Labelled(PacketOf(ids, key, d))
         /\ PacketOf(ids, key, d).ids = ids
         /\ PacketOf(ids, key, d).key = key
         /\ PacketOf(ids, key, d).tag = d.tag
         /\ PacketOf(ids, key, d).group = d.group
         /\ PacketOf(ids, key, d).source = d.source
<1>1. ids \in SUBSET (1..MaxId)
  BY StoredSelectors
<1>2. Least(ids) \in ids /\ \A y \in ids : Least(ids) <= y
  BY <1>1, LeastMember
<1>3. Least(ids) \in 1..MaxId /\ subscriptions[Least(ids)].config.selector \in Selectors
  BY <1>2, StoredSelectors
<1>4. QED
  BY <1>1, <1>2, <1>3 DEF PacketOf, Labelled, PacketType, DatagramType

(* Every packet of the queue is labelled. *)
LEMMA PendingLabelled ==
  ASSUME ReceiveTypes, PendingNamesJoined, NEW i \in 1..Len(pending_packets)
  PROVE  Labelled(pending_packets[i])
<1>1. i \in DOMAIN pending_packets /\ pending_packets[i] \in PacketType
  BY DEF ReceiveTypes
<1>2. QED
  BY <1>1 DEF PendingNamesJoined, Labelled, IsJoined

(* Where the packets of the queue come from after a leave. *)
Kept(id) == {i \in DOMAIN pending_packets : pending_packets[i].ids # {id}}

Comes(to, from, g) ==
  /\ \A i \in 1..Len(to) : /\ g[i] \in 1..Len(from)
                           /\ SameDatagram(to[i], from[g[i]])
  /\ \A i, j \in 1..Len(to) : i < j => g[i] < g[j]

(* remove_pending_membership on the queue. *)
LEMMA RemovePendingFacts ==
  ASSUME RegistryTypes, ReceiveTypes, PendingNamesJoined, NEW id
  PROVE  LET rest == RemovePendingMembership(pending_packets, id)
             g == [n \in 1..Len(rest) |-> Nth(Kept(id), n)]
         IN  /\ rest \in Seq(PacketType)
             /\ Len(rest) = Cardinality(Kept(id)) /\ Len(rest) <= Len(pending_packets)
             /\ Comes(rest, pending_packets, g)
             /\ \A n \in 1..Len(rest) :
                  /\ g[n] \in Kept(id) /\ g[n] = Nth(Kept(id), n)
                  /\ Labelled(rest[n]) /\ rest[n].ids = pending_packets[g[n]].ids \ {id}
             /\ \A k \in Kept(id) : \E n \in 1..Len(rest) : g[n] = k
<1> DEFINE P == pending_packets
           K == Kept(id)
           kept == Picked(P, K)
           rest == RemovePendingMembership(P, id)
           g == [n \in 1..Len(rest) |-> Nth(K, n)]
<1>1. P \in Seq(PacketType) /\ K \in SUBSET DOMAIN P /\ DOMAIN P = 1..Len(P) /\ Len(P) \in Nat
  BY DEF ReceiveTypes, Kept
<1> HIDE DEF P, K
<1>2. /\ kept \in Seq(PacketType) /\ Len(kept) = Cardinality(K) /\ Cardinality(K) \in Nat
      /\ \A n \in 1..Cardinality(K) : Nth(K, n) \in K /\ kept[n] = P[Nth(K, n)]
      /\ \A m, n \in 1..Cardinality(K) : m < n => Nth(K, m) < Nth(K, n)
      /\ \A k \in K : \E n \in 1..Cardinality(K) : Nth(K, n) = k
  BY <1>1, PickedFacts
<1>3. Cardinality(K) <= Len(P)
  <2>1. \A n \in Nat : IsFiniteSet(1..n) /\ Cardinality(1..n) = n
    BY FS_Interval
  <2>2. QED
    BY <1>1, <2>1, FS_Subset, FS_CardinalityType
<1>4. rest = [n \in DOMAIN kept |-> WithoutId(kept[n], id)]
  BY DEF RemovePendingMembership, Kept, P, K
<1> HIDE DEF kept, rest
<1>5. DOMAIN kept = 1..Cardinality(K)
  BY <1>2
<1>6. ASSUME NEW n \in 1..Cardinality(K)
      PROVE  /\ Labelled(WithoutId(kept[n], id)) /\ SameDatagram(WithoutId(kept[n], id), P[Nth(K, n)])
             /\ WithoutId(kept[n], id).ids = P[Nth(K, n)].ids \ {id}
             /\ WithoutId(kept[n], id) \in PacketType
  <2>1. Nth(K, n) \in K /\ kept[n] = P[Nth(K, n)]
    BY <1>2
  <2>2. Labelled(P[Nth(K, n)])
    BY <1>1, <2>1, PendingLabelled DEF P
  <2>3. P[Nth(K, n)].ids # {id}
    BY <2>1 DEF K, Kept, P
  <2>4. Labelled(kept[n]) /\ kept[n].ids # {id}
    BY <2>1, <2>2, <2>3
  <2>5. /\ Labelled(WithoutId(kept[n], id))
        /\ SameDatagram(WithoutId(kept[n], id), kept[n])
        /\ WithoutId(kept[n], id).ids = kept[n].ids \ {id}
    BY <2>4, WithoutIdFacts
  <2>6. QED
    BY <2>1, <2>5 DEF Labelled
<1>7. /\ rest \in Seq(PacketType) /\ Len(rest) = Cardinality(K)
      /\ \A n \in 1..Cardinality(K) : rest[n] = WithoutId(kept[n], id)
  <2>1. rest \in [1..Cardinality(K) -> PacketType]
    BY <1>4, <1>5, <1>6
  <2>2. QED
    BY <1>2, <1>4, <1>5, <2>1
<1>8. \A n \in 1..Len(rest) :
        /\ g[n] \in K /\ g[n] = Nth(K, n) /\ g[n] \in 1..Len(P)
        /\ Labelled(rest[n]) /\ SameDatagram(rest[n], P[g[n]])
        /\ rest[n].ids = P[g[n]].ids \ {id}
  BY <1>1, <1>2, <1>6, <1>7
<1>9. Comes(rest, P, g)
  BY <1>2, <1>7, <1>8 DEF Comes
<1>10. \A k \in K : \E n \in 1..Len(rest) : g[n] = k
  BY <1>2, <1>7
<1>11. QED
  BY <1>3, <1>7, <1>8, <1>9, <1>10 DEF P, K, rest

(* Draining n packets. *)
LEMMA DrainFacts ==
  ASSUME NEW p \in Seq(PacketType), NEW n \in 0..Len(p)
  PROVE  /\ Drained(p, n) \in Seq(PacketType) /\ Len(Drained(p, n)) = n
         /\ \A i \in 1..n : Drained(p, n)[i] = p[i]
         /\ Remaining(p, n) \in Seq(PacketType) /\ Len(Remaining(p, n)) = Len(p) - n
         /\ \A i \in 1..(Len(p) - n) : i + n \in 1..Len(p) /\ Remaining(p, n)[i] = p[i + n]
<1>1. Len(p) \in Nat /\ n \in Nat /\ n <= Len(p) /\ \A i \in 1..Len(p) : p[i] \in PacketType
  OBVIOUS
<1>2. /\ Drained(p, n) \in Seq(PacketType) /\ Len(Drained(p, n)) = n
      /\ \A i \in 1..n : Drained(p, n)[i] = p[i]
  BY <1>1 DEF Drained
<1>3. /\ Remaining(p, n) \in Seq(PacketType) /\ Len(Remaining(p, n)) = Len(p) - n
      /\ \A i \in 1..(Len(p) - n) : i + n \in 1..Len(p) /\ Remaining(p, n)[i] = p[i + n]
  BY <1>1 DEF Remaining
<1>4. QED
  BY <1>2, <1>3

(* fill_pending starts with an empty queue. *)
LEMMA StartFillFacts ==
  ASSUME Bookkeeping, NEW op \in {"any", "batch"}, NEW max \in Nat, NEW received \in Nat,
         received < max
  PROVE  LET c == StartFill(op, max, received, <<>>)
         IN  /\ c \in CallType
             /\ \/ c = IdleCall
                \/ /\ c.pc = "visit" /\ c.op = op /\ c.max = max /\ c.received = received
                   /\ c.target \in Nat \ {0} /\ c.target <= MaxPendingPackets
                   /\ c.queued = 0 /\ c.captured = 0 /\ c.reads = 0 /\ c.filtered = 0
<1> DEFINE target == Smaller(max - received, MaxPendingPackets)
<1>1. target \in Nat /\ target <= MaxPendingPackets /\ MaxPendingPackets - Len(<<>>) = MaxPendingPackets
  BY ConstantAssumptions DEF Smaller
<1>2. Len(capture_order) \in Nat
  BY DEF Bookkeeping, SocketTypes
<1> HIDE DEF target
<1>3. CASE capture_order = <<>> \/ target = 0
  <2>1. StartFill(op, max, received, <<>>) = IdleCall
    BY <1>1, <1>3 DEF StartFill, target
  <2>2. IdleCall \in CallType
    BY DEF IdleCall, CallType
  <2>3. QED
    BY <2>1, <2>2
<1>4. CASE ~(capture_order = <<>> \/ target = 0)
  <2>1. StartFill(op, max, received, <<>>) =
          [IdleCall EXCEPT !.pc = "visit", !.op = op, !.max = max, !.received = received,
                           !.target = target, !.budget = target + Len(capture_order),
                           !.visits = Len(capture_order)]
    BY <1>1, <1>4 DEF StartFill, target
  <2>2. StartFill(op, max, received, <<>>) =
          [pc |-> "visit", op |-> op, max |-> max, received |-> received, target |-> target,
           budget |-> target + Len(capture_order), visits |-> Len(capture_order), reads |-> 0,
           queued |-> 0, captured |-> 0, filtered |-> 0, key |-> NoKey]
    BY <2>1, ZenonT(60) DEF IdleCall
  <2>3. target + Len(capture_order) \in Nat
    BY <1>1, <1>2
  <2>4. QED
    BY <1>1, <1>2, <1>4, <2>2, <2>3 DEF CallType
<1>5. QED
  BY <1>3, <1>4

-----------------------------------------------------------------------------
(* The way of the datagrams. *)

(* Packets by their fields. *)
LEMMA PacketsPlain ==
  ASSUME NEW p \in Seq(PacketType)
  PROVE  /\ Len(p) \in Nat
         /\ \A i \in 1..Len(p) : p[i] \in PacketType /\ p[i].tag \in Nat /\ p[i].key \in Keys
<1>1. Len(p) \in Nat /\ \A i \in 1..Len(p) : p[i] \in PacketType
  OBVIOUS
<1>2. \A e \in PacketType : e.tag \in Nat /\ e.key \in Keys
  BY ConstantAssumptions DEF PacketType
<1>3. QED
  BY <1>1, <1>2

(* Queues by the fields of their datagrams. *)
LEMMA QueuesPlain ==
  ASSUME NEW q \in [Keys -> Seq(DatagramType)], NEW key \in Keys
  PROVE  /\ q[key] \in Seq(DatagramType) /\ Len(q[key]) \in Nat
         /\ \A j \in 1..Len(q[key]) : q[key][j] \in DatagramType /\ q[key][j].tag \in Nat
<1>1. q[key] \in Seq(DatagramType)
  OBVIOUS
<1>2. Len(q[key]) \in Nat /\ \A i \in 1..Len(q[key]) : q[key][i] \in DatagramType
  BY <1>1
<1>3. \A e \in DatagramType : e.tag \in Nat
  BY ConstantAssumptions DEF DatagramType
<1>4. QED
  BY <1>1, <1>2, <1>3

(* What the queues of the sockets are after some of their first datagrams  *)
(* have been read or the sockets closed.                                   *)
QueuesShrink(h) ==
  \A key \in Keys :
    /\ h[key] \in Nat
    /\ \A j \in 1..Len(queue'[key]) : /\ j + h[key] \in 1..Len(queue[key])
                                      /\ queue'[key][j] = queue[key][j + h[key]]

(* Datagrams only go: packets are taken out of the pending queue and       *)
(* datagrams off the front of the sockets.                                 *)
LEMMA FlowShrinks ==
  ASSUME ReceiveTypes, Flow, ReceiveTypes', UNCHANGED <<out, arrivals>>,
         NEW g, Comes(pending_packets', pending_packets, g),
         NEW h, QueuesShrink(h)
  PROVE  Flow'
<1> DEFINE P == pending_packets
           Q == pending_packets'
<1>1. /\ Len(P) \in Nat /\ Len(Q) \in Nat /\ Len(out) \in Nat
      /\ \A key \in Keys : Len(queue[key]) \in Nat /\ Len(queue'[key]) \in Nat
      /\ \A i \in 1..Len(P) : P[i].tag \in Nat /\ P[i].key \in Keys
      /\ \A i \in 1..Len(Q) : Q[i].tag \in Nat /\ Q[i].key \in Keys
      /\ \A i \in 1..Len(out) : out[i].tag \in Nat /\ out[i].key \in Keys
      /\ \A key \in Keys : \A j \in 1..Len(queue[key]) : queue[key][j].tag \in Nat
  BY PacketsPlain, QueuesPlain DEF ReceiveTypes
<1>2. /\ \A i \in 1..Len(Q) : /\ g[i] \in 1..Len(P)
                              /\ Q[i].tag = P[g[i]].tag /\ Q[i].key = P[g[i]].key
      /\ \A i, j \in 1..Len(Q) : i < j => g[i] < g[j]
  BY DEF Comes, SameDatagram
<1> HIDE DEF P, Q
<1>3. TagsSeen'
  <2>1. \A i \in 1..Len(Q) : Q[i].tag <= arrivals
    BY <1>2 DEF Flow, TagsSeen, P
  <2>2. QED
    BY <2>1 DEF Flow, TagsSeen, QueuesShrink, Q
<1>4. TagsApart'
  <2>1. ASSUME NEW i \in 1..Len(Q), NEW j \in 1..Len(Q), Q[i].tag = Q[j].tag PROVE i = j
    <3>1. g[i] = g[j] /\ g[i] \in 1..Len(P)
      BY SMTT(20), <1>2, <2>1 DEF Flow, TagsApart, P
    <3>2. ~(i < j) /\ ~(j < i)
      BY <1>1, <1>2, <3>1
    <3>3. QED
      BY <1>1, <3>2
  <2>2. ASSUME NEW i \in 1..Len(Q), NEW key \in Keys, NEW j \in 1..Len(queue'[key])
        PROVE  Q[i].tag # queue'[key][j].tag
    <3>1. /\ g[i] \in 1..Len(P) /\ Q[i].tag = P[g[i]].tag
          /\ j + h[key] \in 1..Len(queue[key]) /\ queue'[key][j] = queue[key][j + h[key]]
      BY <1>2 DEF QueuesShrink
    <3>2. QED
      BY <3>1 DEF Flow, TagsApart, P
  <2>3. ASSUME NEW k \in Keys, NEW l \in Keys, NEW i \in 1..Len(queue'[k]),
               NEW j \in 1..Len(queue'[l]), queue'[k][i].tag = queue'[l][j].tag
        PROVE  k = l
    <3>1. /\ i + h[k] \in 1..Len(queue[k]) /\ queue'[k][i] = queue[k][i + h[k]]
          /\ j + h[l] \in 1..Len(queue[l]) /\ queue'[l][j] = queue[l][j + h[l]]
      BY DEF QueuesShrink
    <3>2. QED
      BY <2>3, <3>1 DEF Flow, TagsApart
  <2>4. QED
    BY <2>1, <2>2, <2>3 DEF TagsApart, Q
<1>5. InOrder(out)' /\ InOrder(Q) /\ Ahead(out, Q)
  BY <1>1, <1>2 DEF Flow, FifoParts, InOrder, Ahead, P
<1>6. AheadOfQueues(out, queue') /\ AheadOfQueues(Q, queue')
  <2>1. \A i \in 1..Len(out) : out[i].key \in Keys
    BY <1>1
  <2>2. AheadOfQueues(out, queue')
    BY <2>1 DEF Flow, FifoParts, AheadOfQueues, QueuesShrink
  <2>3. ASSUME NEW i \in 1..Len(Q), NEW j \in 1..Len(queue'[Q[i].key])
        PROVE  Q[i].tag < queue'[Q[i].key][j].tag
    <3> DEFINE key == Q[i].key
    <3>1. key \in Keys /\ g[i] \in 1..Len(P) /\ Q[i].tag = P[g[i]].tag /\ key = P[g[i]].key
      BY <1>1, <1>2
    <3>2. j + h[key] \in 1..Len(queue[key]) /\ queue'[key][j] = queue[key][j + h[key]]
      BY <3>1 DEF QueuesShrink
    <3>3. QED
      BY <3>1, <3>2 DEF Flow, FifoParts, AheadOfQueues, P
  <2>4. QED
    BY <2>2, <2>3 DEF AheadOfQueues
<1>7. QueuesInOrder(queue')
  <2>1. ASSUME NEW key \in Keys, NEW i \in 1..Len(queue'[key]), NEW j \in 1..Len(queue'[key]), i < j
        PROVE  queue'[key][i].tag < queue'[key][j].tag
    <3>1. h[key] \in Nat /\ i + h[key] < j + h[key]
      BY <1>1, <2>1 DEF QueuesShrink
    <3>2. QED
      BY <3>1 DEF Flow, FifoParts, QueuesInOrder, QueuesShrink
  <2>2. QED
    BY <2>1 DEF QueuesInOrder
<1>8. QED
  BY <1>3, <1>4, <1>5, <1>6, <1>7 DEF Flow, FifoParts, Q

(* Packets go from the front of the pending queue to the caller, after     *)
(* what this call has handed over already or as the first of a new call.   *)
LEMMA FlowDrains ==
  ASSUME ReceiveTypes, Flow, ReceiveTypes', UNCHANGED <<queue, arrivals>>,
         NEW n \in 0..Len(pending_packets),
         pending_packets' = Remaining(pending_packets, n),
         \/ out' = Drained(pending_packets, n)
         \/ out' = out \o Drained(pending_packets, n)
  PROVE  Flow'
<1> DEFINE P == pending_packets
           Q == pending_packets'
<1>1. /\ Len(P) \in Nat /\ Len(Q) \in Nat /\ Len(out) \in Nat /\ P \in Seq(PacketType) /\ n \in Nat
      /\ \A key \in Keys : Len(queue[key]) \in Nat
      /\ \A i \in 1..Len(P) : P[i].tag \in Nat /\ P[i].key \in Keys
      /\ \A i \in 1..Len(out) : out[i].tag \in Nat /\ out[i].key \in Keys
  BY SMTT(20), PacketsPlain, QueuesPlain DEF ReceiveTypes
<1>2. /\ Len(Q) = Len(P) - n
      /\ \A i \in 1..Len(Q) : i + n \in 1..Len(P) /\ Q[i] = P[i + n]
      /\ Drained(P, n) \in Seq(PacketType) /\ Len(Drained(P, n)) = n
      /\ \A i \in 1..n : i \in 1..Len(P) /\ Drained(P, n)[i] = P[i]
  <2>1. P \in Seq(PacketType) /\ n \in 0..Len(P)
    BY <1>1
  <2>2. /\ Drained(P, n) \in Seq(PacketType) /\ Len(Drained(P, n)) = n
        /\ \A i \in 1..n : Drained(P, n)[i] = P[i]
        /\ Len(Remaining(P, n)) = Len(P) - n
        /\ \A i \in 1..(Len(P) - n) : i + n \in 1..Len(P) /\ Remaining(P, n)[i] = P[i + n]
    BY <2>1, DrainFacts
  <2>3. \A i \in 1..n : i \in 1..Len(P)
    BY <1>1
  <2>4. QED
    BY <2>2, <2>3
<1>3. PICK m \in {0, Len(out)} :
        /\ Len(out') = m + n
        /\ \A i \in 1..m : out'[i] = out[i]
        /\ \A i \in 1..n : out'[i + m] = P[i]
  <2>1. CASE out' = Drained(pending_packets, n)
    BY <1>1, <1>2, <2>1
  <2>2. CASE out' = out \o Drained(pending_packets, n)
    <3>1. out \in Seq(PacketType)
      BY DEF ReceiveTypes
    <3>2. QED
      BY <1>1, <1>2, <2>2, <3>1
  <2>3. QED
    BY <2>1, <2>2
<1>4. \A i \in 1..Len(out') : \/ i \in 1..m /\ i \in 1..Len(out) /\ out'[i] = out[i]
                              \/ i - m \in 1..n /\ i - m \in 1..Len(P) /\ out'[i] = P[i - m]
  <2>1. m \in Nat /\ m <= Len(out)
    BY <1>1
  <2>2. ASSUME NEW i \in 1..Len(out'), ~(i <= m)
        PROVE  i - m \in 1..n /\ i - m \in 1..Len(P) /\ out'[i] = P[i - m]
    <3>1. i - m \in 1..n /\ (i - m) + m = i
      BY <1>1, <1>3, <2>1, <2>2
    <3>2. QED
      BY <1>2, <1>3, <3>1
  <2>3. ASSUME NEW i \in 1..Len(out'), i <= m
        PROVE  i \in 1..m /\ i \in 1..Len(out) /\ out'[i] = out[i]
    <3>1. i \in 1..m /\ i \in 1..Len(out)
      BY <1>1, <1>3, <2>1, <2>3
    <3>2. QED
      BY <1>3, <3>1
  <2>4. QED
    BY <2>2, <2>3
<1> HIDE DEF P, Q
<1>5. TagsSeen'
  BY <1>1, <1>2, <1>4 DEF Flow, TagsSeen, P, Q
<1>6. TagsApart'
  <2>1. ASSUME NEW i \in 1..Len(Q), NEW j \in 1..Len(Q), Q[i].tag = Q[j].tag PROVE i = j
    <3>1. i + n = j + n
      BY <1>2, <2>1 DEF Flow, TagsApart, P
    <3>2. QED
      BY <1>1, <3>1
  <2>2. ASSUME NEW i \in 1..Len(Q), NEW key \in Keys, NEW j \in 1..Len(queue[key])
        PROVE  Q[i].tag # queue[key][j].tag
    <3>1. i + n \in 1..Len(P) /\ Q[i].tag = P[i + n].tag
      BY <1>2
    <3>2. QED
      BY <3>1 DEF Flow, TagsApart, P
  <2>3. QED
    BY <2>1, <2>2 DEF Flow, TagsApart, Q
<1>7. InOrder(Q)
  <2>1. \A i, j \in 1..Len(Q) : i < j => i + n < j + n
    BY <1>1
  <2>2. QED
    BY <1>2, <2>1 DEF Flow, FifoParts, InOrder, P
<1>8. InOrder(out')
  <2>1. ASSUME NEW i \in 1..Len(out'), NEW j \in 1..Len(out'), i < j, out'[i].key = out'[j].key
        PROVE  out'[i].tag < out'[j].tag
    <3>1. m \in Nat
      BY <1>1
    <3>2. CASE j \in 1..m
      <4>1. i \in 1..m /\ ~(i - m \in 1..n) /\ ~(j - m \in 1..n)
        BY <1>1, <2>1, <3>1, <3>2
      <4>2. i \in 1..Len(out) /\ j \in 1..Len(out) /\ out'[i] = out[i] /\ out'[j] = out[j]
        BY <1>4, <4>1
      <4>3. QED
        BY <2>1, <4>2 DEF Flow, FifoParts, InOrder
    <3>3. CASE j - m \in 1..n /\ i \in 1..m
      <4>1. i \in 1..Len(out) /\ out'[i] = out[i] /\ j - m \in 1..Len(P) /\ out'[j] = P[j - m]
        BY <1>1, <1>4, <3>1, <3>3
      <4>2. QED
        BY <2>1, <4>1 DEF Flow, FifoParts, Ahead, P
    <3>4. CASE j - m \in 1..n /\ i - m \in 1..n
      <4>1. ~(i \in 1..m) /\ ~(j \in 1..m) /\ i - m < j - m
        BY <1>1, <2>1, <3>1, <3>4
      <4>2. /\ i - m \in 1..Len(P) /\ out'[i] = P[i - m]
            /\ j - m \in 1..Len(P) /\ out'[j] = P[j - m]
        BY <1>4, <4>1
      <4>3. QED
        BY <2>1, <4>1, <4>2 DEF Flow, FifoParts, InOrder, P
    <3>5. QED
      BY <1>4, <3>2, <3>3, <3>4
  <2>2. QED
    BY <2>1 DEF InOrder
<1>9. Ahead(out', Q)
  <2>1. ASSUME NEW i \in 1..Len(out'), NEW j \in 1..Len(Q), out'[i].key = Q[j].key
        PROVE  out'[i].tag < Q[j].tag
    <3>1. j + n \in 1..Len(P) /\ Q[j] = P[j + n]
      BY <1>2
    <3>2. CASE i \in 1..Len(out) /\ out'[i] = out[i]
      BY <2>1, <3>1, <3>2 DEF Flow, FifoParts, Ahead, P
    <3>3. CASE i - m \in 1..n /\ i - m \in 1..Len(P) /\ out'[i] = P[i - m]
      <4>1. i - m < j + n
        BY <1>1, <3>3
      <4>2. QED
        BY <2>1, <3>1, <3>3, <4>1 DEF Flow, FifoParts, InOrder, P
    <3>4. QED
      BY <1>4, <3>2, <3>3
  <2>2. QED
    BY <2>1 DEF Ahead
<1>10. AheadOfQueues(out', queue) /\ AheadOfQueues(Q, queue)
  BY <1>2, <1>4 DEF Flow, FifoParts, AheadOfQueues, P
<1>11. QED
  BY <1>5, <1>6, <1>7, <1>8, <1>9, <1>10 DEF Flow, FifoParts, Q

(* Taking the first element off a sequence. *)
LEMMA TailFacts ==
  ASSUME NEW S, NEW s \in Seq(S), s # <<>>
  PROVE  /\ Tail(s) \in Seq(S) /\ Len(Tail(s)) = Len(s) - 1
         /\ \A j \in 1..Len(Tail(s)) : j + 1 \in 1..Len(s) /\ Tail(s)[j] = s[j + 1]
<1>1. Len(s) \in Nat /\ Len(s) # 0
  OBVIOUS
<1>2. Tail(s) \in Seq(S) /\ Len(Tail(s)) = Len(s) - 1
  BY <1>1
<1>3. ASSUME NEW j \in 1..Len(Tail(s)) PROVE j + 1 \in 1..Len(s) /\ Tail(s)[j] = s[j + 1]
  BY <1>1, <1>2
<1>4. QED
  BY <1>2, <1>3

(* A datagram goes from the front of a socket to the end of the pending    *)
(* queue.                                                                  *)
LEMMA FlowCaptures ==
  ASSUME ReceiveTypes, Flow, ReceiveTypes', UNCHANGED <<out, arrivals>>,
         NEW key \in Keys, queue[key] # <<>>, queue' = [queue EXCEPT ![key] = Tail(@)],
         NEW p \in PacketType, p.tag = Head(queue[key]).tag, p.key = key,
         pending_packets' = Append(pending_packets, p)
  PROVE  Flow'
<1> DEFINE P == pending_packets
           Q == pending_packets'
           n == Len(P) + 1
           h == [k \in Keys |-> IF k = key THEN 1 ELSE 0]
<1>0. arrivals \in Nat
  BY ConstantAssumptions DEF ReceiveTypes
<1>1. /\ Len(P) \in Nat /\ Len(out) \in Nat /\ P \in Seq(PacketType)
      /\ \A k \in Keys : /\ Len(queue[k]) \in Nat /\ Len(queue'[k]) \in Nat
                         /\ queue[k] \in Seq(DatagramType)
      /\ \A i \in 1..Len(P) : P[i].tag \in Nat /\ P[i].key \in Keys
      /\ \A i \in 1..Len(out) : out[i].tag \in Nat /\ out[i].key \in Keys
      /\ \A k \in Keys : \A j \in 1..Len(queue[k]) : queue[k][j].tag \in Nat
  BY PacketsPlain, QueuesPlain DEF ReceiveTypes
<1>2. /\ Len(Q) = n /\ Q[n] = p
      /\ \A i \in 1..Len(Q) : i = n \/ (i \in 1..Len(P) /\ i < n /\ Q[i] = P[i])
  BY <1>1
<1>3. 1 \in 1..Len(queue[key]) /\ p.tag = queue[key][1].tag /\ p.tag \in Nat
  <2>1. queue[key] \in Seq(DatagramType) /\ Len(queue[key]) \in Nat
    BY <1>1
  <2>2. 1 \in 1..Len(queue[key]) /\ Head(queue[key]) = queue[key][1]
    BY <2>1
  <2>3. QED
    BY <1>1, <2>2
<1>4. QueuesShrink(h)
  <2>1. ASSUME NEW k \in Keys, k # key PROVE queue'[k] = queue[k]
    BY <2>1 DEF ReceiveTypes
  <2>2. queue'[key] = Tail(queue[key])
    BY DEF ReceiveTypes
  <2>3. queue[key] \in Seq(DatagramType) /\ Len(queue[key]) \in Nat
    BY <1>1
  <2>4. \A j \in 1..Len(queue'[key]) : /\ j + 1 \in 1..Len(queue[key])
                                       /\ queue'[key][j] = queue[key][j + 1]
    <3>1. \A j \in 1..Len(Tail(queue[key])) : /\ j + 1 \in 1..Len(queue[key])
                                              /\ Tail(queue[key])[j] = queue[key][j + 1]
      BY <2>3, TailFacts
    <3>2. QED
      BY <2>2, <3>1
  <2>5. ASSUME NEW k \in Keys, k # key, NEW j \in 1..Len(queue'[k])
        PROVE  /\ j + 0 \in 1..Len(queue[k])
               /\ queue'[k][j] = queue[k][j + 0]
    BY <1>1, <2>1, <2>5
  <2>6. QED
    BY <2>4, <2>5 DEF QueuesShrink
<1>5. \A k \in Keys : \A j \in 1..Len(queue'[k]) :
        /\ j + h[k] \in 1..Len(queue[k]) /\ queue'[k][j] = queue[k][j + h[k]]
        /\ h[k] \in Nat /\ (k = key => 1 < j + h[k])
  <2>1. ASSUME NEW k \in Keys, NEW j \in 1..Len(queue'[k])
        PROVE  k = key => 1 < j + h[k]
    BY <1>1
  <2>2. QED
    BY <1>4, <2>1 DEF QueuesShrink
<1> HIDE DEF P, Q, n, h
<1>6. TagsSeen'
  <2>1. \A i \in 1..Len(Q) : Q[i].tag <= arrivals
    BY <1>2, <1>3 DEF Flow, TagsSeen, P
  <2>2. ASSUME NEW k \in Keys, NEW j \in 1..Len(queue'[k]) PROVE queue'[k][j].tag <= arrivals
    BY <1>5 DEF Flow, TagsSeen
  <2>3. QED
    BY <2>1, <2>2 DEF Flow, TagsSeen, Q
<1>7. TagsApart'
  <2>1. ASSUME NEW i \in 1..Len(Q), NEW j \in 1..Len(Q), Q[i].tag = Q[j].tag PROVE i = j
    BY <1>2, <1>3, <2>1 DEF Flow, TagsApart, P
  <2>2. ASSUME NEW i \in 1..Len(Q), NEW k \in Keys, NEW j \in 1..Len(queue'[k])
        PROVE  Q[i].tag # queue'[k][j].tag
    <3>1. /\ j + h[k] \in 1..Len(queue[k]) /\ queue'[k][j] = queue[k][j + h[k]]
          /\ h[k] \in Nat /\ (k = key => 1 < j + h[k])
      BY <1>5
    <3>2. CASE i = n
      <4>1. Q[i].tag = queue[key][1].tag
        BY <1>2, <1>3, <3>2
      <4>2. CASE k = key
        <5>1. queue[key][1].tag < queue[key][j + h[k]].tag
          BY <1>3, <3>1, <4>2 DEF Flow, FifoParts, QueuesInOrder
        <5>2. queue[key][1].tag \in Nat /\ queue[key][j + h[k]].tag \in Nat
          BY <1>1, <1>3, <3>1, <4>2
        <5>3. queue[key][1].tag # queue[key][j + h[k]].tag
          BY <5>1, <5>2
        <5>4. QED
          BY <3>1, <4>1, <4>2, <5>3
      <4>3. CASE k # key
        BY <1>3, <3>1, <4>1, <4>3 DEF Flow, TagsApart
      <4>4. QED
        BY <4>2, <4>3
    <3>3. CASE i # n
      <4>1. i \in 1..Len(P) /\ Q[i] = P[i]
        BY <1>2, <3>3
      <4>2. P[i].tag # queue[k][j + h[k]].tag
        <5>1. \A x \in 1..Len(pending_packets), y \in Keys : \A z \in 1..Len(queue[y]) :
                pending_packets[x].tag # queue[y][z].tag
          BY DEF Flow, TagsApart
        <5>2. i \in 1..Len(pending_packets) /\ P[i] = pending_packets[i]
          BY <4>1 DEF P
        <5>3. QED
          BY <3>1, <5>1, <5>2
      <4>3. QED
        BY <3>1, <4>1, <4>2
    <3>4. QED
      BY <3>2, <3>3
  <2>3. ASSUME NEW k \in Keys, NEW l \in Keys, NEW i \in 1..Len(queue'[k]),
               NEW j \in 1..Len(queue'[l]), queue'[k][i].tag = queue'[l][j].tag
        PROVE  k = l
    <3>1. /\ i + h[k] \in 1..Len(queue[k]) /\ queue'[k][i] = queue[k][i + h[k]]
          /\ j + h[l] \in 1..Len(queue[l]) /\ queue'[l][j] = queue[l][j + h[l]]
      BY <1>5
    <3>2. QED
      BY <2>3, <3>1 DEF Flow, TagsApart
  <2>4. QED
    BY <2>1, <2>2, <2>3 DEF TagsApart, Q
<1>8. InOrder(Q)
  <2>1. ASSUME NEW i \in 1..Len(Q), NEW j \in 1..Len(Q), i < j, Q[i].key = Q[j].key
        PROVE  Q[i].tag < Q[j].tag
    <3>1. i \in 1..Len(P) /\ Q[i] = P[i]
      BY <1>1, <1>2, <2>1 DEF n
    <3>2. CASE j = n
      <4>1. P[i].key = key /\ Q[j].tag = queue[key][1].tag
        BY <1>2, <1>3, <2>1, <3>1, <3>2
      <4>2. P[i].tag < queue[key][1].tag
        BY <1>3, <3>1, <4>1 DEF Flow, FifoParts, AheadOfQueues, P
      <4>3. QED
        BY <3>1, <4>1, <4>2
    <3>3. CASE j # n
      <4>1. j \in 1..Len(P) /\ Q[j] = P[j]
        BY <1>2, <3>3
      <4>2. QED
        BY <2>1, <3>1, <4>1 DEF Flow, FifoParts, InOrder, P
    <3>4. QED
      BY <3>2, <3>3
  <2>2. QED
    BY <2>1 DEF InOrder
<1>9. Ahead(out, Q)
  <2>1. ASSUME NEW i \in 1..Len(out), NEW j \in 1..Len(Q), out[i].key = Q[j].key
        PROVE  out[i].tag < Q[j].tag
    <3>1. CASE j = n
      <4>1. out[i].key = key /\ Q[j].tag = queue[key][1].tag
        BY <1>2, <1>3, <2>1, <3>1
      <4>2. out[i].tag < queue[key][1].tag
        BY <1>3, <4>1 DEF Flow, FifoParts, AheadOfQueues
      <4>3. QED
        BY <4>1, <4>2
    <3>2. CASE j # n
      <4>1. j \in 1..Len(P) /\ Q[j] = P[j]
        BY <1>2, <3>2
      <4>2. QED
        BY <2>1, <4>1 DEF Flow, FifoParts, Ahead, P
    <3>3. QED
      BY <3>1, <3>2
  <2>2. QED
    BY <2>1 DEF Ahead
<1>10. AheadOfQueues(out, queue')
  <2>1. ASSUME NEW i \in 1..Len(out), NEW j \in 1..Len(queue'[out[i].key])
        PROVE  out[i].tag < queue'[out[i].key][j].tag
    <3>1. out[i].key \in Keys
      BY <1>1
    <3>2. QED
      BY <1>5, <3>1 DEF Flow, FifoParts, AheadOfQueues
  <2>2. QED
    BY <2>1 DEF AheadOfQueues
<1>11. AheadOfQueues(Q, queue')
  <2>1. ASSUME NEW i \in 1..Len(Q), NEW j \in 1..Len(queue'[Q[i].key])
        PROVE  Q[i].tag < queue'[Q[i].key][j].tag
    <3>1. CASE i = n
      <4>1. Q[i].key = key /\ Q[i].tag = queue[key][1].tag
        BY <1>2, <1>3, <3>1
      <4>2. /\ j + h[key] \in 1..Len(queue[key]) /\ queue'[key][j] = queue[key][j + h[key]]
            /\ 1 < j + h[key]
        BY <1>5, <4>1
      <4>3. queue[key][1].tag < queue[key][j + h[key]].tag
        BY <1>3, <4>2 DEF Flow, FifoParts, QueuesInOrder
      <4>4. QED
        BY <4>1, <4>2, <4>3
    <3>2. CASE i # n
      <4>1. i \in 1..Len(P) /\ Q[i] = P[i] /\ P[i].key \in Keys
        BY <1>1, <1>2, <3>2
      <4> DEFINE k == P[i].key
      <4>2. j + h[k] \in 1..Len(queue[k]) /\ queue'[k][j] = queue[k][j + h[k]]
        BY <1>5, <4>1
      <4>3. QED
        BY <4>1, <4>2 DEF Flow, FifoParts, AheadOfQueues, P
    <3>3. QED
      BY <3>1, <3>2
  <2>2. QED
    BY <2>1 DEF AheadOfQueues
<1>12. QueuesInOrder(queue')
  <2>1. ASSUME NEW k \in Keys, NEW i \in 1..Len(queue'[k]), NEW j \in 1..Len(queue'[k]), i < j
        PROVE  queue'[k][i].tag < queue'[k][j].tag
    <3>1. /\ i + h[k] \in 1..Len(queue[k]) /\ queue'[k][i] = queue[k][i + h[k]]
          /\ j + h[k] \in 1..Len(queue[k]) /\ queue'[k][j] = queue[k][j + h[k]] /\ h[k] \in Nat
      BY <1>5
    <3>2. i + h[k] < j + h[k]
      BY <1>1, <2>1, <3>1
    <3>3. QED
      BY <3>1, <3>2 DEF Flow, FifoParts, QueuesInOrder
  <2>2. QED
    BY <2>1 DEF QueuesInOrder
<1>13. QED
  BY <1>6, <1>7, <1>8, <1>9, <1>10, <1>11, <1>12 DEF Flow, FifoParts, Q

(* A datagram arrives at the end of a socket's queue, the newest of all. *)
LEMMA FlowArrives ==
  ASSUME ReceiveTypes, Flow, ReceiveTypes', UNCHANGED <<out, pending_packets>>,
         arrivals' = arrivals + 1, NEW key \in Keys, NEW d \in DatagramType, d.tag = arrivals + 1,
         queue' = [queue EXCEPT ![key] = Append(@, d)]
  PROVE  Flow'
<1> DEFINE P == pending_packets
           n == Len(queue[key]) + 1
<1>0. arrivals \in Nat
  BY ConstantAssumptions DEF ReceiveTypes
<1>1. /\ Len(P) \in Nat /\ Len(out) \in Nat
      /\ \A k \in Keys : Len(queue[k]) \in Nat /\ queue[k] \in Seq(DatagramType)
      /\ \A i \in 1..Len(P) : P[i].tag \in Nat /\ P[i].key \in Keys
      /\ \A i \in 1..Len(out) : out[i].tag \in Nat /\ out[i].key \in Keys
      /\ \A k \in Keys : \A j \in 1..Len(queue[k]) : queue[k][j].tag \in Nat
  BY PacketsPlain, QueuesPlain DEF ReceiveTypes
<1>2. \A k \in Keys : \A j \in 1..Len(queue'[k]) :
        \/ k = key /\ j = n /\ queue'[k][j].tag = arrivals + 1
        \/ j \in 1..Len(queue[k]) /\ queue'[k][j] = queue[k][j] /\ (k = key => j < n)
  <2>1. ASSUME NEW k \in Keys, k # key PROVE queue'[k] = queue[k]
    BY <2>1 DEF ReceiveTypes
  <2>2. queue'[key] = Append(queue[key], d)
    BY DEF ReceiveTypes
  <2>3. queue[key] \in Seq(DatagramType) /\ Len(queue[key]) \in Nat
    BY <1>0, <1>1
  <2>4. \A j \in 1..Len(queue'[key]) : \/ j = n /\ queue'[key][j] = d
                                       \/ /\ j \in 1..Len(queue[key]) /\ j < n
                                          /\ queue'[key][j] = queue[key][j]
    BY <2>2, <2>3
  <2>5. QED
    BY <2>1, <2>4
<1> HIDE DEF P, n
<1>3. TagsSeen'
  <2>1. /\ \A i \in 1..Len(out) : out[i].tag <= arrivals + 1
        /\ \A i \in 1..Len(P) : P[i].tag <= arrivals + 1
    BY <1>0, <1>1 DEF Flow, TagsSeen, P
  <2>2. ASSUME NEW k \in Keys, NEW j \in 1..Len(queue'[k]) PROVE queue'[k][j].tag <= arrivals + 1
    <3>1. CASE queue'[k][j].tag = arrivals + 1
      BY <1>0, <1>1, <3>1
    <3>2. CASE j \in 1..Len(queue[k]) /\ queue'[k][j] = queue[k][j]
      <4>1. queue[k][j].tag <= arrivals /\ queue[k][j].tag \in Nat
        BY <1>0, <1>1, <3>2 DEF Flow, TagsSeen
      <4>2. QED
        BY <1>0, <1>1, <3>2, <4>1
    <3>3. QED
      BY <1>2, <3>1, <3>2
  <2>3. QED
    BY <2>1, <2>2 DEF TagsSeen, P
<1>4. TagsApart'
  <2>1. ASSUME NEW i \in 1..Len(P), NEW k \in Keys, NEW j \in 1..Len(queue'[k])
        PROVE  P[i].tag # queue'[k][j].tag
    <3>1. P[i].tag <= arrivals /\ P[i].tag \in Nat
      BY <1>0, <1>1 DEF Flow, TagsSeen, P
    <3>2. P[i].tag # arrivals + 1
      BY <1>0, <1>1, <3>1
    <3>3. QED
      BY <1>2, <3>2 DEF Flow, TagsApart, P
  <2>2. ASSUME NEW k \in Keys, NEW l \in Keys, NEW i \in 1..Len(queue'[k]),
               NEW j \in 1..Len(queue'[l]), queue'[k][i].tag = queue'[l][j].tag
        PROVE  k = l
    <3>1. \A m \in Keys : \A x \in 1..Len(queue[m]) : queue[m][x].tag # arrivals + 1
      <4>1. \A m \in Keys : \A x \in 1..Len(queue[m]) :
              queue[m][x].tag <= arrivals /\ queue[m][x].tag \in Nat
        BY <1>0, <1>1 DEF Flow, TagsSeen
      <4>2. QED
        BY <1>0, <1>1, <4>1
    <3>2. CASE k = key /\ queue'[k][i].tag = arrivals + 1
      BY <1>2, <2>2, <3>1, <3>2
    <3>3. CASE l = key /\ queue'[l][j].tag = arrivals + 1
      BY <1>2, <2>2, <3>1, <3>3
    <3>4. CASE /\ i \in 1..Len(queue[k]) /\ queue'[k][i] = queue[k][i]
               /\ j \in 1..Len(queue[l]) /\ queue'[l][j] = queue[l][j]
      BY <2>2, <3>4 DEF Flow, TagsApart
    <3>5. QED
      BY <1>2, <3>2, <3>3, <3>4
  <2>3. QED
    BY <2>1, <2>2 DEF Flow, TagsApart, P
<1>5. ASSUME NEW s, Len(s) \in Nat, AheadOfQueues(s, queue),
             \A i \in 1..Len(s) : s[i].tag \in Nat /\ s[i].key \in Keys /\ s[i].tag <= arrivals
      PROVE  AheadOfQueues(s, queue')
  <2>1. ASSUME NEW i \in 1..Len(s), NEW j \in 1..Len(queue'[s[i].key])
        PROVE  s[i].tag < queue'[s[i].key][j].tag
    <3>1. s[i].key \in Keys /\ s[i].tag < arrivals + 1
      BY <1>0, <1>1, <1>5
    <3>2. CASE queue'[s[i].key][j].tag = arrivals + 1
      BY <3>1, <3>2
    <3>3. CASE j \in 1..Len(queue[s[i].key]) /\ queue'[s[i].key][j] = queue[s[i].key][j]
      BY <1>5, <3>3 DEF AheadOfQueues
    <3>4. QED
      BY <1>2, <3>1, <3>2, <3>3
  <2>2. QED
    BY <2>1 DEF AheadOfQueues
<1>6. AheadOfQueues(out, queue') /\ AheadOfQueues(P, queue')
  <2>1. AheadOfQueues(out, queue) /\ AheadOfQueues(P, queue)
    BY DEF Flow, FifoParts, P
  <2>2. /\ \A i \in 1..Len(out) : out[i].tag \in Nat /\ out[i].key \in Keys /\ out[i].tag <= arrivals
        /\ \A i \in 1..Len(P) : P[i].tag \in Nat /\ P[i].key \in Keys /\ P[i].tag <= arrivals
    BY <1>0, <1>1 DEF Flow, TagsSeen, P
  <2>3. QED
    BY <1>0, <1>1, <1>5, <2>1, <2>2
<1>7. QueuesInOrder(queue')
  <2>1. ASSUME NEW k \in Keys, NEW i \in 1..Len(queue'[k]), NEW j \in 1..Len(queue'[k]), i < j
        PROVE  queue'[k][i].tag < queue'[k][j].tag
    <3>1. i \in 1..Len(queue[k]) /\ queue'[k][i] = queue[k][i]
      <4>1. CASE k = key /\ i = n
        <5>1. j \in Nat /\ ~(j = n) /\ ~(j < n) /\ n \in Nat
          BY <1>0, <1>1, <2>1, <4>1 DEF n
        <5>2. QED
          BY <1>2, <4>1, <5>1
      <4>2. QED
        BY <1>2, <4>1
    <3>2. CASE queue'[k][j].tag = arrivals + 1
      <4>1. queue[k][i].tag <= arrivals /\ queue[k][i].tag \in Nat
        BY <1>0, <1>1, <3>1 DEF Flow, TagsSeen
      <4>2. queue[k][i].tag < arrivals + 1
        BY <1>0, <4>1
      <4>3. QED
        BY <3>1, <3>2, <4>2
    <3>3. CASE j \in 1..Len(queue[k]) /\ queue'[k][j] = queue[k][j]
      BY <2>1, <3>1, <3>3 DEF Flow, FifoParts, QueuesInOrder
    <3>4. QED
      BY <1>2, <3>2, <3>3
  <2>2. QED
    BY <2>1 DEF QueuesInOrder
<1>8. QED
  BY <1>3, <1>4, <1>6, <1>7 DEF Flow, FifoParts, P

-----------------------------------------------------------------------------
(* Parts of the invariant that most steps keep for a simple reason. *)

(* Joined subscriptions stay what they are. *)
JoinedKept ==
  \A id \in DOMAIN subscriptions :
    IsJoined(id) => id \in DOMAIN subscriptions' /\ subscriptions'[id] = subscriptions[id]

(* Packets that stay pending are still for joined subscriptions. *)
LEMMA NamesKept ==
  ASSUME ReceiveTypes, PendingNamesJoined, ReceiveTypes', JoinedKept,
         \A i \in 1..Len(pending_packets') : \E j \in 1..Len(pending_packets) :
           pending_packets'[i] = pending_packets[j]
  PROVE  PendingNamesJoined'
<1>1. DOMAIN pending_packets = 1..Len(pending_packets) /\ DOMAIN pending_packets' = 1..Len(pending_packets')
  BY DEF ReceiveTypes
<1>2. ASSUME NEW i \in 1..Len(pending_packets'), NEW id \in pending_packets'[i].ids
      PROVE  IsJoined(id)' /\ subscriptions'[id] = subscriptions[id] /\ id \in DOMAIN subscriptions
  BY <1>1 DEF PendingNamesJoined, JoinedKept, IsJoined
<1>3. QED
  BY <1>1, <1>2 DEF PendingNamesJoined

(* Handing pending packets out keeps the counters in agreement. *)
LEMMA MetricsKept ==
  ASSUME ReceiveTypes, MetricsAgree, metrics' = metrics, ReceiveTypes',
         Len(pending_packets') + Len(out') <= Len(pending_packets) + Len(out)
  PROVE  MetricsAgree'
<1>1. /\ Len(pending_packets) \in Nat /\ Len(out) \in Nat
      /\ Len(pending_packets') \in Nat /\ Len(out') \in Nat
  BY DEF ReceiveTypes
<1>2. metrics.received \in Nat /\ metrics.unmatched \in Nat /\ metrics.matches \in Nat
  BY DEF ReceiveTypes
<1>3. QED
  BY <1>1, <1>2, ConstantAssumptions DEF MetricsAgree

(* Between receive calls, nothing is bounded but the queue. *)
LEMMA IdleShape ==
  ASSUME call' = IdleCall, Len(pending_packets') <= MaxPendingPackets
  PROVE  CallShape' /\ ReceiveBounded'
<1>1. call'.pc = "idle" /\ call'.op = "none"
  BY DEF IdleCall
<1>2. CallShape'
  BY <1>1 DEF CallShape, IdleCall, NoKey
<1>3. ReceiveBounded'
  BY <1>1 DEF ReceiveBounded
<1>4. QED
  BY <1>2, <1>3

(* A socket may have been closed. *)
Closing(q, r) == r = q \/ \E key : r = [q EXCEPT ![key] = <<>>]

(* Closing a capture empties its queue and changes no other. *)
LEMMA ClosedQueues ==
  ASSUME NEW q \in [Keys -> Seq(DatagramType)], NEW r, Closing(q, r)
  PROVE  r \in [Keys -> Seq(DatagramType)] /\ \A k \in Keys : r[k] \in {q[k], <<>>}
<1>1. <<>> \in Seq(DatagramType)
  OBVIOUS
<1>2. CASE r = q
  BY <1>2
<1>3. ASSUME NEW key, r = [q EXCEPT ![key] = <<>>]
      PROVE  r \in [Keys -> Seq(DatagramType)] /\ \A k \in Keys : r[k] \in {q[k], <<>>}
  BY <1>1, <1>3
<1>4. QED
  BY <1>2, <1>3 DEF Closing

(* Registering, joining and a join that fails. *)
LEMMA RegistryStep ==
  ASSUME ReceiveInv, Bookkeeping', Idle, JoinedKept,
         UNCHANGED <<pending_packets, metrics, call, out, arrivals>>,
         Closing(queue, queue')
  PROVE  ReceiveInv'
<1> USE DEF ReceiveInv
<1>1. queue' \in [Keys -> Seq(DatagramType)] /\ \A k \in Keys : queue'[k] \in {queue[k], <<>>}
  BY ClosedQueues DEF ReceiveTypes
<1>2. ReceiveTypes'
  BY <1>1 DEF ReceiveTypes, Bookkeeping
<1>3. call = IdleCall /\ Len(pending_packets) <= MaxPendingPackets
  BY DEF CallShape, Idle, ReceiveBounded
<1>4. CallShape' /\ ReceiveBounded'
  BY <1>3, IdleShape
<1>5. PendingNamesJoined'
  BY <1>2, NamesKept
<1>6. MetricsAgree'
  <2>1. Len(pending_packets) + Len(out) \in Nat
    BY DEF ReceiveTypes
  <2>2. Len(pending_packets') + Len(out') <= Len(pending_packets) + Len(out)
    BY <2>1
  <2>3. QED
    BY <1>2, <2>2, MetricsKept
<1>7. Flow'
  <2> DEFINE g == [i \in 1..Len(pending_packets) |-> i]
             h == [k \in Keys |-> 0]
  <2>1. Comes(pending_packets', pending_packets, g)
    BY DEF Comes, SameDatagram
  <2>2. QueuesShrink(h)
    <3>1. ASSUME NEW k \in Keys, NEW j \in 1..Len(queue'[k])
          PROVE  j + 0 \in 1..Len(queue[k]) /\ queue'[k][j] = queue[k][j + 0]
      <4>1. queue'[k] = queue[k] /\ j + 0 = j
        <5>1. queue'[k] = <<>> => 1..Len(queue'[k]) = {}
          OBVIOUS
        <5>2. Len(queue'[k]) \in Nat
          BY <1>1
        <5>3. QED
          BY <1>1, <5>1, <5>2
      <4>2. QED
        BY <4>1
    <3>2. QED
      BY <3>1 DEF QueuesShrink
  <2> HIDE DEF g, h
  <2>3. QED
    BY <1>2, <2>1, <2>2, FlowShrinks
<1>8. QED
  BY <1>2, <1>4, <1>5, <1>6, <1>7

(* add_subscription touches nothing of the receive path. *)
LEMMA AddReceive ==
  ASSUME Bookkeeping, ReceiveInv, Bookkeeping', NEW cfg \in Configs, AddSubscription(cfg)
  PROVE  ReceiveInv'
<1>1. next_subscription_id \notin DOMAIN subscriptions
  BY DEF Bookkeeping, RegistryTypes, Ids
<1>2. PICK sub : subscriptions' = Put(subscriptions, next_subscription_id, sub)
  BY DEF AddSubscription
<1>3. JoinedKept
  BY <1>1, <1>2 DEF JoinedKept, Put
<1>4. QED
  BY <1>3, RegistryStep DEF AddSubscription, Idle, Closing

(* A join, or a join that fails, opens at most an empty capture. *)
LEMMA JoinReceive ==
  ASSUME Bookkeeping, ReceiveInv, Bookkeeping', NEW id \in DOMAIN subscriptions,
         JoinSubscription(id) \/ JoinFails(id)
  PROVE  ReceiveInv'
<1>1. CASE JoinSubscription(id)
  <2>1. JoinedKept
    <3>1. ~IsJoined(id) /\ subscriptions' = [subscriptions EXCEPT ![id].state = "Joined"]
      BY <1>1 DEF JoinSubscription
    <3>2. QED
      BY <3>1 DEF JoinedKept
  <2>2. QED
    BY <1>1, <2>1, RegistryStep DEF JoinSubscription, Idle, Closing
<1>2. CASE JoinFails(id)
  <2>1. JoinedKept
    BY <1>2 DEF JoinedKept, JoinFails, registry
  <2>2. Closing(queue, queue')
    BY <1>2 DEF JoinFails, RemoveCapture, Closing
  <2>3. Idle /\ UNCHANGED <<pending_packets, metrics, call, out, arrivals>>
    BY <1>2 DEF JoinFails
  <2>4. QED
    BY <2>1, <2>2, <2>3, RegistryStep
<1>3. QED
  BY <1>1, <1>2

(* Leaving: the queue loses what was for the one who leaves alone. *)
LEMMA LeaveReceive ==
  ASSUME Bookkeeping, ReceiveInv, Bookkeeping', NEW id \in DOMAIN subscriptions, Idle, Leave(id),
         \A other \in DOMAIN subscriptions \ {id} :
           other \in DOMAIN subscriptions' /\ subscriptions'[other] = subscriptions[other]
  PROVE  ReceiveInv'
<1> USE DEF ReceiveInv
<1> DEFINE P == pending_packets
           Q == pending_packets'
           g == [n \in 1..Len(Q) |-> Nth(Kept(id), n)]
<1>1. /\ Q \in Seq(PacketType) /\ Len(Q) <= Len(P) /\ Comes(Q, P, g)
      /\ \A n \in 1..Len(Q) : /\ g[n] \in Kept(id) /\ Labelled(Q[n])
                              /\ Q[n].ids = P[g[n]].ids \ {id}
  <2>1. Q = RemovePendingMembership(P, id)
    BY DEF Leave
  <2>2. RegistryTypes
    BY DEF Bookkeeping
  <2>3. QED
    BY <2>1, <2>2, RemovePendingFacts
<1>2. UNCHANGED <<metrics, call, out, arrivals>>
  BY DEF Leave
<1>3. Closing(queue, queue')
  BY DEF Leave, RemoveCapture, Closing
<1>4. queue' \in [Keys -> Seq(DatagramType)] /\ \A k \in Keys : queue'[k] \in {queue[k], <<>>}
  BY <1>3, ClosedQueues DEF ReceiveTypes
<1>5. ReceiveTypes'
  BY <1>1, <1>2, <1>4 DEF ReceiveTypes, Bookkeeping
<1>6. Len(P) \in Nat /\ Len(Q) \in Nat /\ Len(out) \in Nat
  BY <1>5 DEF ReceiveTypes
<1>7. CallShape' /\ ReceiveBounded'
  <2>1. call = IdleCall /\ Len(P) <= MaxPendingPackets
    BY DEF CallShape, Idle, ReceiveBounded
  <2>2. Len(Q) <= MaxPendingPackets
    BY <1>1, <1>6, <2>1, ConstantAssumptions
  <2>3. QED
    BY <1>2, <2>1, <2>2, IdleShape
<1>8. MetricsAgree'
  <2>1. Len(pending_packets') + Len(out') <= Len(pending_packets) + Len(out)
    BY <1>1, <1>2, <1>6
  <2>2. QED
    BY <1>2, <1>5, <2>1, MetricsKept
<1>9. Flow'
  <2> DEFINE h == [k \in Keys |-> 0]
  <2>1. QueuesShrink(h)
    <3>1. ASSUME NEW k \in Keys, NEW j \in 1..Len(queue'[k])
          PROVE  j + 0 \in 1..Len(queue[k]) /\ queue'[k][j] = queue[k][j + 0]
      <4>1. queue'[k] = queue[k] /\ j + 0 = j
        <5>1. queue'[k] = <<>> => 1..Len(queue'[k]) = {}
          OBVIOUS
        <5>2. Len(queue'[k]) \in Nat
          BY <1>4
        <5>3. QED
          BY <1>4, <5>1, <5>2
      <4>2. QED
        BY <4>1
    <3>2. QED
      BY <3>1 DEF QueuesShrink
  <2> HIDE DEF g, h
  <2>2. QED
    BY <1>1, <1>2, <1>5, <2>1, FlowShrinks
<1>10. PendingNamesJoined'
  <2>1. DOMAIN P = 1..Len(P) /\ DOMAIN Q = 1..Len(Q)
    BY <1>5 DEF ReceiveTypes
  <2>2. ASSUME NEW n \in 1..Len(Q)
        PROVE  LET p == Q[n] IN
               /\ p.ids # {}
               /\ \A x \in p.ids : /\ IsJoined(x)'
                                   /\ subscriptions'[x].config.group = p.group
                                   /\ subscriptions'[x].config.source \in {AnySource, p.source}
                                   /\ subscriptions'[x].capture_key = p.key
                                   /\ p.subscription_id <= x
               /\ p.subscription_id \in p.ids
               /\ p.interface = subscriptions'[p.subscription_id].config.selector
    <3> DEFINE p == Q[n]
               o == P[g[n]]
    <3>1. g[n] \in 1..Len(P) /\ SameDatagram(p, o) /\ Labelled(p) /\ p.ids = o.ids \ {id}
      BY <1>1 DEF Comes
    <3> HIDE DEF p, o, g
    <3>2. \A x \in o.ids : /\ IsJoined(x)
                           /\ subscriptions[x].config.group = o.group
                           /\ subscriptions[x].config.source \in {AnySource, o.source}
                           /\ subscriptions[x].capture_key = o.key
      BY <2>1, <3>1 DEF PendingNamesJoined, o
    <3>3. \A x \in p.ids : /\ x \in DOMAIN subscriptions \ {id} /\ IsJoined(x)'
                           /\ subscriptions'[x] = subscriptions[x]
      BY <3>1, <3>2 DEF IsJoined
    <3>4. /\ p.ids # {} /\ p.subscription_id \in p.ids /\ \A x \in p.ids : p.subscription_id <= x
          /\ p.interface = subscriptions[p.subscription_id].config.selector
      BY <3>1 DEF Labelled
    <3>5. \A x \in p.ids : /\ subscriptions[x].config.group = p.group
                           /\ subscriptions[x].config.source \in {AnySource, p.source}
                           /\ subscriptions[x].capture_key = p.key
      BY <3>1, <3>2 DEF SameDatagram
    <3>6. QED
      BY <3>3, <3>4, <3>5 DEF p
  <2>3. QED
    BY <2>1, <2>2 DEF PendingNamesJoined
<1>11. QED
  BY <1>5, <1>7, <1>8, <1>9, <1>10

(* A leave drops the pending packets of its own subscription. *)
LEMMA LeaveOrRemoveReceive ==
  ASSUME Bookkeeping, ReceiveInv, Bookkeeping', NEW id \in DOMAIN subscriptions,
         LeaveSubscription(id) \/ RemoveSubscription(id)
  PROVE  ReceiveInv'
<1>1. CASE LeaveSubscription(id)
  <2>1. \A other \in DOMAIN subscriptions \ {id} :
          other \in DOMAIN subscriptions' /\ subscriptions'[other] = subscriptions[other]
    BY <1>1 DEF LeaveSubscription
  <2>2. QED
    BY <1>1, <2>1, LeaveReceive DEF LeaveSubscription
<1>2. CASE RemoveSubscription(id)
  <2>1. \A other \in DOMAIN subscriptions \ {id} :
          other \in DOMAIN subscriptions' /\ subscriptions'[other] = subscriptions[other]
    BY <1>2 DEF RemoveSubscription, Drop
  <2>2. CASE IsJoined(id)
    BY <1>2, <2>1, <2>2, LeaveReceive DEF RemoveSubscription
  <2>3. CASE ~IsJoined(id)
    <3>1. JoinedKept
      BY <2>1, <2>3 DEF JoinedKept
    <3>2. QED
      BY <1>2, <2>3, <3>1, RegistryStep DEF RemoveSubscription, Closing
  <2>4. QED
    BY <2>2, <2>3
<1>3. QED
  BY <1>1, <1>2

-----------------------------------------------------------------------------
(* Receiving. *)

(* Packets move to the caller. *)
LEMMA DrainStep ==
  ASSUME ReceiveInv, UNCHANGED <<registry, next_capture_index, metrics, queue, arrivals>>,
         call' \in CallType, NEW n \in 0..Len(pending_packets),
         pending_packets' = Remaining(pending_packets, n),
         \/ out' = Drained(pending_packets, n)
         \/ out' = out \o Drained(pending_packets, n)
  PROVE  /\ ReceiveTypes' /\ PendingNamesJoined' /\ Flow' /\ MetricsAgree'
         /\ Len(pending_packets') = Len(pending_packets) - n
         /\ Len(pending_packets) \in Nat /\ Len(out) \in Nat /\ Len(out') \in Nat
         /\ out' = Drained(pending_packets, n) => Len(out') = n
         /\ out' = out \o Drained(pending_packets, n) => Len(out') = Len(out) + n
<1> USE DEF ReceiveInv
<1> DEFINE P == pending_packets
           Q == pending_packets'
<1>1. P \in Seq(PacketType) /\ out \in Seq(PacketType) /\ Len(P) \in Nat /\ Len(out) \in Nat
  BY DEF ReceiveTypes
<1>2. /\ Drained(P, n) \in Seq(PacketType) /\ Len(Drained(P, n)) = n
      /\ Q \in Seq(PacketType) /\ Len(Q) = Len(P) - n
      /\ \A i \in 1..Len(Q) : i + n \in 1..Len(P) /\ Q[i] = P[i + n]
  BY <1>1, DrainFacts
<1>3. /\ out' \in Seq(PacketType)
      /\ out' = Drained(P, n) => Len(out') = n
      /\ out' = out \o Drained(P, n) => Len(out') = Len(out) + n
  <2>1. ASSUME NEW d \in Seq(PacketType)
        PROVE  out \o d \in Seq(PacketType) /\ Len(out \o d) = Len(out) + Len(d)
    BY <1>1
  <2>2. QED
    BY <1>2, <2>1
<1>4. ReceiveTypes'
  BY <1>2, <1>3 DEF ReceiveTypes
<1>5. PendingNamesJoined'
  <2>1. JoinedKept
    BY DEF JoinedKept, registry
  <2>2. QED
    BY <1>2, <1>4, <2>1, NamesKept
<1>6. Flow'
  BY <1>4, FlowDrains
<1>7. Len(out') \in Nat /\ Len(Q) + Len(out') <= Len(P) + Len(out)
  BY <1>1, <1>2, <1>3
<1>8. MetricsAgree'
  BY <1>4, <1>7, MetricsKept
<1>9. QED
  BY <1>1, <1>2, <1>3, <1>4, <1>5, <1>6, <1>7, <1>8

(* The call after fill_pending has been started with an empty queue. *)
LEMMA FillShape ==
  ASSUME Bookkeeping, NEW op \in {"any", "batch"}, NEW max \in Nat, NEW received \in Nat,
         received < max, call' = StartFill(op, max, received, <<>>),
         Len(pending_packets') = 0, op = "batch" => received = Len(out')
  PROVE  call' \in CallType /\ CallShape' /\ ReceiveBounded'
<1> DEFINE c == StartFill(op, max, received, <<>>)
<1>1. /\ c \in CallType
      /\ \/ c = IdleCall
         \/ /\ c.pc = "visit" /\ c.op = op /\ c.max = max /\ c.received = received
            /\ c.target \in Nat \ {0} /\ c.target <= MaxPendingPackets
            /\ c.queued = 0 /\ c.captured = 0 /\ c.reads = 0 /\ c.filtered = 0
  BY StartFillFacts
<1> HIDE DEF c
<1>2. CASE c = IdleCall
  <2>1. Len(pending_packets') <= MaxPendingPackets /\ call' = IdleCall
    BY <1>2, ConstantAssumptions DEF c
  <2>2. QED
    BY <1>1, <2>1, IdleShape DEF c
<1>3. CASE /\ c.pc = "visit" /\ c.op = op /\ c.max = max /\ c.received = received
           /\ c.target \in Nat \ {0} /\ c.target <= MaxPendingPackets
           /\ c.queued = 0 /\ c.captured = 0 /\ c.reads = 0 /\ c.filtered = 0
  <2>1. call' = c /\ c.budget \in Nat
    BY <1>1 DEF c, CallType
  <2>2. CallShape'
    BY <1>3, <2>1, ConstantAssumptions DEF CallShape
  <2>3. ReceiveBounded'
    BY <1>3, <2>1, ConstantAssumptions DEF ReceiveBounded
  <2>4. QED
    BY <1>1, <2>1, <2>2, <2>3
<1>4. QED
  BY <1>1, <1>2, <1>3

(* try_recv_any takes a pending packet, or begins to scan. *)
LEMMA TryRecvAnyReceive ==
  ASSUME Bookkeeping, ReceiveInv, TryRecvAny
  PROVE  ReceiveInv'
<1>0. ReceiveTypes /\ pending_packets \in Seq(PacketType) /\ Len(pending_packets) \in Nat
  BY DEF ReceiveInv, ReceiveTypes
<1>1. UNCHANGED <<registry, next_capture_index, metrics, queue, arrivals>>
  BY DEF TryRecvAny
<1>2. CASE pending_packets # <<>>
  <2>1. /\ 1 \in 0..Len(pending_packets) /\ call' = call
        /\ out' = Drained(pending_packets, 1) /\ pending_packets' = Remaining(pending_packets, 1)
    BY <1>0, <1>2 DEF TryRecvAny
  <2>2. call = IdleCall /\ call' \in CallType /\ Len(pending_packets) <= MaxPendingPackets
    BY <1>0, <2>1 DEF TryRecvAny, ReceiveInv, CallShape, Idle, ReceiveTypes, ReceiveBounded
  <2>3. /\ ReceiveTypes' /\ PendingNamesJoined' /\ Flow' /\ MetricsAgree'
        /\ Len(pending_packets') = Len(pending_packets) - 1
    BY <1>1, <2>1, <2>2, DrainStep
  <2>4. CallShape' /\ ReceiveBounded'
    <3>1. Len(pending_packets') <= MaxPendingPackets
      BY <1>0, <2>2, <2>3, ConstantAssumptions
    <3>2. QED
      BY <2>1, <2>2, <3>1, IdleShape
  <2>5. QED
    BY <2>3, <2>4 DEF ReceiveInv
<1>3. CASE pending_packets = <<>>
  <2>1. /\ 0 \in 0..Len(pending_packets) /\ Len(pending_packets) = 0
        /\ out' = <<>> /\ pending_packets' = pending_packets
        /\ call' = StartFill("any", 1, 0, <<>>)
    BY <1>0, <1>3 DEF TryRecvAny
  <2>2. <<>> = Drained(pending_packets, 0) /\ pending_packets = Remaining(pending_packets, 0)
    BY <1>3 DEF Drained, Remaining
  <2>3. call' \in CallType /\ CallShape' /\ ReceiveBounded'
    BY <2>1, FillShape
  <2>4. ReceiveTypes' /\ PendingNamesJoined' /\ Flow' /\ MetricsAgree'
    BY <1>1, <2>1, <2>2, <2>3, DrainStep
  <2>5. QED
    BY <2>3, <2>4 DEF ReceiveInv
<1>4. QED
  BY <1>2, <1>3

(* try_recv_batch_into takes pending packets, or begins to scan. *)
LEMMA TryRecvBatchReceive ==
  ASSUME Bookkeeping, ReceiveInv, NEW max \in BatchSizes, TryRecvBatchInto(max)
  PROVE  ReceiveInv'
<1> DEFINE n == Smaller(max, Len(pending_packets))
<1>0. ReceiveTypes /\ pending_packets \in Seq(PacketType) /\ Len(pending_packets) \in Nat /\ max \in Nat
  BY ConstantAssumptions DEF ReceiveInv, ReceiveTypes
<1>1. UNCHANGED <<registry, next_capture_index, metrics, queue, arrivals>>
  BY DEF TryRecvBatchInto
<1>2. /\ n \in 0..Len(pending_packets) /\ n \in Nat /\ n <= max
      /\ n < max => n = Len(pending_packets)
  BY <1>0 DEF Smaller
<1>3. /\ out' = Drained(pending_packets, n) /\ pending_packets' = Remaining(pending_packets, n)
      /\ call' = IF n < max THEN StartFill("batch", max, n, pending_packets') ELSE IdleCall
  BY DEF TryRecvBatchInto
<1> HIDE DEF n
<1>4. Len(pending_packets) <= MaxPendingPackets
  BY DEF ReceiveInv, ReceiveBounded
<1>5. CASE n < max
  <2>1. pending_packets' = <<>> /\ Len(out') = n /\ out' \in Seq(PacketType)
    <3>1. /\ Drained(pending_packets, n) \in Seq(PacketType)
          /\ Len(Drained(pending_packets, n)) = n
          /\ Remaining(pending_packets, n) \in Seq(PacketType)
          /\ Len(Remaining(pending_packets, n)) = Len(pending_packets) - n
      BY <1>0, <1>2, DrainFacts
    <3>2. Len(Remaining(pending_packets, n)) = 0
      BY <1>0, <1>2, <1>5, <3>1
    <3>3. QED
      BY <1>3, <3>1, <3>2
  <2>2. call' = StartFill("batch", max, n, <<>>)
    BY <1>3, <1>5, <2>1
  <2>3. Len(pending_packets') = 0
    BY <2>1
  <2>4. call' \in CallType /\ CallShape' /\ ReceiveBounded'
    BY <1>0, <1>2, <1>5, <2>1, <2>2, <2>3, FillShape
  <2>5. ReceiveTypes' /\ PendingNamesJoined' /\ Flow' /\ MetricsAgree'
    BY <1>1, <1>2, <1>3, <2>4, DrainStep
  <2>6. QED
    BY <2>4, <2>5 DEF ReceiveInv
<1>6. CASE ~(n < max)
  <2>1. call' = IdleCall /\ call' \in CallType
    BY <1>3, <1>6 DEF IdleCall, CallType
  <2>2. /\ ReceiveTypes' /\ PendingNamesJoined' /\ Flow' /\ MetricsAgree'
        /\ Len(pending_packets') = Len(pending_packets) - n
    BY <1>1, <1>2, <1>3, <2>1, DrainStep
  <2>3. Len(pending_packets') <= MaxPendingPackets
    BY <1>0, <1>2, <1>4, <2>2, ConstantAssumptions
  <2>4. CallShape' /\ ReceiveBounded'
    BY <2>1, <2>3, IdleShape
  <2>5. QED
    BY <2>2, <2>4 DEF ReceiveInv
<1>7. QED
  BY <1>5, <1>6

(* A step of the call in progress that queues nothing and hands over       *)
(* nothing, but may have read a datagram nobody can use.                   *)
LEMMA CallStep ==
  ASSUME ReceiveInv, UNCHANGED <<registry, pending_packets, metrics, out, arrivals>>,
         next_capture_index' \in Nat, call' \in CallType,
         \/ queue' = queue
         \/ \E key \in Keys : queue[key] # <<>> /\ queue' = [queue EXCEPT ![key] = Tail(@)]
  PROVE  ReceiveTypes' /\ PendingNamesJoined' /\ Flow' /\ MetricsAgree'
<1> USE DEF ReceiveInv
<1>1. PICK h : QueuesShrink(h) /\ queue' \in [Keys -> Seq(DatagramType)]
  <2>1. \A k \in Keys : queue[k] \in Seq(DatagramType) /\ Len(queue[k]) \in Nat
    BY DEF ReceiveTypes
  <2>2. CASE queue' = queue
    <3> DEFINE h == [k \in Keys |-> 0]
    <3>1. ASSUME NEW k \in Keys, NEW j \in 1..Len(queue'[k])
          PROVE  j + 0 \in 1..Len(queue[k]) /\ queue'[k][j] = queue[k][j + 0]
      BY <2>1, <2>2
    <3>2. QueuesShrink(h)
      BY <3>1 DEF QueuesShrink
    <3> HIDE DEF h
    <3>3. QED
      BY <2>2, <3>2 DEF ReceiveTypes
  <2>3. ASSUME NEW key \in Keys, queue[key] # <<>>, queue' = [queue EXCEPT ![key] = Tail(@)]
        PROVE  \E h : QueuesShrink(h) /\ queue' \in [Keys -> Seq(DatagramType)]
    <3> DEFINE h == [k \in Keys |-> IF k = key THEN 1 ELSE 0]
    <3>1. ASSUME NEW k \in Keys, k # key PROVE queue'[k] = queue[k]
      BY <2>3, <3>1 DEF ReceiveTypes
    <3>2. queue'[key] = Tail(queue[key])
      BY <2>3 DEF ReceiveTypes
    <3>3. /\ Tail(queue[key]) \in Seq(DatagramType)
          /\ \A j \in 1..Len(Tail(queue[key])) : /\ j + 1 \in 1..Len(queue[key])
                                                 /\ Tail(queue[key])[j] = queue[key][j + 1]
      BY <2>1, <2>3, TailFacts
    <3>4. ASSUME NEW k \in Keys, k # key, NEW j \in 1..Len(queue'[k])
          PROVE  j + 0 \in 1..Len(queue[k]) /\ queue'[k][j] = queue[k][j + 0]
      BY <2>1, <3>1, <3>4
    <3>5. QueuesShrink(h)
      BY <3>2, <3>3, <3>4 DEF QueuesShrink
    <3>6. queue' \in [Keys -> Seq(DatagramType)]
      BY <2>1, <2>3, <3>3 DEF ReceiveTypes
    <3> HIDE DEF h
    <3>7. QED
      BY <3>5, <3>6
  <2>4. QED
    BY <2>2, <2>3
<1>2. ReceiveTypes'
  BY <1>1 DEF ReceiveTypes
<1>3. PendingNamesJoined'
  <2>1. JoinedKept
    BY DEF JoinedKept, registry
  <2>2. QED
    BY <1>2, <2>1, NamesKept
<1>4. MetricsAgree'
  <2>1. Len(pending_packets) + Len(out) \in Nat
    BY DEF ReceiveTypes
  <2>2. Len(pending_packets') + Len(out') <= Len(pending_packets) + Len(out)
    BY <2>1
  <2>3. QED
    BY <1>2, <2>2, MetricsKept
<1>5. Flow'
  <2> DEFINE g == [i \in 1..Len(pending_packets) |-> i]
  <2>1. Comes(pending_packets', pending_packets, g)
    BY DEF Comes, SameDatagram
  <2> HIDE DEF g
  <2>2. QED
    BY <1>1, <1>2, <2>1, FlowShrinks
<1>6. QED
  BY <1>2, <1>3, <1>4, <1>5

(* The scan moves to the next capture, or ends. *)
LEMMA VisitReceive ==
  ASSUME Bookkeeping, ReceiveInv, Bookkeeping', VisitCapture
  PROVE  ReceiveInv'
<1> USE DEF ReceiveInv
<1>1. call \in CallType
  BY DEF ReceiveTypes
<1>2. capture_order[next_capture_index + 1] \in DOMAIN captures /\ DOMAIN captures \subseteq Keys
  <2>1. capture_order # <<>> /\ Lists(capture_order, DOMAIN captures)
    BY OrderLists DEF VisitCapture, Bookkeeping, CallHasCaptures
  <2>2. next_capture_index + 1 \in 1..Len(capture_order)
    BY <2>1 DEF Bookkeeping, CaptureOrderInSync, Lists
  <2>3. QED
    BY <2>1, <2>2 DEF Lists, Bookkeeping, SocketTypes
<1>3. /\ call' = [call EXCEPT !.pc = "read", !.visits = @ - 1, !.reads = 0, !.filtered = 0,
                              !.key = capture_order[next_capture_index + 1]]
      /\ call.pc = "visit" /\ call.visits > 0
  BY DEF VisitCapture
<1>4. /\ call' \in CallType /\ call'.pc = "read" /\ call'.op = call.op /\ call'.target = call.target
      /\ call'.reads = 0 /\ call'.filtered = 0 /\ call'.key \in DOMAIN captures
      /\ call'.received = call.received /\ call'.max = call.max /\ call'.queued = call.queued
      /\ call'.captured = call.captured /\ call'.budget = call.budget
  <2>1. call.visits \in Nat /\ call.visits - 1 \in Nat
    BY <1>1, <1>3 DEF CallType
  <2> DEFINE key == capture_order[next_capture_index + 1]
  <2>2. key \in Keys
    BY <1>2
  <2> HIDE DEF key
  <2>3. /\ call' = [call EXCEPT !.pc = "read", !.visits = @ - 1, !.reads = 0, !.filtered = 0,
                                !.key = key]
        /\ key \in DOMAIN captures
    BY <1>2, <1>3 DEF key
  <2>4. QED
    BY <1>1, <2>1, <2>2, <2>3 DEF CallType
<1>5. UNCHANGED <<registry, captures, pending_packets, metrics, out, arrivals, queue>>
  BY DEF VisitCapture, sockets
<1>6. ReceiveTypes' /\ PendingNamesJoined' /\ Flow' /\ MetricsAgree'
  <2>1. next_capture_index' \in Nat
    BY DEF Bookkeeping
  <2>2. QED
    BY <1>4, <1>5, <2>1, CallStep
<1>7. CallShape'
  BY <1>1, <1>3, <1>4, <1>5, ConstantAssumptions DEF CallShape, CallType
<1>8. ReceiveBounded'
  BY <1>3, <1>4, <1>5 DEF ReceiveBounded
<1>9. QED
  BY <1>6, <1>7, <1>8

(* The inner loop over one capture ends, or drops what it cannot parse. *)
LEMMA InnerLoopReceive ==
  ASSUME Bookkeeping, ReceiveInv, Bookkeeping', LeaveInnerLoop \/ WouldBlock \/ SkipUnparsed
  PROVE  ReceiveInv'
<1> USE DEF ReceiveInv
<1>1. call \in CallType /\ call.pc = "read"
  BY DEF ReceiveTypes, LeaveInnerLoop, WouldBlock, SkipUnparsed, MayRead
<1>2. UNCHANGED <<registry, captures, pending_packets, metrics, out, arrivals>>
  BY DEF LeaveInnerLoop, WouldBlock, SkipUnparsed, sockets
<1>3. \/ \E pc \in {"visit", "done"} : call' = [call EXCEPT !.pc = pc]
      \/ call.filtered + 1 # FilterBudget /\ call' = [call EXCEPT !.filtered = @ + 1]
  BY DEF LeaveInnerLoop, WouldBlock, SkipUnparsed
<1>4. /\ call' \in CallType /\ call'.op = call.op /\ call'.target = call.target
      /\ call'.reads = call.reads /\ call'.key = call.key
      /\ call'.received = call.received /\ call'.max = call.max /\ call'.queued = call.queued
      /\ call'.captured = call.captured /\ call'.budget = call.budget
      /\ \/ call'.pc \in {"visit", "done"} /\ call'.filtered = call.filtered
         \/ call'.pc = "read" /\ call'.filtered = call.filtered + 1
                              /\ call.filtered + 1 # FilterBudget
  <2>1. ASSUME NEW pc \in {"visit", "done"}, call' = [call EXCEPT !.pc = pc]
        PROVE  /\ call' \in CallType /\ call'.op = call.op /\ call'.target = call.target
               /\ call'.reads = call.reads /\ call'.key = call.key
               /\ call'.received = call.received /\ call'.max = call.max
               /\ call'.queued = call.queued
               /\ call'.captured = call.captured /\ call'.budget = call.budget
               /\ call'.pc \in {"visit", "done"} /\ call'.filtered = call.filtered
    BY <1>1, <2>1 DEF CallType
  <2>2. CASE call.filtered + 1 # FilterBudget /\ call' = [call EXCEPT !.filtered = @ + 1]
    BY <1>1, <2>2 DEF CallType
  <2>3. QED
    BY <1>3, <2>1, <2>2
<1>5. ReceiveTypes' /\ PendingNamesJoined' /\ Flow' /\ MetricsAgree'
  <2>1. call.key \in Keys
    BY <1>1 DEF CallShape, Bookkeeping, SocketTypes
  <2>2. \/ queue' = queue
        \/ \E key \in Keys : queue[key] # <<>> /\ queue' = [queue EXCEPT ![key] = Tail(@)]
    BY <2>1 DEF LeaveInnerLoop, WouldBlock, SkipUnparsed, TakeHead
  <2>3. next_capture_index' \in Nat
    BY DEF Bookkeeping
  <2>4. QED
    BY <1>2, <1>4, <2>2, <2>3, CallStep
<1>6. CallShape'
  <2>1. call.filtered \in Nat /\ FilterBudget \in Nat
    BY <1>1, ConstantAssumptions DEF CallType
  <2>2. call'.filtered < FilterBudget
    BY <1>1, <1>4, <2>1 DEF CallShape
  <2>3. QED
    BY <1>1, <1>2, <1>4, <2>2 DEF CallShape
<1>7. ReceiveBounded'
  BY <1>1, <1>2, <1>4 DEF ReceiveBounded
<1>8. QED
  BY <1>5, <1>6, <1>7

(* An error of a capture ends the call; what it found stays pending. *)
LEMMA FailReceive ==
  ASSUME Bookkeeping, ReceiveInv, Bookkeeping', ReceiveFails
  PROVE  ReceiveInv'
<1> USE DEF ReceiveInv
<1>1. call' = IdleCall /\ call' \in CallType
  BY DEF ReceiveFails, IdleCall, CallType
<1>2. UNCHANGED <<registry, pending_packets, metrics, out, arrivals, queue>>
  BY DEF ReceiveFails
<1>3. ReceiveTypes' /\ PendingNamesJoined' /\ Flow' /\ MetricsAgree'
  <2>1. next_capture_index' \in Nat
    BY DEF Bookkeeping
  <2>2. QED
    BY <1>1, <1>2, <2>1, CallStep
<1>4. CallShape' /\ ReceiveBounded'
  BY <1>1, <1>2, IdleShape DEF ReceiveBounded
<1>5. QED
  BY <1>3, <1>4

(* fill_pending has returned. *)
LEMMA FillReturnsReceive ==
  ASSUME Bookkeeping, ReceiveInv, FillReturns
  PROVE  ReceiveInv'
<1> USE DEF ReceiveInv
<1> DEFINE P == pending_packets
           n == IF call.op = "any" THEN Smaller(1, Len(P))
                ELSE IF call.queued = 0 THEN 0
                ELSE Smaller(call.max - call.received, Len(P))
<1>1. /\ call \in CallType /\ P \in Seq(PacketType) /\ Len(P) \in Nat /\ Len(out) \in Nat
      /\ call.max \in Nat /\ call.received \in Nat /\ call.queued \in Nat
  BY SMTT(20) DEF ReceiveTypes, CallType
<1>2. call.pc # "idle" /\ Len(P) <= MaxPendingPackets
  BY DEF FillReturns, ReceiveBounded
<1>3. call.op = "batch" => call.received = Len(out) /\ call.received < call.max
  BY DEF ReceiveBounded
<1>4. call.op \in {"any", "batch"}
  BY <1>2 DEF CallShape
<1>5. /\ n \in 0..Len(P) /\ n \in Nat
      /\ call.op = "batch" /\ call.queued > 0 =>
           call.received + n <= call.max /\ (call.received + n < call.max => n = Len(P))
  <2>1. CASE call.op = "any"
    BY <1>1, <2>1 DEF Smaller
  <2>2. CASE call.op = "batch"
    <3>1. call.max - call.received \in Nat
      BY <1>1, <1>3, <2>2
    <3>2. QED
      BY <1>1, <2>2, <3>1 DEF Smaller
  <2>3. QED
    BY <1>4, <2>1, <2>2
<1>6. /\ out' = out \o Drained(P, n) /\ pending_packets' = Remaining(P, n)
      /\ call' = IF call.op = "batch" /\ call.queued > 0 /\ call.received + n < call.max
                 THEN StartFill("batch", call.max, call.received + n, pending_packets')
                 ELSE IdleCall
      /\ UNCHANGED <<registry, next_capture_index, metrics, queue, arrivals>>
  BY DEF FillReturns
<1> HIDE DEF n
<1>7. CASE call.op = "batch" /\ call.queued > 0 /\ call.received + n < call.max
  <2>1. n = Len(P)
    BY <1>5, <1>7
  <2>2. /\ Drained(P, n) \in Seq(PacketType) /\ Len(Drained(P, n)) = n
        /\ Remaining(P, n) \in Seq(PacketType)
        /\ Len(Remaining(P, n)) = Len(P) - n
    BY <1>1, <1>5, DrainFacts
  <2>3. pending_packets' = <<>> /\ Len(pending_packets') = 0
    BY <1>1, <1>6, <2>1, <2>2
  <2>4. Len(out') = call.received + n
    <3>1. out \in Seq(PacketType)
      BY DEF ReceiveTypes
    <3>2. ASSUME NEW d \in Seq(PacketType) PROVE Len(out \o d) = Len(out) + Len(d)
      BY <3>1
    <3>3. Len(out') = Len(out) + n
      BY <1>6, <2>2, <3>2
    <3>4. QED
      BY <1>3, <1>7, <3>3
  <2>5. call.received + n \in Nat
    BY <1>1, <1>5
  <2>6. call' \in CallType /\ CallShape' /\ ReceiveBounded'
    BY <1>1, <1>6, <1>7, <2>3, <2>4, <2>5, FillShape
  <2>7. ReceiveTypes' /\ PendingNamesJoined' /\ Flow' /\ MetricsAgree'
    BY <1>5, <1>6, <2>6, DrainStep
  <2>8. QED
    BY <2>6, <2>7
<1>8. CASE ~(call.op = "batch" /\ call.queued > 0 /\ call.received + n < call.max)
  <2>1. call' = IdleCall
    BY <1>6, <1>8
  <2>2. call' \in CallType
    BY <2>1 DEF IdleCall, CallType
  <2>3. /\ ReceiveTypes' /\ PendingNamesJoined' /\ Flow' /\ MetricsAgree'
        /\ Len(pending_packets') = Len(P) - n
    BY <1>5, <1>6, <2>2, DrainStep
  <2>4. Len(pending_packets') <= MaxPendingPackets
    BY <1>1, <1>2, <1>5, <2>3, ConstantAssumptions
  <2>5. CallShape' /\ ReceiveBounded'
    BY <2>1, <2>4, IdleShape
  <2>6. QED
    BY <2>3, <2>5
<1>9. QED
  BY <1>7, <1>8

(* Who is told of a datagram: the subscriptions joined on its capture that *)
(* its group and source match.                                             *)
Wanting(key, d) == {id \in JoinedOn(key) : /\ subscriptions[id].config.group = d.group
                                           /\ subscriptions[id].config.source \in {AnySource, d.source}}

(* The demultiplexer finds exactly the subscriptions that want a datagram. *)
LEMMA MatchesExact ==
  ASSUME Bookkeeping, NEW key \in DOMAIN captures, NEW d
  PROVE  /\ Matches(captures[key].demultiplexer, d) = Wanting(key, d)
         /\ IsFiniteSet(Wanting(key, d)) /\ Wanting(key, d) \in SUBSET DOMAIN subscriptions
<1>1. captures[key].demultiplexer =
        {<<id, subscriptions[id].config.group, subscriptions[id].config.source>> : id \in JoinedOn(key)}
  BY DEF Bookkeeping, DemultiplexerExact, DemuxEntry
<1>2. \A x : x \in Matches(captures[key].demultiplexer, d) <=> x \in Wanting(key, d)
  <2>1. ASSUME NEW x, x \in Matches(captures[key].demultiplexer, d) PROVE x \in Wanting(key, d)
    <3>1. PICK e \in captures[key].demultiplexer :
            x = e[1] /\ e[2] = d.group /\ e[3] \in {AnySource, d.source}
      BY <2>1 DEF Matches
    <3>2. PICK id \in JoinedOn(key) :
            e = <<id, subscriptions[id].config.group, subscriptions[id].config.source>>
      BY <1>1, <3>1
    <3>3. QED
      BY <3>1, <3>2 DEF Wanting
  <2>2. ASSUME NEW x, x \in Wanting(key, d) PROVE x \in Matches(captures[key].demultiplexer, d)
    <3> DEFINE e == <<x, subscriptions[x].config.group, subscriptions[x].config.source>>
    <3>1. x \in JoinedOn(key) /\ e[2] = d.group /\ e[3] \in {AnySource, d.source} /\ e[1] = x
      BY <2>2 DEF Wanting
    <3>2. e \in captures[key].demultiplexer
      BY <1>1, <3>1
    <3> HIDE DEF e
    <3>3. QED
      BY <3>1, <3>2 DEF Matches
  <2>3. QED
    BY <2>1, <2>2
<1>3. Matches(captures[key].demultiplexer, d) = Wanting(key, d)
  BY <1>2, Zenon
<1>4. Wanting(key, d) \in SUBSET JoinedOn(key) /\ Wanting(key, d) \in SUBSET DOMAIN subscriptions
  BY DEF Wanting, JoinedOn
<1>5. IsFiniteSet(Wanting(key, d))
  BY <1>4, FiniteHolders, FS_Subset DEF Bookkeeping
<1>6. QED
  BY <1>3, <1>4, <1>5

(* A datagram is read, and a packet of it is queued for each that wants it. *)
LEMMA CaptureReceive ==
  ASSUME Bookkeeping, ReceiveInv, Bookkeeping', CaptureDatagram
  PROVE  ReceiveInv'
<1> USE DEF ReceiveInv
<1> DEFINE P == pending_packets
           Q == pending_packets'
           key == call.key
           d == Head(queue[key])
           ids == Wanting(key, d)
           p == PacketOf(ids, key, d)
<1>1. /\ call \in CallType /\ call.pc = "read" /\ call.reads < call.target
      /\ call.queued # call.target /\ call.captured # call.budget /\ queue[key] # <<>>
  BY DEF ReceiveTypes, CaptureDatagram, MayRead, FillStops
<1>2. key \in DOMAIN captures /\ key \in Keys
  BY <1>1 DEF CallShape, Bookkeeping, SocketTypes
<1>3. queue[key] \in Seq(DatagramType) /\ d \in DatagramType
  <2>1. queue[key] \in Seq(DatagramType)
    BY <1>2 DEF ReceiveTypes
  <2>2. QED
    BY <1>1, <2>1
<1>4. /\ Matches(captures[key].demultiplexer, d) = ids
      /\ IsFiniteSet(ids) /\ ids \in SUBSET DOMAIN subscriptions
  BY <1>2, MatchesExact
<1>5. /\ queue' = [queue EXCEPT ![key] = Tail(@)]
      /\ metrics' = Recorded(ids)
      /\ Q = IF ids # {} THEN Append(P, p) ELSE P
      /\ call' = [call EXCEPT !.reads = @ + 1, !.captured = @ + 1, !.filtered = 0,
                              !.queued = IF ids # {} THEN @ + 1 ELSE @]
      /\ UNCHANGED <<registry, captures, out, arrivals>>
  BY <1>4 DEF CaptureDatagram, TakeHead, sockets
<1>6. ids # {} => /\ Labelled(p) /\ p.ids = ids /\ p.key = key /\ p.tag = d.tag
                  /\ p.group = d.group /\ p.source = d.source
  BY <1>2, <1>3, <1>4, PacketOfFacts DEF Bookkeeping
<1>7. \A id \in ids : /\ IsJoined(id) /\ subscriptions[id].config.group = d.group
                      /\ subscriptions[id].config.source \in {AnySource, d.source}
                      /\ subscriptions[id].capture_key = key
  BY DEF Wanting, JoinedOn, IsJoined
<1> HIDE DEF P, Q, key, d, ids, p
<1>8. P \in Seq(PacketType) /\ Len(P) \in Nat /\ Len(out) \in Nat
  BY DEF ReceiveTypes, P
<1>9. /\ Q \in Seq(PacketType) /\ Len(Q) \in Nat
      /\ Len(Q) = IF ids # {} THEN Len(P) + 1 ELSE Len(P)
  <2>1. CASE ids # {}
    <3>1. p \in PacketType
      BY <1>6, <2>1 DEF Labelled
    <3>2. QED
      BY <1>5, <1>8, <2>1, <3>1
  <2>2. CASE ids = {}
    BY <1>5, <1>8, <2>2
  <2>3. QED
    BY <2>1, <2>2
<1>10. /\ call' \in CallType /\ call'.pc = "read" /\ call'.op = call.op
       /\ call'.target = call.target /\ call'.key = call.key
       /\ call'.received = call.received /\ call'.max = call.max
       /\ call'.budget = call.budget /\ call'.filtered = 0
       /\ call'.reads = call.reads + 1 /\ call'.captured = call.captured + 1
       /\ call'.queued = IF ids # {} THEN call.queued + 1 ELSE call.queued
  <2> DEFINE q == IF ids # {} THEN call.queued + 1 ELSE call.queued
  <2>1. call.reads + 1 \in Nat /\ call.captured + 1 \in Nat /\ q \in Nat
    BY <1>1 DEF CallType
  <2>2. call' = [call EXCEPT !.reads = @ + 1, !.captured = @ + 1, !.filtered = 0, !.queued = q]
    BY <1>1, <1>5 DEF CallType
  <2> HIDE DEF q
  <2>3. /\ call' \in CallType /\ call'.pc = "read" /\ call'.op = call.op
        /\ call'.target = call.target /\ call'.key = call.key
        /\ call'.received = call.received /\ call'.max = call.max
        /\ call'.budget = call.budget /\ call'.filtered = 0
        /\ call'.reads = call.reads + 1 /\ call'.captured = call.captured + 1
        /\ call'.queued = q
    BY <1>1, <2>1, <2>2 DEF CallType
  <2>4. QED
    BY <2>3 DEF q
<1>11. /\ metrics \in [received: Nat, unmatched: Nat, matches: Nat]
       /\ metrics'.received = Smaller(metrics.received + 1, CounterMax)
       /\ metrics'.unmatched = Smaller(metrics.unmatched + (IF ids = {} THEN 1 ELSE 0), CounterMax)
       /\ metrics'.matches = Smaller(metrics.matches + Cardinality(ids), CounterMax)
       /\ Cardinality(ids) \in Nat /\ (ids # {} => Cardinality(ids) # 0)
       /\ metrics' \in [received: Nat, unmatched: Nat, matches: Nat]
  <2>1. Cardinality(ids) \in Nat /\ (ids # {} => Cardinality(ids) # 0)
    BY <1>4, FS_CardinalityType, FS_EmptySet
  <2>2. metrics \in [received: Nat, unmatched: Nat, matches: Nat]
    BY DEF ReceiveTypes
  <2>3. /\ metrics'.received = Smaller(metrics.received + 1, CounterMax)
        /\ metrics'.unmatched = Smaller(metrics.unmatched + (IF ids = {} THEN 1 ELSE 0), CounterMax)
        /\ metrics'.matches = Smaller(metrics.matches + Cardinality(ids), CounterMax)
    BY <1>5 DEF Recorded, SaturatingAdd
  <2>4. metrics' \in [received: Nat, unmatched: Nat, matches: Nat]
    <3>1. \A a, b \in Nat : SaturatingAdd(a, b) \in Nat
      BY ConstantAssumptions DEF SaturatingAdd, Smaller
    <3>2. metrics.received \in Nat /\ metrics.unmatched \in Nat /\ metrics.matches \in Nat
      BY <2>2
    <3>3. /\ SaturatingAdd(metrics.received, 1) \in Nat
          /\ SaturatingAdd(metrics.unmatched, IF ids = {} THEN 1 ELSE 0) \in Nat
          /\ SaturatingAdd(metrics.matches, Cardinality(ids)) \in Nat
      BY <2>1, <3>1, <3>2
    <3>4. QED
      BY <1>5, <3>3 DEF Recorded
  <2>5. QED
    BY <2>1, <2>2, <2>3, <2>4
<1>12. queue' \in [Keys -> Seq(DatagramType)]
  <2>1. Tail(queue[key]) \in Seq(DatagramType)
    BY <1>1, <1>3, TailFacts DEF key
  <2>2. QED
    BY <1>5, <2>1 DEF ReceiveTypes
<1>13. ReceiveTypes'
  BY <1>5, <1>9, <1>10, <1>11, <1>12 DEF ReceiveTypes, Bookkeeping, Q
<1>14. CallShape'
  <2>1. call.reads \in Nat /\ call.target \in Nat /\ call.reads + 1 <= call.target
    BY <1>1 DEF CallType
  <2>2. QED
    BY <1>1, <1>2, <1>5, <1>10, <2>1, ConstantAssumptions DEF CallShape, key
<1>15. ReceiveBounded'
  <2>1. /\ call.queued \in Nat /\ call.target \in Nat /\ call.captured \in Nat /\ call.budget \in Nat
        /\ MaxPendingPackets \in Nat
    BY <1>1, ConstantAssumptions DEF CallType
  <2>2. /\ Len(P) = call.queued /\ call.queued <= call.target /\ call.captured <= call.budget
        /\ call.target <= MaxPendingPackets
    BY <1>1 DEF ReceiveBounded, CallShape, P
  <2>3. /\ Len(Q) = call'.queued /\ call'.queued <= call'.target /\ call'.captured <= call'.budget
        /\ Len(Q) <= MaxPendingPackets
    BY <1>1, <1>9, <1>10, <2>1, <2>2
  <2>4. call'.op = "batch" => call'.received = Len(out) /\ call'.received < call'.max
    BY <1>10 DEF ReceiveBounded
  <2>5. QED
    BY <1>5, <2>3, <2>4 DEF ReceiveBounded, Q
<1>16. PendingNamesJoined'
  <2>1. DOMAIN P = 1..Len(P) /\ DOMAIN Q = 1..Len(Q)
    BY <1>8, <1>9
  <2>2. subscriptions' = subscriptions
    BY <1>5 DEF registry
  <2>3. ASSUME NEW i \in 1..Len(Q)
        PROVE  \/ ids # {} /\ Q[i] = p
               \/ i \in DOMAIN P /\ Q[i] = P[i]
    <3>1. CASE ids = {}
      BY <1>5, <2>1, <3>1
    <3>2. CASE ids # {}
      <4>1. p \in PacketType /\ Q = Append(P, p)
        BY <1>5, <1>6, <3>2 DEF Labelled
      <4>2. QED
        BY <1>8, <2>1, <3>2, <4>1
    <3>3. QED
      BY <3>1, <3>2
  <2>4. ASSUME ids # {}
        PROVE  /\ p.ids # {}
               /\ \A x \in p.ids : /\ IsJoined(x)
                                   /\ subscriptions[x].config.group = p.group
                                   /\ subscriptions[x].config.source \in {AnySource, p.source}
                                   /\ subscriptions[x].capture_key = p.key
                                   /\ p.subscription_id <= x
               /\ p.subscription_id \in p.ids
               /\ p.interface = subscriptions[p.subscription_id].config.selector
    BY <1>6, <1>7, <2>4 DEF Labelled
  <2>5. ASSUME NEW i \in DOMAIN P
        PROVE  LET q == P[i] IN
               /\ q.ids # {}
               /\ \A x \in q.ids : /\ IsJoined(x)
                                   /\ subscriptions[x].config.group = q.group
                                   /\ subscriptions[x].config.source \in {AnySource, q.source}
                                   /\ subscriptions[x].capture_key = q.key
                                   /\ q.subscription_id <= x
               /\ q.subscription_id \in q.ids
               /\ q.interface = subscriptions[q.subscription_id].config.selector
    BY DEF PendingNamesJoined, P
  <2>6. ASSUME NEW i \in DOMAIN Q
        PROVE  LET q == Q[i] IN
               /\ q.ids # {}
               /\ \A x \in q.ids : /\ IsJoined(x)'
                                   /\ subscriptions'[x].config.group = q.group
                                   /\ subscriptions'[x].config.source \in {AnySource, q.source}
                                   /\ subscriptions'[x].capture_key = q.key
                                   /\ q.subscription_id <= x
               /\ q.subscription_id \in q.ids
               /\ q.interface = subscriptions'[q.subscription_id].config.selector
    BY <2>1, <2>2, <2>3, <2>4, <2>5 DEF IsJoined
  <2>7. QED
    BY <2>6 DEF PendingNamesJoined, Q
<1>17. Flow'
  <2>1. CASE ids # {}
    <3>1. p \in PacketType /\ p.tag = Head(queue[key]).tag /\ p.key = key
      BY <1>6, <2>1 DEF Labelled, d
    <3>2. queue[key] # <<>> /\ UNCHANGED <<out, arrivals>> /\ Q = Append(P, p)
      BY <1>1, <1>5, <2>1 DEF key
    <3>3. QED
      BY <1>2, <1>5, <1>13, <3>1, <3>2, FlowCaptures DEF P, Q
  <2>2. CASE ids = {}
    <3> DEFINE g == [i \in 1..Len(P) |-> i]
               h == [k \in Keys |-> IF k = key THEN 1 ELSE 0]
    <3>1. Comes(Q, P, g)
      BY <1>5, <2>2 DEF Comes, SameDatagram
    <3>2. \A k \in Keys : queue[k] \in Seq(DatagramType) /\ Len(queue[k]) \in Nat
      BY DEF ReceiveTypes
    <3>3. queue'[key] = Tail(queue[key])
      BY <1>2, <1>5 DEF ReceiveTypes
    <3>4. \A j \in 1..Len(Tail(queue[key])) : /\ j + 1 \in 1..Len(queue[key])
                                              /\ Tail(queue[key])[j] = queue[key][j + 1]
      BY <1>1, <1>3, TailFacts DEF key
    <3>5. ASSUME NEW k \in Keys, k # key, NEW j \in 1..Len(queue'[k])
          PROVE  j + 0 \in 1..Len(queue[k]) /\ queue'[k][j] = queue[k][j + 0]
      <4>1. queue'[k] = queue[k]
        BY <1>5, <3>5 DEF ReceiveTypes
      <4>2. QED
        BY <3>2, <3>5, <4>1
    <3>6. QueuesShrink(h)
      BY <3>3, <3>4, <3>5 DEF QueuesShrink
    <3> HIDE DEF g, h
    <3>7. QED
      BY <1>5, <1>13, <3>1, <3>6, FlowShrinks DEF P, Q
  <2>3. QED
    BY <2>1, <2>2
<1>18. MetricsAgree'
  <2> DEFINE R == metrics.received
             U == metrics.unmatched
             M == metrics.matches
             c == Cardinality(ids)
  <2>1. R \in Nat /\ U \in Nat /\ M \in Nat /\ c \in Nat /\ CounterMax \in Nat
    BY <1>11, ConstantAssumptions
  <2>2. R < CounterMax => M >= R - U /\ R - U >= Len(P) + Len(out)
    BY DEF MetricsAgree, P
  <2>3. SUFFICES ASSUME metrics'.received < CounterMax
                 PROVE  /\ metrics'.matches >= metrics'.received - metrics'.unmatched
                        /\ metrics'.received - metrics'.unmatched >= Len(Q) + Len(out)
    BY <1>5 DEF MetricsAgree, Q
  <2> HIDE DEF R, U, M, c
  <2>4. R + 1 < CounterMax /\ metrics'.received = R + 1 /\ R < CounterMax
    BY <1>11, <2>1, <2>3 DEF R, Smaller
  <2>5. U <= R
    BY <1>8, <2>1, <2>2, <2>4
  <2>6. CASE ids = {}
    <3>1. metrics'.unmatched = U + 1 /\ metrics'.matches = Smaller(M + c, CounterMax)
      BY <1>11, <2>1, <2>4, <2>5, <2>6 DEF U, M, c, Smaller
    <3>2. QED
      BY <1>8, <1>9, <2>1, <2>2, <2>4, <2>5, <2>6, <3>1 DEF Smaller
  <2>7. CASE ids # {}
    <3>1. metrics'.unmatched = U /\ metrics'.matches = Smaller(M + c, CounterMax) /\ c # 0
      BY <1>11, <2>1, <2>4, <2>5, <2>7 DEF U, M, c, Smaller
    <3>2. QED
      BY <1>8, <1>9, <2>1, <2>2, <2>4, <2>5, <2>7, <3>1 DEF Smaller
  <2>8. QED
    BY <2>6, <2>7
<1>19. QED
  BY <1>13, <1>14, <1>15, <1>16, <1>17, <1>18

(* A datagram arrives behind all that arrived before it. *)
LEMMA ArriveReceive ==
  ASSUME ReceiveInv, NEW key \in Keys, NEW group \in Groups, NEW source \in Sources,
         NEW parses \in BOOLEAN, Arrive(key, group, source, parses)
  PROVE  ReceiveInv'
<1> USE DEF ReceiveInv
<1> DEFINE d == [tag |-> arrivals', group |-> group, source |-> source, parses |-> parses]
<1>1. /\ arrivals \in Nat /\ arrivals' = arrivals + 1 /\ arrivals' \in 1..MaxArrivals
      /\ arrivals' \in 0..MaxArrivals
  BY ConstantAssumptions DEF ReceiveTypes, Arrive
<1>2. d \in DatagramType /\ d.tag = arrivals + 1
  BY <1>1 DEF DatagramType
<1>3. /\ queue' = [queue EXCEPT ![key] = Append(@, d)]
      /\ UNCHANGED <<registry, captures, next_capture_index, pending_packets, metrics, call, out>>
  BY DEF Arrive, sockets
<1> HIDE DEF d
<1>4. queue' \in [Keys -> Seq(DatagramType)]
  <2>1. Append(queue[key], d) \in Seq(DatagramType)
    BY <1>2 DEF ReceiveTypes
  <2>2. QED
    BY <1>3, <2>1 DEF ReceiveTypes
<1>5. ReceiveTypes'
  BY <1>1, <1>3, <1>4 DEF ReceiveTypes
<1>6. CallShape' /\ ReceiveBounded'
  BY <1>3 DEF CallShape, ReceiveBounded
<1>7. PendingNamesJoined'
  BY <1>3 DEF PendingNamesJoined, registry, IsJoined
<1>8. MetricsAgree'
  BY <1>3 DEF MetricsAgree
<1>9. Flow'
  BY <1>1, <1>2, <1>3, <1>5, FlowArrives
<1>10. QED
  BY <1>5, <1>6, <1>7, <1>8, <1>9

(* The receive path is in order when the context is created. *)
LEMMA InitReceive == Init => ReceiveInv
<1> SUFFICES ASSUME Init PROVE ReceiveInv
  OBVIOUS
<1>1. /\ pending_packets = <<>> /\ out = <<>> /\ call = IdleCall /\ arrivals = 0
      /\ queue = [k \in Keys |-> <<>>] /\ metrics = [received |-> 0, unmatched |-> 0, matches |-> 0]
      /\ next_capture_index = 0
  BY DEF Init
<1>2. /\ Len(pending_packets) = 0 /\ Len(out) = 0 /\ \A k \in Keys : Len(queue[k]) = 0
      /\ 1..0 = {} /\ DOMAIN pending_packets = {}
  BY <1>1
<1>3. IdleCall \in CallType
  BY DEF IdleCall, CallType
<1>4. ReceiveTypes
  BY <1>1, <1>3, ConstantAssumptions DEF ReceiveTypes
<1>5. CallShape
  BY <1>1 DEF CallShape, IdleCall
<1>6. ReceiveBounded
  BY <1>1, <1>2, ConstantAssumptions DEF ReceiveBounded, IdleCall
<1>7. PendingNamesJoined
  BY <1>2 DEF PendingNamesJoined
<1>8. TagsSeen /\ TagsApart
  BY <1>2 DEF TagsSeen, TagsApart
<1>9. FifoParts
  <2>1. InOrder(out) /\ InOrder(pending_packets) /\ Ahead(out, pending_packets)
    BY <1>2 DEF InOrder, Ahead
  <2>2. AheadOfQueues(out, queue) /\ AheadOfQueues(pending_packets, queue)
    BY <1>2 DEF AheadOfQueues
  <2>3. QueuesInOrder(queue)
    BY <1>2 DEF QueuesInOrder
  <2>4. QED
    BY <2>1, <2>2, <2>3 DEF FifoParts
<1>10. MetricsAgree
  BY <1>1, <1>2, ConstantAssumptions DEF MetricsAgree
<1>11. QED
  BY <1>4, <1>5, <1>6, <1>7, <1>8, <1>9, <1>10 DEF ReceiveInv, Flow

(* Every step keeps the receive path in order. *)
LEMMA NextReceive == Bookkeeping /\ ReceiveInv /\ [Next]_vars => ReceiveInv'
<1> SUFFICES ASSUME Bookkeeping, ReceiveInv, [Next]_vars PROVE ReceiveInv'
  OBVIOUS
<1>0. Bookkeeping'
  BY NextBookkeeping
<1>1. ASSUME NEW cfg \in Configs, AddSubscription(cfg) PROVE ReceiveInv'
  BY <1>0, <1>1, AddReceive
<1>2. ASSUME NEW id \in DOMAIN subscriptions,
             \/ JoinSubscription(id) \/ JoinFails(id)
             \/ LeaveSubscription(id) \/ RemoveSubscription(id)
      PROVE  ReceiveInv'
  BY <1>0, <1>2, JoinReceive, LeaveOrRemoveReceive
<1>3. CASE TryRecvAny
  BY <1>3, TryRecvAnyReceive
<1>4. ASSUME NEW max \in BatchSizes, TryRecvBatchInto(max) PROVE ReceiveInv'
  BY <1>4, TryRecvBatchReceive
<1>5. CASE Receive
  BY <1>0, <1>5, VisitReceive, InnerLoopReceive, CaptureReceive, FailReceive, FillReturnsReceive
     DEF Receive
<1>6. ASSUME NEW key \in Keys, NEW group \in Groups, NEW source \in Sources, NEW parses \in BOOLEAN,
             Arrive(key, group, source, parses)
      PROVE  ReceiveInv'
  BY <1>6, ArriveReceive
<1>7. CASE UNCHANGED vars
  <2>1. UNCHANGED <<registry, next_capture_index, pending_packets, metrics, call, out, queue,
                    arrivals, captures>>
    BY <1>7 DEF vars, registry
  <2>2. ReceiveTypes'
    BY <2>1 DEF ReceiveInv, ReceiveTypes
  <2>3. CallShape' /\ ReceiveBounded'
    BY <2>1 DEF ReceiveInv, CallShape, ReceiveBounded
  <2>4. PendingNamesJoined'
    BY <2>1 DEF ReceiveInv, PendingNamesJoined, registry, IsJoined
  <2>5. MetricsAgree'
    BY <2>1 DEF ReceiveInv, MetricsAgree
  <2>6. Flow'
    BY <2>1 DEF ReceiveInv, Flow, TagsSeen, TagsApart, FifoParts
  <2>7. QED
    BY <2>2, <2>3, <2>4, <2>5, <2>6 DEF ReceiveInv
<1>8. QED
  BY <1>1, <1>2, <1>3, <1>4, <1>5, <1>6, <1>7 DEF Next

-----------------------------------------------------------------------------
(* Invariants. *)

(* The inductive invariant of receiving, on top of the bookkeeping: types, *)
(* queues and pending packets in order of arrival, counters and bounds.    *)
THEOREM ReceiveInvariant == Spec => []ReceiveInv
<1>1. QED
  BY BookkeepingInvariant, InitReceive, NextReceive, PTL DEF Spec

(* Every variable has its type, whatever is registered and received: the   *)
(* saturating counters stay natural numbers, the locals of a receive call  *)
(* stay in range, and a queued packet names ids that were handed out.      *)
THEOREM TypeOKAlways == Spec => []TypeOK
<1>1. Bookkeeping /\ ReceiveInv => TypeOK
  BY DEF Bookkeeping, ReceiveInv, TypeOK
<1>2. QED
  BY <1>1, BookkeepingInvariant, ReceiveInvariant, PTL

(* A queued packet only names subscriptions that are joined now and match  *)
(* it, and carries the label of the first of them: remove_pending_membership *)
(* leaves nothing behind of one that has left.                             *)
THEOREM PendingNamesJoinedAlways == Spec => []PendingNamesJoined
<1>1. ReceiveInv => PendingNamesJoined
  BY DEF ReceiveInv
<1>2. QED
  BY <1>1, ReceiveInvariant, PTL

(* The pending queue stays within max_pending_packets and a call hands     *)
(* over no more than it was asked for.                                     *)
THEOREM ReceiveBoundedAlways == Spec => []ReceiveBounded
<1>1. ReceiveInv => ReceiveBounded
  BY DEF ReceiveInv
<1>2. QED
  BY <1>1, ReceiveInvariant, PTL

(* The counters of SharedRawCaptureMetrics agree with what was queued and  *)
(* handed over, until they saturate.                                       *)
THEOREM MetricsAgreeAlways == Spec => []MetricsAgree
<1>1. ReceiveInv => MetricsAgree
  BY DEF ReceiveInv
<1>2. QED
  BY <1>1, ReceiveInvariant, PTL

(* Datagrams of one capture keep their order from the socket to the        *)
(* caller, and none is handed over or queued twice.                        *)
THEOREM CaptureFifoAlways == Spec => []CaptureFifo
<1>1. ASSUME ReceiveInv PROVE CaptureFifo
  <2> DEFINE P == pending_packets
             A == out \o P
             m == Len(out)
  <2>1. P \in Seq(PacketType) /\ out \in Seq(PacketType) /\ Len(P) \in Nat /\ Len(out) \in Nat
    BY <1>1 DEF ReceiveInv, ReceiveTypes
  <2>2. FifoParts
    BY <1>1 DEF ReceiveInv, Flow
  <2>3. /\ DOMAIN A = 1..(m + Len(P))
        /\ \A i \in 1..(m + Len(P)) : A[i] = IF i <= m THEN out[i] ELSE P[i - m]
    BY <2>1
  <2>4. \A i \in DOMAIN A : \/ i \in 1..m /\ A[i] = out[i]
                            \/ i - m \in 1..Len(P) /\ ~(i \in 1..m) /\ A[i] = P[i - m]
    BY <2>1, <2>3
  <2>5. ASSUME NEW i \in DOMAIN A, NEW j \in DOMAIN A, i < j, A[i].key = A[j].key
        PROVE  A[i].tag < A[j].tag
    <3>0. i \in Nat /\ j \in Nat /\ m \in Nat
      BY <2>1, <2>3
    <3> HIDE DEF A, m, P
    <3>1. CASE i \in 1..m /\ j \in 1..m
      BY <2>2, <2>4, <2>5, <3>0, <3>1 DEF FifoParts, InOrder, m
    <3>2. CASE i \in 1..m /\ j \notin 1..m
      BY <2>2, <2>4, <2>5, <3>0, <3>2 DEF FifoParts, Ahead, m, P
    <3>3. CASE i \notin 1..m /\ j \notin 1..m
      <4>1. /\ i - m \in 1..Len(P) /\ j - m \in 1..Len(P) /\ i - m < j - m
            /\ A[i] = P[i - m] /\ A[j] = P[j - m]
        BY <2>4, <2>5, <3>0, <3>3
      <4>2. QED
        BY <2>2, <2>5, <4>1 DEF FifoParts, InOrder, P
    <3>4. ~(i \notin 1..m /\ j \in 1..m)
      BY <2>4, <2>5, <3>0
    <3>5. QED
      BY <3>1, <3>2, <3>3, <3>4
  <2>6. ASSUME NEW key \in Keys PROVE Increasing(Tags(queue[key]))
    <3>1. queue[key] \in Seq(DatagramType) /\ DOMAIN queue[key] = 1..Len(queue[key])
      BY <1>1 DEF ReceiveInv, ReceiveTypes
    <3>2. QED
      BY <2>2, <3>1 DEF FifoParts, QueuesInOrder, Increasing, Tags
  <2>7. ASSUME NEW key \in Keys, NEW i \in DOMAIN A, NEW j \in DOMAIN queue[key], A[i].key = key
        PROVE  A[i].tag < queue[key][j].tag
    <3>1. j \in 1..Len(queue[key])
      BY <1>1 DEF ReceiveInv, ReceiveTypes
    <3> HIDE DEF A, P
    <3>2. QED
      BY <2>2, <2>4, <2>7, <3>1 DEF FifoParts, AheadOfQueues, P
  <2>8. QED
    BY <2>5, <2>6, <2>7 DEF CaptureFifo, Accepted
<1>2. QED
  BY <1>1, ReceiveInvariant, PTL

-----------------------------------------------------------------------------
(* Action properties. *)

(* remove_pending_membership leaves the packets of everybody else alone. *)
LEMMA OthersKeepPending ==
  ASSUME RegistryTypes, ReceiveTypes, PendingNamesJoined, NEW id, NEW other, other # id
  PROVE  PendingFor(RemovePendingMembership(pending_packets, id), other)
           = PendingFor(pending_packets, other)
<1> DEFINE P == pending_packets
           R == RemovePendingMembership(P, id)
           g == [n \in 1..Len(R) |-> Nth(Kept(id), n)]
           K == {i \in DOMAIN P : other \in P[i].ids}
           L == {i \in DOMAIN R : other \in R[i].ids}
           f == [n \in L |-> g[n]]
<1>1. /\ R \in Seq(PacketType) /\ Comes(R, P, g)
      /\ \A n \in 1..Len(R) : g[n] \in Kept(id) /\ R[n].ids = P[g[n]].ids \ {id}
      /\ \A k \in Kept(id) : \E n \in 1..Len(R) : g[n] = k
  BY RemovePendingFacts
<1>2. P \in Seq(PacketType) /\ DOMAIN P = 1..Len(P) /\ DOMAIN R = 1..Len(R)
  BY <1>1 DEF ReceiveTypes
<1>3. \A k \in K : k \in Kept(id)
  BY DEF Kept
<1> HIDE DEF P, R, g
<1>4. /\ \A n \in DOMAIN R : g[n] \in DOMAIN P /\ R[n].tag = P[g[n]].tag
      /\ \A m, n \in DOMAIN R : m < n => g[m] < g[n]
  BY <1>1, <1>2 DEF Comes, SameDatagram
<1>5. Moves(f, Nat, Tags(R), L, Tags(P), K)
  <2>1. Tags(R) \in Seq(Nat) /\ DOMAIN Tags(R) = DOMAIN R /\ DOMAIN Tags(P) = DOMAIN P
    <3>1. \A i \in 1..Len(R) : R[i].tag \in Nat
      BY <1>1, PacketsPlain
    <3>2. Len(R) \in Nat
      BY <1>1
    <3>3. QED
      BY <1>2, <3>1, <3>2 DEF Tags
  <2>2. L \in SUBSET DOMAIN Tags(R) /\ K \in SUBSET Int
    BY <1>2, <2>1
  <2>3. f \in [L -> K]
    BY <1>1, <1>2, <1>4
  <2>4. \A m, n \in L : m < n => f[m] < f[n]
    BY <1>4
  <2>5. \A k \in K : \E n \in L : f[n] = k
    <3>1. ASSUME NEW k \in K PROVE \E n \in L : f[n] = k
      <4>1. PICK n \in 1..Len(R) : g[n] = k
        BY <1>1, <1>3
      <4>2. n \in L
        BY <1>1, <1>2, <4>1
      <4>3. QED
        BY <4>1, <4>2
    <3>2. QED
      BY <3>1
  <2>6. \A n \in L : Tags(P)[f[n]] = Tags(R)[n]
    BY <1>4, <2>3 DEF Tags
  <2> HIDE DEF f, K, L
  <2>7. QED
    BY <2>1, <2>2, <2>3, <2>4, <2>5, <2>6 DEF Moves
<1> HIDE DEF f, K, L
<1>6. Picked(Tags(P), K) = Picked(Tags(R), L)
  BY <1>5, PickedMoved
<1>7. QED
  BY <1>6 DEF PendingFor, K, L, P, R

(* A subscription leaves only in a step of its own. *)
LEMMA WhoLeaves ==
  ASSUME RegistryTypes, [Next]_vars, NEW id \in DOMAIN subscriptions, IsJoined(id), ~IsJoined(id)'
  PROVE  /\ Leave(id)
         /\ \A other \in DOMAIN subscriptions \ {id} :
              other \in DOMAIN subscriptions' /\ subscriptions'[other] = subscriptions[other]
<1>1. subscriptions' # subscriptions
  BY DEF IsJoined
<1>2. ASSUME NEW cfg, AddSubscription(cfg) PROVE FALSE
  <2>1. PICK sub : subscriptions' = Put(subscriptions, next_subscription_id, sub)
    BY <1>2 DEF AddSubscription
  <2>2. next_subscription_id # id
    BY DEF RegistryTypes, Ids
  <2>3. id \in DOMAIN subscriptions' /\ subscriptions'[id] = subscriptions[id]
    BY <2>1, <2>2 DEF Put
  <2>4. QED
    BY <2>3 DEF IsJoined
<1>3. ASSUME NEW x \in DOMAIN subscriptions, JoinSubscription(x) PROVE FALSE
  <2>1. x # id /\ subscriptions' = [subscriptions EXCEPT ![x].state = "Joined"]
    BY <1>3 DEF JoinSubscription
  <2>2. QED
    BY <2>1 DEF IsJoined
<1>4. ASSUME NEW x \in DOMAIN subscriptions, LeaveSubscription(x)
      PROVE  /\ x = id /\ Leave(id)
             /\ \A other \in DOMAIN subscriptions \ {id} :
                  other \in DOMAIN subscriptions' /\ subscriptions'[other] = subscriptions[other]
  <2>1. subscriptions' = [subscriptions EXCEPT ![x].state = "Bound"] /\ Leave(x)
    BY <1>4 DEF LeaveSubscription
  <2>2. x = id
    BY <2>1 DEF IsJoined
  <2>3. QED
    BY <2>1, <2>2
<1>5. ASSUME NEW x \in DOMAIN subscriptions, RemoveSubscription(x)
      PROVE  /\ x = id /\ Leave(id)
             /\ \A other \in DOMAIN subscriptions \ {id} :
                  other \in DOMAIN subscriptions' /\ subscriptions'[other] = subscriptions[other]
  <2>1. subscriptions' = Drop(subscriptions, x)
    BY <1>5 DEF RemoveSubscription
  <2>2. x = id
    BY <2>1 DEF IsJoined, Drop
  <2>3. Leave(id)
    BY <1>5, <2>2 DEF RemoveSubscription
  <2>4. QED
    BY <2>1, <2>2, <2>3 DEF Drop
<1>6. ASSUME \/ TryRecvAny \/ Receive \/ UNCHANGED vars
             \/ \E max \in BatchSizes : TryRecvBatchInto(max)
             \/ \E key, group, source, parses : Arrive(key, group, source, parses)
             \/ \E x \in DOMAIN subscriptions : JoinFails(x)
      PROVE  FALSE
  <2>1. UNCHANGED subscriptions
    BY <1>6 DEF TryRecvAny, TryRecvBatchInto, Arrive, JoinFails, vars, registry, Receive,
                VisitCapture, LeaveInnerLoop, SkipUnparsed, WouldBlock, CaptureDatagram,
                ReceiveFails, FillReturns
  <2>2. QED
    BY <1>1, <2>1
<1>7. QED
  BY <1>2, <1>3, <1>4, <1>5, <1>6 DEF Next

(* A step that ends a membership leaves every other subscription alone. *)
LEMMA LeaveIsolatedStep ==
  ASSUME Bookkeeping, ReceiveInv, Bookkeeping', [Next]_vars,
         NEW id \in DOMAIN subscriptions, IsJoined(id), ~IsJoined(id)',
         NEW other \in DOMAIN subscriptions \ {id}
  PROVE  /\ subscriptions'[other] = subscriptions[other]
         /\ PendingFor(pending_packets', other) = PendingFor(pending_packets, other)
         /\ IsJoined(other) =>
              LET s == subscriptions[other] IN
              /\ s.capture_key \in DOMAIN captures'
              /\ \E e \in kernel[s.capture_key] \cap kernel'[s.capture_key] :
                   e.membership = MembershipKey(s.config)
              /\ queue'[s.capture_key] = queue[s.capture_key]
<1>1. /\ Leave(id)
      /\ \A x \in DOMAIN subscriptions \ {id} :
           x \in DOMAIN subscriptions' /\ subscriptions'[x] = subscriptions[x]
  BY WhoLeaves DEF Bookkeeping
<1>2. PendingFor(pending_packets', other) = PendingFor(pending_packets, other)
  <2>1. pending_packets' = RemovePendingMembership(pending_packets, id)
    BY <1>1 DEF Leave
  <2>2. QED
    BY <2>1, OthersKeepPending DEF Bookkeeping, ReceiveInv
<1>3. ASSUME IsJoined(other)
      PROVE  LET s == subscriptions[other] IN
             /\ s.capture_key \in DOMAIN captures'
             /\ \E e \in kernel[s.capture_key] \cap kernel'[s.capture_key] :
                  e.membership = MembershipKey(s.config)
             /\ queue'[s.capture_key] = queue[s.capture_key]
  <2>1. /\ subscriptions[other].capture_key \in Keys
        /\ subscriptions[other].config \in ConfigType
    BY ConstantAssumptions DEF Bookkeeping, RegistryTypes, SubscriptionType
  <2>2. MembershipKey(subscriptions[other].config) \in MembershipKeys
    BY <2>1 DEF MembershipKey, MembershipKeys, ConfigType
  <2>3. PICK key \in Keys, m \in MembershipKeys :
          /\ key = subscriptions[other].capture_key
          /\ m = MembershipKey(subscriptions[other].config)
    BY <2>1, <2>2
  <2>4. key \in DOMAIN captures' /\ m \in DOMAIN captures'[key].kernel_memberships
    <3>1. other \in JoinedOn(key)' /\ other \in HoldersOf(key, m)'
      BY <1>1, <1>3, <2>3 DEF JoinedOn, HoldersOf, IsJoined, MembershipKey
    <3>2. MembershipCounts'
      BY DEF Bookkeeping
    <3>3. key \in DOMAIN captures'
      BY <3>1, <3>2 DEF MembershipCounts
    <3>4. QED
      BY <3>1, <3>2, <3>3 DEF MembershipCounts
  <2>5. \E e \in kernel[key] \cap kernel'[key] : e.membership = m
    <3>1. PICK e \in kernel'[key] : e.membership = m
      BY <2>4 DEF Bookkeeping, KernelInSync, KernelHolds
    <3>2. kernel'[key] \subseteq kernel[key]
      <4>1. \/ kernel' = kernel
            \/ \E k, S : kernel' = [kernel EXCEPT ![k] = @ \ S]
        BY <1>1 DEF Leave, KernelLeave
      <4>2. kernel \in [Keys -> SUBSET [membership: MembershipKeys, interface: Keys]]
        BY DEF Bookkeeping, SocketTypes
      <4>3. QED
        BY <2>3, <4>1, <4>2
    <3>3. QED
      BY <3>1, <3>2
  <2>6. queue'[key] = queue[key]
    <3>1. \/ queue' = queue
          \/ \E k : /\ captures' = Drop(captures, k)
                    /\ queue' = [queue EXCEPT ![k] = <<>>]
      BY <1>1 DEF Leave, RemoveCapture
    <3>2. ASSUME NEW k, captures' = Drop(captures, k), queue' = [queue EXCEPT ![k] = <<>>]
          PROVE  queue'[key] = queue[key]
      <4>1. k # key
        BY <2>4, <3>2 DEF Drop
      <4>2. QED
        BY <2>1, <3>2, <4>1 DEF ReceiveInv, ReceiveTypes
    <3>3. QED
      BY <3>1, <3>2
  <2>7. QED
    BY <2>3, <2>4, <2>5, <2>6
<1>4. QED
  BY <1>1, <1>2, <1>3

(* Leaving or removing a subscription takes nothing from another: not its  *)
(* state, its kernel membership, what its socket holds, or its queued      *)
(* packets and their order.                                                *)
THEOREM LeaveIsolatedAlways == Spec => LeaveIsolated
<1> DEFINE A == \A id \in DOMAIN subscriptions :
       IsJoined(id) /\ ~IsJoined(id)' =>
         \A other \in DOMAIN subscriptions \ {id} :
           /\ subscriptions'[other] = subscriptions[other]
           /\ PendingFor(pending_packets', other) = PendingFor(pending_packets, other)
           /\ IsJoined(other) =>
                LET s == subscriptions[other] IN
                /\ s.capture_key \in DOMAIN captures'
                /\ \E e \in kernel[s.capture_key] \cap kernel'[s.capture_key] :
                     e.membership = MembershipKey(s.config)
                /\ queue'[s.capture_key] = queue[s.capture_key]
<1>1. ASSUME Bookkeeping, ReceiveInv, Bookkeeping', [Next]_vars PROVE A
  BY <1>1, LeaveIsolatedStep
<1> HIDE DEF A
<1>2. Bookkeeping /\ ReceiveInv /\ [Next]_vars => [A]_vars
  BY <1>1, NextBookkeeping
<1>3. Spec => [][A]_vars
  BY <1>2, BookkeepingInvariant, ReceiveInvariant, PTL DEF Spec
<1>4. QED
  BY <1>3 DEF LeaveIsolated, A

(* A step of a receive call that reads or moves on. *)
LEMMA ProgressStep ==
  ASSUME Bookkeeping, ReceiveInv, [Next]_vars, call.pc # "idle", call' # call \/ Reads
  PROVE  call' = IdleCall \/ Nearer(call, call')
<1> USE DEF ReceiveInv
<1>1. /\ call \in CallType /\ call.received \in Nat /\ call.visits \in Nat /\ call.reads \in Nat
      /\ call.target \in Nat /\ call.filtered \in Nat /\ call.max \in Nat /\ call.queued \in Nat
  BY DEF ReceiveTypes, CallType
<1>2. CASE VisitCapture
  <2>1. /\ call'.received = call.received /\ call'.visits = call.visits - 1
    BY <1>1, <1>2 DEF VisitCapture, CallType
  <2>2. QED
    BY <1>1, <2>1 DEF Nearer
<1>3. CASE LeaveInnerLoop \/ WouldBlock
  <2>1. /\ call.pc = "read" /\ call'.pc # "read" /\ call'.received = call.received
        /\ call'.visits = call.visits
    BY <1>1, <1>3 DEF LeaveInnerLoop, WouldBlock, MayRead, CallType
  <2>2. QED
    BY <2>1 DEF Nearer
<1>4. CASE SkipUnparsed
  <2>1. /\ call.pc = "read" /\ call'.received = call.received /\ call'.visits = call.visits
        /\ \/ call'.pc # "read"
           \/ /\ call'.pc = "read" /\ call'.reads = call.reads
              /\ call'.filtered = call.filtered + 1 /\ call.filtered + 1 # FilterBudget
    BY <1>1, <1>4 DEF SkipUnparsed, MayRead, CallType
  <2>2. call.filtered < FilterBudget
    BY <2>1 DEF CallShape
  <2>3. QED
    BY <1>1, <2>1, <2>2, ConstantAssumptions DEF Nearer
<1>5. CASE CaptureDatagram
  <2>1. /\ call.reads < call.target /\ call.pc = "read"
        /\ call'.pc = "read" /\ call'.received = call.received /\ call'.visits = call.visits
        /\ call'.reads = call.reads + 1 /\ call'.target = call.target
    BY <1>1, <1>5 DEF CaptureDatagram, MayRead, CallType
  <2>2. QED
    BY <1>1, <2>1 DEF Nearer
<1>6. CASE ReceiveFails
  BY <1>6 DEF ReceiveFails
<1>7. CASE FillReturns
  <2> DEFINE n == Smaller(call.max - call.received, Len(pending_packets))
  <2>1. \/ call' = IdleCall
        \/ /\ call.op = "batch" /\ call.queued > 0 /\ call.received + n < call.max
           /\ call' = StartFill("batch", call.max, call.received + n, pending_packets')
    BY <1>1, <1>7 DEF FillReturns
  <2>2. ASSUME call.op = "batch", call.queued > 0, call.received + n < call.max,
               call' = StartFill("batch", call.max, call.received + n, pending_packets')
        PROVE  call' = IdleCall \/ Nearer(call, call')
    <3>1. /\ Len(pending_packets) = call.queued /\ call.received < call.max
      BY <2>2 DEF ReceiveBounded
    <3>2. n \in Nat \ {0}
      BY <1>1, <2>2, <3>1 DEF Smaller
    <3> HIDE DEF n
    <3>3. \/ call' = IdleCall
          \/ call'.received = call.received + n /\ call'.max = call.max
      BY <2>2 DEF StartFill, IdleCall
    <3>4. QED
      BY <1>1, <2>2, <3>2, <3>3 DEF Nearer
  <2>3. QED
    BY <2>1, <2>2
<1>8. ASSUME NEW key \in Keys, NEW group, NEW source, NEW parses, Arrive(key, group, source, parses)
      PROVE  FALSE
  <2>1. call' = call
    BY <1>8 DEF Arrive
  <2>2. \A k \in Keys : queue[k] \in Seq(DatagramType) /\ Len(queue[k]) \in Nat
    BY DEF ReceiveTypes
  <2>3. PICK d : queue' = [queue EXCEPT ![key] = Append(@, d)]
    BY <1>8 DEF Arrive
  <2>4. ASSUME NEW k \in Keys, Len(queue'[k]) < Len(queue[k]) PROVE FALSE
    <3>1. CASE k = key
      <4>1. queue'[key] = Append(queue[key], d)
        BY <2>3 DEF ReceiveTypes
      <4>2. Len(queue'[key]) = Len(queue[key]) + 1
        BY <2>2, <4>1
      <4>3. QED
        BY <2>2, <2>4, <3>1, <4>2
    <3>2. CASE k # key
      BY <2>2, <2>3, <2>4, <3>2 DEF ReceiveTypes
    <3>3. QED
      BY <3>1, <3>2
  <2>5. QED
    BY <2>1, <2>4 DEF Reads
<1>9. CASE UNCHANGED vars
  <2>1. call' = call /\ queue' = queue
    BY <1>9 DEF vars
  <2>2. \A k \in Keys : Len(queue[k]) \in Nat
    BY DEF ReceiveTypes
  <2>3. QED
    BY <2>1, <2>2 DEF Reads
<1>10. ASSUME \/ \E cfg \in Configs : AddSubscription(cfg)
              \/ \E id \in DOMAIN subscriptions :
                   \/ JoinSubscription(id) \/ JoinFails(id)
                   \/ LeaveSubscription(id) \/ RemoveSubscription(id)
              \/ TryRecvAny \/ \E max \in BatchSizes : TryRecvBatchInto(max)
       PROVE  FALSE
  BY <1>10 DEF AddSubscription, JoinSubscription, JoinFails, LeaveSubscription, RemoveSubscription,
               TryRecvAny, TryRecvBatchInto, Idle
<1>11. QED
  BY <1>2, <1>3, <1>4, <1>5, <1>6, <1>7, <1>8, <1>9, <1>10 DEF Next, Receive

(* Every step of a receive call brings its end nearer, whatever the        *)
(* network does: no flood keeps a non-blocking call from returning.        *)
THEOREM ReceiveProgressesAlways == Spec => ReceiveProgresses
<1> DEFINE A == call.pc # "idle" /\ (call' # call \/ Reads) => call' = IdleCall \/ Nearer(call, call')
<1>1. Bookkeeping /\ ReceiveInv /\ [Next]_vars => [A]_vars
  BY ProgressStep
<1> HIDE DEF A
<1>2. Spec => [][A]_vars
  BY <1>1, BookkeepingInvariant, ReceiveInvariant, PTL DEF Spec
<1>3. QED
  BY <1>2 DEF ReceiveProgresses, A
=============================================================================
