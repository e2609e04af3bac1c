-------------------------- MODULE UdpContextProofs --------------------------
(***************************************************************************)
(* Proofs about UdpContext: the scan and the sockets, the lifecycle state  *)
(* against the kernel, exact delivery, the counters, and round-robin       *)
(* fairness, for every number of subscriptions and every filter budget.    *)
(***************************************************************************)
EXTENDS UdpContext, SubsequenceProofs, SequenceTheorems

(* A subscription's socket is its own and was opened for it. *)
Stored ==
  /\ \A i \in 1..Count : sockets[subscriptions[i].id].config = subscriptions[i].config
  /\ \A i \in 1..Count : subscriptions[i].id < next_subscription_id
  /\ \A id \in DOMAIN sockets : id < next_subscription_id
  /\ \A id \in Ids : next_subscription_id <= id => received[id] = <<>>
  /\ ~Busy => call = Idle

(* StateMatchesKernel, without counting. *)
Members ==
  \A i \in 1..Count :
    LET held == sockets[subscriptions[i].id].member IN
    IF subscriptions[i].joined THEN \E x \in held : held = {x} ELSE held = {}

(* The packets of a batch that is still running are counted already. *)
BatchCounted == call.kind = "batch" => metrics.batch_packets + call.got <= metrics.packets

(* How far the scan has to go from one position to another, and where the  *)
(* scan for a packet is: it began at next_recv_index.                      *)
Distance(a, b) == IF a <= b THEN b - a ELSE b + Count - a
InTurn == call.kind \in {"any", "batch"}
ScanPosition ==
  InTurn => call.tried <= Count /\ (call.tried < Count => Distance(next_recv_index, call.index) = call.tried)

(* A packet that recv_packet finds within n datagrams of a queue. *)
ReadyIn(q, config, n) ==
  \E k \in 1..Len(q) : k <= n /\ Matches(q[k], config) /\ \A j \in 1..k : ~Bare(q[j])
ReadyWithin(id, n) == ReadyIn(sockets[id].queue, sockets[id].config, n)

(* Who was overtaken is still ready, the scan has not passed it, and there *)
(* are fewer subscriptions before it than could still overtake it.         *)
Waits(id, i) ==
  /\ subscriptions[i].id = id /\ subscriptions[i].joined = TRUE
  /\ ReadyWithin(id, FilterBudget)
  /\ overtaken[id] + Distance(next_recv_index, i - 1) < Count
  /\ InTurn => /\ call.tried <= Distance(next_recv_index, i - 1)
               /\ call.index = i - 1 => ReadyWithin(id, FilterBudget - call.filtered)
OvertakenWait == \A id \in Ids : overtaken[id] # 0 => \E i \in 1..Count : Waits(id, i)

(* The inductive invariant, in layers: what is stored where, what is       *)
(* received and counted, and whose turn it is.                             *)
Placed == TypeOK /\ ScanInRange /\ Stored /\ Members
Sums == BatchCounted /\ IsFiniteSet(All(received)) /\ MetricsAgree
InOrder == ScanPosition /\ OvertakenWait
UdpInvariant == Placed /\ ReceivedExact /\ Sums /\ InOrder

-----------------------------------------------------------------------------
(* Facts about the operators of the model. *)

(* The vector of subscriptions, field by field. *)
LEMMA SubsFacts ==
  ASSUME subscriptions \in Seq(SubscriptionType)
  PROVE  /\ Count \in Nat
         /\ \A i \in 1..Count : /\ subscriptions[i] \in SubscriptionType
                                /\ subscriptions[i].id \in Ids
                                /\ subscriptions[i].config \in Configs
                                /\ subscriptions[i].joined \in BOOLEAN
                                /\ subscriptions[i].packets_received \in Nat
<1>1. Count \in Nat /\ \A i \in 1..Count : subscriptions[i] \in SubscriptionType
  BY DEF Count
<1>2. \A s \in SubscriptionType : s.id \in Ids /\ s.config \in Configs /\ s.joined \in BOOLEAN
                                  /\ s.packets_received \in Nat
  BY DEF SubscriptionType
<1>3. QED
  BY <1>1, <1>2

(* A socket, field by field. *)
LEMMA SocketFacts ==
  ASSUME TypeOK, NEW id \in DOMAIN sockets
  PROVE  /\ id \in Ids /\ sockets[id] \in SocketType /\ sockets[id].config \in Configs
         /\ sockets[id].member \in SUBSET (Indexes \cup {0}) /\ sockets[id].queue \in Seq(Datagrams)
<1>1. id \in Ids /\ sockets[id] \in SocketType
  BY DEF TypeOK
<1>2. \A s \in SocketType : s.config \in Configs /\ s.member \in SUBSET (Indexes \cup {0})
                            /\ s.queue \in Seq(Datagrams)
  BY DEF SocketType
<1>3. QED
  BY <1>1, <1>2

(* Vec::swap_remove: every element of the rest was one of the others. *)
From(i, k) == IF k = i THEN Count ELSE k

(* Vec::swap_remove moves the last entry and loses none but the removed one. *)
LEMMA SwapRemoveFacts ==
  ASSUME subscriptions \in Seq(SubscriptionType), NEW i \in 1..Count
  PROVE  LET rest == SwapRemove(subscriptions, i) IN
         /\ rest \in Seq(SubscriptionType) /\ Len(rest) = Count - 1
         /\ \A k \in 1..(Count - 1) : /\ From(i, k) \in 1..Count /\ From(i, k) # i
                                     /\ rest[k] = subscriptions[From(i, k)]
         /\ \A k, l \in 1..(Count - 1) : From(i, k) = From(i, l) => k = l
<1>1. Count \in Nat /\ \A k \in 1..Count : subscriptions[k] \in SubscriptionType
  BY SubsFacts
<1> DEFINE rest == SwapRemove(subscriptions, i)
<1>2. rest = [k \in 1..(Count - 1) |-> subscriptions[From(i, k)]]
  BY DEF SwapRemove, From, Count
<1>3. \A k \in 1..(Count - 1) : From(i, k) \in 1..Count /\ From(i, k) # i
  BY <1>1 DEF From
<1>4. \A k, l \in 1..(Count - 1) : From(i, k) = From(i, l) => k = l
  BY <1>1 DEF From
<1> HIDE DEF rest
<1>5. rest \in Seq(SubscriptionType) /\ Len(rest) = Count - 1
  BY <1>1, <1>2, <1>3
<1>6. QED
  BY <1>2, <1>3, <1>4, <1>5 DEF rest

(* One field of one subscription changes. *)
Kept == /\ Count' = Count /\ subscriptions' \in Seq(SubscriptionType)
        /\ \A j \in 1..Count : /\ subscriptions'[j].id = subscriptions[j].id
                               /\ subscriptions'[j].config = subscriptions[j].config

(* Marking a subscription joined or bound changes nothing else. *)
LEMMA MarkFacts ==
  ASSUME subscriptions \in Seq(SubscriptionType), NEW i \in 1..Count, NEW v \in BOOLEAN,
         MarkJoined(i, v)
  PROVE  /\ Kept
         /\ subscriptions'[i].joined = v
         /\ \A j \in 1..Count \ {i} : subscriptions'[j] = subscriptions[j]
         /\ \A j \in 1..Count : subscriptions'[j].packets_received = subscriptions[j].packets_received
<1>1. /\ Count \in Nat /\ DOMAIN subscriptions = 1..Count
      /\ \A j \in 1..Count : subscriptions[j] \in SubscriptionType
  BY SubsFacts DEF Count
<1> DEFINE new == [subscriptions[i] EXCEPT !.joined = v]
<1>2. /\ new \in SubscriptionType /\ new.id = subscriptions[i].id
      /\ new.config = subscriptions[i].config /\ new.joined = v
      /\ new.packets_received = subscriptions[i].packets_received
  BY <1>1 DEF SubscriptionType
<1>3. subscriptions' = [subscriptions EXCEPT ![i] = new]
  BY DEF MarkJoined
<1> HIDE DEF new
<1>4. /\ subscriptions' \in Seq(SubscriptionType) /\ Len(subscriptions') = Len(subscriptions)
      /\ subscriptions'[i] = new
      /\ \A j \in 1..Count \ {i} : subscriptions'[j] = subscriptions[j]
  BY <1>1, <1>2, <1>3 DEF Count
<1>5. QED
  BY <1>2, <1>4 DEF Kept, Count

(* Counting a packet of a subscription changes nothing else. *)
LEMMA OwnPacketFacts ==
  ASSUME subscriptions \in Seq(SubscriptionType), NEW i \in 1..Count, RecordOwnPacket(i)
  PROVE  /\ Kept
         /\ \A j \in 1..Count \ {i} : subscriptions'[j] = subscriptions[j]
         /\ \A j \in 1..Count : subscriptions'[j].joined = subscriptions[j].joined
         /\ subscriptions'[i].packets_received = subscriptions[i].packets_received + 1
<1>1. /\ Count \in Nat /\ DOMAIN subscriptions = 1..Count
      /\ \A j \in 1..Count : subscriptions[j] \in SubscriptionType
      /\ subscriptions[i].packets_received + 1 \in Nat
  BY SubsFacts DEF Count
<1> DEFINE new == [subscriptions[i] EXCEPT !.packets_received = @ + 1]
<1>2. /\ new \in SubscriptionType /\ new.id = subscriptions[i].id
      /\ new.config = subscriptions[i].config /\ new.joined = subscriptions[i].joined
      /\ new.packets_received = subscriptions[i].packets_received + 1
  BY <1>1 DEF SubscriptionType
<1>3. subscriptions' = [subscriptions EXCEPT ![i] = new]
  BY DEF RecordOwnPacket
<1> HIDE DEF new
<1>4. /\ subscriptions' \in Seq(SubscriptionType) /\ Len(subscriptions') = Len(subscriptions)
      /\ subscriptions'[i] = new
      /\ \A j \in 1..Count \ {i} : subscriptions'[j] = subscriptions[j]
  BY <1>1, <1>2, <1>3 DEF Count
<1>5. QED
  BY <1>2, <1>4 DEF Kept, Count

(* One field of one socket changes. *)
Others(id) == /\ DOMAIN sockets' = DOMAIN sockets
              /\ sockets' \in [DOMAIN sockets -> SocketType]
              /\ \A x \in DOMAIN sockets \ {id} : sockets'[x] = sockets[x]
              /\ sockets'[id].config = sockets[id].config

(* A membership changes: one socket, and not its queue. *)
LEMMA MemberChanges ==
  ASSUME TypeOK, NEW id \in DOMAIN sockets, NEW m \in SUBSET (Indexes \cup {0}),
         sockets' = [sockets EXCEPT ![id].member = m]
  PROVE  Others(id) /\ sockets'[id].member = m /\ sockets'[id].queue = sockets[id].queue
<1>1. sockets[id] \in SocketType /\ sockets \in [DOMAIN sockets -> SocketType]
  BY SocketFacts DEF TypeOK
<1> DEFINE new == [sockets[id] EXCEPT !.member = m]
<1>2. /\ new \in SocketType /\ new.config = sockets[id].config /\ new.member = m
      /\ new.queue = sockets[id].queue
  BY <1>1 DEF SocketType
<1>3. sockets' = [sockets EXCEPT ![id] = new]
  OBVIOUS
<1> HIDE DEF new
<1>4. QED
  BY <1>1, <1>2, <1>3 DEF Others

(* A queue changes: one socket, and not its membership. *)
LEMMA QueueChanges ==
  ASSUME TypeOK, NEW id \in DOMAIN sockets, NEW q \in Seq(Datagrams),
         sockets' = [sockets EXCEPT ![id].queue = q]
  PROVE  Others(id) /\ sockets'[id].queue = q /\ sockets'[id].member = sockets[id].member
<1>1. sockets[id] \in SocketType /\ sockets \in [DOMAIN sockets -> SocketType]
  BY SocketFacts DEF TypeOK
<1> DEFINE new == [sockets[id] EXCEPT !.queue = q]
<1>2. /\ new \in SocketType /\ new.config = sockets[id].config /\ new.queue = q
      /\ new.member = sockets[id].member
  BY <1>1 DEF SocketType
<1>3. sockets' = [sockets EXCEPT ![id] = new]
  OBVIOUS
<1> HIDE DEF new
<1>4. QED
  BY <1>1, <1>2, <1>3 DEF Others

-----------------------------------------------------------------------------
(* Where everything is stored. *)

RestTyped ==
  /\ metrics \in [packets: Nat, batch_packets: Nat]
  /\ links \in [Interfaces -> Indexes \cup {0}]
  /\ arrived \in [Ids -> Seq(Datagrams)] /\ received \in [Ids -> Seq(Datagrams)]
  /\ direct \in Nat /\ overtaken \in [Ids -> Nat]
  /\ \A id \in Ids : next_subscription_id <= id => received[id] = <<>>

ScanFits ==
  /\ next_recv_index \in Nat /\ call \in CallType
  /\ Count > 0 => next_recv_index < Count /\ call.index < Count
  /\ Count = 0 => next_recv_index = 0 /\ ~Busy
  /\ ~Busy => call = Idle

SocketsKept == /\ DOMAIN sockets' = DOMAIN sockets /\ sockets' \in [DOMAIN sockets -> SocketType]
               /\ \A x \in DOMAIN sockets : sockets'[x].config = sockets[x].config

(* Steps that add, remove and reorder nothing. *)
LEMMA PlacedKept ==
  ASSUME Placed, Kept, SocketsKept, next_subscription_id' = next_subscription_id,
         RestTyped', ScanFits', Members'
  PROVE  Placed'
<1>1. TypeOK'
  BY DEF Placed, TypeOK, Kept, SocketsKept, RestTyped, ScanFits
<1>2. ScanInRange'
  <2>1. Count' = Count /\ DOMAIN sockets' = DOMAIN sockets
    BY DEF Kept, SocketsKept
  <2>2. \A i \in 1..Count' : subscriptions'[i].id \in DOMAIN sockets'
    BY <2>1 DEF Placed, ScanInRange, Kept
  <2>3. \A i, j \in 1..Count' : i # j => /\ subscriptions'[i].id # subscriptions'[j].id
                                         /\ subscriptions'[i].config # subscriptions'[j].config
    BY <2>1 DEF Placed, ScanInRange, Kept
  <2>4. QED
    BY <2>2, <2>3 DEF ScanFits, ScanInRange
<1>3. Stored'
  <2>1. Count' = Count /\ DOMAIN sockets' = DOMAIN sockets
    BY DEF Kept, SocketsKept
  <2>2. \A i \in 1..Count' : sockets'[subscriptions'[i].id].config = subscriptions'[i].config
    BY <2>1 DEF Placed, ScanInRange, Stored, Kept, SocketsKept
  <2>3. \A i \in 1..Count' : subscriptions'[i].id < next_subscription_id'
    BY <2>1 DEF Placed, Stored, Kept
  <2>4. QED
    BY <2>1, <2>2, <2>3 DEF Placed, Stored, RestTyped, ScanFits
<1>4. QED
  BY <1>1, <1>2, <1>3 DEF Placed

(* The conjuncts of Placed that are used most. *)
LEMMA PlacedParts ==
  ASSUME Placed
  PROVE  /\ TypeOK /\ ScanInRange /\ Stored /\ Members /\ RestTyped /\ ScanFits
         /\ subscriptions \in Seq(SubscriptionType) /\ Count \in Nat
         /\ sockets \in [DOMAIN sockets -> SocketType]
BY DEF Placed, TypeOK, ScanInRange, Stored, RestTyped, ScanFits, Count

(* The subscription the scan is at, and its socket. *)
LEMMA CurrentFacts ==
  ASSUME Placed, Scanning
  PROVE  /\ Count > 0 /\ call.index \in 0..(Count - 1) /\ call.index + 1 \in 1..Count
         /\ Current = subscriptions[call.index + 1]
         /\ Current.id \in DOMAIN sockets /\ Current.id \in Ids
         /\ sockets[Current.id].config = Current.config
         /\ Current.config \in Configs
         /\ Current.id < next_subscription_id
         /\ Queue \in Seq(Datagrams) /\ Queue = sockets[Current.id].queue
<1>1. call \in CallType /\ call.index \in Nat /\ Count \in Nat
  BY PlacedParts DEF ScanFits, CallType
<1>2. Count > 0 /\ call.index < Count
  BY <1>1, PlacedParts DEF ScanFits, Scanning
<1>3. call.index \in 0..(Count - 1) /\ call.index + 1 \in 1..Count
  BY <1>1, <1>2
<1>4. Current = subscriptions[call.index + 1]
  BY DEF Current, At
<1>5. Current.id \in DOMAIN sockets /\ sockets[Current.id].config = Current.config
      /\ Current.id < next_subscription_id
  BY <1>3, <1>4, PlacedParts DEF ScanInRange, Stored
<1>6. Current.id \in Ids /\ Current.config \in Configs
  BY <1>3, <1>4, PlacedParts, SubsFacts
<1>7. QED
  BY <1>2, <1>3, <1>4, <1>5, <1>6, PlacedParts, SocketFacts DEF Queue

(* A call, field by field. *)
LEMMA CallFields ==
  ASSUME NEW c \in CallType
  PROVE  /\ c.kind \in {"idle", "any", "batch", "one"} /\ c.left \in Nat /\ c.tried \in Nat
         /\ c.index \in Nat /\ c.filtered \in 0..(FilterBudget - 1) /\ c.filtered \in Nat
         /\ c.got \in Nat
BY UdpAssumptions DEF CallType

(* The scan goes on to the next subscription, around the vector. *)
LEMMA AdvancedFacts ==
  ASSUME Placed, Count > 0
  PROVE  /\ Advanced \in CallType /\ Advanced.kind = call.kind /\ Advanced.left = call.left
         /\ Advanced.tried = call.tried + 1 /\ Advanced.filtered = 0 /\ Advanced.got = call.got
         /\ Advanced.index = (IF call.index + 1 = Count THEN 0 ELSE call.index + 1)
         /\ Advanced.index < Count
<1>1. call \in CallType /\ call.index \in Nat /\ Count \in Nat /\ call.index < Count
      /\ call.tried \in Nat
  BY PlacedParts, CallFields DEF ScanFits
<1> DEFINE next == IF call.index + 1 = Count THEN 0 ELSE call.index + 1
<1>2. next \in Nat /\ next < Count /\ call.tried + 1 \in Nat /\ 0 \in 0..(FilterBudget - 1)
  BY <1>1, UdpAssumptions
<1>3. Advanced = [call EXCEPT !.tried = call.tried + 1, !.filtered = 0, !.index = next]
  BY DEF Advanced
<1> HIDE DEF next
<1>4. /\ Advanced \in CallType /\ Advanced.kind = call.kind /\ Advanced.left = call.left
      /\ Advanced.tried = call.tried + 1 /\ Advanced.filtered = 0 /\ Advanced.got = call.got
      /\ Advanced.index = next
  BY <1>1, <1>2, <1>3 DEF CallType
<1>5. QED
  BY <1>2, <1>4 DEF next

(* No call in progress. *)
LEMMA IdleFacts ==
  /\ Idle \in CallType /\ Idle.kind = "idle" /\ Idle.index = 0 /\ Idle.tried = 0
  /\ Idle.filtered = 0 /\ Idle.left = 0 /\ Idle.got = 0
BY UdpAssumptions DEF Idle, CallType

(* NextIndex is the index after, and the first after the last. *)
LEMMA NextIndexFacts ==
  ASSUME Count \in Nat, NEW n \in 0..(Count - 1)
  PROVE  NextIndex(n) = (IF n + 1 = Count THEN 0 ELSE n + 1) /\ NextIndex(n) \in 0..(Count - 1)
BY DEF NextIndex

(* Neither adds, removes nor reorders, and every membership stays. *)
LEMMA MembersKept ==
  ASSUME Placed, Kept, SocketsKept,
         \A j \in 1..Count : subscriptions'[j].joined = subscriptions[j].joined,
         \A x \in DOMAIN sockets : sockets'[x].member = sockets[x].member
  PROVE  Members'
<1>1. Count' = Count
  BY DEF Kept
<1>2. SUFFICES ASSUME NEW i \in 1..Count
               PROVE  LET held == sockets'[subscriptions'[i].id].member IN
                      IF subscriptions'[i].joined THEN \E x \in held : held = {x} ELSE held = {}
  BY <1>1 DEF Members
<1>3. /\ subscriptions'[i].id = subscriptions[i].id /\ subscriptions[i].id \in DOMAIN sockets
      /\ sockets'[subscriptions'[i].id].member = sockets[subscriptions[i].id].member
      /\ subscriptions'[i].joined = subscriptions[i].joined
  BY PlacedParts DEF Kept, ScanInRange
<1>4. LET held == sockets[subscriptions[i].id].member IN
      IF subscriptions[i].joined THEN \E x \in held : held = {x} ELSE held = {}
  BY PlacedParts DEF Members
<1>5. QED
  BY <1>3, <1>4

(* Steps that touch neither the vector nor a socket. *)
LEMMA NothingMoves ==
  ASSUME Placed, UNCHANGED <<subscriptions, sockets>>
  PROVE  Kept /\ SocketsKept /\ Members'
<1>1. Kept /\ SocketsKept
  BY PlacedParts DEF Kept, SocketsKept, Count
<1>2. QED
  BY <1>1, MembersKept

(* Taking the first element off a sequence. *)
LEMMA TailFacts ==
  ASSUME NEW S, NEW q \in Seq(S), q # <<>>
  PROVE  /\ Head(q) \in S /\ Head(q) = q[1] /\ Tail(q) \in Seq(S) /\ Len(q) \in Nat /\ Len(q) > 0
         /\ Len(Tail(q)) = Len(q) - 1
         /\ \A k \in 1..(Len(q) - 1) : Tail(q)[k] = q[k + 1]
OBVIOUS

(* A read takes one datagram off one queue. *)
LEMMA ConsumeFacts ==
  ASSUME Placed, Scanning, Queue # <<>>, Consume
  PROVE  /\ Others(Current.id) /\ SocketsKept
         /\ sockets'[Current.id].queue = Tail(Queue)
         /\ \A x \in DOMAIN sockets : sockets'[x].member = sockets[x].member
<1>1. Tail(Queue) \in Seq(Datagrams) /\ Current.id \in DOMAIN sockets
  BY CurrentFacts, TailFacts
<1>2. sockets' = [sockets EXCEPT ![Current.id].queue = Tail(Queue)]
  BY DEF Consume, Queue
<1>3. /\ Others(Current.id) /\ sockets'[Current.id].queue = Tail(Queue)
      /\ sockets'[Current.id].member = sockets[Current.id].member
  BY <1>1, <1>2, QueueChanges, PlacedParts
<1>4. QED
  BY <1>3 DEF Others, SocketsKept

(* The steps of a receive call. *)
LEMMA PlacedScan ==
  ASSUME Placed, SkipUnjoined \/ WouldBlock
  PROVE  Placed'
<1>1. Scanning /\ call' = Advanced /\ Count > 0
  BY CurrentFacts DEF SkipUnjoined, WouldBlock
<1>2. UNCHANGED <<subscriptions, next_subscription_id, next_recv_index, metrics, sockets, links,
                  arrived, received, direct, overtaken>>
  BY DEF SkipUnjoined, WouldBlock, history
<1>3. Kept /\ SocketsKept /\ Members'
  BY <1>2, NothingMoves
<1>4. RestTyped' /\ ScanFits'
  BY <1>1, <1>2, AdvancedFacts, PlacedParts DEF RestTyped, ScanFits, Count, Busy, Scanning
<1>5. QED
  BY <1>2, <1>3, <1>4, PlacedKept

(* A filtered datagram costs one read and moves the scan on at the budget. *)
LEMMA PlacedFilter ==
  ASSUME Placed, Filter
  PROVE  Placed' /\ SocketsKept /\ call' \in CallType
<1>1. Scanning /\ Queue # <<>> /\ Consume /\ Count > 0
  BY CurrentFacts DEF Filter
<1>2. UNCHANGED <<subscriptions, next_subscription_id, next_recv_index, metrics, links,
                  arrived, received, direct, overtaken>>
  BY DEF Filter, history
<1>3. SocketsKept /\ \A x \in DOMAIN sockets : sockets'[x].member = sockets[x].member
  BY <1>1, ConsumeFacts
<1>4. Kept /\ \A j \in 1..Count : subscriptions'[j].joined = subscriptions[j].joined
  BY <1>2, PlacedParts DEF Kept, Count
<1>5. Members'
  BY <1>3, <1>4, MembersKept
<1>6. call' \in CallType /\ call'.index < Count /\ call'.kind = call.kind
  <2>1. CASE call.filtered + 1 >= FilterBudget
    BY <2>1, <1>1, AdvancedFacts DEF Filter
  <2>2. CASE ~(call.filtered + 1 >= FilterBudget)
    <3>1. call \in CallType /\ call.index < Count /\ call.filtered + 1 \in 0..(FilterBudget - 1)
      BY <2>2, <1>1, PlacedParts, CallFields, UdpAssumptions DEF ScanFits
    <3>2. call' = [call EXCEPT !.filtered = call.filtered + 1]
      BY <2>2 DEF Filter
    <3>3. QED
      BY <3>1, <3>2 DEF CallType
  <2>3. QED
    BY <2>1, <2>2
<1>7. RestTyped' /\ ScanFits'
  BY <1>1, <1>2, <1>6, PlacedParts DEF RestTyped, ScanFits, Count, Busy, Scanning
<1>8. QED
  BY <1>2, <1>3, <1>4, <1>5, <1>6, <1>7, PlacedKept

(* A call returns. *)
LEMMA PlacedReturns ==
  ASSUME Placed, CallReturns
  PROVE  Placed'
<1>1. UNCHANGED <<subscriptions, next_subscription_id, next_recv_index, sockets, links,
                  arrived, received, direct, overtaken>>
  BY DEF CallReturns, history
<1>2. Kept /\ SocketsKept /\ Members'
  BY <1>1, NothingMoves
<1>3. ScanFits'
  BY <1>1, IdleFacts, PlacedParts DEF ScanFits, Count, CallReturns, Busy
<1>4. metrics' \in [packets: Nat, batch_packets: Nat]
  <2>1. /\ metrics \in [packets: Nat, batch_packets: Nat] /\ metrics.batch_packets \in Nat
        /\ call.got \in Nat
    BY PlacedParts, CallFields DEF RestTyped, ScanFits
  <2>2. PICK n \in Nat : metrics' = [metrics EXCEPT !.batch_packets = n]
    BY <2>1 DEF CallReturns
  <2>3. QED
    BY <2>1, <2>2
<1>5. RestTyped'
  BY <1>1, <1>4, PlacedParts DEF RestTyped
<1>6. QED
  BY <1>1, <1>2, <1>3, <1>5, PlacedKept

(* A read fails: the call ends, with or without the datagram read. *)
LEMMA PlacedFails ==
  ASSUME Placed, ReceiveFails
  PROVE  Placed' /\ SocketsKept
<1>1. Scanning /\ call' = Idle /\ Count > 0
  BY CurrentFacts DEF ReceiveFails
<1>2. UNCHANGED <<subscriptions, next_subscription_id, next_recv_index, metrics, links,
                  arrived, received, direct, overtaken>>
  BY DEF ReceiveFails, history
<1>3. SocketsKept /\ \A x \in DOMAIN sockets : sockets'[x].member = sockets[x].member
  <2>1. CASE UNCHANGED sockets
    BY <2>1, PlacedParts DEF SocketsKept
  <2>2. CASE Queue # <<>> /\ Consume
    BY <2>2, <1>1, ConsumeFacts
  <2>3. QED
    BY <2>1, <2>2 DEF ReceiveFails
<1>4. Kept /\ \A j \in 1..Count : subscriptions'[j].joined = subscriptions[j].joined
  BY <1>2, PlacedParts DEF Kept, Count
<1>5. Members'
  BY <1>3, <1>4, MembersKept
<1>6. ScanFits' /\ RestTyped'
  BY <1>1, <1>2, IdleFacts, PlacedParts DEF ScanFits, RestTyped, Count, Busy
<1>7. QED
  BY <1>2, <1>3, <1>4, <1>5, <1>6, PlacedKept

(* A receive call begins at the subscription after the one served last. *)
LEMMA PlacedBegin ==
  ASSUME Placed, \/ Begin("any", 1)
                 \/ \E max \in BatchSizes : Begin("batch", max)
                 \/ \E i \in 1..Count : BeginOne(i)
  PROVE  Placed'
<1>1. PICK k \in {"any", "batch", "one"}, m \in Nat, t \in Nat, n \in Nat :
        /\ Count > 0 /\ n < Count
        /\ call' = [kind |-> k, left |-> m, tried |-> t, index |-> n,
                 filtered |-> 0, got |-> 0]
  <2>1. CASE Begin("any", 1)
    <3>1. Count > 0 /\ next_recv_index \in Nat /\ next_recv_index < Count
      BY <2>1, PlacedParts DEF Begin, ScanFits
    <3>2. call' = [kind |-> "any", left |-> 1, tried |-> 0, index |-> next_recv_index,
                 filtered |-> 0, got |-> 0]
      BY <2>1 DEF Begin, Idle
    <3>3. QED
      BY <3>1, <3>2
  <2>2. CASE \E max \in BatchSizes : Begin("batch", max)
    <3>0. PICK max \in BatchSizes : Begin("batch", max)
      BY <2>2
    <3>1. Count > 0 /\ next_recv_index \in Nat /\ next_recv_index < Count /\ max \in Nat
      BY <3>0, PlacedParts, UdpAssumptions DEF Begin, ScanFits
    <3>2. call' = [kind |-> "batch", left |-> max, tried |-> 0, index |-> next_recv_index,
                 filtered |-> 0, got |-> 0]
      BY <3>0 DEF Begin, Idle
    <3>3. QED
      BY <3>1, <3>2
  <2>3. CASE \E i \in 1..Count : BeginOne(i)
    <3>0. PICK i \in 1..Count : BeginOne(i)
      BY <2>3
    <3>1. Count > 0 /\ Count - 1 \in Nat /\ i - 1 \in Nat /\ i - 1 < Count
      BY PlacedParts
    <3>2. call' = [kind |-> "one", left |-> 1, tried |-> Count - 1, index |-> i - 1,
                 filtered |-> 0, got |-> 0]
      BY <3>0 DEF BeginOne, Idle
    <3>3. QED
      BY <3>1, <3>2
  <2>4. QED
    BY <2>1, <2>2, <2>3
<1>2. call' \in CallType /\ call'.index < Count /\ call'.kind # "idle"
  BY <1>1, UdpAssumptions DEF CallType
<1>3. UNCHANGED <<subscriptions, next_subscription_id, next_recv_index, metrics, sockets, links,
                  arrived, received, direct, overtaken>>
  BY DEF Begin, BeginOne, history
<1>4. Kept /\ SocketsKept /\ Members'
  BY <1>3, NothingMoves
<1>5. RestTyped' /\ ScanFits'
  BY <1>1, <1>2, <1>3, PlacedParts DEF RestTyped, ScanFits, Count, Busy
<1>6. QED
  BY <1>3, <1>4, <1>5, PlacedKept

(* What a delivery does to the call, the index and the counters. *)
Served ==
  IF call.kind = "one"
  THEN /\ call'.left = 0 /\ call'.tried = call.tried /\ call'.index = call.index
       /\ call'.got = 1 /\ next_recv_index' = next_recv_index
       /\ metrics' = metrics /\ direct' = direct + 1
       /\ overtaken' = [overtaken EXCEPT ![Current.id] = 0]
  ELSE /\ call'.left = call.left - 1 /\ call'.tried = 0 /\ call'.filtered = 0
       /\ call'.got = call.got + 1 /\ call'.index = NextIndex(call.index)
       /\ next_recv_index' = NextIndex(call.index) /\ direct' = direct
       /\ metrics'.packets = metrics.packets + 1 /\ metrics'.batch_packets = metrics.batch_packets
       /\ Overtake(Current.id)

(* What handing a packet out does to the call and the counters. *)
LEMMA DeliverFacts ==
  ASSUME Placed, Deliver
  PROVE  /\ call' \in CallType /\ call'.kind = call.kind /\ metrics' \in [packets: Nat, batch_packets: Nat]
         /\ Served /\ direct' \in Nat
<1>1. Scanning /\ Count \in Nat /\ call \in CallType /\ call.index \in 0..(Count - 1)
      /\ direct \in Nat
  BY CurrentFacts, PlacedParts DEF Deliver, ScanFits, RestTyped
<1>2. CASE call.kind = "one"
  <2>1. call' = [call EXCEPT !.left = 0, !.got = 1]
    BY <1>2 DEF Deliver
  <2>2. call' \in CallType /\ call'.kind = call.kind /\ call'.left = 0 /\ call'.tried = call.tried
        /\ call'.index = call.index /\ call'.got = 1
    BY <1>1, <2>1 DEF CallType
  <2>3. UNCHANGED metrics /\ metrics \in [packets: Nat, batch_packets: Nat]
    BY <1>2, PlacedParts DEF Deliver, RestTyped
  <2>4. QED
    BY <1>1, <1>2, <2>2, <2>3 DEF Deliver, Served
<1>3. CASE call.kind # "one"
  <2>1. /\ call.left - 1 \in Nat /\ call.got + 1 \in Nat /\ NextIndex(call.index) \in Nat
        /\ 0 \in 0..(FilterBudget - 1)
    BY <1>1, CallFields, NextIndexFacts, UdpAssumptions DEF Scanning
  <2>2. call' = [call EXCEPT !.left = call.left - 1, !.got = call.got + 1, !.tried = 0,
                             !.filtered = 0, !.index = NextIndex(call.index)]
    BY <1>3 DEF Deliver
  <2>3. /\ call' \in CallType /\ call'.kind = call.kind
        /\ call'.left = call.left - 1 /\ call'.tried = 0 /\ call'.filtered = 0
        /\ call'.got = call.got + 1 /\ call'.index = NextIndex(call.index)
    BY <1>1, <2>1, <2>2 DEF CallType
  <2>4. metrics' \in [packets: Nat, batch_packets: Nat] /\ metrics'.packets = metrics.packets + 1
        /\ metrics'.batch_packets = metrics.batch_packets
    <3>1. metrics \in [packets: Nat, batch_packets: Nat] /\ metrics.packets + 1 \in Nat
      BY PlacedParts DEF RestTyped
    <3>2. metrics' = [metrics EXCEPT !.packets = metrics.packets + 1]
      BY <1>3 DEF Deliver, RecordReceivedPacket
    <3>3. QED
      BY <3>1, <3>2
  <2>5. QED
    BY <1>1, <1>3, <2>3, <2>4 DEF Deliver, Served
<1>4. QED
  BY <1>2, <1>3

(* Handing a packet out keeps the scan within the vector. *)
LEMMA PlacedDeliver ==
  ASSUME Placed, Deliver
  PROVE  /\ Placed' /\ Kept /\ SocketsKept
         /\ \A j \in 1..Count : subscriptions'[j].joined = subscriptions[j].joined
         /\ received' = [received EXCEPT ![Current.id] = Append(received[Current.id], Head(Queue))]
<1>1. Scanning /\ Queue # <<>> /\ Consume /\ RecordOwnPacket(call.index + 1)
  BY DEF Deliver
<1>2. Kept /\ \A j \in 1..Count : subscriptions'[j].joined = subscriptions[j].joined
  BY <1>1, CurrentFacts, OwnPacketFacts, PlacedParts
<1>3. SocketsKept /\ \A x \in DOMAIN sockets : sockets'[x].member = sockets[x].member
  BY <1>1, ConsumeFacts
<1>4. Members'
  BY <1>2, <1>3, MembersKept
<1>5. received' = [received EXCEPT ![Current.id] = Append(received[Current.id], Head(Queue))]
  BY DEF Deliver
<1>6. overtaken' \in [Ids -> Nat]
  <2>1. overtaken \in [Ids -> Nat]
    BY PlacedParts DEF RestTyped
  <2>2. CASE call.kind = "one"
    BY <2>1, <2>2 DEF Deliver
  <2>3. CASE call.kind # "one"
    BY <2>1, <2>3 DEF Deliver, Overtake
  <2>4. QED
    BY <2>2, <2>3
<1>7. RestTyped'
  <2>1. /\ received \in [Ids -> Seq(Datagrams)] /\ Current.id \in Ids /\ Head(Queue) \in Datagrams
        /\ Current.id < next_subscription_id /\ next_subscription_id \in Nat
    BY SMTT(20), <1>1, CurrentFacts, TailFacts, PlacedParts DEF RestTyped, TypeOK
  <2>2. received' \in [Ids -> Seq(Datagrams)]
        /\ \A id \in Ids : id # Current.id => received'[id] = received[id]
    BY <2>1, <1>5
  <2>3. \A id \in Ids : next_subscription_id <= id => received'[id] = <<>>
    BY <2>1, <2>2, PlacedParts DEF RestTyped, Ids
  <2>4. QED
    BY <2>2, <2>3, <1>6, DeliverFacts, PlacedParts DEF RestTyped, Deliver
<1>8. ScanFits'
  <2>1. /\ Count' = Count /\ Count \in Nat /\ Count > 0 /\ call.index < Count
        /\ call.index \in 0..(Count - 1)
        /\ next_recv_index < Count /\ next_recv_index \in Nat
    BY <1>1, <1>2, CurrentFacts, PlacedParts DEF Kept, ScanFits
  <2>2. NextIndex(call.index) < Count /\ NextIndex(call.index) \in Nat
    BY <2>1, NextIndexFacts
  <2>3. QED
    BY <1>1, <2>1, <2>2, DeliverFacts DEF ScanFits, Served, Busy, Scanning
<1>9. QED
  BY <1>2, <1>3, <1>4, <1>5, <1>7, <1>8, PlacedKept DEF Deliver

(* A datagram arrives at one socket. *)
LEMMA PlacedArrive ==
  ASSUME Placed, NEW id \in DOMAIN sockets, NEW d \in Datagrams, Arrive(id, d)
  PROVE  /\ Placed' /\ Kept /\ SocketsKept /\ Others(id) /\ id \in Ids
         /\ sockets'[id].queue = Append(sockets[id].queue, d)
         /\ arrived' = [arrived EXCEPT ![id] = Append(arrived[id], d)]
<1>1. /\ sockets[id].queue \in Seq(Datagrams) /\ id \in Ids
      /\ Append(sockets[id].queue, d) \in Seq(Datagrams)
  BY SocketFacts, PlacedParts
<1>2. sockets' = [sockets EXCEPT ![id].queue = Append(sockets[id].queue, d)]
  BY DEF Arrive
<1>3. /\ Others(id) /\ sockets'[id].queue = Append(sockets[id].queue, d)
      /\ sockets'[id].member = sockets[id].member
  BY <1>1, <1>2, QueueChanges, PlacedParts
<1>4. SocketsKept /\ \A x \in DOMAIN sockets : sockets'[x].member = sockets[x].member
  BY <1>3 DEF Others, SocketsKept
<1>5. UNCHANGED <<subscriptions, next_subscription_id, next_recv_index, metrics, call, links,
                  received, direct, overtaken>>
  BY DEF Arrive
<1>6. Kept /\ \A j \in 1..Count : subscriptions'[j].joined = subscriptions[j].joined
  BY <1>5, PlacedParts DEF Kept, Count
<1>7. arrived' = [arrived EXCEPT ![id] = Append(arrived[id], d)]
  BY DEF Arrive
<1>8. arrived' \in [Ids -> Seq(Datagrams)]
  BY <1>1, <1>7, PlacedParts DEF RestTyped
<1>9. RestTyped' /\ ScanFits'
  BY <1>5, <1>8, PlacedParts DEF RestTyped, ScanFits, Count, Busy
<1>10. QED
  BY <1>1, <1>3, <1>4, <1>5, <1>6, <1>7, <1>9, MembersKept, PlacedKept

(* An interface appears, goes or changes its index. *)
LEMMA PlacedLinks ==
  ASSUME Placed, NEW interface \in Interfaces, NEW index \in Indexes \cup {0},
         LinkChanges(interface, index)
  PROVE  Placed'
<1>1. UNCHANGED <<subscriptions, next_subscription_id, next_recv_index, metrics, call, sockets,
                  arrived, received, direct, overtaken>>
  BY DEF LinkChanges, history
<1>2. links' \in [Interfaces -> Indexes \cup {0}]
  BY PlacedParts DEF RestTyped, LinkChanges
<1>3. RestTyped' /\ ScanFits'
  BY <1>1, <1>2, PlacedParts DEF RestTyped, ScanFits, Count, Busy
<1>4. QED
  BY <1>1, <1>3, NothingMoves, PlacedKept

(* An interface that resolves does so to an index, or to the default. *)
LEMMA ResolveType ==
  ASSUME Placed, NEW config \in Configs, Resolve(config) # NoLink
  PROVE  Resolve(config) \in Indexes \cup {0}
BY UdpAssumptions, PlacedParts DEF Resolve, RestTyped

(* The membership of one socket changes with the state of its subscription. *)
LEMMA PlacedMark ==
  ASSUME Placed, NEW i \in 1..Count, NEW v \in BOOLEAN, NEW m \in SUBSET (Indexes \cup {0}),
         MarkJoined(i, v), sockets' = [sockets EXCEPT ![subscriptions[i].id].member = m],
         v = TRUE => \E x \in m : m = {x}, v = FALSE => m = {},
         UNCHANGED <<next_subscription_id, next_recv_index, metrics, call, links,
                     arrived, received, direct>>,
         overtaken' \in [Ids -> Nat]
  PROVE  /\ Placed' /\ Kept /\ SocketsKept
         /\ \A x \in DOMAIN sockets : sockets'[x].queue = sockets[x].queue
<1>1. /\ Kept /\ subscriptions'[i].joined = v
      /\ \A j \in 1..Count \ {i} : subscriptions'[j] = subscriptions[j]
  BY MarkFacts, PlacedParts
<1>2. subscriptions[i].id \in DOMAIN sockets
  BY PlacedParts DEF ScanInRange
<1>3. /\ Others(subscriptions[i].id) /\ sockets'[subscriptions[i].id].member = m
      /\ sockets'[subscriptions[i].id].queue = sockets[subscriptions[i].id].queue
  BY <1>2, MemberChanges, PlacedParts
<1>4. SocketsKept /\ \A x \in DOMAIN sockets : sockets'[x].queue = sockets[x].queue
  BY <1>3 DEF Others, SocketsKept
<1>5. Members'
  <2>1. SUFFICES ASSUME NEW j \in 1..Count
                 PROVE  LET held == sockets'[subscriptions'[j].id].member IN
                        IF subscriptions'[j].joined THEN \E x \in held : held = {x} ELSE held = {}
    BY <1>1 DEF Members, Kept
  <2>2. subscriptions'[j].id = subscriptions[j].id
    BY <1>1 DEF Kept
  <2>3. CASE j = i
    BY <2>2, <2>3, <1>1, <1>3
  <2>4. CASE j # i
    <3>1. subscriptions'[j].joined = subscriptions[j].joined
      BY <2>4, <1>1
    <3>2. sockets'[subscriptions'[j].id] = sockets[subscriptions[j].id]
      BY <2>2, <2>4, <1>3, PlacedParts DEF ScanInRange, Others
    <3>3. LET held == sockets[subscriptions[j].id].member IN
          IF subscriptions[j].joined THEN \E x \in held : held = {x} ELSE held = {}
      BY PlacedParts DEF Members
    <3>4. QED
      BY <3>1, <3>2, <3>3
  <2>5. QED
    BY <2>3, <2>4
<1>6. RestTyped' /\ ScanFits'
  BY <1>1, PlacedParts DEF RestTyped, ScanFits, Kept, Busy
<1>7. QED
  BY <1>1, <1>4, <1>5, <1>6, PlacedKept

(* A join adds a membership to its own socket only. *)
LEMMA PlacedJoin ==
  ASSUME Placed, NEW i \in 1..Count, JoinSubscription(i)
  PROVE  /\ Placed' /\ Kept /\ SocketsKept
         /\ \A x \in DOMAIN sockets : sockets'[x].queue = sockets[x].queue
<1> DEFINE r == Resolve(subscriptions[i].config)
           id == subscriptions[i].id
           m == sockets[id].member \cup {r}
<1>1. /\ subscriptions[i].joined = FALSE /\ r # NoLink /\ MarkJoined(i, TRUE)
      /\ sockets' = [sockets EXCEPT ![id].member = m]
  BY SubsFacts, PlacedParts DEF JoinSubscription, KernelJoin
<1>2. r \in Indexes \cup {0}
  BY <1>1, ResolveType, SubsFacts, PlacedParts
<1>3. sockets[id].member = {}
  BY <1>1, PlacedParts DEF Members
<1>4. m \in SUBSET (Indexes \cup {0}) /\ \E x \in m : m = {x}
  BY <1>2, <1>3
<1>5. UNCHANGED <<next_subscription_id, next_recv_index, metrics, call, links,
                  arrived, received, direct>> /\ overtaken' \in [Ids -> Nat]
  BY PlacedParts DEF JoinSubscription, history, RestTyped
<1> HIDE DEF r, m
<1>6. QED
  BY <1>1, <1>4, <1>5, PlacedMark

(* A leave takes the membership of its own socket only. *)
LEMMA PlacedLeave ==
  ASSUME Placed, NEW i \in 1..Count, LeaveSubscription(i)
  PROVE  /\ Placed' /\ Kept /\ SocketsKept
         /\ \A x \in DOMAIN sockets : sockets'[x].queue = sockets[x].queue
<1>1. PICK r \in Leavable(subscriptions[i]) \cap sockets[subscriptions[i].id].member :
        sockets' = [sockets EXCEPT ![subscriptions[i].id].member = @ \ {r}]
  BY DEF LeaveSubscription, KernelLeave
<1> DEFINE id == subscriptions[i].id
           m == sockets[id].member \ {r}
<1>2. /\ subscriptions[i].joined = TRUE /\ r \in sockets[id].member /\ MarkJoined(i, FALSE)
      /\ sockets' = [sockets EXCEPT ![id].member = m]
  BY <1>1, SubsFacts, PlacedParts DEF LeaveSubscription
<1>3. \E x \in sockets[id].member : sockets[id].member = {x}
  BY <1>2, PlacedParts DEF Members
<1>4. m = {} /\ m \in SUBSET (Indexes \cup {0})
  BY <1>2, <1>3
<1>5. UNCHANGED <<next_subscription_id, next_recv_index, metrics, call, links,
                  arrived, received, direct>> /\ overtaken' \in [Ids -> Nat]
  BY PlacedParts DEF LeaveSubscription, RestTyped
<1> HIDE DEF m
<1>6. QED
  BY <1>2, <1>4, <1>5, PlacedMark

(* A socket that closes. *)
LEMMA WithoutFacts ==
  ASSUME sockets \in [DOMAIN sockets -> SocketType], NEW id, sockets' = Without(sockets, id)
  PROVE  /\ DOMAIN sockets' = DOMAIN sockets \ {id}
         /\ sockets' \in [DOMAIN sockets' -> SocketType]
         /\ \A x \in DOMAIN sockets' : sockets'[x] = sockets[x]
BY DEF Without

(* A subscription that was taken out is dropped with its socket. *)
LEMMA PlacedDrop ==
  ASSUME Placed, NEW id \in DOMAIN sockets, DropTaken(id)
  PROVE  Placed'
<1>1. UNCHANGED <<subscriptions, next_subscription_id, next_recv_index, metrics, call, links,
                  arrived, received, direct, overtaken>>
  BY DEF DropTaken, history
<1>2. /\ DOMAIN sockets' = DOMAIN sockets \ {id} /\ sockets' \in [DOMAIN sockets' -> SocketType]
      /\ \A x \in DOMAIN sockets' : sockets'[x] = sockets[x]
  BY WithoutFacts, PlacedParts DEF DropTaken
<1>3. /\ Count' = Count
      /\ \A i \in 1..Count : subscriptions[i].id \in DOMAIN sockets' /\ subscriptions[i].id \in DOMAIN sockets
  BY <1>1, <1>2, PlacedParts DEF DropTaken, Count, ScanInRange
<1>4. TypeOK'
  BY <1>1, <1>2, PlacedParts DEF TypeOK
<1>5. ScanInRange'
  BY <1>1, <1>3, PlacedParts DEF ScanInRange, Busy
<1>6. Stored'
  BY <1>1, <1>2, <1>3, PlacedParts DEF Stored, Busy
<1>7. Members'
  <2>1. SUFFICES ASSUME NEW j \in 1..Count
                 PROVE  LET held == sockets'[subscriptions[j].id].member IN
                        IF subscriptions[j].joined THEN \E x \in held : held = {x} ELSE held = {}
    BY <1>1, <1>3 DEF Members
  <2>2. sockets'[subscriptions[j].id] = sockets[subscriptions[j].id]
    BY <1>2, <1>3
  <2>3. QED
    BY <2>2, PlacedParts DEF Members
<1>8. QED
  BY <1>4, <1>5, <1>6, <1>7 DEF Placed

(* A subscription that leaves the vector, with its socket or without. *)
LEMMA PlacedRemoved ==
  ASSUME Placed, NEW i \in 1..Count, FinishRemoval(i), ~Busy,
         sockets' = Without(sockets, subscriptions[i].id) \/ sockets' = sockets,
         overtaken' = [id \in Ids |-> 0],
         UNCHANGED <<next_subscription_id, metrics, call, links, arrived, received, direct>>
  PROVE  Placed'
<1> DEFINE gone == subscriptions[i].id
<1>1. Count \in Nat /\ subscriptions \in Seq(SubscriptionType)
  BY PlacedParts
<1>2. /\ subscriptions' \in Seq(SubscriptionType) /\ Count' = Count - 1
      /\ \A k \in 1..(Count - 1) : /\ From(i, k) \in 1..Count /\ From(i, k) # i
                                  /\ subscriptions'[k] = subscriptions[From(i, k)]
      /\ \A k, l \in 1..(Count - 1) : From(i, k) = From(i, l) => k = l
  BY <1>1, SwapRemoveFacts DEF FinishRemoval, Count
<1>3. /\ DOMAIN sockets' \subseteq DOMAIN sockets /\ DOMAIN sockets \ {gone} \subseteq DOMAIN sockets'
      /\ sockets' \in [DOMAIN sockets' -> SocketType]
      /\ \A x \in DOMAIN sockets' : sockets'[x] = sockets[x]
  BY WithoutFacts, PlacedParts
<1>4. \A k \in 1..(Count - 1) : /\ subscriptions'[k].id \in DOMAIN sockets'
                                /\ sockets'[subscriptions'[k].id] = sockets[subscriptions'[k].id]
  <2>1. TAKE k \in 1..(Count - 1)
  <2>2. From(i, k) \in 1..Count /\ From(i, k) # i /\ subscriptions'[k] = subscriptions[From(i, k)]
    BY <1>2
  <2>3. subscriptions[From(i, k)].id \in DOMAIN sockets /\ subscriptions[From(i, k)].id # gone
    BY <2>2, PlacedParts DEF ScanInRange
  <2>4. QED
    BY <2>2, <2>3, <1>3
<1>5. /\ next_recv_index' \in Nat /\ (Count - 1 > 0 => next_recv_index' < Count - 1)
      /\ (Count - 1 = 0 => next_recv_index' = 0)
  BY <1>1, PlacedParts DEF FinishRemoval, ScanFits
<1>7. TypeOK'
  BY <1>2, <1>3, <1>5, PlacedParts DEF TypeOK
<1>8. ScanInRange'
  <2>1. \A k, l \in 1..(Count - 1) : k # l => /\ subscriptions'[k].id # subscriptions'[l].id
                                              /\ subscriptions'[k].config # subscriptions'[l].config
    <3>1. TAKE k, l \in 1..(Count - 1)
    <3>2. HAVE k # l
    <3>3. /\ From(i, k) \in 1..Count /\ From(i, l) \in 1..Count /\ From(i, k) # From(i, l)
          /\ subscriptions'[k] = subscriptions[From(i, k)]
          /\ subscriptions'[l] = subscriptions[From(i, l)]
      BY <1>2, <3>2
    <3>4. QED
      BY <3>3, PlacedParts DEF ScanInRange
  <2>2. call' = Idle /\ call'.index = 0 /\ ~Busy'
    BY IdleFacts, PlacedParts DEF ScanFits, Busy
  <2>3. QED
    BY <1>1, <1>2, <1>4, <1>5, <2>1, <2>2 DEF ScanInRange
<1>9. Stored'
  BY SMTT(20), <1>2, <1>3, <1>4, PlacedParts DEF Stored, Busy
<1>10. Members'
  <2>1. SUFFICES ASSUME NEW k \in 1..(Count - 1)
                 PROVE  LET held == sockets'[subscriptions'[k].id].member IN
                        IF subscriptions'[k].joined THEN \E x \in held : held = {x} ELSE held = {}
    BY <1>2 DEF Members
  <2>2. /\ sockets'[subscriptions'[k].id] = sockets[subscriptions[From(i, k)].id]
        /\ subscriptions'[k] = subscriptions[From(i, k)] /\ From(i, k) \in 1..Count
    BY <1>2, <1>4
  <2>3. QED
    BY <2>2, PlacedParts DEF Members
<1>11. QED
  BY <1>7, <1>8, <1>9, <1>10 DEF Placed

(* A subscription that is new, at the end of the vector. *)
LEMMA InsertFacts ==
  ASSUME Placed, NEW config \in Configs, NEW socket, socket.queue \in Seq(Datagrams),
         next_subscription_id <= MaxId, InsertSubscription(config, socket)
  PROVE  /\ next_subscription_id \in Ids /\ next_subscription_id \notin DOMAIN sockets
         /\ subscriptions' \in Seq(SubscriptionType) /\ Count' = Count + 1
         /\ \A i \in 1..Count : subscriptions'[i] = subscriptions[i]
         /\ subscriptions'[Count + 1].id = next_subscription_id
         /\ subscriptions'[Count + 1].config = config
         /\ subscriptions'[Count + 1].joined = FALSE
         /\ subscriptions'[Count + 1].packets_received = 0
         /\ DOMAIN sockets' = DOMAIN sockets \cup {next_subscription_id}
         /\ sockets' \in [DOMAIN sockets' -> SocketType]
         /\ \A x \in DOMAIN sockets : sockets'[x] = sockets[x]
         /\ sockets'[next_subscription_id].config = config
         /\ sockets'[next_subscription_id].member = {}
         /\ sockets'[next_subscription_id].queue = socket.queue
         /\ arrived' \in [Ids -> Seq(Datagrams)]
         /\ \A x \in Ids \ {next_subscription_id} : arrived'[x] = arrived[x]
         /\ arrived'[next_subscription_id] = socket.queue
<1> DEFINE new == [id |-> next_subscription_id, config |-> config, joined |-> FALSE,
                   packets_received |-> 0]
           opened == Adopt(socket, config)
           nid == next_subscription_id
<1>1. nid \in Ids /\ Count \in Nat /\ subscriptions \in Seq(SubscriptionType)
  BY PlacedParts, UdpAssumptions DEF TypeOK, Ids
<1>2. nid \notin DOMAIN sockets
  BY <1>1, PlacedParts DEF Stored, Ids
<1>3. new \in SubscriptionType
  BY <1>1 DEF SubscriptionType
<1>4. opened \in SocketType /\ opened.config = config /\ opened.member = {}
      /\ opened.queue = socket.queue
  BY DEF Adopt, SocketType
<1>5. new.id = nid /\ new.config = config /\ new.joined = FALSE /\ new.packets_received = 0
  OBVIOUS
<1>6. /\ subscriptions' = Append(subscriptions, new) /\ sockets' = With(sockets, nid, opened)
      /\ arrived' = [arrived EXCEPT ![nid] = socket.queue]
  BY DEF InsertSubscription
<1> HIDE DEF new, opened, nid
<1>7. /\ subscriptions' \in Seq(SubscriptionType) /\ Count' = Count + 1
      /\ \A i \in 1..Count : subscriptions'[i] = subscriptions[i]
      /\ subscriptions'[Count + 1] = new
  BY <1>1, <1>3, <1>6 DEF Count
<1>8. /\ DOMAIN sockets' = DOMAIN sockets \cup {nid}
      /\ sockets' \in [DOMAIN sockets' -> SocketType]
      /\ \A x \in DOMAIN sockets : sockets'[x] = sockets[x]
      /\ sockets'[nid] = opened
  BY <1>2, <1>4, <1>6, PlacedParts DEF With
<1>9. /\ arrived' \in [Ids -> Seq(Datagrams)] /\ arrived'[nid] = socket.queue
      /\ \A x \in Ids \ {nid} : arrived'[x] = arrived[x]
  BY <1>1, <1>6, PlacedParts DEF RestTyped
<1>10. QED
  BY <1>1, <1>2, <1>4, <1>5, <1>7, <1>8, <1>9 DEF nid

(* A subscription is added under a fresh id. *)
LEMMA PlacedInsert ==
  ASSUME Placed, NEW config \in Configs, NEW socket, socket.queue \in Seq(Datagrams),
         next_subscription_id <= MaxId, IsUnique(config), ~Busy,
         InsertSubscription(config, socket)
  PROVE  Placed'
<1> DEFINE nid == next_subscription_id
<1>1. /\ nid \in Ids /\ nid \notin DOMAIN sockets
      /\ subscriptions' \in Seq(SubscriptionType) /\ Count' = Count + 1
      /\ \A i \in 1..Count : subscriptions'[i] = subscriptions[i]
      /\ subscriptions'[Count + 1].id = nid /\ subscriptions'[Count + 1].config = config
      /\ subscriptions'[Count + 1].joined = FALSE
  BY InsertFacts
<1>2. /\ DOMAIN sockets' = DOMAIN sockets \cup {nid} /\ sockets' \in [DOMAIN sockets' -> SocketType]
      /\ \A x \in DOMAIN sockets : sockets'[x] = sockets[x]
      /\ sockets'[nid].config = config /\ sockets'[nid].member = {}
      /\ arrived' \in [Ids -> Seq(Datagrams)]
  BY InsertFacts
<1>3. /\ next_subscription_id' = nid + 1
      /\ UNCHANGED <<next_recv_index, metrics, call, links, received, direct, overtaken>>
  BY DEF InsertSubscription
<1>4. Count \in Nat /\ nid \in Nat /\ nid >= 1 /\ nid <= MaxId /\ call = Idle /\ Idle.index = 0
      /\ next_recv_index \in Nat /\ DOMAIN sockets \subseteq Ids /\ MaxId \in Nat
  BY SMTT(20), <1>1, PlacedParts, IdleFacts, UdpAssumptions DEF ScanFits, TypeOK, Ids
<1>5. \A i \in 1..Count : /\ subscriptions[i].id \in DOMAIN sockets /\ subscriptions[i].id # nid
                          /\ subscriptions[i].id < nid /\ subscriptions[i].config # config
                          /\ subscriptions[i].id \in Nat
  BY <1>1, <1>4, PlacedParts, SubsFacts DEF ScanInRange, IsUnique, Ids, Stored
<1>6. TypeOK'
  <2>1. nid + 1 \in 1..(MaxId + 1) /\ DOMAIN sockets' \subseteq Ids
    BY <1>1, <1>2, <1>4
  <2>2. next_subscription_id' \in 1..(MaxId + 1)
    BY <1>3, <2>1
  <2>3. QED
    BY <1>1, <1>2, <1>3, <2>1, <2>2, PlacedParts DEF TypeOK
<1>7. \A i \in 1..(Count + 1) : i \in 1..Count \/ i = Count + 1
  BY <1>4
<1>8. ScanInRange'
  <2>1. \A i \in 1..(Count + 1) : subscriptions'[i].id \in DOMAIN sockets'
    BY <1>1, <1>2, <1>5, <1>7
  <2>2. \A i, j \in 1..(Count + 1) : i # j =>
          /\ subscriptions'[i].id # subscriptions'[j].id
          /\ subscriptions'[i].config # subscriptions'[j].config
    BY SMTT(20), <1>1, <1>5, <1>7, PlacedParts DEF ScanInRange
  <2>3. next_recv_index < Count + 1 /\ call.index < Count + 1
    BY <1>4, PlacedParts DEF ScanFits
  <2>4. QED
    <3>1. Count' = Count + 1 /\ Count' # 0 /\ next_recv_index' < Count' /\ call'.index < Count'
      BY <1>1, <1>3, <1>4, <2>3
    <3>2. \A i \in 1..Count' : subscriptions'[i].id \in DOMAIN sockets'
      BY <1>1, <2>1
    <3>3. \A i, j \in 1..Count' : i # j => /\ subscriptions'[i].id # subscriptions'[j].id
                                           /\ subscriptions'[i].config # subscriptions'[j].config
      BY <1>1, <2>2
    <3>4. QED
      BY <3>1, <3>2, <3>3 DEF ScanInRange
<1>9. Stored'
  <2>1. \A i \in 1..(Count + 1) : sockets'[subscriptions'[i].id].config = subscriptions'[i].config
    BY SMTT(20), <1>1, <1>2, <1>5, <1>7, PlacedParts DEF Stored
  <2>2. ASSUME NEW i \in 1..(Count + 1)
        PROVE  subscriptions'[i].id < nid + 1
    <3>1. CASE i = Count + 1
      <4>1. subscriptions'[i].id = nid
        BY <3>1, <1>1
      <4>2. QED
        BY <4>1, <1>4
    <3>2. CASE i \in 1..Count
      <4>1. subscriptions'[i] = subscriptions[i]
        BY <3>2, <1>1
      <4>2. subscriptions[i].id \in Nat /\ subscriptions[i].id < nid
        BY <3>2, <1>5
      <4>3. QED
        BY <4>1, <4>2, <1>4
    <3>3. QED
      BY <3>1, <3>2, <1>7
  <2>3. \A id \in DOMAIN sockets' : id < nid + 1
    BY <1>2, <1>4, PlacedParts DEF Stored, Ids
  <2>4. \A id \in Ids : nid + 1 <= id => received[id] = <<>>
    BY <1>4, PlacedParts DEF Stored, Ids
  <2>5. QED
    BY <1>1, <1>3, <1>4, <2>1, <2>2, <2>3, <2>4 DEF Stored, Busy
<1>10. Members'
  <2>1. SUFFICES ASSUME NEW i \in 1..(Count + 1)
                 PROVE  LET held == sockets'[subscriptions'[i].id].member IN
                        IF subscriptions'[i].joined THEN \E x \in held : held = {x} ELSE held = {}
    BY <1>1 DEF Members
  <2>2. CASE i = Count + 1
    BY <2>2, <1>1, <1>2
  <2>3. CASE i \in 1..Count
    <3>1. subscriptions'[i] = subscriptions[i]
          /\ sockets'[subscriptions[i].id] = sockets[subscriptions[i].id]
      BY <2>3, <1>1, <1>2, <1>5
    <3>2. QED
      BY <2>3, <3>1, PlacedParts DEF Members
  <2>4. QED
    BY <2>2, <2>3, <1>7
<1>11. QED
  BY <1>6, <1>8, <1>9, <1>10 DEF Placed

(* Both ways to add a subscription insert it with its socket. *)
LEMMA AddInserts ==
  ASSUME NEW config \in Configs,
         \/ AddSubscription(config)
         \/ \E socket \in ExistingSockets : AddSubscriptionWithSocket(config, socket)
  PROVE  \E socket : /\ socket.queue \in Seq(Datagrams) /\ InsertSubscription(config, socket)
                     /\ next_subscription_id <= MaxId /\ IsUnique(config) /\ ~Busy
<1>1. CASE AddSubscription(config)
  <2>1. OpenBoundSocket(config).queue = <<>>
    BY DEF OpenBoundSocket, Bound
  <2>2. /\ InsertSubscription(config, OpenBoundSocket(config))
        /\ next_subscription_id <= MaxId /\ IsUnique(config) /\ ~Busy
    BY <1>1 DEF AddSubscription
  <2>3. OpenBoundSocket(config).queue \in Seq(Datagrams)
    BY <2>1
  <2>4. QED
    BY <2>1, <2>2, <2>3, Zenon
<1>2. CASE \E socket \in ExistingSockets : AddSubscriptionWithSocket(config, socket)
  BY <1>2, UdpAssumptions DEF AddSubscriptionWithSocket
<1>3. QED
  BY <1>1, <1>2

(* The empty context. *)
LEMMA PlacedInit ==
  ASSUME Init
  PROVE  Placed
<1>1. /\ subscriptions = <<>> /\ sockets = <<>> /\ call = Idle /\ DOMAIN sockets = {} /\ Count = 0
      /\ next_recv_index = 0 /\ next_subscription_id = 1
  BY DEF Init, Count
<1>2. TypeOK
  <2>1. call \in CallType
    BY <1>1, IdleFacts
  <2>2. sockets \in [DOMAIN sockets -> SocketType]
    BY <1>1
  <2>3. QED
    BY <1>1, <2>1, <2>2, UdpAssumptions DEF Init, TypeOK
<1>3. ScanInRange /\ Stored /\ Members
  BY <1>1, IdleFacts DEF ScanInRange, Stored, Members, Busy, Init
<1>4. QED
  BY <1>2, <1>3 DEF Placed

(* Every step keeps Placed. *)
LEMMA PlacedStep ==
  ASSUME Placed, [Next]_vars
  PROVE  Placed'
<1>1. CASE \E config \in Configs :
             \/ AddSubscription(config)
             \/ \E socket \in ExistingSockets : AddSubscriptionWithSocket(config, socket)
  BY <1>1, AddInserts, PlacedInsert
<1>2. ASSUME NEW i \in 1..Count, RemoveSubscription(i) \/ TakeSubscription(i)
      PROVE  Placed'
  <2>1. /\ FinishRemoval(i) /\ ~Busy /\ overtaken' = [id \in Ids |-> 0]
        /\ sockets' = Without(sockets, subscriptions[i].id) \/ sockets' = sockets
        /\ UNCHANGED <<next_subscription_id, metrics, call, links, arrived, received, direct>>
    BY <1>2 DEF RemoveSubscription, TakeSubscription
  <2>2. QED
    BY <2>1, PlacedRemoved
<1>3. ASSUME NEW i \in 1..Count, JoinSubscription(i) \/ LeaveSubscription(i)
      PROVE  Placed'
  BY <1>3, PlacedJoin, PlacedLeave
<1>4. CASE \/ Begin("any", 1)
           \/ \E max \in BatchSizes : Begin("batch", max)
           \/ \E i \in 1..Count : BeginOne(i)
  BY <1>4, PlacedBegin
<1>5. CASE Receive
  BY <1>5, PlacedScan, PlacedFilter, PlacedDeliver, PlacedFails, PlacedReturns DEF Receive
<1>6. ASSUME NEW id \in DOMAIN sockets, DropTaken(id) \/ \E d \in Datagrams : Arrive(id, d)
      PROVE  Placed'
  BY <1>6, PlacedDrop, PlacedArrive
<1>7. CASE \E interface \in Interfaces, index \in Indexes \cup {0} : LinkChanges(interface, index)
  BY <1>7, PlacedLinks
<1>8. CASE UNCHANGED vars
  <2>1. UNCHANGED <<subscriptions, next_subscription_id, next_recv_index, metrics, call, sockets,
                    links, arrived, received, direct, overtaken>>
    BY <1>8 DEF vars
  <2>2. RestTyped' /\ ScanFits'
    BY <2>1, PlacedParts DEF RestTyped, ScanFits, Count, Busy
  <2>3. QED
    BY <2>1, <2>2, NothingMoves, PlacedKept
<1>9. QED
  BY <1>1, <1>2, <1>3, <1>4, <1>5, <1>6, <1>7, <1>8 DEF Next

-----------------------------------------------------------------------------
(* What is received. *)

(* A set of positions in a sequence has a last one. *)
LEMMA LastPosition ==
  ASSUME NEW n \in Nat, NEW T \in SUBSET (1..n), T # {}
  PROVE  \E i \in T : \A j \in T : j <= i
<1> DEFINE U == {n - j : j \in T}
<1>1. U \in SUBSET Nat /\ U # {}
  <2>1. \A j \in T : n - j \in Nat
    OBVIOUS
  <2>2. QED
    BY <2>1
<1> HIDE DEF U
<1>2. PICK x \in U : \A y \in U : x <= y
  BY <1>1, LeastNatural
<1>3. PICK i \in T : x = n - i
  BY <1>2 DEF U
<1>4. ASSUME NEW j \in T
      PROVE  j <= i
  <2>1. n - j \in U
    BY DEF U
  <2>2. x <= n - j
    BY <1>2, <2>1
  <2>3. i \in 1..n /\ j \in 1..n
    OBVIOUS
  <2>4. QED
    BY <1>3, <2>2, <2>3
<1>5. QED
  BY <1>4

(* The last control message that tells something is one of them. *)
LEMMA LastTellingFacts ==
  ASSUME NEW S, NEW control \in Seq(S), NEW T \in SUBSET DOMAIN control, T # {}
  PROVE  \E i \in T : LastTelling(control, T) = control[i]
<1>1. Len(control) \in Nat /\ T \in SUBSET (1..Len(control))
  OBVIOUS
<1>2. \E i \in T : \A j \in T : j <= i
  BY <1>1, LastPosition
<1>3. (CHOOSE i \in T : \A j \in T : j <= i) \in T
  BY <1>2
<1>4. QED
  BY <1>3 DEF LastTelling

(* What apply_receive_ancillary_data makes of the control messages is what *)
(* the datagram is.                                                        *)
LEMMA MetadataFacts ==
  ASSUME NEW d \in Datagrams
  PROVE  /\ d.control = <<>> => Metadata[d].destination_local_ip = NoAddress
         /\ d.control # <<>> => /\ Metadata[d].destination_local_ip = d.group
                                /\ Metadata[d].ingress_interface_index = d.index
                                /\ d.group # NoAddress
<1> DEFINE C == [address: {NoAddress, d.group}, index: {0, d.index}]
           addresses == {i \in DOMAIN d.control : d.control[i].address # NoAddress}
           indexes   == {i \in DOMAIN d.control : d.control[i].index # 0}
<1>1. d.control \in Seq(C)
  BY ControlMessagesTell
<1>2. Metadata[d].destination_local_ip = LastTelling(d.control, addresses).address
  BY DEF Metadata, ApplyAncillaryData
<1>3. Metadata[d].ingress_interface_index = LastTelling(d.control, indexes).index
  BY DEF Metadata, ApplyAncillaryData
<1>4. \A i \in DOMAIN d.control : /\ d.control[i].address \in {NoAddress, d.group}
                                  /\ d.control[i].index \in {0, d.index}
  <2>1. \A c \in C : c.address \in {NoAddress, d.group} /\ c.index \in {0, d.index}
    OBVIOUS
  <2> HIDE DEF C
  <2>2. \A i \in DOMAIN d.control : d.control[i] \in C
    BY <1>1
  <2>3. QED
    BY <2>1, <2>2
<1>5. ASSUME d.control = <<>>
      PROVE  Metadata[d].destination_local_ip = NoAddress
  <2>1. addresses = {}
    BY <1>5
  <2>2. LastTelling(d.control, {}).address = NoAddress
    BY DEF LastTelling, PktInfo
  <2>3. QED
    BY <1>2, <2>1, <2>2
<1>6. ASSUME d.control # <<>>
      PROVE  /\ Metadata[d].destination_local_ip = d.group
             /\ Metadata[d].ingress_interface_index = d.index /\ d.group # NoAddress
  <2>1. addresses # {} /\ indexes # {}
    BY <1>6, ControlMessagesTell
  <2>2. addresses \in SUBSET DOMAIN d.control /\ indexes \in SUBSET DOMAIN d.control
    OBVIOUS
  <2>3. \A i \in addresses : d.control[i].address = d.group /\ d.group # NoAddress
    BY <1>4
  <2>4. \A i \in indexes : d.control[i].index = d.index
    BY <1>4
  <2> HIDE DEF addresses, indexes, C
  <2>5. PICK i \in addresses : LastTelling(d.control, addresses) = d.control[i]
    BY <1>1, <2>1, <2>2, LastTellingFacts
  <2>6. PICK j \in indexes : LastTelling(d.control, indexes) = d.control[j]
    BY <1>1, <2>1, <2>2, LastTellingFacts
  <2>7. QED
    BY <1>2, <1>3, <2>3, <2>4, <2>5, <2>6
<1>7. QED
  BY <1>5, <1>6

(* packet_matches_subscription decides by what the datagram is, and the    *)
(* call fails exactly for a datagram of which nothing is told.             *)
LEMMA FilterExact ==
  ASSUME NEW d \in Datagrams, NEW config \in Configs
  PROVE  /\ Matches(d, config) <=> IsFor(d, config)
         /\ Bare(d) => ~IsFor(d, config)
         /\ Matches(d, config) => ~Bare(d)
<1>1. config.group # NoAddress
  BY ControlMessagesTell
<1>2. CASE d.control = <<>>
  BY <1>1, <1>2, MetadataFacts DEF Matches, IsFor, Bare
<1>3. CASE d.control # <<>>
  BY <1>1, <1>3, MetadataFacts DEF Matches, IsFor, Bare
<1>4. QED
  BY <1>2, <1>3

Mine(s, config) == {i \in DOMAIN s : IsFor(s[i], config)}

(* What is wanted of a sequence of datagrams are datagrams. *)
LEMMA WantedType ==
  ASSUME NEW s \in Seq(Datagrams), NEW config
  PROVE  Wanted(s, config) \in Seq(Datagrams)
<1>1. Mine(s, config) \in SUBSET DOMAIN s
  BY DEF Mine
<1>2. Wanted(s, config) = Picked(s, Mine(s, config))
  BY DEF Wanted, Mine
<1>3. QED
  BY <1>1, <1>2, PickedFacts

(* A datagram is appended: wanted, it comes last. *)
LEMMA WantedGrows ==
  ASSUME NEW s \in Seq(Datagrams), NEW d \in Datagrams, NEW config
  PROVE  Wanted(Append(s, d), config) =
           IF IsFor(d, config) THEN Append(Wanted(s, config), d) ELSE Wanted(s, config)
<1> DEFINE t == Append(s, d)
           K == Mine(s, config)
           L == K \cup {Len(s) + 1}
<1>1. /\ Len(s) \in Nat /\ DOMAIN s = 1..Len(s) /\ DOMAIN t = 1..(Len(s) + 1)
      /\ t[Len(s) + 1] = d /\ \A i \in DOMAIN s : t[i] = s[i]
  OBVIOUS
<1>2. K \in SUBSET DOMAIN s
  BY DEF Mine
<1>3. Mine(t, config) = IF IsFor(d, config) THEN L ELSE K
  <2> HIDE DEF t
  <2>1. \A i : (i \in Mine(t, config)) <=> (i \in K \/ (i = Len(s) + 1 /\ IsFor(d, config)))
    BY <1>1 DEF Mine
  <2> HIDE DEF K
  <2>2. QED
    BY <2>1
<1>4. Grows(Datagrams, s, K, d, L)
  BY <1>2 DEF Grows
<1> HIDE DEF K, L
<1>5. Picked(t, K) = Picked(s, K) /\ Picked(t, L) = Append(Picked(s, K), d)
  BY <1>4, PickedGrows
<1>6. Wanted(t, config) = Picked(t, Mine(t, config)) /\ Wanted(s, config) = Picked(s, K)
  BY DEF Wanted, Mine, K
<1>7. QED
  BY <1>3, <1>5, <1>6

(* The first datagram goes: wanted, it was the first of those. *)
LEMMA WantedShrinks ==
  ASSUME NEW s \in Seq(Datagrams), s # <<>>, NEW config
  PROVE  Wanted(s, config) =
           IF IsFor(Head(s), config) THEN <<Head(s)>> \o Wanted(Tail(s), config)
                                     ELSE Wanted(Tail(s), config)
<1> DEFINE K == Mine(s, config)
           M == K \ {1}
           L == Mine(Tail(s), config)
<1>1. /\ Head(s) = s[1] /\ Tail(s) \in Seq(Datagrams) /\ Len(s) \in Nat /\ Len(s) > 0
      /\ Len(Tail(s)) = Len(s) - 1 /\ \A k \in 1..(Len(s) - 1) : Tail(s)[k] = s[k + 1]
  BY TailFacts
<1>2. K \in SUBSET DOMAIN s /\ M \in SUBSET DOMAIN s /\ DOMAIN s = 1..Len(s)
  BY DEF Mine
<1>3. Shifted(s, M, 1, L)
  <2>1. L \in SUBSET Int /\ 1 \in 0..Len(s) /\ \A k \in M : 1 < k
    BY <1>1, <1>2 DEF Mine
  <2>2. ASSUME NEW l \in Int
        PROVE  (l \in L) <=> (l + 1 \in M)
    <3>1. (l \in L) <=> (l \in 1..(Len(s) - 1) /\ IsFor(Tail(s)[l], config))
      BY <1>1 DEF Mine
    <3>2. (l + 1 \in M) <=> (l + 1 \in 2..Len(s) /\ IsFor(s[l + 1], config))
      BY <1>1, <1>2 DEF Mine
    <3>3. (l + 1 \in 2..Len(s)) <=> (l \in 1..(Len(s) - 1))
      BY <1>1
    <3>4. QED
      BY <1>1, <3>1, <3>2, <3>3
  <2>3. QED
    BY <2>1, <2>2 DEF Shifted
<1>4. SubSeq(s, 1 + 1, Len(s)) = Tail(s)
  BY <1>1
<1>5. Wanted(Tail(s), config) = Picked(Tail(s), L) /\ Wanted(s, config) = Picked(s, K)
  BY DEF Wanted, Mine
<1>6. (1 \in K) <=> IsFor(Head(s), config)
  BY <1>1, <1>2 DEF Mine
<1> HIDE DEF K, L, M
<1>7. Picked(SubSeq(s, 1 + 1, Len(s)), L) = Picked(s, M)
  BY <1>2, <1>3, PickedShrinks
<1>8. Picked(Tail(s), L) = Picked(s, M)
  BY <1>4, <1>7, Zenon
<1>9. CASE 1 \in K
  <2>1. \A j \in K : 1 <= j
    BY <1>2
  <2>2. Picked(s, K) = <<s[1]>> \o Picked(s, K \ {1})
    BY ZenonT(40), <1>2, <1>9, <2>1, PickedFirst
  <2>3. QED
    BY <1>1, <1>5, <1>6, <1>8, <1>9, <2>2 DEF M
<1>10. CASE 1 \notin K
  <2>1. M = K
    BY <1>10 DEF M
  <2>2. QED
    BY <1>5, <1>6, <1>8, <1>10, <2>1
<1>11. QED
  BY <1>9, <1>10

(* How packets handed out and packets queued make one sequence. *)
LEMMA ConcatFacts ==
  ASSUME NEW S, NEW r \in Seq(S), NEW w \in Seq(S), NEW d \in S
  PROVE  /\ <<>> \o w = w
         /\ r \o Append(w, d) = Append(r \o w, d)
         /\ Append(r, d) \o w = r \o (<<d>> \o w)
<1>1. <<d>> \in Seq(S) /\ r \o w \in Seq(S)
  OBVIOUS
<1>2. <<>> \o w = w
  BY ConcatEmptySeq
<1>3. r \o Append(w, d) = Append(r \o w, d)
  <2>1. Append(w, d) = w \o <<d>> /\ Append(r \o w, d) = (r \o w) \o <<d>>
    BY <1>1, AppendIsConcat
  <2>2. (r \o w) \o <<d>> = r \o (w \o <<d>>)
    BY <1>1, ConcatAssociative
  <2>3. QED
    BY <2>1, <2>2
<1>4. Append(r, d) \o w = r \o (<<d>> \o w)
  <2>1. Append(r, d) = r \o <<d>>
    BY AppendIsConcat
  <2>2. (r \o <<d>>) \o w = r \o (<<d>> \o w)
    BY <1>1, ConcatAssociative
  <2>3. QED
    BY <2>1, <2>2
<1>5. QED
  BY <1>2, <1>3, <1>4

Exact(id) == received[id] \o Wanted(sockets[id].queue, sockets[id].config)
               = Wanted(arrived[id], sockets[id].config)

(* Nothing is read and nothing arrives, though sockets may close. *)
LEMMA ExactKept ==
  ASSUME ReceivedExact, DOMAIN sockets' \subseteq DOMAIN sockets, UNCHANGED <<arrived, received>>,
         \A x \in DOMAIN sockets' : /\ sockets'[x].queue = sockets[x].queue
                                    /\ sockets'[x].config = sockets[x].config
  PROVE  ReceivedExact'
BY DEF ReceivedExact

(* A new subscription has received nothing, as nothing has arrived for it. *)
LEMMA ExactInsert ==
  ASSUME Placed, ReceivedExact, NEW config \in Configs, NEW socket,
         socket.queue \in Seq(Datagrams), next_subscription_id <= MaxId,
         InsertSubscription(config, socket)
  PROVE  ReceivedExact'
<1>1. SUFFICES ASSUME NEW id \in DOMAIN sockets'
               PROVE  received'[id] \o Wanted(sockets'[id].queue, sockets'[id].config)
                        = Wanted(arrived'[id], sockets'[id].config)
  BY DEF ReceivedExact
<1>2. /\ id \in DOMAIN sockets \/ id = next_subscription_id
      /\ next_subscription_id \in Ids /\ next_subscription_id \notin DOMAIN sockets
      /\ received' = received
  BY InsertFacts DEF InsertSubscription
<1>3. CASE id \in DOMAIN sockets
  <2>1. sockets'[id] = sockets[id] /\ arrived'[id] = arrived[id]
    BY <1>2, <1>3, InsertFacts, SocketFacts, PlacedParts
  <2>2. QED
    BY <1>2, <1>3, <2>1 DEF ReceivedExact
<1>4. CASE id = next_subscription_id
  <2>1. received[id] = <<>>
    BY <1>2, <1>4, PlacedParts DEF Stored, Ids
  <2>2. sockets'[id].queue = socket.queue /\ arrived'[id] = socket.queue
    BY <1>4, InsertFacts
  <2>3. Wanted(socket.queue, sockets'[id].config) \in Seq(Datagrams)
    BY WantedType
  <2>4. <<>> \o Wanted(socket.queue, sockets'[id].config) = Wanted(socket.queue, sockets'[id].config)
    BY <2>3, ConcatEmptySeq
  <2>5. QED
    BY <1>2, <2>1, <2>2, <2>4
<1>5. QED
  BY <1>2, <1>3, <1>4

(* What arrives is queued. *)
LEMMA ExactArrive ==
  ASSUME Placed, ReceivedExact, NEW id \in DOMAIN sockets, NEW d \in Datagrams, Arrive(id, d)
  PROVE  ReceivedExact'
<1>1. /\ Others(id) /\ id \in Ids /\ sockets'[id].queue = Append(sockets[id].queue, d)
      /\ arrived' = [arrived EXCEPT ![id] = Append(arrived[id], d)] /\ received' = received
  BY PlacedArrive DEF Arrive
<1>2. /\ arrived \in [Ids -> Seq(Datagrams)] /\ received \in [Ids -> Seq(Datagrams)]
      /\ DOMAIN sockets \subseteq Ids
      /\ sockets[id].queue \in Seq(Datagrams)
  BY PlacedParts, SocketFacts DEF RestTyped, TypeOK
<1> DEFINE config == sockets[id].config
           q == sockets[id].queue
           r == received[id]
           a == arrived[id]
<1>3. r \o Wanted(Append(q, d), config) = Wanted(Append(a, d), config)
  <2>1. q \in Seq(Datagrams) /\ a \in Seq(Datagrams) /\ r \in Seq(Datagrams)
    BY <1>1, <1>2
  <2>2. r \o Wanted(q, config) = Wanted(a, config)
    BY DEF ReceivedExact
  <2> HIDE DEF q, r, a, config
  <2>3. Wanted(q, config) \in Seq(Datagrams)
    BY <2>1, WantedType
  <2>4. CASE IsFor(d, config)
    <3>1. Wanted(Append(q, d), config) = Append(Wanted(q, config), d)
          /\ Wanted(Append(a, d), config) = Append(Wanted(a, config), d)
      BY <2>1, <2>4, WantedGrows
    <3>2. r \o Append(Wanted(q, config), d) = Append(r \o Wanted(q, config), d)
      BY <2>1, <2>3, ConcatFacts
    <3>3. QED
      BY <2>2, <3>1, <3>2
  <2>5. CASE ~IsFor(d, config)
    <3>1. Wanted(Append(q, d), config) = Wanted(q, config)
          /\ Wanted(Append(a, d), config) = Wanted(a, config)
      BY <2>1, <2>5, WantedGrows
    <3>2. QED
      BY <2>2, <3>1
  <2>6. QED
    BY <2>4, <2>5
<1>4. SUFFICES ASSUME NEW x \in DOMAIN sockets
               PROVE  received'[x] \o Wanted(sockets'[x].queue, sockets'[x].config)
                        = Wanted(arrived'[x], sockets'[x].config)
  BY <1>1 DEF ReceivedExact, Others
<1>5. CASE x = id
  <2>1. arrived'[id] = Append(a, d) /\ sockets'[id].config = config
    BY <1>1, <1>2 DEF Others
  <2>2. QED
    BY <1>1, <1>3, <1>5, <2>1
<1>6. CASE x # id
  <2>1. sockets'[x] = sockets[x] /\ arrived'[x] = arrived[x]
    BY <1>1, <1>2, <1>6 DEF Others
  <2>2. QED
    BY <1>1, <2>1 DEF ReceivedExact
<1>7. QED
  BY <1>5, <1>6

(* A datagram that is dropped was not for the subscription. *)
LEMMA ExactDrop ==
  ASSUME Placed, ReceivedExact, Scanning, Queue # <<>>, Consume,
         ~Matches(Head(Queue), Current.config), UNCHANGED <<arrived, received>>
  PROVE  ReceivedExact'
<1> DEFINE id == Current.id
           config == sockets[id].config
<1>1. /\ Queue \in Seq(Datagrams) /\ Queue = sockets[id].queue /\ Head(Queue) \in Datagrams
      /\ config = Current.config /\ config \in Configs /\ id \in DOMAIN sockets
  BY CurrentFacts, TailFacts
<1>2. ~IsFor(Head(Queue), config)
  BY <1>1, FilterExact
<1>3. Wanted(Tail(Queue), config) = Wanted(Queue, config)
  BY <1>1, <1>2, WantedShrinks
<1>4. Others(id) /\ sockets'[id].queue = Tail(Queue)
  BY ConsumeFacts
<1>5. SUFFICES ASSUME NEW x \in DOMAIN sockets
               PROVE  received'[x] \o Wanted(sockets'[x].queue, sockets'[x].config)
                        = Wanted(arrived'[x], sockets'[x].config)
  BY <1>4 DEF ReceivedExact, Others
<1>6. CASE x = id
  BY <1>1, <1>3, <1>4, <1>6 DEF Others, ReceivedExact
<1>7. CASE x # id
  BY <1>4, <1>7 DEF Others, ReceivedExact
<1>8. QED
  BY <1>6, <1>7

(* What is handed out was first in the queue. *)
LEMMA ExactDeliver ==
  ASSUME Placed, ReceivedExact, Deliver
  PROVE  ReceivedExact'
<1> DEFINE id == Current.id
           config == sockets[id].config
           h == Head(Queue)
           w == Wanted(Tail(Queue), config)
           r == received[id]
<1>1. Scanning /\ Queue # <<>> /\ Consume /\ Matches(h, Current.config) /\ arrived' = arrived
  BY DEF Deliver
<1>2. /\ Queue \in Seq(Datagrams) /\ Queue = sockets[id].queue /\ h \in Datagrams
      /\ Tail(Queue) \in Seq(Datagrams)
      /\ config = Current.config /\ config \in Configs /\ id \in DOMAIN sockets /\ id \in Ids
      /\ received \in [Ids -> Seq(Datagrams)] /\ DOMAIN sockets \subseteq Ids
  BY <1>1, CurrentFacts, TailFacts, PlacedParts DEF RestTyped, TypeOK
<1>3. IsFor(h, config)
  BY <1>1, <1>2, FilterExact
<1>4. Wanted(Queue, config) = <<h>> \o w
  BY <1>1, <1>2, <1>3, WantedShrinks
<1>5. w \in Seq(Datagrams) /\ r \in Seq(Datagrams)
  BY <1>2, WantedType
<1>6. Others(id) /\ sockets'[id].queue = Tail(Queue)
  BY <1>1, ConsumeFacts
<1>7. received'[id] = Append(r, h) /\ \A x \in Ids \ {id} : received'[x] = received[x]
  BY <1>2, PlacedDeliver
<1>8. r \o Wanted(Queue, config) = Wanted(arrived[id], config)
  BY <1>2 DEF ReceivedExact
<1>9. sockets'[id].config = config
  BY <1>6 DEF Others
<1> HIDE DEF h, w, r, config
<1>10. Append(r, h) \o w = r \o (<<h>> \o w)
  BY <1>2, <1>5, ConcatFacts
<1>11. SUFFICES ASSUME NEW x \in DOMAIN sockets
                PROVE  received'[x] \o Wanted(sockets'[x].queue, sockets'[x].config)
                         = Wanted(arrived'[x], sockets'[x].config)
  BY <1>6 DEF ReceivedExact, Others
<1>12. CASE x = id
  BY <1>1, <1>4, <1>6, <1>7, <1>8, <1>9, <1>10, <1>12 DEF w
<1>13. CASE x # id
  BY <1>1, <1>2, <1>6, <1>7, <1>13 DEF Others, ReceivedExact
<1>14. QED
  BY <1>12, <1>13

(* Every step keeps delivery exact. *)
LEMMA ExactStep ==
  ASSUME Placed, ReceivedExact, [Next]_vars
  PROVE  ReceivedExact'
<1>1. CASE \E config \in Configs :
             \/ AddSubscription(config)
             \/ \E socket \in ExistingSockets : AddSubscriptionWithSocket(config, socket)
  BY <1>1, AddInserts, ExactInsert
<1>2. ASSUME NEW i \in 1..Count, RemoveSubscription(i) \/ TakeSubscription(i)
      PROVE  ReceivedExact'
  <2>1. /\ sockets' = Without(sockets, subscriptions[i].id) \/ sockets' = sockets
        /\ UNCHANGED <<arrived, received>>
    BY <1>2 DEF RemoveSubscription, TakeSubscription
  <2>2. QED
    BY <2>1, WithoutFacts, ExactKept, PlacedParts
<1>3. ASSUME NEW i \in 1..Count, JoinSubscription(i) \/ LeaveSubscription(i)
      PROVE  ReceivedExact'
  <2>1. SocketsKept /\ \A x \in DOMAIN sockets : sockets'[x].queue = sockets[x].queue
    BY <1>3, PlacedJoin, PlacedLeave
  <2>2. UNCHANGED <<arrived, received>>
    BY <1>3 DEF JoinSubscription, LeaveSubscription, history
  <2>3. QED
    BY <2>1, <2>2, ExactKept DEF SocketsKept
<1>4. CASE UNCHANGED <<sockets, arrived, received>>
  BY <1>4, ExactKept
<1>5. CASE Filter
  BY <1>5, ExactDrop DEF Filter, history
<1>6. CASE ReceiveFails
  <2>1. Scanning /\ UNCHANGED <<arrived, received>>
    BY <1>6 DEF ReceiveFails, history
  <2>2. CASE UNCHANGED sockets
    BY <2>1, <2>2, ExactKept
  <2>3. CASE Queue # <<>> /\ Bare(Head(Queue)) /\ Consume
    <3>1. ~Matches(Head(Queue), Current.config)
      BY <2>1, <2>3, CurrentFacts, TailFacts, FilterExact
    <3>2. QED
      BY <2>1, <2>3, <3>1, ExactDrop
  <2>4. QED
    BY <1>6, <2>2, <2>3 DEF ReceiveFails
<1>7. CASE Deliver
  BY <1>7, ExactDeliver
<1>8. ASSUME NEW id \in DOMAIN sockets, DropTaken(id)
      PROVE  ReceivedExact'
  BY <1>8, WithoutFacts, ExactKept, PlacedParts DEF DropTaken, history
<1>9. ASSUME NEW id \in DOMAIN sockets, NEW d \in Datagrams, Arrive(id, d)
      PROVE  ReceivedExact'
  BY <1>9, ExactArrive
<1>10. QED
  <2>1. \A i \in 1..Count : BeginOne(i) => UNCHANGED <<sockets, arrived, received>>
    BY DEF BeginOne, history
  <2>2. \A kind, max : Begin(kind, max) => UNCHANGED <<sockets, arrived, received>>
    BY DEF Begin, history
  <2>3. SkipUnjoined \/ WouldBlock \/ CallReturns => UNCHANGED <<sockets, arrived, received>>
    BY DEF SkipUnjoined, WouldBlock, CallReturns, history
  <2>4. \A interface, index : LinkChanges(interface, index) => UNCHANGED <<sockets, arrived, received>>
    BY DEF LinkChanges, history
  <2>5. UNCHANGED vars => UNCHANGED <<sockets, arrived, received>>
    BY DEF vars
  <2>6. QED
    BY <1>1, <1>2, <1>3, <1>4, <1>5, <1>6, <1>7, <1>8, <1>9, <2>1, <2>2, <2>3, <2>4, <2>5
    DEF Next, Receive

-----------------------------------------------------------------------------
(* What is counted. *)

(* One packet more is one pair more. *)
LEMMA OneMore ==
  ASSUME received \in [Ids -> Seq(Datagrams)], IsFiniteSet(All(received)), NEW id \in Ids,
         NEW d \in Datagrams, received' = [received EXCEPT ![id] = Append(received[id], d)]
  PROVE  /\ IsFiniteSet(All(received')) /\ Cardinality(All(received)) \in Nat
         /\ Cardinality(All(received')) = Cardinality(All(received)) + 1
         /\ Len(received'[id]) = Len(received[id]) + 1
         /\ \A x \in Ids \ {id} : received'[x] = received[x]
<1> DEFINE n == Len(received[id])
           p == <<id, n + 1>>
<1>1. /\ received'[id] = Append(received[id], d) /\ n \in Nat /\ Len(received'[id]) = n + 1
      /\ \A x \in Ids \ {id} : received'[x] = received[x]
  OBVIOUS
<1>2. \A x \in Ids : Len(received[x]) \in Nat
  OBVIOUS
<1>3. \A f, q : (q \in All(f)) <=> (\E x \in Ids : q \in {x} \X (1..Len(f[x])))
  BY DEF All
<1>4. \A x \in Ids : x # id => {x} \X (1..Len(received'[x])) = {x} \X (1..Len(received[x]))
  BY <1>1
<1>5. 1..(n + 1) = (1..n) \cup {n + 1}
  BY <1>1
<1>6. {id} \X (1..Len(received'[id])) = ({id} \X (1..n)) \cup {p}
  BY <1>1, <1>5
<1> HIDE DEF p
<1>7. All(received') = All(received) \cup {p}
  <2>1. \A q \in All(received') : q \in All(received) \cup {p}
    BY <1>3, <1>4, <1>6, Zenon DEF n
  <2>2. \A q \in All(received) \cup {p} : q \in All(received')
    BY <1>3, <1>4, <1>6, Zenon DEF n
  <2>3. QED
    BY <2>1, <2>2
<1>8. p \notin All(received)
  <2>1. SUFFICES ASSUME NEW x \in Ids, p \in {x} \X (1..Len(received[x]))
                 PROVE  FALSE
    BY <1>3
  <2>2. p = <<id, n + 1>>
    BY DEF p
  <2>3. x = id /\ n + 1 \in 1..n
    BY <2>1, <2>2
  <2>4. QED
    BY <1>1, <2>3
<1> DEFINE A == All(received)
<1>9. IsFiniteSet(A) /\ p \notin A /\ All(received') = A \cup {p}
  BY <1>7, <1>8
<1> HIDE DEF A
<1>10. Cardinality(A) \in Nat
  BY <1>9, FS_CardinalityType
<1>11. IsFiniteSet(A \cup {p}) /\ Cardinality(A \cup {p}) = Cardinality(A) + 1
  BY <1>9, FS_AddElement
<1>12. QED
  BY <1>1, <1>9, <1>10, <1>11 DEF A

(* Steps that deliver nothing, though subscriptions may go. *)
LEMMA SumsKept ==
  ASSUME Sums, UNCHANGED <<metrics, received, direct>>, BatchCounted',
         \A i \in 1..Count' : \E j \in 1..Count :
           /\ subscriptions'[i].id = subscriptions[j].id
           /\ subscriptions'[i].packets_received = subscriptions[j].packets_received
  PROVE  Sums'
BY DEF Sums, MetricsAgree

(* One packet handed out counts once, in its subscription and in the context. *)
LEMMA SumsDeliver ==
  ASSUME Placed, Sums, Deliver
  PROVE  Sums'
<1> DEFINE id == Current.id
           n == Cardinality(All(received))
<1>1. /\ Scanning /\ id \in Ids /\ Head(Queue) \in Datagrams /\ Queue # <<>>
      /\ received \in [Ids -> Seq(Datagrams)] /\ Current = subscriptions[call.index + 1]
      /\ call.index + 1 \in 1..Count /\ Count' = Count
      /\ received' = [received EXCEPT ![id] = Append(received[id], Head(Queue))]
  BY CurrentFacts, TailFacts, PlacedParts, PlacedDeliver DEF RestTyped, Deliver, Kept
<1>2. /\ IsFiniteSet(All(received')) /\ n \in Nat
      /\ Cardinality(All(received')) = n + 1
      /\ Len(received'[id]) = Len(received[id]) + 1
      /\ \A x \in Ids \ {id} : received'[x] = received[x]
  BY <1>1, OneMore DEF Sums
<1>3. /\ metrics.packets \in Nat /\ metrics.batch_packets \in Nat /\ direct \in Nat
      /\ metrics.packets + direct = n /\ metrics.batch_packets <= metrics.packets
      /\ call.got \in Nat
  BY PlacedParts, CallFields DEF RestTyped, ScanFits, Sums, MetricsAgree
<1>4. Served /\ call'.kind = call.kind
  BY DeliverFacts
<1> HIDE DEF n
<1>5. metrics'.packets + direct' = n + 1 /\ metrics'.batch_packets <= metrics'.packets
      /\ BatchCounted'
  BY <1>3, <1>4 DEF Served, BatchCounted, Sums
<1>6. \A i \in 1..Count : subscriptions'[i].packets_received = Len(received'[subscriptions'[i].id])
  <2>1. /\ Kept /\ \A j \in 1..Count \ {call.index + 1} : subscriptions'[j] = subscriptions[j]
        /\ subscriptions'[call.index + 1].packets_received
             = subscriptions[call.index + 1].packets_received + 1
    BY <1>1, OwnPacketFacts, PlacedParts DEF Deliver
  <2>2. TAKE i \in 1..Count
  <2>3. /\ subscriptions'[i].id = subscriptions[i].id /\ subscriptions[i].id \in Ids
        /\ subscriptions[i].packets_received = Len(received[subscriptions[i].id])
    BY <2>1, SubsFacts, PlacedParts DEF Kept, Sums, MetricsAgree
  <2>4. CASE i = call.index + 1
    BY <1>1, <1>2, <2>1, <2>3, <2>4
  <2>5. CASE i # call.index + 1
    <3>1. subscriptions[i].id # id
      BY <1>1, <2>5, PlacedParts DEF ScanInRange
    <3>2. QED
      BY <1>2, <2>1, <2>3, <2>5, <3>1
  <2>6. QED
    BY <2>4, <2>5
<1>7. QED
  BY <1>1, <1>2, <1>5, <1>6 DEF Sums, MetricsAgree

(* A batch is counted when its call returns. *)
LEMMA SumsReturns ==
  ASSUME Placed, Sums, CallReturns
  PROVE  Sums'
<1>1. /\ metrics \in [packets: Nat, batch_packets: Nat] /\ metrics.packets \in Nat
      /\ metrics.batch_packets \in Nat /\ call.got \in Nat
      /\ metrics.batch_packets <= metrics.packets
      /\ call.kind = "batch" => metrics.batch_packets + call.got <= metrics.packets
  BY PlacedParts, CallFields DEF RestTyped, ScanFits, Sums, MetricsAgree, BatchCounted
<1>2. metrics' = [metrics EXCEPT !.batch_packets =
                    IF call.kind = "batch" THEN metrics.batch_packets + call.got
                    ELSE metrics.batch_packets]
  BY DEF CallReturns
<1>3. metrics'.packets = metrics.packets /\ metrics'.batch_packets <= metrics'.packets
  BY <1>1, <1>2
<1>4. UNCHANGED <<subscriptions, received, direct>> /\ call' = Idle
  BY DEF CallReturns, history
<1>5. QED
  BY <1>3, <1>4, IdleFacts DEF Sums, MetricsAgree, BatchCounted, Count

(* Every step keeps the counters equal to what was handed out. *)
LEMMA SumsStep ==
  ASSUME Placed, Sums, [Next]_vars
  PROVE  Sums'
<1> DEFINE Quiet == UNCHANGED <<subscriptions, metrics, received, direct>>
<1>1. ASSUME Quiet, BatchCounted'
      PROVE  Sums'
  BY <1>1, SumsKept DEF Count
<1>2. ASSUME Quiet, call' = call \/ call' = Idle
      PROVE  Sums'
  <2>1. BatchCounted'
    BY <1>2, IdleFacts DEF BatchCounted, Sums
  <2>2. QED
    BY <1>1, <1>2, <2>1
<1>3. CASE \E config \in Configs :
             \/ AddSubscription(config)
             \/ \E socket \in ExistingSockets : AddSubscriptionWithSocket(config, socket)
  <2>0. PICK config \in Configs :
          \E socket : /\ socket.queue \in Seq(Datagrams) /\ next_subscription_id <= MaxId
                      /\ InsertSubscription(config, socket)
    BY <1>3, AddInserts
  <2>1. PICK socket :
          /\ socket.queue \in Seq(Datagrams) /\ next_subscription_id <= MaxId
          /\ InsertSubscription(config, socket)
    BY <2>0
  <2>2. UNCHANGED <<metrics, call, received, direct>>
    BY <2>1 DEF InsertSubscription
  <2>3. \A i \in 1..Count' : subscriptions'[i].packets_received = Len(received[subscriptions'[i].id])
    <3>1. TAKE i \in 1..Count'
    <3>2. Count' = Count + 1 /\ Count \in Nat
      BY <2>1, InsertFacts, PlacedParts
    <3>3. CASE i \in 1..Count
      <4>1. subscriptions'[i] = subscriptions[i]
        BY <2>1, <3>3, InsertFacts
      <4>2. QED
        BY <3>3, <4>1 DEF Sums, MetricsAgree
    <3>4. CASE i = Count + 1
      <4>1. /\ subscriptions'[i].id = next_subscription_id /\ next_subscription_id \in Ids
            /\ subscriptions'[i].packets_received = 0
        BY <2>1, <3>4, InsertFacts
      <4>2. received[next_subscription_id] = <<>>
        BY <4>1, PlacedParts DEF Stored, Ids
      <4>3. QED
        BY <4>1, <4>2
    <3>5. QED
      BY <3>2, <3>3, <3>4
  <2>4. QED
    BY <2>2, <2>3 DEF Sums, MetricsAgree, BatchCounted
<1>4. ASSUME NEW i \in 1..Count, RemoveSubscription(i) \/ TakeSubscription(i)
      PROVE  Sums'
  <2>1. UNCHANGED <<metrics, call, received, direct>> /\ FinishRemoval(i)
    BY <1>4 DEF RemoveSubscription, TakeSubscription
  <2>2. \A k \in 1..Count' : \E j \in 1..Count : subscriptions'[k] = subscriptions[j]
    BY ZenonT(40), <2>1, SwapRemoveFacts, PlacedParts DEF FinishRemoval, Count
  <2>3. QED
    BY <2>1, <2>2, SumsKept DEF Sums, BatchCounted
<1>5. ASSUME NEW i \in 1..Count, JoinSubscription(i) \/ LeaveSubscription(i)
      PROVE  Sums'
  <2>1. UNCHANGED <<metrics, call, received, direct>> /\ \E v \in BOOLEAN : MarkJoined(i, v)
    BY <1>5 DEF JoinSubscription, LeaveSubscription, history
  <2>2. \A k \in 1..Count' : /\ k \in 1..Count /\ subscriptions'[k].id = subscriptions[k].id
                             /\ subscriptions'[k].packets_received = subscriptions[k].packets_received
    BY <2>1, MarkFacts, PlacedParts DEF Kept
  <2>3. QED
    BY <2>1, <2>2, SumsKept DEF Sums, BatchCounted
<1>6. ASSUME NEW kind \in {"any", "batch"}, NEW max, Begin(kind, max)
      PROVE  Sums'
  <2>1. Quiet /\ call' = [Idle EXCEPT !.kind = kind, !.left = max, !.index = next_recv_index]
    BY <1>6 DEF Begin, history
  <2>2. call'.got = 0
    BY <2>1 DEF Idle
  <2>3. metrics.batch_packets \in Nat /\ metrics.batch_packets <= metrics.packets
    BY PlacedParts DEF RestTyped, Sums, MetricsAgree
  <2>4. BatchCounted'
    BY <2>1, <2>2, <2>3 DEF BatchCounted
  <2>5. QED
    BY <1>1, <2>1, <2>4
<1>7. ASSUME NEW i \in 1..Count, BeginOne(i)
      PROVE  Sums'
  <2>1. Quiet /\ call'.kind = "one"
    BY <1>7 DEF BeginOne, history, Idle
  <2>2. QED
    BY <1>1, <2>1 DEF BatchCounted
<1>8. CASE SkipUnjoined \/ WouldBlock \/ Filter
  <2>1. Quiet /\ Scanning
    BY <1>8 DEF SkipUnjoined, WouldBlock, Filter, history
  <2>2. call'.kind = call.kind /\ call'.got = call.got
    <3>1. call \in CallType /\ Advanced.kind = call.kind /\ Advanced.got = call.got
      BY <2>1, CurrentFacts, AdvancedFacts, PlacedParts DEF ScanFits
    <3>2. call' = Advanced \/ call' = [call EXCEPT !.filtered = call.filtered + 1]
      BY <1>8 DEF SkipUnjoined, WouldBlock, Filter
    <3>3. QED
      BY <3>1, <3>2 DEF CallType
  <2>3. QED
    BY <1>1, <2>1, <2>2 DEF BatchCounted, Sums
<1>9. CASE ReceiveFails
  BY <1>9, <1>2 DEF ReceiveFails, history
<1>10. ASSUME NEW id, DropTaken(id) \/ \E d : Arrive(id, d)
       PROVE  Sums'
  BY <1>10, <1>2 DEF DropTaken, Arrive, history
<1>11. ASSUME NEW interface, NEW index, LinkChanges(interface, index)
       PROVE  Sums'
  BY <1>11, <1>2 DEF LinkChanges, history
<1>12. CASE UNCHANGED vars
  BY <1>12, <1>2 DEF vars
<1>13. CASE Deliver \/ CallReturns
  BY <1>13, SumsDeliver, SumsReturns
<1>14. QED
  BY <1>3, <1>4, <1>5, <1>6, <1>7, <1>8, <1>9, <1>10, <1>11, <1>12, <1>13 DEF Next, Receive

(* Nothing has been received at the start. *)
LEMMA CountedInit ==
  ASSUME Init
  PROVE  ReceivedExact /\ Sums
<1>1. /\ DOMAIN sockets = {} /\ Count = 0 /\ direct = 0 /\ call = Idle
      /\ metrics.packets = 0 /\ metrics.batch_packets = 0 /\ \A id \in Ids : received[id] = <<>>
  BY DEF Init, Count
<1>2. All(received) = {}
  <2>1. \A id \in Ids : {id} \X (1..Len(received[id])) = {}
    BY <1>1
  <2>2. QED
    BY <2>1 DEF All
<1>3. IsFiniteSet({}) /\ Cardinality({}) = 0
  BY FS_EmptySet
<1>4. QED
  BY <1>1, <1>2, <1>3, IdleFacts DEF ReceivedExact, Sums, MetricsAgree, BatchCounted

-----------------------------------------------------------------------------
(* Whose turn it is. *)

(* A subscription that is ready within n reads, when datagrams come and go. *)
LEMMA ReadyFacts ==
  ASSUME NEW q \in Seq(Datagrams), NEW config, NEW n \in Int, ReadyIn(q, config, n)
  PROVE  /\ q # <<>> /\ ~Bare(Head(q))
         /\ \A m \in Int : n <= m => ReadyIn(q, config, m)
         /\ ~Matches(Head(q), config) => n >= 2 /\ ReadyIn(Tail(q), config, n - 1)
         /\ \A d \in Datagrams : ReadyIn(Append(q, d), config, n)
<1>1. PICK k \in 1..Len(q) : k <= n /\ Matches(q[k], config) /\ \A j \in 1..k : ~Bare(q[j])
  BY DEF ReadyIn
<1>2. Len(q) \in Nat /\ k \in Nat /\ k >= 1 /\ k <= Len(q) /\ q # <<>>
  OBVIOUS
<1>3. Head(q) = q[1] /\ 1 \in 1..k
  BY <1>2
<1>4. ~Bare(Head(q))
  BY <1>1, <1>3
<1>5. \A m \in Int : n <= m => ReadyIn(q, config, m)
  BY <1>1, <1>2 DEF ReadyIn
<1>6. ASSUME ~Matches(Head(q), config)
      PROVE  n >= 2 /\ ReadyIn(Tail(q), config, n - 1)
  <2>1. k # 1
    BY <1>1, <1>3, <1>6
  <2>2. n >= 2 /\ k - 1 \in 1..(Len(q) - 1) /\ k - 1 <= n - 1
    BY <1>1, <1>2, <2>1
  <2>3. Len(Tail(q)) = Len(q) - 1 /\ \A j \in 1..(Len(q) - 1) : Tail(q)[j] = q[j + 1]
    BY <1>2, TailFacts
  <2>4. Matches(Tail(q)[k - 1], config)
    BY <1>1, <1>2, <2>2, <2>3
  <2>5. \A j \in 1..(k - 1) : ~Bare(Tail(q)[j])
    <3>1. TAKE j \in 1..(k - 1)
    <3>2. j \in 1..(Len(q) - 1) /\ j + 1 \in 1..k
      BY <1>2, <2>2
    <3>3. QED
      BY <1>1, <2>3, <3>2
  <2>6. QED
    BY <2>2, <2>3, <2>4, <2>5 DEF ReadyIn
<1>7. ASSUME NEW d \in Datagrams
      PROVE  ReadyIn(Append(q, d), config, n)
  <2>1. Len(Append(q, d)) = Len(q) + 1 /\ \A j \in 1..Len(q) : Append(q, d)[j] = q[j]
    OBVIOUS
  <2>2. k \in 1..(Len(q) + 1) /\ \A j \in 1..k : j \in 1..Len(q)
    BY <1>2
  <2>3. QED
    BY <1>1, <2>1, <2>2 DEF ReadyIn
<1>8. QED
  BY <1>2, <1>4, <1>5, <1>6, <1>7

After(n) == IF n + 1 = Count THEN 0 ELSE n + 1

(* The distance of the scan. *)
LEMMA DistanceFacts ==
  ASSUME Count \in Nat, NEW a \in 0..(Count - 1), NEW b \in 0..(Count - 1)
  PROVE  /\ Distance(a, b) \in 0..(Count - 1) /\ Distance(a, a) = 0 /\ After(b) \in 0..(Count - 1)
         /\ Distance(a, b) + 1 < Count => Distance(a, After(b)) = Distance(a, b) + 1
BY DEF Distance, After

(* Distances around the vector, from where the scan is. *)
LEMMA DistanceOrder ==
  ASSUME Count \in Nat, NEW a \in 0..(Count - 1), NEW b \in 0..(Count - 1),
         NEW c \in 0..(Count - 1)
  PROVE  /\ Distance(a, b) = Distance(a, c) => b = c
         /\ Distance(a, b) < Distance(a, c) =>
              Distance(After(b), c) = Distance(a, c) - Distance(a, b) - 1
         /\ b # c => Distance(After(b), c) + 1 < Count
BY DEF Distance, After

(* A receive call that scans is either a scan in turn or try_recv. *)
LEMMA ScanFacts ==
  ASSUME Placed, InOrder, Scanning
  PROVE  /\ Count \in Nat /\ next_recv_index \in 0..(Count - 1) /\ call.index \in 0..(Count - 1)
         /\ call.tried \in Nat /\ call.filtered \in Nat /\ call \in CallType
         /\ InTurn => Distance(next_recv_index, call.index) = call.tried
<1>1. /\ Count \in Nat /\ call \in CallType /\ call.tried < Count /\ Count > 0
      /\ next_recv_index \in Nat /\ next_recv_index < Count /\ call.index \in 0..(Count - 1)
  BY CurrentFacts, PlacedParts DEF ScanFits, Scanning
<1>2. QED
  BY <1>1, CallFields DEF InOrder, ScanPosition

(* Every step but a delivery leaves the index: who waits still waits, when *)
(* it is still joined and ready and the scan has not passed it.            *)
LEMMA StillWaits ==
  ASSUME NEW id, NEW i \in 1..Count, Waits(id, i), Kept,
         UNCHANGED next_recv_index, overtaken'[id] = overtaken[id],
         subscriptions'[i].joined = TRUE,
         ReadyIn(sockets'[id].queue, sockets'[id].config, FilterBudget),
         InTurn' => /\ call'.tried <= Distance(next_recv_index, i - 1)
                    /\ call'.index = i - 1 =>
                         ReadyIn(sockets'[id].queue, sockets'[id].config,
                                 FilterBudget - call'.filtered)
  PROVE  Waits(id, i)'
BY DEF Waits, Kept, ReadyWithin, Distance

(* The scan looks at one subscription and gets nothing from it. *)
LEMMA OrderScan ==
  ASSUME Placed, InOrder, SkipUnjoined \/ WouldBlock \/ Filter
  PROVE  InOrder'
<1>1. /\ Scanning /\ UNCHANGED <<subscriptions, next_recv_index, overtaken>>
      /\ Kept /\ Count' = Count
  <2>1. Scanning /\ UNCHANGED <<subscriptions, next_recv_index, overtaken>>
    BY DEF SkipUnjoined, WouldBlock, Filter, history
  <2>2. QED
    BY <2>1, PlacedParts DEF Kept, Count
<1>2. /\ Count \in Nat /\ next_recv_index \in 0..(Count - 1) /\ call.index \in 0..(Count - 1)
      /\ call.tried \in Nat /\ call.filtered \in Nat /\ call \in CallType
      /\ InTurn => Distance(next_recv_index, call.index) = call.tried
      /\ FilterBudget \in Nat /\ call.tried < Count
  BY <1>1, ScanFacts, UdpAssumptions DEF Scanning
<1>3. /\ Advanced.kind = call.kind /\ Advanced.tried = call.tried + 1 /\ Advanced.filtered = 0
      /\ Advanced.index = After(call.index)
  BY <1>1, CurrentFacts, AdvancedFacts DEF After
<1> DEFINE stays == [call EXCEPT !.filtered = call.filtered + 1]
<1>4. /\ stays.kind = call.kind /\ stays.tried = call.tried /\ stays.index = call.index
      /\ stays.filtered = call.filtered + 1
  BY <1>2 DEF CallType
<1>5. \/ call' = Advanced
      \/ Filter /\ call' = stays /\ call.filtered + 1 < FilterBudget
  BY <1>2 DEF SkipUnjoined, WouldBlock, Filter
<1>6. ~Filter => UNCHANGED sockets
  BY DEF SkipUnjoined, WouldBlock
<1> HIDE DEF stays
<1>7. ScanPosition'
  <2>1. ASSUME InTurn
        PROVE  call'.tried <= Count /\
               (call'.tried < Count => Distance(next_recv_index, call'.index) = call'.tried)
    <3>1. CASE call' = Advanced
      <4>1. call.tried + 1 < Count => Distance(next_recv_index, After(call.index)) = call.tried + 1
        BY <1>2, <2>1, DistanceFacts
      <4>2. QED
        BY <1>2, <1>3, <3>1, <4>1
    <3>2. CASE call' = stays
      BY <1>2, <1>4, <2>1, <3>2
    <3>3. QED
      BY <1>5, <3>1, <3>2
  <2>2. InTurn' => InTurn
    BY <1>3, <1>4, <1>5 DEF InTurn
  <2>3. QED
    BY <1>1, <2>1, <2>2 DEF ScanPosition, Distance
<1>8. OvertakenWait'
  <2>1. SUFFICES ASSUME NEW id \in Ids, overtaken[id] # 0
                 PROVE  \E i \in 1..Count : Waits(id, i)'
    BY <1>1 DEF OvertakenWait
  <2>2. PICK i \in 1..Count : Waits(id, i)
    BY <2>1 DEF InOrder, OvertakenWait
  <2>3. /\ subscriptions[i].id = id /\ subscriptions[i].joined = TRUE
        /\ ReadyIn(sockets[id].queue, sockets[id].config, FilterBudget)
        /\ InTurn => /\ call.tried <= Distance(next_recv_index, i - 1)
                     /\ call.index = i - 1 =>
                          ReadyIn(sockets[id].queue, sockets[id].config,
                                  FilterBudget - call.filtered)
    BY <2>2 DEF Waits, ReadyWithin
  <2>4. /\ id \in DOMAIN sockets /\ sockets[id].queue \in Seq(Datagrams)
        /\ Current = subscriptions[call.index + 1] /\ call.index + 1 \in 1..Count
        /\ i - 1 \in 0..(Count - 1)
    BY SMTT(20), <1>1, <1>2, <2>3, CurrentFacts, SocketFacts, PlacedParts DEF ScanInRange
  <2>5. InTurn' => InTurn
    BY <1>3, <1>4, <1>5 DEF InTurn
  <2>6. CASE i = call.index + 1
    <3>1. Current.id = id /\ Current.joined = TRUE /\ Queue = sockets[id].queue
          /\ Current.config = sockets[id].config
      BY <1>1, <2>3, <2>4, <2>6, CurrentFacts DEF Queue
    <3>2. Queue # <<>>
      BY <1>2, <2>3, <2>4, <3>1, ReadyFacts
    <3>3. Filter /\ Consume /\ ~Matches(Head(Queue), Current.config)
      BY <3>1, <3>2 DEF SkipUnjoined, WouldBlock, Filter
    <3>4. sockets'[id].queue = Tail(Queue) /\ sockets'[id].config = sockets[id].config
      BY <1>1, <3>1, <3>2, <3>3, ConsumeFacts DEF Others
    <3>5. ReadyIn(Tail(Queue), sockets[id].config, FilterBudget - 1)
      BY <1>2, <2>3, <2>4, <3>1, <3>3, ReadyFacts
    <3>6. Tail(Queue) \in Seq(Datagrams)
      BY <2>4, <3>1, <3>2, TailFacts
    <3>7. ReadyIn(Tail(Queue), sockets[id].config, FilterBudget)
      <4>1. FilterBudget - 1 \in Int /\ FilterBudget \in Int /\ FilterBudget - 1 <= FilterBudget
        BY <1>2
      <4>2. QED
        BY <3>5, <3>6, <4>1, ReadyFacts
    <3>8. ASSUME InTurn
          PROVE  /\ call' = stays
                 /\ ReadyIn(Tail(Queue), sockets[id].config, FilterBudget - call.filtered - 1)
      <4>1. ReadyIn(Queue, sockets[id].config, FilterBudget - call.filtered)
        BY <1>2, <2>3, <2>4, <2>6, <3>1, <3>8
      <4>2. FilterBudget - call.filtered \in Int
        BY <1>2
      <4>3. /\ FilterBudget - call.filtered >= 2
            /\ ReadyIn(Tail(Queue), sockets[id].config, FilterBudget - call.filtered - 1)
        BY <2>4, <3>1, <3>3, <4>1, <4>2, ReadyFacts
      <4>4. ~(call.filtered + 1 >= FilterBudget)
        BY <1>2, <4>3
      <4>5. QED
        BY <3>3, <4>3, <4>4 DEF Filter, stays
    <3>9. ASSUME InTurn'
          PROVE  /\ call'.tried <= Distance(next_recv_index, i - 1)
                 /\ ReadyIn(sockets'[id].queue, sockets'[id].config, FilterBudget - call'.filtered)
      <4>1. call' = stays /\ ReadyIn(Tail(Queue), sockets[id].config, FilterBudget - call.filtered - 1)
        BY <2>5, <3>8, <3>9
      <4>2. FilterBudget - call'.filtered = FilterBudget - call.filtered - 1
        BY <1>2, <1>4, <4>1
      <4>3. QED
        BY <1>4, <2>3, <2>5, <3>4, <3>9, <4>1, <4>2
    <3>10. Waits(id, i)'
      BY <1>1, <2>2, <2>3, <3>4, <3>7, <3>9, StillWaits
    <3>11. QED
      BY <3>10
  <2>7. CASE i # call.index + 1
    <3>1. id # Current.id
      BY <2>3, <2>4, <2>7, PlacedParts DEF ScanInRange
    <3>2. sockets'[id] = sockets[id]
      <4>1. CASE Filter
        <5>1. Others(Current.id)
          BY <1>1, <4>1, ConsumeFacts DEF Filter
        <5>2. QED
          BY <2>4, <3>1, <5>1 DEF Others
      <4>2. QED
        BY <1>6, <4>1
    <3>3. ASSUME InTurn'
          PROVE  /\ call'.tried <= Distance(next_recv_index, i - 1)
                 /\ call'.index = i - 1 =>
                      ReadyIn(sockets'[id].queue, sockets'[id].config, FilterBudget - call'.filtered)
      <4>1. call.tried <= Distance(next_recv_index, i - 1) /\ call.index # i - 1
            /\ Distance(next_recv_index, call.index) = call.tried
        BY <1>2, <2>3, <2>4, <2>5, <2>7, <3>3
      <4>2. Distance(next_recv_index, call.index) # Distance(next_recv_index, i - 1)
            /\ Distance(next_recv_index, i - 1) \in Nat
        <5>1. Distance(next_recv_index, call.index) # Distance(next_recv_index, i - 1)
          BY <1>2, <2>4, <4>1, DistanceOrder
        <5>2. Distance(next_recv_index, i - 1) \in 0..(Count - 1)
          BY <1>2, <2>4, DistanceFacts
        <5>3. QED
          BY <5>1, <5>2
      <4>3. call.tried + 1 <= Distance(next_recv_index, i - 1)
        BY <1>2, <4>1, <4>2
      <4>4. CASE call' = Advanced
        <5>1. FilterBudget - call'.filtered = FilterBudget
          BY <1>2, <1>3, <4>4
        <5>2. QED
          BY <1>3, <2>3, <3>2, <4>3, <4>4, <5>1
      <4>5. CASE call' = stays
        BY <1>4, <4>1, <4>5
      <4>6. QED
        BY <1>5, <4>4, <4>5
    <3>4. Waits(id, i)'
      BY <1>1, <2>2, <2>3, <3>2, <3>3, StillWaits
    <3>5. QED
      BY <3>4
  <2>8. QED
    BY <2>6, <2>7
<1>9. QED
  BY <1>7, <1>8 DEF InOrder

(* A delivery: the scan starts behind the subscription that was served.    *)
LEMMA OrderDeliver ==
  ASSUME Placed, InOrder, Deliver
  PROVE  InOrder'
<1>1. /\ Scanning /\ Kept /\ SocketsKept /\ Count' = Count /\ Queue # <<>> /\ Consume
      /\ \A j \in 1..Count : subscriptions'[j].joined = subscriptions[j].joined
  BY PlacedDeliver DEF Kept, Deliver
<1>2. /\ Count \in Nat /\ next_recv_index \in 0..(Count - 1) /\ call.index \in 0..(Count - 1)
      /\ call.tried \in Nat /\ call.filtered \in Nat /\ call \in CallType
      /\ InTurn => Distance(next_recv_index, call.index) = call.tried
      /\ FilterBudget \in Nat /\ call.tried < Count
  BY <1>1, ScanFacts, UdpAssumptions DEF Scanning
<1>3. Served /\ call'.kind = call.kind /\ call.kind # "idle"
  BY <1>1, DeliverFacts DEF Scanning, Busy
<1>4. /\ Current = subscriptions[call.index + 1] /\ call.index + 1 \in 1..Count
      /\ Current.id \in Ids /\ overtaken \in [Ids -> Nat] /\ Others(Current.id)
  BY <1>1, CurrentFacts, ConsumeFacts, PlacedParts DEF RestTyped
<1>5. \A i \in 1..Count : i # call.index + 1 =>
        /\ subscriptions[i].id # Current.id /\ subscriptions[i].id \in DOMAIN sockets
        /\ sockets'[subscriptions[i].id] = sockets[subscriptions[i].id]
  BY <1>4, PlacedParts DEF ScanInRange, Others
<1>6. CASE call.kind = "one"
  <2>1. UNCHANGED next_recv_index /\ ~InTurn'
        /\ overtaken' = [overtaken EXCEPT ![Current.id] = 0]
    BY <1>3, <1>6 DEF Served, InTurn
  <2>2. ASSUME NEW id \in Ids, overtaken'[id] # 0
        PROVE  \E i \in 1..Count' : Waits(id, i)'
    <3>1. id # Current.id /\ overtaken'[id] = overtaken[id] /\ overtaken[id] # 0
      BY <1>4, <2>1, <2>2
    <3>2. PICK i \in 1..Count : Waits(id, i)
      BY <3>1 DEF InOrder, OvertakenWait
    <3>3. subscriptions[i].id = id /\ subscriptions[i].joined = TRUE
          /\ ReadyIn(sockets[id].queue, sockets[id].config, FilterBudget)
      BY <3>2 DEF Waits, ReadyWithin
    <3>4. i # call.index + 1 /\ sockets'[id] = sockets[id] /\ subscriptions'[i].joined = TRUE
      BY <1>1, <1>4, <1>5, <3>1, <3>3
    <3>5. Waits(id, i)'
      BY <1>1, <2>1, <3>1, <3>2, <3>3, <3>4, StillWaits
    <3>6. QED
      BY <1>1, <3>5
  <2>3. QED
    BY <2>1, <2>2 DEF InOrder, ScanPosition, OvertakenWait
<1>7. CASE call.kind # "one"
  <2> DEFINE next == After(call.index)
  <2>1. InTurn /\ InTurn'
    <3>1. call.kind \in {"any", "batch"}
      BY <1>2, <1>3, <1>7, CallFields
    <3>2. QED
      BY <1>3, <3>1 DEF InTurn
  <2>2. /\ next_recv_index' = next /\ call'.index = next /\ call'.tried = 0 /\ call'.filtered = 0
        /\ Overtake(Current.id) /\ next \in 0..(Count - 1)
    BY <1>2, <1>3, <1>7, NextIndexFacts DEF Served, After
  <2> HIDE DEF next
  <2>3. Distance(next, next) = 0
    BY <1>2, <2>2, DistanceFacts
  <2>4. ScanPosition'
    BY <1>1, <1>2, <2>2, <2>3 DEF ScanPosition, Distance
  <2>5. ASSUME NEW id \in Ids, overtaken'[id] # 0
        PROVE  \E i \in 1..Count' : Waits(id, i)'
    <3>1. /\ id # Current.id /\ overtaken'[id] = overtaken[id] + 1 /\ Ready(id)
          /\ \E i \in 1..Count : subscriptions[i].id = id /\ subscriptions[i].joined
      BY <2>2, <2>5 DEF Overtake
    <3>2. PICK i \in 1..Count : subscriptions[i].id = id /\ subscriptions[i].joined = TRUE
      BY <3>1, SubsFacts, PlacedParts
    <3>3. /\ i # call.index + 1 /\ sockets'[id] = sockets[id] /\ subscriptions'[i].joined = TRUE
          /\ subscriptions'[i].id = id /\ i - 1 \in 0..(Count - 1) /\ i - 1 # call.index
      <4>1. i # call.index + 1
        BY <1>4, <3>1, <3>2
      <4>2. sockets'[id] = sockets[id] /\ subscriptions'[i].joined = TRUE
            /\ subscriptions'[i].id = id
        BY <1>1, <1>5, <3>2, <4>1 DEF Kept
      <4>3. i - 1 \in 0..(Count - 1) /\ i - 1 # call.index
        BY <1>2, <4>1
      <4>4. QED
        BY <4>1, <4>2, <4>3
    <3>4. ReadyIn(sockets'[id].queue, sockets'[id].config, FilterBudget)
      BY <3>1, <3>3 DEF Ready, ReadyIn
    <3>5. Distance(next, i - 1) \in 0..(Count - 1)
      BY <1>2, <2>2, <3>3, DistanceFacts
    <3>6. overtaken[id] + 1 + Distance(next, i - 1) < Count
      <4>1. CASE overtaken[id] = 0
        <5>1. Distance(next, i - 1) + 1 < Count
          BY <1>2, <3>3, DistanceOrder DEF next
        <5>2. QED
          BY <1>2, <3>5, <4>1, <5>1
      <4>2. CASE overtaken[id] # 0
        <5>1. PICK j \in 1..Count : Waits(id, j)
          BY <4>2 DEF InOrder, OvertakenWait
        <5>2. j = i
          BY <3>2, <5>1, PlacedParts DEF ScanInRange, Waits
        <5>3. /\ overtaken[id] + Distance(next_recv_index, i - 1) < Count
              /\ Distance(next_recv_index, call.index) <= Distance(next_recv_index, i - 1)
          BY <1>2, <2>1, <5>1, <5>2 DEF Waits
        <5>4. /\ Distance(next_recv_index, i - 1) \in 0..(Count - 1)
              /\ Distance(next_recv_index, call.index) \in Nat
          BY <1>2, <2>1, <3>3, DistanceFacts
        <5>5. Distance(next_recv_index, call.index) # Distance(next_recv_index, i - 1)
          BY <1>2, <3>3, DistanceOrder
        <5>6. Distance(next_recv_index, call.index) < Distance(next_recv_index, i - 1)
          BY <5>3, <5>4, <5>5
        <5>7. Distance(next, i - 1) =
                Distance(next_recv_index, i - 1) - Distance(next_recv_index, call.index) - 1
          BY <1>2, <3>3, <5>6, DistanceOrder DEF next
        <5>8. overtaken[id] \in Nat
          BY <1>4
        <5>9. QED
          BY <1>2, <5>3, <5>4, <5>7, <5>8
      <4>3. QED
        BY <4>1, <4>2
    <3>7. FilterBudget - call'.filtered = FilterBudget
      BY <1>2, <2>2
    <3>8. Distance(next_recv_index, i - 1)' = Distance(next, i - 1)
      BY <1>1, <2>2 DEF Distance
    <3>9. /\ ReadyWithin(id, FilterBudget)' /\ ReadyWithin(id, FilterBudget - call.filtered)'
      BY <3>4, <3>7 DEF ReadyWithin
    <3>10. call'.tried <= Distance(next, i - 1)
      BY <2>2, <3>5
    <3>11. Waits(id, i)'
      BY <1>1, <3>1, <3>3, <3>6, <3>8, <3>9, <3>10 DEF Waits
    <3>12. QED
      BY <1>1, <3>11
  <2>6. QED
    BY <2>4, <2>5 DEF InOrder, OvertakenWait
<1>8. QED
  BY <1>6, <1>7

(* Steps in which who waits is as ready as before and no scan moves: the   *)
(* call is over, has just begun, or is a try_recv.                         *)
LEMMA OrderKept ==
  ASSUME Placed, InOrder, Kept, UNCHANGED next_recv_index,
         \A id \in Ids : overtaken'[id] # 0 => overtaken'[id] = overtaken[id],
         \A i \in 1..Count, id \in Ids : Waits(id, i) /\ overtaken'[id] # 0 =>
           /\ subscriptions'[i].joined = TRUE
           /\ \A n \in Int : ReadyIn(sockets[id].queue, sockets[id].config, n) =>
                               ReadyIn(sockets'[id].queue, sockets'[id].config, n),
         \/ call' = call
         \/ ~InTurn'
         \/ Count > 0 /\ call'.index = next_recv_index /\ call'.tried = 0 /\ call'.filtered = 0
  PROVE  InOrder'
<1>1. /\ Count' = Count /\ Count \in Nat /\ next_recv_index \in Nat /\ call.filtered \in Nat
      /\ Count > 0 => next_recv_index \in 0..(Count - 1)
      /\ FilterBudget \in Nat
  BY PlacedParts, CallFields, UdpAssumptions DEF ScanFits, Kept
<1>2. ScanPosition'
  <2>1. CASE call' = call
    BY <1>1, <2>1 DEF InOrder, ScanPosition, InTurn, Distance
  <2>2. CASE ~InTurn'
    BY <2>2 DEF ScanPosition
  <2>3. CASE Count > 0 /\ call'.index = next_recv_index /\ call'.tried = 0
    BY <1>1, <2>3 DEF ScanPosition, Distance
  <2>4. QED
    BY <2>1, <2>2, <2>3
<1>3. ASSUME NEW id \in Ids, overtaken'[id] # 0
      PROVE  \E i \in 1..Count' : Waits(id, i)'
  <2>1. overtaken'[id] = overtaken[id] /\ overtaken[id] # 0
    BY <1>3
  <2>2. PICK i \in 1..Count : Waits(id, i)
    BY <2>1 DEF InOrder, OvertakenWait
  <2>3. /\ subscriptions'[i].joined = TRUE
        /\ \A n \in Int : ReadyIn(sockets[id].queue, sockets[id].config, n) =>
                            ReadyIn(sockets'[id].queue, sockets'[id].config, n)
        /\ i - 1 \in 0..(Count - 1) /\ Count > 0
    BY <1>1, <1>3, <2>2
  <2>4. FilterBudget \in Int /\ FilterBudget - call.filtered \in Int
    BY <1>1
  <2>5. ReadyIn(sockets'[id].queue, sockets'[id].config, FilterBudget)
    BY <2>2, <2>3, <2>4 DEF Waits, ReadyWithin
  <2>6. ASSUME InTurn'
        PROVE  /\ call'.tried <= Distance(next_recv_index, i - 1)
               /\ call'.index = i - 1 =>
                    ReadyIn(sockets'[id].queue, sockets'[id].config, FilterBudget - call'.filtered)
    <3>1. CASE call' = call
      <4>1. InTurn
        BY <2>6, <3>1 DEF InTurn
      <4>2. QED
        BY <2>2, <2>3, <2>4, <3>1, <4>1 DEF Waits, ReadyWithin
    <3>2. CASE call'.tried = 0 /\ call'.filtered = 0
      <4>1. Distance(next_recv_index, i - 1) \in 0..(Count - 1)
        BY <1>1, <2>3, DistanceFacts
      <4>2. FilterBudget - call'.filtered = FilterBudget
        BY <1>1, <3>2
      <4>3. QED
        BY <1>1, <2>5, <3>2, <4>1, <4>2
    <3>3. QED
      BY <2>6, <3>1, <3>2
  <2>7. Waits(id, i)'
    BY <2>1, <2>2, <2>3, <2>5, <2>6, StillWaits
  <2>8. QED
    BY <1>1, <2>7
<1>4. QED
  BY <1>2, <1>3 DEF InOrder, OvertakenWait

(* A failed read lets nobody overtake. *)
LEMMA OrderFails ==
  ASSUME Placed, InOrder, ReceiveFails
  PROVE  InOrder'
<1>1. /\ Scanning /\ Kept /\ UNCHANGED <<next_recv_index, subscriptions, overtaken>>
      /\ call' = Idle
  BY PlacedParts DEF ReceiveFails, history, Kept, Count
<1>2. ~InTurn'
  BY <1>1, IdleFacts DEF InTurn
<1>3. ASSUME NEW i \in 1..Count, NEW id \in Ids, Waits(id, i)
      PROVE  sockets'[id] = sockets[id] /\ subscriptions'[i].joined = TRUE
  <2>1. /\ subscriptions[i].id = id /\ subscriptions[i].joined = TRUE /\ id \in DOMAIN sockets
        /\ ReadyIn(sockets[id].queue, sockets[id].config, FilterBudget)
        /\ sockets[id].queue \in Seq(Datagrams) /\ FilterBudget \in Int
    BY <1>3, SocketFacts, PlacedParts, UdpAssumptions DEF Waits, ReadyWithin, ScanInRange
  <2>2. ~Bare(Head(sockets[id].queue))
    BY <2>1, ReadyFacts
  <2>3. CASE UNCHANGED sockets
    BY <1>1, <2>1, <2>3
  <2>4. CASE Queue # <<>> /\ Bare(Head(Queue)) /\ Consume
    <3>1. Others(Current.id) /\ Queue = sockets[Current.id].queue
      BY <1>1, <2>4, ConsumeFacts, CurrentFacts
    <3>2. id # Current.id
      BY <2>2, <2>4, <3>1
    <3>3. QED
      BY <1>1, <2>1, <3>1, <3>2 DEF Others
  <2>5. QED
    BY <2>3, <2>4 DEF ReceiveFails
<1>4. QED
  BY <1>1, <1>2, <1>3, OrderKept

(* An arrival lets nobody overtake. *)
LEMMA OrderArrive ==
  ASSUME Placed, InOrder, NEW id \in DOMAIN sockets, NEW d \in Datagrams, Arrive(id, d)
  PROVE  InOrder'
<1>1. /\ Kept /\ Others(id) /\ sockets'[id].queue = Append(sockets[id].queue, d)
      /\ UNCHANGED <<subscriptions, next_recv_index, call, overtaken>>
      /\ sockets[id].queue \in Seq(Datagrams)
  BY PlacedArrive, SocketFacts, PlacedParts DEF Arrive
<1>2. ASSUME NEW i \in 1..Count, NEW x \in Ids, Waits(x, i), NEW n \in Int,
             ReadyIn(sockets[x].queue, sockets[x].config, n)
      PROVE  ReadyIn(sockets'[x].queue, sockets'[x].config, n)
  <2>1. x \in DOMAIN sockets
    BY <1>2, PlacedParts DEF Waits, ScanInRange
  <2>2. CASE x # id
    BY <1>1, <1>2, <2>1, <2>2 DEF Others
  <2>3. CASE x = id
    <3>1. ReadyIn(Append(sockets[id].queue, d), sockets[id].config, n)
      BY <1>1, <1>2, <2>3, ReadyFacts
    <3>2. QED
      BY <1>1, <2>3, <3>1 DEF Others
  <2>4. QED
    BY <2>2, <2>3
<1>3. \A i \in 1..Count, x \in Ids : Waits(x, i) => subscriptions'[i].joined = TRUE
  BY <1>1 DEF Waits
<1>4. QED
  BY <1>1, <1>2, <1>3, OrderKept

(* A join or leave of one subscription lets nobody overtake another. *)
LEMMA OrderMark ==
  ASSUME Placed, InOrder, NEW s \in 1..Count, JoinSubscription(s) \/ LeaveSubscription(s)
  PROVE  InOrder'
<1>1. /\ Kept /\ SocketsKept /\ \A x \in DOMAIN sockets : sockets'[x].queue = sockets[x].queue
      /\ UNCHANGED <<next_recv_index, call>>
  BY PlacedJoin, PlacedLeave DEF JoinSubscription, LeaveSubscription
<1>2. PICK v \in BOOLEAN : /\ MarkJoined(s, v)
                           /\ IF v THEN overtaken' = overtaken
                              ELSE overtaken' = [overtaken EXCEPT ![subscriptions[s].id] = 0]
  BY DEF JoinSubscription, LeaveSubscription, history
<1>3. /\ subscriptions'[s].joined = v
      /\ \A j \in 1..Count \ {s} : subscriptions'[j] = subscriptions[j]
  BY <1>2, MarkFacts, PlacedParts
<1>4. overtaken \in [Ids -> Nat] /\ subscriptions[s].id \in Ids
  BY PlacedParts, SubsFacts DEF RestTyped
<1>5. \A id \in Ids : overtaken'[id] # 0 => overtaken'[id] = overtaken[id]
  BY <1>2, <1>4
<1>6. ASSUME NEW i \in 1..Count, NEW id \in Ids, Waits(id, i), overtaken'[id] # 0
      PROVE  /\ subscriptions'[i].joined = TRUE
             /\ sockets'[id].queue = sockets[id].queue /\ sockets'[id].config = sockets[id].config
  <2>1. subscriptions[i].id = id /\ subscriptions[i].joined = TRUE /\ id \in DOMAIN sockets
    BY <1>6, PlacedParts DEF Waits, ScanInRange
  <2>2. subscriptions'[i].joined = TRUE
    <3>1. CASE i # s
      BY <1>3, <2>1, <3>1
    <3>2. CASE i = s /\ v = TRUE
      BY <1>3, <3>2
    <3>3. CASE i = s /\ v = FALSE
      BY <1>2, <1>4, <1>6, <2>1, <3>3
    <3>4. QED
      BY <3>1, <3>2, <3>3
  <2>3. QED
    BY <1>1, <2>1, <2>2 DEF SocketsKept
<1>7. QED
  BY <1>1, <1>5, <1>6, OrderKept

(* A new subscription has been overtaken by nobody. *)
LEMMA OrderInsert ==
  ASSUME Placed, InOrder, NEW config \in Configs, NEW socket,
         socket.queue \in Seq(Datagrams), next_subscription_id <= MaxId, ~Busy,
         InsertSubscription(config, socket)
  PROVE  InOrder'
<1>1. /\ UNCHANGED <<next_recv_index, call, overtaken>> /\ ~InTurn'
      /\ Count' = Count + 1 /\ Count \in Nat
      /\ \A i \in 1..Count : subscriptions'[i] = subscriptions[i]
      /\ \A x \in DOMAIN sockets : sockets'[x] = sockets[x]
      /\ overtaken \in [Ids -> Nat] /\ next_recv_index \in Nat
  BY InsertFacts, PlacedParts DEF InsertSubscription, InTurn, Busy, RestTyped, ScanFits
<1>2. ASSUME NEW id \in Ids, overtaken'[id] # 0
      PROVE  \E i \in 1..Count' : Waits(id, i)'
  <2>1. PICK i \in 1..Count : Waits(id, i)
    BY <1>1, <1>2 DEF InOrder, OvertakenWait
  <2>2. /\ subscriptions[i].id = id /\ subscriptions[i].joined = TRUE /\ id \in DOMAIN sockets
        /\ ReadyWithin(id, FilterBudget)
        /\ overtaken[id] + Distance(next_recv_index, i - 1) < Count
    BY <2>1, PlacedParts DEF Waits, ScanInRange
  <2>3. sockets'[id] = sockets[id] /\ subscriptions'[i] = subscriptions[i] /\ i \in 1..Count'
    BY <1>1, <2>2
  <2>4. overtaken'[id] + Distance(next_recv_index, i - 1)' < Count'
    <3>1. overtaken[id] \in Nat
      BY <1>1
    <3>2. QED
      BY <1>1, <2>2, <3>1 DEF Distance
  <2>5. ReadyWithin(id, FilterBudget)'
    BY <2>2, <2>3 DEF ReadyWithin
  <2>6. Waits(id, i)'
    BY <1>1, <2>2, <2>3, <2>4, <2>5 DEF Waits
  <2>7. QED
    BY <2>3, <2>6
<1>3. QED
  BY <1>1, <1>2 DEF InOrder, ScanPosition, OvertakenWait

(* Every step keeps the round-robin order. *)
LEMMA OrderStep ==
  ASSUME Placed, InOrder, [Next]_vars
  PROVE  InOrder'
<1> DEFINE Quiet == UNCHANGED <<subscriptions, next_recv_index, sockets, overtaken>>
<1>1. ASSUME Quiet, \/ call' = call \/ ~InTurn'
                    \/ Count > 0 /\ call'.index = next_recv_index /\ call'.tried = 0
                       /\ call'.filtered = 0
      PROVE  InOrder'
  <2>1. Kept
    BY <1>1, PlacedParts DEF Kept, Count
  <2>2. \A i \in 1..Count, id \in Ids : Waits(id, i) => subscriptions'[i].joined = TRUE
    BY <1>1 DEF Waits
  <2>3. QED
    BY <1>1, <2>1, <2>2, OrderKept
<1>2. CASE \E config \in Configs :
             \/ AddSubscription(config)
             \/ \E socket \in ExistingSockets : AddSubscriptionWithSocket(config, socket)
  BY <1>2, AddInserts, OrderInsert
<1>3. ASSUME NEW i \in 1..Count, RemoveSubscription(i) \/ TakeSubscription(i)
      PROVE  InOrder'
  <2>1. overtaken' = [id \in Ids |-> 0] /\ ~InTurn'
    BY <1>3 DEF RemoveSubscription, TakeSubscription, InTurn, Busy
  <2>2. QED
    BY <2>1 DEF InOrder, ScanPosition, OvertakenWait
<1>4. ASSUME NEW i \in 1..Count, JoinSubscription(i) \/ LeaveSubscription(i)
      PROVE  InOrder'
  BY <1>4, OrderMark
<1>5. ASSUME NEW kind, NEW max, Begin(kind, max)
      PROVE  InOrder'
  <2>1. /\ Quiet /\ Count > 0
        /\ call' = [Idle EXCEPT !.kind = kind, !.left = max, !.index = next_recv_index]
    BY <1>5 DEF Begin, history
  <2>2. call'.index = next_recv_index /\ call'.tried = 0 /\ call'.filtered = 0
    BY <2>1 DEF Idle
  <2>3. QED
    BY <1>1, <2>1, <2>2
<1>6. ASSUME NEW i \in 1..Count, BeginOne(i)
      PROVE  InOrder'
  <2>1. Quiet /\ call'.kind = "one"
    BY <1>6 DEF BeginOne, history, Idle
  <2>2. QED
    BY <1>1, <2>1 DEF InTurn
<1>7. CASE SkipUnjoined \/ WouldBlock \/ Filter
  BY <1>7, OrderScan
<1>8. CASE Deliver
  BY <1>8, OrderDeliver
<1>9. CASE ReceiveFails
  BY <1>9, OrderFails
<1>10. CASE CallReturns
  <2>1. Quiet /\ call'.kind = "idle"
    BY <1>10, IdleFacts DEF CallReturns, history
  <2>2. QED
    BY <1>1, <2>1 DEF InTurn
<1>11. ASSUME NEW id \in DOMAIN sockets, DropTaken(id)
       PROVE  InOrder'
  <2>1. /\ UNCHANGED <<subscriptions, next_recv_index, call, overtaken>>
        /\ \A x \in DOMAIN sockets \ {id} : sockets'[x] = sockets[x]
        /\ \A i \in 1..Count : subscriptions[i].id # id
    BY <1>11, WithoutFacts, PlacedParts DEF DropTaken, history
  <2>2. Kept
    BY <2>1, PlacedParts DEF Kept, Count
  <2>3. \A i \in 1..Count, x \in Ids : Waits(x, i) =>
          sockets'[x] = sockets[x] /\ subscriptions'[i].joined = TRUE
    BY <2>1, PlacedParts DEF Waits, ScanInRange
  <2>4. QED
    BY <2>1, <2>2, <2>3, OrderKept
<1>12. ASSUME NEW id \in DOMAIN sockets, NEW d \in Datagrams, Arrive(id, d)
       PROVE  InOrder'
  BY <1>12, OrderArrive
<1>13. ASSUME NEW interface, NEW index, LinkChanges(interface, index)
       PROVE  InOrder'
  BY <1>1, <1>13 DEF LinkChanges, history
<1>14. CASE UNCHANGED vars
  BY <1>1, <1>14 DEF vars
<1>15. QED
  BY <1>2, <1>3, <1>4, <1>5, <1>6, <1>7, <1>8, <1>9, <1>10, <1>11, <1>12, <1>13, <1>14
  DEF Next, Receive

-----------------------------------------------------------------------------
(* The theorems. *)

(* UdpInvariant, which the properties of Context are part of or follow     *)
(* from, holds in every state of every behaviour.                          *)
THEOREM InvariantAlways == Spec => []UdpInvariant
<1>1. Init => UdpInvariant
  <2> SUFFICES ASSUME Init PROVE UdpInvariant
    OBVIOUS
  <2>1. InOrder
    <3>1. \A id \in Ids : overtaken[id] = 0
      BY DEF Init
    <3>2. ~InTurn
      BY IdleFacts DEF Init, InTurn
    <3>3. QED
      BY <3>1, <3>2 DEF InOrder, ScanPosition, OvertakenWait
  <2>2. QED
    BY <2>1, PlacedInit, CountedInit DEF UdpInvariant
<1>2. UdpInvariant /\ [Next]_vars => UdpInvariant'
  BY PlacedStep, ExactStep, SumsStep, OrderStep DEF UdpInvariant
<1>3. QED
  BY <1>1, <1>2, PTL DEF Spec

(* Every variable has its type, and recv_packet filters fewer than         *)
(* MAX_FILTERED_DATAGRAMS_PER_RECEIVE datagrams before it gives up.        *)
THEOREM TypeOKAlways == Spec => []TypeOK
<1>1. UdpInvariant => TypeOK
  BY DEF UdpInvariant, Placed
<1>2. QED
  BY <1>1, InvariantAlways, PTL

(* The scan of try_recv_any never indexes outside the vector, and every    *)
(* subscription has a socket and a configuration of its own, whatever      *)
(* swap_remove has reordered.                                              *)
THEOREM ScanInRangeAlways == Spec => []ScanInRange
<1>1. UdpInvariant => ScanInRange
  BY DEF UdpInvariant, Placed
<1>2. QED
  BY <1>1, InvariantAlways, PTL

(* A joined subscription's socket has one membership, a bound one's none,  *)
(* although join and leave each resolve the interface anew.                *)
THEOREM StateMatchesKernelAlways == Spec => []StateMatchesKernel
<1>1. UdpInvariant => StateMatchesKernel
  <2>1. SUFFICES ASSUME Placed, NEW i \in 1..Count
                 PROVE  Cardinality(sockets[subscriptions[i].id].member)
                          = IF subscriptions[i].joined THEN 1 ELSE 0
    BY DEF UdpInvariant, StateMatchesKernel
  <2> DEFINE held == sockets[subscriptions[i].id].member
  <2>2. subscriptions[i].joined \in BOOLEAN
    BY <2>1, SubsFacts, PlacedParts
  <2>3. CASE subscriptions[i].joined = TRUE
    <3>1. PICK x \in held : held = {x}
      BY <2>1, <2>3, PlacedParts DEF Members
    <3>2. Cardinality({x}) = 1
      BY FS_Singleton
    <3>3. QED
      BY <2>3, <3>1, <3>2
  <2>4. CASE subscriptions[i].joined = FALSE
    <3>1. held = {}
      BY <2>1, <2>4, PlacedParts DEF Members
    <3>2. QED
      BY <2>4, <3>1, FS_EmptySet
  <2>5. QED
    BY <2>2, <2>3, <2>4
<1>2. QED
  BY <1>1, InvariantAlways, PTL

(* What the callers of a subscription got, and what its socket still holds *)
(* for it, is what the socket was given and the configuration asks for:    *)
(* every datagram once, in order, whatever the kernel's control messages   *)
(* look like.                                                              *)
THEOREM ReceivedExactAlways == Spec => []ReceivedExact
<1>1. UdpInvariant => ReceivedExact
  BY DEF UdpInvariant
<1>2. QED
  BY <1>1, InvariantAlways, PTL

(* The context's counters and each subscription's agree with the packets   *)
(* that were handed out, after removals and failed batches too.            *)
THEOREM MetricsAgreeAlways == Spec => []MetricsAgree
<1>1. UdpInvariant => MetricsAgree
  BY DEF UdpInvariant, Sums
<1>2. QED
  BY <1>1, InvariantAlways, PTL

(* Round-robin of next_recv_index: a joined subscription that is ready is  *)
(* overtaken by fewer packets than there are subscriptions, however many   *)
(* subscriptions there are and whatever their sockets receive.             *)
THEOREM BoundedOvertakingAlways == Spec => []BoundedOvertaking
<1>1. UdpInvariant => BoundedOvertaking
  <2>1. SUFFICES ASSUME Placed, InOrder, NEW id \in Ids, overtaken[id] # 0
                 PROVE  overtaken[id] < Count
    BY DEF UdpInvariant, BoundedOvertaking
  <2>2. PICK i \in 1..Count : Waits(id, i)
    BY <2>1 DEF InOrder, OvertakenWait
  <2>3. Count \in Nat /\ next_recv_index \in 0..(Count - 1) /\ i - 1 \in 0..(Count - 1)
        /\ overtaken[id] \in Nat
    BY <2>1, <2>2, PlacedParts DEF ScanFits, RestTyped
  <2>4. Distance(next_recv_index, i - 1) \in 0..(Count - 1)
    BY <2>3, DistanceFacts
  <2>5. overtaken[id] + Distance(next_recv_index, i - 1) < Count
    BY <2>2 DEF Waits
  <2>6. QED
    BY <2>3, <2>4, <2>5
<1>2. QED
  BY <1>1, InvariantAlways, PTL

(* Every step of a receive call that reads a socket or moves the call      *)
(* brings it nearer its end, so that no flood of datagrams keeps it        *)
(* running.                                                                *)
THEOREM ScanProgressesAlways == Spec => ScanProgresses
<1> DEFINE A == Busy /\ (call' # call \/ Reads) => call' = Idle \/ Nearer(call, call')
<1>1. UdpInvariant /\ [Next]_vars => [A]_vars
  <2>1. SUFFICES ASSUME Placed, InOrder, Next, Busy, call' # call \/ Reads
                 PROVE  call' = Idle \/ Nearer(call, call')
    BY DEF UdpInvariant
  <2>2. CASE SkipUnjoined \/ WouldBlock \/ Filter
    <3>1. Scanning /\ call \in CallType /\ call.tried \in Nat /\ call.filtered \in Nat /\ Count > 0
      BY <2>1, <2>2, ScanFacts, CurrentFacts DEF SkipUnjoined, WouldBlock, Filter
    <3>2. Advanced.left = call.left /\ Advanced.tried = call.tried + 1
      BY <2>1, <3>1, AdvancedFacts
    <3>3. call' = Advanced \/ call' = [call EXCEPT !.filtered = call.filtered + 1]
      BY <2>2 DEF SkipUnjoined, WouldBlock, Filter
    <3>4. CASE call' = Advanced
      BY <3>1, <3>2, <3>4 DEF Nearer
    <3>5. CASE call' = [call EXCEPT !.filtered = call.filtered + 1]
      BY <3>1, <3>5 DEF Nearer, CallType
    <3>6. QED
      BY <3>3, <3>4, <3>5
  <2>3. CASE Deliver
    <3>1. Served /\ call.left > 0 /\ call.left \in Nat
      BY <2>1, <2>3, DeliverFacts, CallFields, PlacedParts DEF Deliver, Scanning, ScanFits
    <3>2. QED
      BY <3>1 DEF Served, Nearer
  <2>4. CASE ReceiveFails \/ CallReturns
    BY <2>4 DEF ReceiveFails, CallReturns
  <2>5. ASSUME NEW id \in DOMAIN sockets, NEW d \in Datagrams, Arrive(id, d)
        PROVE  FALSE
    <3>1. /\ call' = call /\ Others(id) /\ sockets'[id].queue = Append(sockets[id].queue, d)
          /\ sockets[id].queue \in Seq(Datagrams)
      BY <2>1, <2>5, PlacedArrive, SocketFacts, PlacedParts DEF Arrive
    <3>2. PICK x \in DOMAIN sockets : Len(sockets'[x].queue) < Len(sockets[x].queue)
      BY <2>1, <3>1 DEF Reads
    <3>3. Len(sockets[x].queue) \in Nat
      BY <2>1, <3>2, SocketFacts, PlacedParts
    <3>4. CASE x = id
      BY <3>1, <3>2, <3>3, <3>4
    <3>5. CASE x # id
      BY <3>1, <3>2, <3>3, <3>5 DEF Others
    <3>6. QED
      BY <3>4, <3>5
  <2>6. ASSUME NEW id \in DOMAIN sockets, DropTaken(id)
        PROVE  FALSE
    <3>1. call' = call /\ \A x \in DOMAIN sockets' : sockets'[x] = sockets[x]
      BY <2>1, <2>6, WithoutFacts, PlacedParts DEF DropTaken
    <3>2. PICK x \in DOMAIN sockets \cap DOMAIN sockets' :
            Len(sockets'[x].queue) < Len(sockets[x].queue)
      BY <2>1, <3>1 DEF Reads
    <3>3. Len(sockets[x].queue) \in Nat
      BY <2>1, <3>2, SocketFacts, PlacedParts
    <3>4. QED
      BY <3>1, <3>2, <3>3
  <2>7. QED
    <3>1. /\ \A config : ~AddSubscription(config)
          /\ \A config, socket : ~AddSubscriptionWithSocket(config, socket)
      BY <2>1 DEF AddSubscription, AddSubscriptionWithSocket
    <3>2. \A i : /\ ~RemoveSubscription(i) /\ ~TakeSubscription(i) /\ ~JoinSubscription(i)
                 /\ ~LeaveSubscription(i) /\ ~BeginOne(i)
      BY <2>1 DEF RemoveSubscription, TakeSubscription, JoinSubscription, LeaveSubscription,
                  BeginOne
    <3>3. \A kind, max : ~Begin(kind, max)
      BY <2>1 DEF Begin
    <3>4. \A interface, index : ~LinkChanges(interface, index)
      BY <2>1 DEF LinkChanges
    <3>5. QED
      BY <2>1, <2>2, <2>3, <2>4, <2>5, <2>6, <3>1, <3>2, <3>3, <3>4 DEF Next, Receive
<1> HIDE DEF A
<1>2. Spec => [][A]_vars
  BY <1>1, InvariantAlways, PTL DEF Spec
<1>3. QED
  BY <1>2 DEF A, ScanProgresses
=============================================================================
