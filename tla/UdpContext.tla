----------------------------- MODULE UdpContext -----------------------------
(***************************************************************************)
(* Context and Subscription (src/context.rs, src/subscription.rs) with the *)
(* UDP receive path of src/platform/mod.rs: every subscription owns a      *)
(* socket, the context scans the joined ones in turn and each socket's     *)
(* datagrams are filtered against the subscription's configuration.        *)
(*                                                                         *)
(* Every method takes &mut self (try_recv of one subscription borrows the  *)
(* context), so methods do not interleave with one another.  Datagrams do: *)
(* a receive call is a sequence of steps, one per recvmsg, and the other   *)
(* methods are one step each.  Interface addresses move between the calls. *)
(*                                                                         *)
(* A call that fails before it has changed anything has no action: an      *)
(* invalid or duplicate configuration, a socket that cannot be opened or   *)
(* prepared, an unknown id, a wrong state, a refused join or leave.        *)
(***************************************************************************)
EXTENDS Integers, Sequences, FiniteSets, Subsequences

CONSTANTS
  Configs,      \* the valid SubscriptionConfigs the caller uses
  ExistingSockets, \* external: bound sockets the caller has, with what they hold
  Datagrams,    \* external: what the network carries to the sockets
  AnySource,    \* SourceFilter::Any
  NoAddress,    \* no interface configured, no destination metadata
  Interfaces,   \* interface addresses
  Ipv4Interfaces, \* the IPv4 ones among them
  Indexes,      \* interface indexes of the host, all positive
  FilterBudget, \* MAX_FILTERED_DATAGRAMS_PER_RECEIVE
  BatchSizes,   \* max_packets arguments, MAX_DRAIN_PACKETS_PER_CALL among them
  MaxId,        \* bound: subscriptions ever added
  MaxArrivals   \* bound: datagrams ever delivered to sockets

ASSUME UdpAssumptions ==
  /\ NoAddress \notin Interfaces
  /\ Ipv4Interfaces \subseteq Interfaces
  /\ Indexes \subseteq Nat \ {0}
  /\ \A s \in ExistingSockets : s.queue \in Seq(Datagrams)
  /\ \A c \in Configs : c.interface \in Interfaces \cup {NoAddress} /\ c.index \in Indexes \cup {0}
  /\ FilterBudget \in Nat \ {0}
  /\ BatchSizes \subseteq Nat \ {0}
  /\ MaxId \in Nat
  /\ MaxArrivals \in Nat

(* What the kernel tells of a datagram is true, and it tells both address  *)
(* and interface unless it tells nothing at all.                           *)
ASSUME ControlMessagesTell ==
  /\ \A c \in Configs : c.group # NoAddress
  /\ \A d \in Datagrams :
       /\ d.control \in Seq([address: {NoAddress, d.group}, index: {0, d.index}])
       /\ d.control # <<>> => /\ \E i \in DOMAIN d.control : d.control[i].address # NoAddress
                              /\ \E i \in DOMAIN d.control : d.control[i].index # 0

VARIABLES
  subscriptions,         \* Vec of [id, config, joined, packets_received]
  next_subscription_id,
  next_recv_index,       \* counted from 0, like the code's
  metrics,               \* [packets, batch_packets]
  call,                  \* the receive call in progress
  sockets,               \* external: open socket -> [config, member, queue]
  links,                 \* external: interface address -> its index, 0 if it has none
  arrived,               \* history: socket -> datagrams delivered to it
  received,              \* history: socket -> datagrams handed to the caller
  direct,                \* history: packets handed out by Subscription::try_recv
  overtaken              \* history: packets of others preferred to a ready socket

vars == <<subscriptions, next_subscription_id, next_recv_index, metrics, call, sockets, links,
          arrived, received, direct, overtaken>>
history == <<arrived, received, direct, overtaken>>

Ids   == 1..MaxId
Count == Len(subscriptions)
At(i) == subscriptions[i + 1]

Idle == [kind |-> "idle", left |-> 0, tried |-> 0, index |-> 0, filtered |-> 0,
         got |-> 0]
Busy == call.kind # "idle"

Init ==
  /\ subscriptions = <<>>
  /\ next_subscription_id = 1
  /\ next_recv_index = 0
  /\ metrics = [packets |-> 0, batch_packets |-> 0]
  /\ call = Idle
  /\ sockets = <<>>
  /\ links \in [Interfaces -> Indexes]
  /\ arrived = [id \in Ids |-> <<>>]
  /\ received = [id \in Ids |-> <<>>]
  /\ direct = 0
  /\ overtaken = [id \in Ids |-> 0]

-----------------------------------------------------------------------------
(* Adding and removing. *)

Without(f, x) == [y \in DOMAIN f \ {x} |-> f[y]]
With(f, x, v) == [y \in DOMAIN f \cup {x} |-> IF y = x THEN v ELSE f[y]]

(* ensure_subscription_config_is_unique *)
IsUnique(config) == \A i \in 1..Count : subscriptions[i].config # config

(* A bound socket, family and port in one.  It is no member of anything. *)
Bound(port, queue) == [port |-> port, queue |-> queue]
OpenBoundSocket(config) == Bound(config.port, <<>>)

(* prepare_existing_socket takes a socket bound to the configuration's     *)
(* family and port, and tries to adopt it: restricted to its own           *)
(* memberships, non-blocking, with metadata.  What the socket holds stays. *)
CanPrepare(socket, config) == socket.port = config.port
Adopt(socket, config) == [config |-> config, member |-> {}, queue |-> socket.queue]

InsertSubscription(config, socket) ==
  /\ subscriptions' = Append(subscriptions, [id |-> next_subscription_id, config |-> config,
                                             joined |-> FALSE, packets_received |-> 0])
  /\ next_subscription_id' = next_subscription_id + 1
  /\ sockets' = With(sockets, next_subscription_id, Adopt(socket, config))
  /\ arrived' = [arrived EXCEPT ![next_subscription_id] = socket.queue]
  /\ UNCHANGED <<next_recv_index, metrics, call, links, received, direct, overtaken>>

AddSubscription(config) ==
  /\ ~Busy
  /\ next_subscription_id <= MaxId
  /\ IsUnique(config)
  /\ InsertSubscription(config, OpenBoundSocket(config))

(* Every datagram in a history, by socket and position. *)
All(f) == UNION {{id} \X (1..Len(f[id])) : id \in Ids}
Arrivals == Cardinality(All(arrived))

AddSubscriptionWithSocket(config, socket) ==
  /\ ~Busy
  /\ next_subscription_id <= MaxId
  /\ Arrivals + Len(socket.queue) <= MaxArrivals
  /\ IsUnique(config)
  /\ CanPrepare(socket, config)
  /\ InsertSubscription(config, socket)

(* Vec::swap_remove *)
SwapRemove(s, i) == [k \in 1..(Len(s) - 1) |-> IF k = i THEN s[Len(s)] ELSE s[k]]

Mutant_IndexKept(i) ==
  /\ subscriptions' = SwapRemove(subscriptions, i)
  /\ next_recv_index' = next_recv_index

(* finish_subscription_removal *)
FinishRemoval(i) ==
  /\ subscriptions' = SwapRemove(subscriptions, i)
  /\ next_recv_index' = IF Count = 1 THEN 0 ELSE next_recv_index % (Count - 1)

(* remove_subscription drops the subscription, which closes its socket. *)
RemoveSubscription(i) ==
  /\ ~Busy
  /\ FinishRemoval(i)
  /\ sockets' = Without(sockets, subscriptions[i].id)
  /\ overtaken' = [id \in Ids |-> 0]
  /\ UNCHANGED <<next_subscription_id, metrics, call, links,
                 arrived, received, direct>>

(* take_subscription hands it to the caller with its socket and state. *)
TakeSubscription(i) ==
  /\ ~Busy
  /\ FinishRemoval(i)
  /\ overtaken' = [id \in Ids |-> 0]
  /\ UNCHANGED <<next_subscription_id, metrics, call, sockets, links,
                 arrived, received, direct>>

-----------------------------------------------------------------------------
(* Joining and leaving.  The interface is looked up again by every call:   *)
(* an explicit index wins, neither index nor address is index 0, and an    *)
(* address that no interface carries any more fails.  The code looks up an *)
(* IPv6 address; an IPv4 address goes to the kernel as it is, which joins  *)
(* on the interface that carries it.                                       *)
NoLink == -1

Resolve(config) ==
  IF config.index # 0 THEN config.index
  ELSE IF config.interface = NoAddress THEN 0
  ELSE IF links[config.interface] = 0 THEN NoLink
  ELSE links[config.interface]

(* join_multicast_group *)
KernelJoin(sub) ==
  /\ Resolve(sub.config) # NoLink
  /\ sockets' = [sockets EXCEPT ![sub.id].member = @ \cup {Resolve(sub.config)}]

(* Where a leave may look for the membership: on the interface of the      *)
(* configuration, but a kernel that is given an IPv4 address may as well   *)
(* know the membership by the address it was joined with.                  *)
Leavable(sub) ==
  {Resolve(sub.config)} \cup
  (IF sub.config.index = 0 /\ sub.config.interface \in Ipv4Interfaces
     THEN sockets[sub.id].member ELSE {})

(* leave_multicast_group: the kernel refuses to leave an interface that    *)
(* the socket is not a member on.                                          *)
KernelLeave(sub) ==
  \E index \in Leavable(sub) \cap sockets[sub.id].member :
    sockets' = [sockets EXCEPT ![sub.id].member = @ \ {index}]

MarkJoined(i, value) == subscriptions' = [subscriptions EXCEPT ![i].joined = value]

JoinSubscription(i) ==
  LET sub == subscriptions[i] IN
  /\ ~Busy
  /\ ~sub.joined
  /\ KernelJoin(sub)
  /\ MarkJoined(i, TRUE)
  /\ UNCHANGED <<next_subscription_id, next_recv_index, metrics, call, links,
                 history>>

Mutant_BoundBeforeLeaving(i) ==
  LET sub == subscriptions[i] IN
  /\ ~Busy
  /\ sub.joined
  /\ sockets' = [sockets EXCEPT ![sub.id].member = @ \ {Resolve(sub.config)}]
  /\ MarkJoined(i, FALSE)
  /\ overtaken' = [overtaken EXCEPT ![sub.id] = 0]
  /\ UNCHANGED <<next_subscription_id, next_recv_index, metrics, call, links,
                 arrived, received, direct>>

LeaveSubscription(i) ==
  LET sub == subscriptions[i] IN
  /\ ~Busy
  /\ sub.joined
  /\ KernelLeave(sub)
  /\ MarkJoined(i, FALSE)
  /\ overtaken' = [overtaken EXCEPT ![sub.id] = 0]
  /\ UNCHANGED <<next_subscription_id, next_recv_index, metrics, call, links,
                 arrived, received, direct>>

-----------------------------------------------------------------------------
(* Receiving. *)

(* The control messages the kernel attaches to a datagram: Linux, Windows  *)
(* and IPv6 tell destination and interface in one, the BSDs and macOS use  *)
(* two for IPv4.  A message that does not tell one of them has NoAddress   *)
(* or 0 there.                                                             *)
PktInfo(address, index) == [address |-> address, index |-> index]
RecvDstAddr(address)    == PktInfo(address, 0)
RecvIf(index)           == PktInfo(NoAddress, index)

(* apply_receive_ancillary_data: a later message replaces an earlier one,  *)
(* index 0 tells nothing.                                                  *)
LastTelling(control, telling) ==
  IF telling = {} THEN PktInfo(NoAddress, 0)
  ELSE control[CHOOSE i \in telling : \A j \in telling : j <= i]

ApplyAncillaryData(control) ==
  LET addresses == {i \in DOMAIN control : control[i].address # NoAddress}
      indexes   == {i \in DOMAIN control : control[i].index # 0}
  IN  [destination_local_ip    |-> LastTelling(control, addresses).address,
       ingress_interface_index |-> LastTelling(control, indexes).index]

Metadata == [d \in Datagrams |-> ApplyAncillaryData(d.control)]

(* packet_matches_subscription, for a datagram with destination metadata. *)
Matches(datagram, config) ==
  /\ Metadata[datagram].destination_local_ip = config.group
  /\ config.source # AnySource => datagram.source = config.source
  /\ config.index # 0 => Metadata[datagram].ingress_interface_index = config.index

(* ReceiveMetadataUnavailable *)
Bare(datagram) == Metadata[datagram].destination_local_ip = NoAddress

(* try_recv_any and try_recv_batch_into / try_recv_all_into: a scan from   *)
(* next_recv_index for each packet.  A context without subscriptions       *)
(* returns at once.                                                        *)
Begin(kind, max) ==
  /\ ~Busy
  /\ Count > 0
  /\ kind = "any" => max = 1
  /\ call' = [Idle EXCEPT !.kind = kind, !.left = max, !.index = next_recv_index]
  /\ UNCHANGED <<subscriptions, next_subscription_id, next_recv_index, metrics, sockets, links,
                 history>>

(* Subscription::try_recv on one subscription of the context. *)
BeginOne(i) ==
  /\ ~Busy
  /\ subscriptions[i].joined
  /\ call' = [Idle EXCEPT !.kind = "one", !.left = 1, !.index = i - 1, !.tried = Count - 1]
  /\ UNCHANGED <<subscriptions, next_subscription_id, next_recv_index, metrics, sockets, links,
                 history>>

Current == At(call.index)
Queue   == sockets[Current.id].queue
Scanning == Busy /\ call.left > 0 /\ call.tried < Count

(* The scan moves on to the next subscription, wrapping around. *)
Advanced == [call EXCEPT !.tried = @ + 1, !.filtered = 0,
                         !.index = IF @ + 1 = Count THEN 0 ELSE @ + 1]

SkipUnjoined ==
  /\ Scanning
  /\ ~Current.joined
  /\ call' = Advanced
  /\ UNCHANGED <<subscriptions, next_subscription_id, next_recv_index, metrics, sockets, links,
                 history>>

(* recvmsg finds nothing: the socket has nothing more to give. *)
WouldBlock ==
  /\ Scanning
  /\ Current.joined
  /\ Queue = <<>>
  /\ call' = Advanced
  /\ UNCHANGED <<subscriptions, next_subscription_id, next_recv_index, metrics, sockets, links,
                 history>>

Consume == sockets' = [sockets EXCEPT ![Current.id].queue = Tail(@)]

Mutant_FilteringNotCounted ==
  /\ Scanning
  /\ Current.joined
  /\ Queue # <<>>
  /\ ~Bare(Head(Queue))
  /\ ~Matches(Head(Queue), Current.config)
  /\ Consume
  /\ UNCHANGED <<subscriptions, next_subscription_id, next_recv_index, metrics, call, links,
                 history>>

Mutant_BudgetBeforeMatch ==
  /\ Scanning
  /\ Current.joined
  /\ Queue # <<>>
  /\ ~Bare(Head(Queue))
  /\ ~Matches(Head(Queue), Current.config) \/ call.filtered + 1 >= FilterBudget
  /\ Consume
  /\ call' = IF call.filtered + 1 >= FilterBudget THEN Advanced
             ELSE [call EXCEPT !.filtered = @ + 1]
  /\ UNCHANGED <<subscriptions, next_subscription_id, next_recv_index, metrics, links, history>>

(* A datagram for somebody else is dropped; after FilterBudget of them the *)
(* subscription counts as having nothing.                                  *)
Filter ==
  /\ Scanning
  /\ Current.joined
  /\ Queue # <<>>
  /\ ~Bare(Head(Queue))
  /\ ~Matches(Head(Queue), Current.config)
  /\ Consume
  /\ call' = IF call.filtered + 1 >= FilterBudget THEN Advanced
             ELSE [call EXCEPT !.filtered = @ + 1]
  /\ UNCHANGED <<subscriptions, next_subscription_id, next_recv_index, metrics, links, history>>

(* A socket whose packet one recv_packet call would find. *)
Ready(id) ==
  \E k \in 1..Len(sockets[id].queue) :
    /\ k <= FilterBudget
    /\ Matches(sockets[id].queue[k], sockets[id].config)
    /\ \A j \in 1..k : ~Bare(sockets[id].queue[j])

Overtake(served) ==
  overtaken' = [id \in Ids |->
    IF /\ id # served
       /\ \E i \in 1..Count : subscriptions[i].id = id /\ subscriptions[i].joined
       /\ Ready(id)
    THEN overtaken[id] + 1 ELSE 0]

Mutant_IndexNotAdvanced(index) == index

(* record_received_packet of the context and of the subscription. *)
RecordReceivedPacket == metrics' = [metrics EXCEPT !.packets = @ + 1]
RecordOwnPacket(i)   == subscriptions' = [subscriptions EXCEPT ![i].packets_received = @ + 1]

(* The scan after a packet starts behind the subscription that gave it. *)
NextIndex(index) == (index + 1) % Count

Deliver ==
  /\ Scanning
  /\ Current.joined
  /\ Queue # <<>>
  /\ Matches(Head(Queue), Current.config)
  /\ Consume
  /\ RecordOwnPacket(call.index + 1)
  /\ received' = [received EXCEPT ![Current.id] = Append(@, Head(Queue))]
  /\ IF call.kind = "one"
     THEN /\ call' = [call EXCEPT !.left = 0, !.got = 1]
          /\ direct' = direct + 1
          /\ overtaken' = [overtaken EXCEPT ![Current.id] = 0]
          /\ UNCHANGED <<next_recv_index, metrics>>
     ELSE /\ next_recv_index' = NextIndex(call.index)
          /\ RecordReceivedPacket
          /\ Overtake(Current.id)
          /\ UNCHANGED direct
          /\ call' = [call EXCEPT !.left = @ - 1, !.got = @ + 1, !.tried = 0, !.filtered = 0,
                                  !.index = NextIndex(@)]
  /\ UNCHANGED <<next_subscription_id, links, arrived>>

(* A failed recvmsg takes nothing from the socket, a datagram without      *)
(* destination metadata is consumed; either ends the whole call.  Packets  *)
(* a batch has already pushed stay with the caller.                        *)
ReceiveFails ==
  /\ Scanning
  /\ Current.joined
  /\ call' = Idle
  /\ UNCHANGED sockets \/ (Queue # <<>> /\ Bare(Head(Queue)) /\ Consume)
  /\ UNCHANGED <<subscriptions, next_subscription_id, next_recv_index, metrics, links, history>>

Mutant_EveryCallIsBatch ==
  /\ Busy
  /\ ~Scanning
  /\ metrics' = [metrics EXCEPT !.batch_packets = @ + call.got]
  /\ call' = Idle
  /\ UNCHANGED <<subscriptions, next_subscription_id, next_recv_index, sockets, links, history>>

(* The call returns what it has: the last scan found nothing, or enough. *)
CallReturns ==
  /\ Busy
  /\ ~Scanning
  /\ metrics' = [metrics EXCEPT !.batch_packets = IF call.kind = "batch" THEN @ + call.got ELSE @]
  /\ call' = Idle
  /\ UNCHANGED <<subscriptions, next_subscription_id, next_recv_index, sockets, links, history>>

-----------------------------------------------------------------------------
(* The environment. *)

(* A datagram reaches a socket: its memberships on Linux, any socket bound *)
(* to the port elsewhere, so the filter of the receive path is relied on.  *)
(* What a socket taken out of the context gets is its new owner's affair.  *)
Arrive(id, d) ==
  /\ \E i \in 1..Count : subscriptions[i].id = id
  /\ Arrivals < MaxArrivals
  /\ sockets' = [sockets EXCEPT ![id].queue = Append(@, d)]
  /\ arrived' = [arrived EXCEPT ![id] = Append(@, d)]
  /\ UNCHANGED <<subscriptions, next_subscription_id, next_recv_index, metrics, call, links,
                 received, direct, overtaken>>

(* Only join and leave read the links, so they change between calls. *)
LinkChanges(interface, index) ==
  /\ ~Busy
  /\ links' = [links EXCEPT ![interface] = index]
  /\ UNCHANGED <<subscriptions, next_subscription_id, next_recv_index, metrics, call, sockets,
                 history>>

(* The caller drops a subscription it took. *)
DropTaken(id) ==
  /\ \A i \in 1..Count : subscriptions[i].id # id
  /\ sockets' = Without(sockets, id)
  /\ UNCHANGED <<subscriptions, next_subscription_id, next_recv_index, metrics, call, links,
                 history>>

Receive == \/ SkipUnjoined \/ WouldBlock \/ Filter \/ Deliver \/ ReceiveFails \/ CallReturns

Next ==
  \/ \E config \in Configs :
       \/ AddSubscription(config)
       \/ \E socket \in ExistingSockets : AddSubscriptionWithSocket(config, socket)
  \/ \E i \in 1..Count : \/ RemoveSubscription(i) \/ TakeSubscription(i)
                         \/ JoinSubscription(i) \/ LeaveSubscription(i) \/ BeginOne(i)
  \/ Begin("any", 1)
  \/ \E max \in BatchSizes : Begin("batch", max)
  \/ Receive
  \/ \E id \in DOMAIN sockets : DropTaken(id) \/ \E d \in Datagrams : Arrive(id, d)
  \/ \E interface \in Interfaces, index \in Indexes \cup {0} : LinkChanges(interface, index)

Spec == Init /\ [][Next]_vars

-----------------------------------------------------------------------------
SubscriptionType == [id: Ids, config: Configs, joined: BOOLEAN, packets_received: Nat]
SocketType == [config: Configs, member: SUBSET (Indexes \cup {0}), queue: Seq(Datagrams)]
CallType == [kind: {"idle", "any", "batch", "one"}, left: Nat, tried: Nat, index: Nat,
             filtered: 0..(FilterBudget - 1), got: Nat]

(* Every variable has its type; in particular the datagrams recv_packet    *)
(* has filtered stay below MAX_FILTERED_DATAGRAMS_PER_RECEIVE.             *)
TypeOK ==
  /\ subscriptions \in Seq(SubscriptionType)
  /\ next_subscription_id \in 1..(MaxId + 1)
  /\ next_recv_index \in Nat
  /\ metrics \in [packets: Nat, batch_packets: Nat]
  /\ call \in CallType
  /\ DOMAIN sockets \subseteq Ids
  /\ sockets \in [DOMAIN sockets -> SocketType]
  /\ links \in [Interfaces -> Indexes \cup {0}]
  /\ arrived \in [Ids -> Seq(Datagrams)] /\ received \in [Ids -> Seq(Datagrams)]
  /\ direct \in Nat
  /\ overtaken \in [Ids -> Nat]

(* The scan never indexes outside the vector (which would panic), whatever *)
(* has been removed since the index was stored, and every subscription of  *)
(* the context owns an open socket of its own and a configuration no other *)
(* has, also after swap_remove has reordered the vector.                   *)
ScanInRange ==
  /\ Count > 0 => next_recv_index < Count /\ call.index < Count
  /\ Count = 0 => next_recv_index = 0 /\ ~Busy
  /\ \A i \in 1..Count : subscriptions[i].id \in DOMAIN sockets
  /\ \A i, j \in 1..Count : i # j => /\ subscriptions[i].id # subscriptions[j].id
                                     /\ subscriptions[i].config # subscriptions[j].config

(* The lifecycle state tells the truth about the kernel: the socket of a   *)
(* joined subscription has exactly one membership and that of a bound one  *)
(* has none, although interfaces move between a join and its leave.        *)
StateMatchesKernel ==
  \A i \in 1..Count :
    Cardinality(sockets[subscriptions[i].id].member) = IF subscriptions[i].joined THEN 1 ELSE 0

(* Round-robin: a joined subscription whose packet can be read sees at     *)
(* most one packet of each other subscription go first, across any and     *)
(* batch calls, joins, leaves, additions and failed calls.  A removal      *)
(* starts the count again, and so does try_recv on the subscription.       *)
BoundedOvertaking == \A id \in Ids : overtaken[id] # 0 => overtaken[id] < Count

(* Whether a datagram is for a configuration, by what it really is. *)
IsFor(d, config) ==
  /\ d.control # <<>>
  /\ d.group = config.group
  /\ config.source \in {AnySource, d.source}
  /\ config.index \in {0, d.index}

Wanted(s, config) == Picked(s, {i \in DOMAIN s : IsFor(s[i], config)})

(* What a subscription's callers get is exactly what its socket was given  *)
(* and its configuration asks for, once and in order, although what the    *)
(* code knows of a datagram is what the control messages tell; the filter  *)
(* drops the others, and one that came without metadata is lost.           *)
ReceivedExact ==
  \A id \in DOMAIN sockets :
    received[id] \o Wanted(sockets[id].queue, sockets[id].config)
      = Wanted(arrived[id], sockets[id].config)

(* total_packets_received counts every packet the context handed out, also *)
(* those of removed subscriptions and of batches that failed later, and    *)
(* packets_received every packet of one subscription.                      *)
MetricsAgree ==
  /\ metrics.packets + direct = Cardinality(All(received))
  /\ metrics.batch_packets <= metrics.packets
  /\ \A i \in 1..Count : subscriptions[i].packets_received = Len(received[subscriptions[i].id])

(* Every step of a receive call brings its end nearer, so that no flood of *)
(* datagrams, wanted or not, keeps a call from returning.                  *)
Nearer(a, b) == \/ b.left < a.left
                \/ b.left = a.left /\ b.tried > a.tried
                \/ b.left = a.left /\ b.tried = a.tried /\ b.filtered > a.filtered

Reads == \E id \in DOMAIN sockets \cap DOMAIN sockets' :
           Len(sockets'[id].queue) < Len(sockets[id].queue)

ScanProgresses ==
  [][Busy /\ (call' # call \/ Reads) => call' = Idle \/ Nearer(call, call')]_vars

=============================================================================
