----------------------------- MODULE SharedRaw -----------------------------
(***************************************************************************)
(* SharedRawContext (src/raw/shared.rs): logical raw multicast             *)
(* subscriptions multiplexed over one capture socket per (address family,  *)
(* interface).  The context reference-counts kernel memberships and        *)
(* resolved interfaces, keeps a demultiplexer per capture, visits captures *)
(* in turn and queues matched datagrams in a bounded pending queue.        *)
(*                                                                         *)
(* Every method takes &mut self, so methods do not interleave with one     *)
(* another.  The kernel does interleave: datagrams arrive between any two  *)
(* reads of a receive call, so a receive call is a sequence of steps and   *)
(* the other methods are one step each.                                    *)
(*                                                                         *)
(* A call that fails before it has changed anything is a stuttering step   *)
(* and has no action: an unknown id, a wrong state, the subscription limit *)
(* reached, an interface that does not resolve, a socket that does not     *)
(* open, a kernel leave that fails.                                        *)
(*                                                                         *)
(* An interface is resolved three times: when a subscription is added (for *)
(* the capture, and cached), when a membership is joined and when it is    *)
(* left (by the platform, from the configuration).  An address may have    *)
(* moved in between, so the three may differ.                              *)
(***************************************************************************)
EXTENDS Integers, Sequences, FiniteSets, Subsequences

CONSTANTS
  Groups,             \* multicast group addresses
  Sources,            \* datagram source addresses
  AnySource,          \* the source of an any-source (ASM) configuration
  Selectors,          \* (family, interface, interface_index) as configured
  Keys,               \* RawSharedCaptureKey: (family, resolved index)
  Configs,            \* the valid RawSubscriptionConfigs the caller uses
  Resolutions,        \* selector -> the keys it may resolve to, each time anew
  MaxSubscriptions,   \* limits.max_subscriptions
  MaxPendingPackets,  \* limits.max_pending_packets
  CounterMax,         \* u64::MAX, where the metrics saturate
  FilterBudget,       \* MAX_RAW_FILTERED_READS_PER_RECV
  BatchSizes,         \* max_packets arguments of try_recv_batch_into
  MaxId,              \* bound: subscriptions ever added
  MaxArrivals,        \* bound: datagrams ever captured
  MaxQueue            \* bound: datagrams a capture socket buffers

ConfigType == [group: Groups, source: Sources \cup {AnySource}, selector: Selectors]

ASSUME ConstantAssumptions ==
  /\ AnySource \notin Sources
  /\ Configs \subseteq ConfigType
  /\ Resolutions \in [Selectors -> SUBSET Keys]
  /\ IsFiniteSet(Configs)
  /\ IsFiniteSet(Keys)
  /\ MaxSubscriptions \in Nat \ {0}
  /\ MaxPendingPackets \in Nat \ {0}
  /\ CounterMax \in Nat
  /\ FilterBudget \in Nat \ {0}
  /\ BatchSizes \subseteq Nat
  /\ MaxId \in Nat
  /\ MaxArrivals \in Nat
  /\ MaxQueue \in Nat

VARIABLES
  subscriptions,          \* HashMap id -> subscription
  next_subscription_id,
  resolved_capture_keys,  \* HashMap selector -> [key, references]
  captures,               \* HashMap key -> capture
  capture_order,          \* Vec of keys
  next_capture_index,     \* 0-based
  pending_packets,        \* VecDeque of matched packets
  metrics,                \* SharedRawCaptureMetrics
  call,                   \* locals of the receive call in progress
  out,                    \* packets handed over by the latest receive call
  kernel,                 \* external: [membership, interface] held by each socket
  queue,                  \* external: datagrams buffered by each socket
  arrivals                \* external: datagrams captured so far

registry == <<subscriptions, next_subscription_id, resolved_capture_keys>>
sockets  == <<captures, capture_order, kernel>>
vars     == <<subscriptions, next_subscription_id, resolved_capture_keys,
              captures, capture_order, next_capture_index, pending_packets,
              metrics, call, out, kernel, queue, arrivals>>

-----------------------------------------------------------------------------
(* Maps, as the code's HashMaps use them. *)

Put(f, k, v) == [x \in DOMAIN f \cup {k} |-> IF x = k THEN v ELSE f[x]]
Drop(f, k)   == [x \in DOMAIN f \ {k} |-> f[x]]

Smaller(a, b)  == IF a <= b THEN a ELSE b
SaturatingAdd(a, b) == Smaller(a + b, CounterMax)
Least(S)       == CHOOSE x \in S : \A y \in S : x <= y
NoEntry        == [x \in {} |-> x]

(* KernelMembershipKey::from: the interface is not part of the key. *)
MembershipKeys      == Groups \X (Sources \cup {AnySource})
MembershipKey(cfg)  == <<cfg.group, cfg.source>>

IsJoined(id) == id \in DOMAIN subscriptions /\ subscriptions[id].state = "Joined"

(* A demultiplexer is the set of its entries; its sorted id vectors are   *)
(* kept as sets, and first() is the least id.                             *)
DemuxEntry(id, cfg) == <<id, cfg.group, cfg.source>>
Mutant_ExactMatchHidesAny(demultiplexer, d) ==
  LET named(source) == {e[1] : e \in {x \in demultiplexer : x[2] = d.group /\ x[3] = source}}
  IN  IF named(d.source) # {} THEN named(d.source) ELSE named(AnySource)

Matches(demultiplexer, d) ==
  {e[1] : e \in {x \in demultiplexer : x[2] = d.group /\ x[3] \in {AnySource, d.source}}}

NewCapture == [memberships |-> 0, kernel_memberships |-> NoEntry, demultiplexer |-> {}]

(* raw_packet_from_captured, labelled with the primary subscription. *)
PacketOf(ids, key, d) ==
  [tag |-> d.tag, key |-> key, group |-> d.group, source |-> d.source, ids |-> ids,
   subscription_id |-> Least(ids), interface |-> subscriptions[Least(ids)].config.selector]

NoKey == {}
IdleCall == [pc |-> "idle", op |-> "none", max |-> 0, received |-> 0, target |-> 0,
             budget |-> 0, visits |-> 0, reads |-> 0, queued |-> 0, captured |-> 0,
             filtered |-> 0, key |-> NoKey]

Idle == call.pc = "idle"

Init ==
  /\ subscriptions = NoEntry
  /\ next_subscription_id = 1
  /\ resolved_capture_keys = NoEntry
  /\ captures = NoEntry
  /\ capture_order = <<>>
  /\ next_capture_index = 0
  /\ pending_packets = <<>>
  /\ metrics = [received |-> 0, unmatched |-> 0, matches |-> 0]
  /\ call = IdleCall
  /\ out = <<>>
  /\ kernel = [k \in Keys |-> {}]
  /\ queue = [k \in Keys |-> <<>>]
  /\ arrivals = 0

-----------------------------------------------------------------------------
(* Registration. *)

(* resolve_capture_key: the first subscription with a selector resolves it *)
(* through the operating system, later ones reuse the cached key.          *)
ResolveCaptureKey(selector, key) ==
  \/ /\ selector \in DOMAIN resolved_capture_keys
     /\ key = resolved_capture_keys[selector].key
     /\ resolved_capture_keys' = [resolved_capture_keys EXCEPT ![selector].references = @ + 1]
  \/ /\ selector \notin DOMAIN resolved_capture_keys
     /\ key \in Resolutions[selector]
     /\ resolved_capture_keys' =
          Put(resolved_capture_keys, selector, [key |-> key, references |-> 1])

AddSubscription(cfg) ==
  /\ Idle
  /\ next_subscription_id <= MaxId
  /\ Cardinality(DOMAIN subscriptions) < MaxSubscriptions
  /\ \E key \in Keys :
       /\ ResolveCaptureKey(cfg.selector, key)
       /\ subscriptions' = Put(subscriptions, next_subscription_id,
                               [config |-> cfg, capture_key |-> key, state |-> "Bound"])
  /\ next_subscription_id' = next_subscription_id + 1
  /\ UNCHANGED <<sockets, next_capture_index, pending_packets, metrics, call, out,
                 queue, arrivals>>

Mutant_ReleasedKeyKept(selector) ==
  resolved_capture_keys' = [resolved_capture_keys EXCEPT ![selector].references = @ - 1]

(* release_capture_key *)
ReleaseCaptureKey(selector) ==
  resolved_capture_keys' =
    IF resolved_capture_keys[selector].references = 1
    THEN Drop(resolved_capture_keys, selector)
    ELSE [resolved_capture_keys EXCEPT ![selector].references = @ - 1]

-----------------------------------------------------------------------------
(* Joining and leaving. *)

(* Vec::remove shifts the later elements down. *)
Position(s, x) == CHOOSE i \in DOMAIN s : s[i] = x
RemoveAt(s, i) == [j \in 1..(Len(s) - 1) |-> IF j < i THEN s[j] ELSE s[j + 1]]

Mutant_IndexNotClamped(key, map, order) ==
  /\ captures' = Drop(map, key)
  /\ capture_order' = RemoveAt(order, Position(order, key))
  /\ next_capture_index' = next_capture_index
  /\ queue' = [queue EXCEPT ![key] = <<>>]

(* remove_capture, from given values of the map and of the order; closing  *)
(* the socket drops its memberships and its buffered datagrams.            *)
RemoveCapture(key, map, order) ==
  LET rest == RemoveAt(order, Position(order, key)) IN
  /\ captures' = Drop(map, key)
  /\ capture_order' = rest
  /\ next_capture_index' = IF Len(rest) = 0 THEN 0 ELSE next_capture_index % Len(rest)
  /\ queue' = [queue EXCEPT ![key] = <<>>]

(* The capture map and order after join_subscription has found or opened   *)
(* the socket for key.                                                     *)
CapturesWith(key) == IF key \in DOMAIN captures THEN captures ELSE Put(captures, key, NewCapture)
OrderWith(key)    == IF key \in DOMAIN captures THEN capture_order ELSE Append(capture_order, key)

Mutant_ConfigOfLastJoiner(capture, id, cfg) ==
  LET held == capture.kernel_memberships
      m    == MembershipKey(cfg)
  IN
  [memberships |-> capture.memberships + 1,
   kernel_memberships |->
     Put(held, m, [references |-> IF m \in DOMAIN held THEN held[m].references + 1 ELSE 1,
                   joined_config |-> cfg]),
   demultiplexer |-> capture.demultiplexer \cup {DemuxEntry(id, cfg)}]

(* The reference count and the demultiplexer after a join that succeeded. *)
JoinedCapture(capture, id, cfg) ==
  LET m == MembershipKey(cfg) IN
  [memberships |-> capture.memberships + 1,
   kernel_memberships |->
     IF m \in DOMAIN capture.kernel_memberships
     THEN [capture.kernel_memberships EXCEPT ![m].references = @ + 1]
     ELSE Put(capture.kernel_memberships, m, [references |-> 1, joined_config |-> cfg]),
   demultiplexer |-> capture.demultiplexer \cup {DemuxEntry(id, cfg)}]

(* What the kernel holds for a group and source, on the interface the      *)
(* configuration named when it was joined.                                 *)
Membership(m, interface) == [membership |-> m, interface |-> interface]

(* join_raw_multicast_group is called only for the first reference.  It    *)
(* resolves the interface of the configuration once more: the membership   *)
(* need not be on the interface of the capture.                            *)
KernelJoin(key, cfg, held) ==
  IF MembershipKey(cfg) \in DOMAIN held
  THEN kernel' = kernel
  ELSE \E interface \in Resolutions[cfg.selector] :
         kernel' = [kernel EXCEPT ![key] = @ \cup {Membership(MembershipKey(cfg), interface)}]

JoinSubscription(id) ==
  LET cfg == subscriptions[id].config
      key == subscriptions[id].capture_key
      map == CapturesWith(key)
  IN
  /\ Idle
  /\ id \in DOMAIN subscriptions
  /\ ~IsJoined(id)
  /\ KernelJoin(key, cfg, map[key].kernel_memberships)
  /\ captures' = [map EXCEPT ![key] = JoinedCapture(@, id, cfg)]
  /\ capture_order' = OrderWith(key)
  /\ subscriptions' = [subscriptions EXCEPT ![id].state = "Joined"]
  /\ UNCHANGED <<next_subscription_id, resolved_capture_keys, next_capture_index,
                 pending_packets, metrics, call, out, queue, arrivals>>

Mutant_SocketKeptOnFailedJoin(id) ==
  LET key == subscriptions[id].capture_key IN
  /\ Idle
  /\ ~IsJoined(id)
  /\ captures' = CapturesWith(key)
  /\ capture_order' = OrderWith(key)
  /\ UNCHANGED <<registry, kernel, next_capture_index, pending_packets, metrics, call, out,
                 queue, arrivals>>

(* The kernel refuses the join: a socket opened for it is closed again. *)
JoinFails(id) ==
  LET cfg == subscriptions[id].config
      key == subscriptions[id].capture_key
      map == CapturesWith(key)
  IN
  /\ Idle
  /\ id \in DOMAIN subscriptions
  /\ ~IsJoined(id)
  /\ MembershipKey(cfg) \notin DOMAIN map[key].kernel_memberships
  /\ IF key \in DOMAIN captures
     THEN UNCHANGED <<captures, capture_order, next_capture_index, queue>>
     ELSE RemoveCapture(key, map, OrderWith(key))
  /\ UNCHANGED <<registry, kernel, pending_packets, metrics, call, out, arrivals>>

Mutant_LabelNotRewritten(p, id) == [p EXCEPT !.ids = @ \ {id}]

(* remove_pending_membership, for one packet of the queue and for all. *)
WithoutId(p, id) ==
  LET ids == p.ids \ {id} IN
  IF id \notin p.ids THEN p
  ELSE [p EXCEPT !.ids = ids,
                 !.subscription_id = Least(ids),
                 !.interface = subscriptions[Least(ids)].config.selector]

Mutant_SharedPacketsDropped(pending, id) ==
  Picked(pending, {i \in DOMAIN pending : id \notin pending[i].ids})

RemovePendingMembership(pending, id) ==
  LET kept == Picked(pending, {i \in DOMAIN pending : pending[i].ids # {id}})
  IN  [i \in DOMAIN kept |-> WithoutId(kept[i], id)]

(* The capture after a leave that succeeded. *)
LeftCapture(capture, id, cfg) ==
  LET m == MembershipKey(cfg) IN
  [memberships |-> capture.memberships - 1,
   kernel_memberships |->
     IF capture.kernel_memberships[m].references = 1
     THEN Drop(capture.kernel_memberships, m)
     ELSE [capture.kernel_memberships EXCEPT ![m].references = @ - 1],
   demultiplexer |-> capture.demultiplexer \ {DemuxEntry(id, cfg)}]

(* leave_raw_multicast_group is called only for the last reference, with   *)
(* the config that joined the membership, which may be another             *)
(* subscription's.  Its interface is resolved again: if it is not the one  *)
(* of the join, the kernel finds nothing to leave, the call fails and      *)
(* nothing changes.  Closing the socket drops what it still holds.         *)
KernelLeave(key, cfg) ==
  LET m      == MembershipKey(cfg)
      shared == captures[key].kernel_memberships[m]
  IN
  IF shared.references > 1
  THEN kernel' = kernel
  ELSE \E interface \in Resolutions[shared.joined_config.selector] :
         /\ Membership(m, interface) \in kernel[key]
         /\ kernel' = [kernel EXCEPT ![key] = @ \ {Membership(m, interface)}]

(* What leave_subscription does to everything but the subscription map. *)
Leave(id) ==
  LET cfg  == subscriptions[id].config
      key  == subscriptions[id].capture_key
      left == LeftCapture(captures[key], id, cfg)
  IN
  /\ KernelLeave(key, cfg)
  /\ pending_packets' = RemovePendingMembership(pending_packets, id)
  /\ IF left.memberships = 0
     THEN RemoveCapture(key, captures, capture_order)
     ELSE /\ captures' = [captures EXCEPT ![key] = left]
          /\ UNCHANGED <<capture_order, next_capture_index, queue>>
  /\ UNCHANGED <<next_subscription_id, metrics, call, out, arrivals>>

LeaveSubscription(id) ==
  /\ Idle
  /\ IsJoined(id)
  /\ subscriptions' = [subscriptions EXCEPT ![id].state = "Bound"]
  /\ Leave(id)
  /\ UNCHANGED resolved_capture_keys

(* remove_subscription leaves first when joined; a leave that fails keeps  *)
(* the subscription.                                                       *)
RemoveSubscription(id) ==
  /\ Idle
  /\ id \in DOMAIN subscriptions
  /\ IF IsJoined(id)
     THEN Leave(id)
     ELSE UNCHANGED <<next_subscription_id, sockets, next_capture_index, pending_packets,
                      metrics, call, out, queue, arrivals>>
  /\ subscriptions' = Drop(subscriptions, id)
  /\ ReleaseCaptureKey(subscriptions[id].config.selector)

-----------------------------------------------------------------------------
(* Receiving. *)

Mutant_DrainCopies(pending, n) == pending

(* drain_pending_into and the pop of try_recv_any: n packets move from the *)
(* front of the queue to the caller.                                       *)
Drained(pending, n)   == SubSeq(pending, 1, n)
Remaining(pending, n) == SubSeq(pending, n + 1, Len(pending))

(* fill_pending(max - received): its early return, or its loop's locals. *)
StartFill(op, max, received, pending) ==
  LET target == Smaller(max - received, MaxPendingPackets - Len(pending)) IN
  IF capture_order = <<>> \/ target = 0
  THEN IdleCall
  ELSE [IdleCall EXCEPT !.pc = "visit", !.op = op, !.max = max, !.received = received,
                        !.target = target, !.budget = target + Len(capture_order),
                        !.visits = Len(capture_order)]

TryRecvAny ==
  /\ Idle
  /\ IF pending_packets # <<>>
     THEN /\ out' = Drained(pending_packets, 1)
          /\ pending_packets' = Remaining(pending_packets, 1)
          /\ UNCHANGED call
     ELSE /\ out' = <<>>
          /\ call' = StartFill("any", 1, 0, pending_packets)
          /\ UNCHANGED pending_packets
  /\ UNCHANGED <<registry, sockets, next_capture_index, metrics, queue, arrivals>>

TryRecvBatchInto(max) ==
  LET n == Smaller(max, Len(pending_packets)) IN
  /\ Idle
  /\ out' = Drained(pending_packets, n)
  /\ pending_packets' = Remaining(pending_packets, n)
  /\ call' = IF n < max THEN StartFill("batch", max, n, pending_packets') ELSE IdleCall
  /\ UNCHANGED <<registry, sockets, next_capture_index, metrics, queue, arrivals>>

(* The head of the loop over captures: the index advances before the read. *)
VisitCapture ==
  /\ call.pc = "visit"
  /\ call.visits > 0
  /\ call' = [call EXCEPT !.pc = "read", !.visits = @ - 1, !.reads = 0, !.filtered = 0,
                          !.key = capture_order[next_capture_index + 1]]
  /\ next_capture_index' = (next_capture_index + 1) % Len(capture_order)
  /\ UNCHANGED <<registry, sockets, pending_packets, metrics, out, queue, arrivals>>

Mutant_OnlyBudgetStops == call.captured = call.budget

(* The checks at the head of the loop over one capture's datagrams. *)
FillStops == call.queued = call.target \/ call.captured = call.budget
MayRead   == call.pc = "read" /\ call.reads < call.target /\ ~FillStops

LeaveInnerLoop ==
  /\ call.pc = "read"
  /\ ~MayRead
  /\ call' = [call EXCEPT !.pc = IF call.reads < call.target THEN "done" ELSE "visit"]
  /\ UNCHANGED <<registry, sockets, next_capture_index, pending_packets, metrics, out,
                 queue, arrivals>>

TakeHead(key) == queue' = [queue EXCEPT ![key] = Tail(@)]

Mutant_SkipWithoutBudget ==
  /\ MayRead
  /\ queue[call.key] # <<>>
  /\ ~Head(queue[call.key]).parses
  /\ TakeHead(call.key)
  /\ UNCHANGED <<registry, sockets, next_capture_index, pending_packets, metrics, call, out,
                 arrivals>>

(* recv_shared_raw_datagram skips a datagram that does not parse, up to    *)
(* its budget, on which it reports that nothing is there.                  *)
SkipUnparsed ==
  /\ MayRead
  /\ queue[call.key] # <<>>
  /\ ~Head(queue[call.key]).parses
  /\ TakeHead(call.key)
  /\ call' = IF call.filtered + 1 = FilterBudget
             THEN [call EXCEPT !.pc = "visit"]
             ELSE [call EXCEPT !.filtered = @ + 1]
  /\ UNCHANGED <<registry, sockets, next_capture_index, pending_packets, metrics, out,
                 arrivals>>

(* The socket has nothing more to read: on to the next capture. *)
WouldBlock ==
  /\ MayRead
  /\ queue[call.key] = <<>>
  /\ call' = [call EXCEPT !.pc = "visit"]
  /\ UNCHANGED <<registry, sockets, next_capture_index, pending_packets, metrics, out,
                 queue, arrivals>>

(* record_received_packet, record_unmatched_packet and                     *)
(* record_demultiplex_matches for one datagram that ids match.             *)
Mutant_UnmatchedCountedAlways(ids) ==
  [received  |-> SaturatingAdd(metrics.received, 1),
   unmatched |-> SaturatingAdd(metrics.unmatched, 1),
   matches   |-> SaturatingAdd(metrics.matches, Cardinality(ids))]

Recorded(ids) ==
  [received  |-> SaturatingAdd(metrics.received, 1),
   unmatched |-> SaturatingAdd(metrics.unmatched, IF ids = {} THEN 1 ELSE 0),
   matches   |-> SaturatingAdd(metrics.matches, Cardinality(ids))]

CaptureDatagram ==
  LET d   == Head(queue[call.key])
      ids == Matches(captures[call.key].demultiplexer, d)
      hit == ids # {}
  IN
  /\ MayRead
  /\ queue[call.key] # <<>>
  /\ d.parses
  /\ TakeHead(call.key)
  /\ metrics' = Recorded(ids)
  /\ pending_packets' = IF hit
                        THEN Append(pending_packets, PacketOf(ids, call.key, d))
                        ELSE pending_packets
  /\ call' = [call EXCEPT !.reads = @ + 1, !.captured = @ + 1, !.filtered = 0,
                          !.queued = IF hit THEN @ + 1 ELSE @]
  /\ UNCHANGED <<registry, sockets, next_capture_index, out, arrivals>>

(* A read fails: the error is returned at once and what this call has      *)
(* queued stays pending.                                                   *)
ReceiveFails ==
  /\ MayRead
  /\ call' = IdleCall
  /\ UNCHANGED <<registry, sockets, next_capture_index, pending_packets, metrics, out,
                 queue, arrivals>>

(* fill_pending has returned: try_recv_any pops, try_recv_batch_into       *)
(* drains and either fills again or returns.                               *)
FillReturns ==
  LET n == IF call.op = "any" THEN Smaller(1, Len(pending_packets))
           ELSE IF call.queued = 0 THEN 0
           ELSE Smaller(call.max - call.received, Len(pending_packets))
      received == call.received + n
  IN
  /\ call.pc = "done" \/ (call.pc = "visit" /\ call.visits = 0)
  /\ out' = out \o Drained(pending_packets, n)
  /\ pending_packets' = Remaining(pending_packets, n)
  /\ call' = IF call.op = "batch" /\ call.queued > 0 /\ received < call.max
             THEN StartFill("batch", call.max, received, pending_packets')
             ELSE IdleCall
  /\ UNCHANGED <<registry, sockets, next_capture_index, metrics, queue, arrivals>>

-----------------------------------------------------------------------------
(* The network: an open capture socket sees every multicast datagram of    *)
(* its family on its interface, whether or not a group was joined for it.  *)
(* (It is created before it is filtered and bound, so its first datagrams  *)
(* may be any other frames of the host.  The code asks no datagram for its *)
(* interface, and these are told from no others here.)                     *)
(* A datagram that meets a full buffer is dropped by the kernel.  Of one   *)
(* that does not parse neither group nor source matters.                   *)
AnyOf(S) == CHOOSE x \in S : TRUE

Arrive(key, group, source, parses) ==
  /\ key \in DOMAIN captures
  /\ arrivals < MaxArrivals
  /\ Len(queue[key]) < MaxQueue
  /\ parses \/ (group = AnyOf(Groups) /\ source = AnyOf(Sources))
  /\ arrivals' = arrivals + 1
  /\ queue' = [queue EXCEPT ![key] =
                 Append(@, [tag |-> arrivals', group |-> group, source |-> source,
                            parses |-> parses])]
  /\ UNCHANGED <<registry, sockets, next_capture_index, pending_packets, metrics, call, out>>

Receive == VisitCapture \/ LeaveInnerLoop \/ SkipUnparsed \/ WouldBlock \/ CaptureDatagram
             \/ ReceiveFails \/ FillReturns

Next ==
  \/ \E cfg \in Configs : AddSubscription(cfg)
  \/ \E id \in DOMAIN subscriptions :
       \/ JoinSubscription(id)
       \/ JoinFails(id)
       \/ LeaveSubscription(id)
       \/ RemoveSubscription(id)
  \/ TryRecvAny
  \/ \E max \in BatchSizes : TryRecvBatchInto(max)
  \/ Receive
  \/ \E key \in Keys, group \in Groups, source \in Sources, parses \in BOOLEAN :
       Arrive(key, group, source, parses)

Spec == Init /\ [][Next]_vars

-----------------------------------------------------------------------------
(* Types. *)

Ids == 1..(next_subscription_id - 1)

SubscriptionType     == [config: Configs, capture_key: Keys, state: {"Bound", "Joined"}]
ResolvedType         == [key: Keys, references: Nat \ {0}]
KernelMembershipType == [references: Nat \ {0}, joined_config: Configs]
DatagramType == [tag: 1..MaxArrivals, group: Groups, source: Sources, parses: BOOLEAN]
PacketType   == [tag: 1..MaxArrivals, key: Keys, group: Groups, source: Sources,
                 ids: SUBSET (1..MaxId), subscription_id: 1..MaxId, interface: Selectors]
CallType ==
  [pc: {"idle", "visit", "read", "done"}, op: {"none", "any", "batch"}, max: Nat,
   received: Nat, target: Nat, budget: Nat, visits: Nat, reads: Nat, queued: Nat,
   captured: Nat, filtered: Nat, key: Keys \cup {NoKey}]

CaptureOK(c) ==
  /\ c.memberships \in Nat \ {0}
  /\ DOMAIN c.kernel_memberships \subseteq MembershipKeys
  /\ c.kernel_memberships \in [DOMAIN c.kernel_memberships -> KernelMembershipType]

RegistryTypes ==
  /\ next_subscription_id \in 1..(MaxId + 1)
  /\ DOMAIN subscriptions \subseteq Ids
  /\ subscriptions \in [DOMAIN subscriptions -> SubscriptionType]
  /\ DOMAIN resolved_capture_keys \subseteq Selectors
  /\ resolved_capture_keys \in [DOMAIN resolved_capture_keys -> ResolvedType]

SocketTypes ==
  /\ DOMAIN captures \subseteq Keys
  /\ \A k \in DOMAIN captures : CaptureOK(captures[k])
  /\ capture_order \in Seq(Keys)
  /\ kernel \in [Keys -> SUBSET [membership: MembershipKeys, interface: Keys]]

ReceiveTypes ==
  /\ next_capture_index \in Nat
  /\ pending_packets \in Seq(PacketType)
  /\ metrics \in [received: Nat, unmatched: Nat, matches: Nat]
  /\ call \in CallType
  /\ out \in Seq(PacketType)
  /\ queue \in [Keys -> Seq(DatagramType)]
  /\ arrivals \in 0..MaxArrivals

(* Every variable has its type; maps are maps over the right keys, a       *)
(* stored id was handed out earlier, and no count of the maps is zero.     *)
TypeOK == RegistryTypes /\ SocketTypes /\ ReceiveTypes

-----------------------------------------------------------------------------
(* Safety. *)

JoinedOn(key) == {id \in DOMAIN subscriptions :
                    subscriptions[id].state = "Joined" /\ subscriptions[id].capture_key = key}
HoldersOf(key, m) == {id \in JoinedOn(key) : MembershipKey(subscriptions[id].config) = m}
StoredWith(selector) == {id \in DOMAIN subscriptions : subscriptions[id].config.selector = selector}

(* join_subscription and leave_subscription keep the counts exact: a       *)
(* capture is open exactly while some subscription is joined on it, and    *)
(* its membership count and the reference count of each kernel membership  *)
(* are the numbers of joined subscriptions behind them.  This is what the  *)
(* expect calls and the debug assertion of leave_subscription rely on.     *)
MembershipCounts ==
  /\ \A key \in Keys : key \in DOMAIN captures <=> JoinedOn(key) # {}
  /\ \A key \in DOMAIN captures :
       LET c == captures[key] IN
       /\ c.memberships = Cardinality(JoinedOn(key))
       /\ \A m \in MembershipKeys :
            /\ m \in DOMAIN c.kernel_memberships <=> HoldersOf(key, m) # {}
            /\ m \in DOMAIN c.kernel_memberships =>
                 c.kernel_memberships[m].references = Cardinality(HoldersOf(key, m))

(* The kernel holds exactly the memberships the reference counts say, each *)
(* on one interface, and joined_config is a configuration that may resolve *)
(* to that interface: the last leave of a membership shared by             *)
(* configurations that name the interface differently asks for what the    *)
(* first join got.  It may resolve to the interface of the capture too:    *)
(* only a configuration whose address moves has a membership on another    *)
(* interface than its capture.                                             *)
KernelHolds(key, entries, held) ==
  /\ DOMAIN held = {e.membership : e \in entries}
  /\ \A e, f \in entries : e.membership = f.membership => e = f
  /\ \A e \in entries :
       LET joined_config == held[e.membership].joined_config IN
       /\ MembershipKey(joined_config) = e.membership
       /\ {e.interface, key} \subseteq Resolutions[joined_config.selector]

(* So it is on every open capture; a closed socket holds none.             *)
KernelInSync ==
  /\ \A key \in DOMAIN captures :
       KernelHolds(key, kernel[key], captures[key].kernel_memberships)
  /\ \A key \in Keys \ DOMAIN captures : kernel[key] = {}

(* The demultiplexer of a capture lists exactly the subscriptions joined   *)
(* on it, under their own group and source.                                *)
DemultiplexerExact ==
  \A key \in DOMAIN captures :
    captures[key].demultiplexer = {DemuxEntry(id, subscriptions[id].config) : id \in JoinedOn(key)}

(* capture_order lists each open capture once and the round-robin index    *)
(* stays inside it, through every removal: indexing it cannot panic.       *)
CaptureOrderInSync ==
  /\ {capture_order[i] : i \in DOMAIN capture_order} = DOMAIN captures
  /\ \A i, j \in DOMAIN capture_order : capture_order[i] = capture_order[j] => i = j
  /\ capture_order = <<>> => next_capture_index = 0
  /\ capture_order # <<>> => next_capture_index < Len(capture_order)

(* The cache of resolved interfaces holds the selectors in use with their  *)
(* exact use counts, each with a key it did resolve to, and all            *)
(* subscriptions with one selector share its key even when the interface   *)
(* has come to resolve differently meanwhile.                              *)
ResolvedKeysExact ==
  /\ \A s \in Selectors : s \in DOMAIN resolved_capture_keys <=> StoredWith(s) # {}
  /\ \A s \in DOMAIN resolved_capture_keys :
       /\ resolved_capture_keys[s].references = Cardinality(StoredWith(s))
       /\ resolved_capture_keys[s].key \in Resolutions[s]
  /\ \A id \in DOMAIN subscriptions :
       subscriptions[id].capture_key = resolved_capture_keys[subscriptions[id].config.selector].key

(* What subscriptions share is exactly what they make it: the kernel's     *)
(* memberships, the demultiplexers that share datagrams out, and the cache *)
(* of resolved interfaces.                                                 *)
SharedStateExact == KernelInSync /\ DemultiplexerExact /\ ResolvedKeysExact

(* A queued packet only names subscriptions that are joined now and that   *)
(* its group and source match, at least one of them, and it is labelled    *)
(* with the least of them and that one's configured interface: leaving or  *)
(* removing a subscription rewrites the queue, also after a failed batch   *)
(* has left packets behind.                                                *)
PendingNamesJoined ==
  \A i \in DOMAIN pending_packets :
    LET p == pending_packets[i] IN
    /\ p.ids # {}
    /\ \A id \in p.ids :
         /\ IsJoined(id)
         /\ subscriptions[id].config.group = p.group
         /\ subscriptions[id].config.source \in {AnySource, p.source}
         /\ subscriptions[id].capture_key = p.key
         /\ p.subscription_id <= id
    /\ p.subscription_id \in p.ids
    /\ p.interface = subscriptions[p.subscription_id].config.selector

(* The pending queue never exceeds its limit and a receive call never      *)
(* hands over more than it was asked for.                                  *)
ReceiveBounded ==
  /\ Len(pending_packets) <= MaxPendingPackets
  /\ call.op = "batch" => call.received = Len(out) /\ call.received < call.max
  /\ call.pc # "idle" => /\ Len(pending_packets) = call.queued
                         /\ call.queued <= call.target
                         /\ call.captured <= call.budget

(* Datagrams of one capture keep their order and are neither duplicated    *)
(* nor reordered on their way from the socket through the pending queue to *)
(* the caller, across calls, failed calls and re-opened sockets.           *)
Increasing(tags) == \A i, j \in DOMAIN tags : i < j => tags[i] < tags[j]
Tags(s) == [i \in DOMAIN s |-> s[i].tag]
Accepted == out \o pending_packets
CaptureFifo ==
  /\ \A i, j \in DOMAIN Accepted :
       i < j /\ Accepted[i].key = Accepted[j].key => Accepted[i].tag < Accepted[j].tag
  /\ \A key \in Keys :
       /\ Increasing(Tags(queue[key]))
       /\ \A i \in DOMAIN Accepted, j \in DOMAIN queue[key] :
            Accepted[i].key = key => Accepted[i].tag < queue[key][j].tag

(* The counters agree with what was queued: every datagram read counts as  *)
(* received, and as unmatched or as at least one match, until the first    *)
(* of them saturates (the match counter may have saturated before).        *)
MetricsAgree ==
  metrics.received < CounterMax =>
  /\ metrics.matches >= metrics.received - metrics.unmatched
  /\ metrics.received - metrics.unmatched >= Len(pending_packets) + Len(out)

-----------------------------------------------------------------------------
(* Action properties. *)

PendingFor(pending, id) == Picked(Tags(pending), {i \in DOMAIN pending : id \in pending[i].ids})

(* "Leaves one logical membership without affecting other shared           *)
(* memberships": when one subscription leaves or is removed, the others    *)
(* keep their state, the same kernel membership, their place in the        *)
(* demultiplexer, and the queued packets that name them, in order.         *)
LeaveIsolated ==
  [][\A id \in DOMAIN subscriptions :
       IsJoined(id) /\ ~IsJoined(id)' =>
         \A other \in DOMAIN subscriptions \ {id} :
           /\ subscriptions'[other] = subscriptions[other]
           /\ PendingFor(pending_packets', other) = PendingFor(pending_packets, other)
           /\ IsJoined(other) =>
                LET s == subscriptions[other] IN
                /\ s.capture_key \in DOMAIN captures'
                /\ \E e \in kernel[s.capture_key] \cap kernel'[s.capture_key] :
                     e.membership = MembershipKey(s.config)
                /\ queue'[s.capture_key] = queue[s.capture_key]]_vars

(* Every step of a receive call brings its end nearer whatever the network *)
(* does meanwhile: a batch has taken more, or fewer captures are left to   *)
(* visit, or the inner loop is over, or it has one more of its bounded     *)
(* reads or skips behind it.  No flood of datagrams, matching or not,      *)
(* parseable or not, keeps a "non-blocking" call from returning.           *)
Nearer(a, b) ==
  \/ a.received < b.received /\ b.received < b.max
  \/ /\ a.received = b.received
     /\ \/ b.visits < a.visits
        \/ b.visits = a.visits /\ a.pc = "read" /\ b.pc # "read"
        \/ b.visits = a.visits /\ b.pc = "read" /\ a.reads < b.reads /\ b.reads <= b.target
        \/ /\ b.visits = a.visits /\ b.pc = "read" /\ b.reads = a.reads
           /\ a.filtered < b.filtered /\ b.filtered < FilterBudget

Reads == \E key \in Keys : Len(queue'[key]) < Len(queue[key])

ReceiveProgresses ==
  [][call.pc # "idle" /\ (call' # call \/ Reads) => call' = IdleCall \/ Nearer(call, call')]_vars

=============================================================================
