----------------------------- MODULE RawContext -----------------------------
(***************************************************************************)
(* RawContext and RawSubscription (src/raw) over the raw platform layer    *)
(* (src/platform/raw.rs) of Linux, macOS and Windows: every subscription   *)
(* owns the sockets that capture for it and a socket that holds its        *)
(* membership.                                                             *)
(*                                                                         *)
(* Methods do not interleave.  Frames do: a receive call is a sequence of  *)
(* steps, one per read, the other methods are one step each.               *)
(*                                                                         *)
(* A call that fails before it has changed anything has no action: invalid *)
(* or duplicate configuration, sockets that cannot be opened, unknown id,  *)
(* wrong state, interface that cannot be resolved, first join or leave     *)
(* refused by the kernel.                                                  *)
(***************************************************************************)
EXTENDS RawFrames, Subsequences

CONSTANTS
  Platforms,    \* the builds to check: some of "linux", "macos", "windows"
  Configs,      \* name -> RawSubscriptionConfig the caller tries, valid or not
  Frames,       \* external: name -> frame
  EarlyFrames,  \* external: names of those that meet an unbound Linux socket
  Datalink,     \* external: interface index -> its link layer on macOS
  InitialLinks, \* external: interface address -> index of its interface at first
  FilterBudget, \* MAX_RAW_FILTERED_READS_PER_RECV
  MaxSubscriptions, \* bound: subscriptions at a time
  MaxId,        \* bound: subscriptions ever added
  MaxArrivals,  \* bound: wanted frames per subscription
  MaxQueue,     \* bound: frames queued in a socket and its buffer
  MaxMoves      \* bound: moves of an interface address

Indexes    == DOMAIN Datalink
Interfaces == DOMAIN InitialLinks

ASSUME RawAssumptions ==
  /\ Platforms \subseteq {"linux", "macos", "windows"}
  /\ Indexes \subseteq Nat \ {0}
  /\ InitialLinks \in [Interfaces -> Indexes]
  /\ EarlyFrames \subseteq DOMAIN Frames
  /\ FilterBudget \in Nat \ {0}
  /\ {MaxSubscriptions, MaxId, MaxArrivals, MaxQueue, MaxMoves} \subseteq Nat

(* An address is of a family, and the interface of a valid configuration   *)
(* exists: one that does not is refused when it is opened.                 *)
ASSUME ConfigAssumptions ==
  \A c \in DOMAIN Configs :
    LET config == Configs[c] IN
    /\ Family(config.group) \in {4, 16}
    /\ RawValidate(config) =>
         /\ config.interface_index \in Indexes \cup {NoIndex}
         /\ config.interface \in Interfaces \/ IsUnspecified(config.interface)

VARIABLES
  platform,              \* the build
  subscriptions,         \* Vec of [id, config, joined], config by its name
  next_subscription_id,
  next_recv_index,       \* counted from 0, like the code's
  call,                  \* the receive call in progress
  sockets,               \* id -> its RawReceiveSocket and what the kernel holds for it
  links,                 \* external: interface address -> its index
  moves,                 \* history: number of moves so far
  arrived,               \* history: id -> contents of the wanted frames that reached its sockets
  received,              \* history: id -> packets handed to the caller
  moved,                 \* history: ids whose interface address moved since add
  half_left,             \* history: ids of which a leave failed half way
  leaked                 \* history: ids of which a roll-back of a join failed

vars == <<platform, subscriptions, next_subscription_id, next_recv_index, call, sockets, links,
          moves, arrived, received, moved, half_left, leaked>>
registry == <<platform, subscriptions, next_subscription_id>>
history  == <<arrived, received, moved, half_left, leaked>>

Ids   == 1..MaxId
Count == Len(subscriptions)
At(i) == subscriptions[i + 1]

Idle == [kind |-> "idle", tried |-> 0, index |-> 0, filtered |-> 0, socket |-> "primary"]
Busy == call.kind # "idle"

Init ==
  /\ platform \in Platforms
  /\ subscriptions = <<>>
  /\ next_subscription_id = 1
  /\ next_recv_index = 0
  /\ call = Idle
  /\ sockets = <<>>
  /\ links = InitialLinks
  /\ moves = 0
  /\ arrived = [id \in Ids |-> <<>>]
  /\ received = [id \in Ids |-> <<>>]
  /\ moved = {}
  /\ half_left = {}
  /\ leaked = {}

-----------------------------------------------------------------------------
(* Opening and closing. *)

Mutant_AddressBeforeIndex(config) ==
  IF config.interface # NoAddr /\ ~IsUnspecified(config.interface) THEN links[config.interface]
  ELSE IF config.interface_index # NoIndex THEN config.interface_index
  ELSE 0

(* resolve_packet_interface_index: 0 stands for None.  A v4 and a v6       *)
(* address are looked up alike.                                            *)
PacketInterfaceIndex(config) ==
  IF config.interface_index # NoIndex THEN config.interface_index
  ELSE IF config.interface # NoAddr /\ ~IsUnspecified(config.interface) THEN links[config.interface]
  ELSE 0

(* What open_raw_socket of each platform refuses. *)
Supported(config) ==
  CASE platform = "linux"   -> TRUE
    [] platform = "macos"   -> PacketInterfaceIndex(config) # 0
    [] platform = "windows" -> /\ IsIpv4(config.group)
                               /\ config.interface # NoAddr
                               /\ ~IsUnspecified(config.interface)

(* The sockets that join the group: the receive sockets too on Windows,    *)
(* in this order.                                                          *)
Parts == IF platform = "windows" THEN <<"membership", "primary", "udp">> ELSE <<"membership">>

(* The frames admitted by the filter program attached to a receive socket. *)
(* Linux and Windows capture datagrams without link layer ("ip"); the      *)
(* sockets of Windows have no filter.                                      *)
Links == {"ip"} \cup Range(Datalink)

Attached == [c \in DOMAIN Configs |-> [link \in Links |-> {f \in DOMAIN Frames :
  IF link = "ip" THEN BpfAccepts(BpfIpFilter(Configs[c], 0), IpBytes(Frames[f]))
  ELSE BpfAccepts(AppleSubscriptionFilter(link, Configs[c]), FrameBytes(Frames[f], link))}]]

LinkOf(index) == IF platform = "macos" THEN Datalink[index] ELSE "ip"

(* The capture each platform opens: open_linux_packet_socket,              *)
(* open_apple_bpf_socket, open_windows_raw_socket with                     *)
(* open_windows_udp_raw_socket.                                            *)
LinuxCapture(c) ==
  [bound |-> PacketInterfaceIndex(Configs[c]), filter |-> Attached[c]["ip"]]

AppleCapture(c) ==
  LET index == PacketInterfaceIndex(Configs[c])
  IN  [bound |-> index, filter |-> Attached[c][Datalink[index]]]

WindowsCapture(c) ==
  [bound |-> links[Configs[c].interface], filter |-> DOMAIN Frames]

(* On Linux the socket captures every frame of every interface until its   *)
(* filter is attached and it is bound: what is queued by then stays.       *)
(* Bound: one such frame.                                                  *)
Early == {<<>>} \cup (IF platform = "linux" THEN {<<f>> : f \in EarlyFrames} ELSE {})

OpenRawSocket(c, early) ==
  LET capture == CASE platform = "linux"   -> LinuxCapture(c)
                   [] platform = "macos"   -> AppleCapture(c)
                   [] platform = "windows" -> WindowsCapture(c)
  IN  [config  |-> c,
       bound   |-> capture.bound,
       filter  |-> capture.filter,
       members |-> [part \in Range(Parts) |-> {}],
       queue   |-> [primary |-> early, udp |-> <<>>],
       block   |-> <<>>]       \* AppleBpfState: what is left of the block read last

Without(f, x) == [y \in DOMAIN f \ {x} |-> f[y]]
With(f, x, v) == [y \in DOMAIN f \cup {x} |-> IF y = x THEN v ELSE f[y]]

(* The wanted frames, and the content of those among the early ones. *)
WantedTable == [c \in DOMAIN Configs |-> [f \in DOMAIN Frames |-> Wanted(Frames[f], Configs[c])]]

EarlyWanted(c, early) ==
  IF early # <<>> /\ WantedTable[c][early[1]] THEN <<Content(Frames[early[1]])>> ELSE <<>>

AddSubscription(c, early) ==
  /\ ~Busy
  /\ next_subscription_id <= MaxId
  /\ Count < MaxSubscriptions
  /\ RawValidate(Configs[c])
  /\ \A i \in 1..Count : subscriptions[i].config # c
  /\ Supported(Configs[c])
  /\ subscriptions' = Append(subscriptions, [id |-> next_subscription_id, config |-> c,
                                             joined |-> FALSE])
  /\ sockets' = With(sockets, next_subscription_id, OpenRawSocket(c, early))
  /\ arrived' = [arrived EXCEPT ![next_subscription_id] = EarlyWanted(c, early)]
  /\ next_subscription_id' = next_subscription_id + 1
  /\ UNCHANGED <<platform, next_recv_index, call, links, moves, received, moved, half_left, leaked>>

(* The history of a subscription ends with it. *)
Forget(id) ==
  /\ arrived' = [arrived EXCEPT ![id] = <<>>]
  /\ received' = [received EXCEPT ![id] = <<>>]
  /\ moved' = moved \ {id}
  /\ half_left' = half_left \ {id}
  /\ leaked' = leaked \ {id}

(* Vec::swap_remove *)
SwapRemove(s, i) == [k \in 1..(Len(s) - 1) |-> IF k = i THEN s[Len(s)] ELSE s[k]]

Mutant_IndexKept(i) ==
  /\ ~Busy
  /\ subscriptions' = SwapRemove(subscriptions, i)
  /\ next_recv_index' = next_recv_index
  /\ sockets' = Without(sockets, subscriptions[i].id)
  /\ Forget(subscriptions[i].id)
  /\ UNCHANGED <<platform, next_subscription_id, call, links, moves>>

RemoveSubscription(i) ==
  /\ ~Busy
  /\ subscriptions' = SwapRemove(subscriptions, i)
  /\ next_recv_index' = IF Count = 1 THEN 0 ELSE next_recv_index % (Count - 1)
  /\ sockets' = Without(sockets, subscriptions[i].id)
  /\ Forget(subscriptions[i].id)
  /\ UNCHANGED <<platform, next_subscription_id, call, links, moves>>

-----------------------------------------------------------------------------
(* Joining and leaving.  The kernel identifies an IPv4 membership by the   *)
(* interface address and an IPv6 membership by the interface index, which  *)
(* resolve_ipv6_interface looks up again every time.  A second membership  *)
(* under one key and a leave without a membership are refused.             *)
MembershipKey(membership) ==
  IF membership.family = 4 THEN membership.interface
  ELSE IF membership.interface_index # NoIndex THEN membership.interface_index
  ELSE IF membership.interface = NoAddr \/ IsUnspecified(membership.interface) THEN 0
  ELSE links[membership.interface]

(* The interface a membership is on, 0 if the kernel chooses. *)
MembershipIndex(membership) ==
  IF membership.family # 4 THEN MembershipKey(membership)
  ELSE IF membership.interface = NoAddr \/ IsUnspecified(membership.interface) THEN 0
  ELSE links[membership.interface]

MembershipOf(sub) == Membership(MembershipCompatConfig(Configs[sub.config]))
Key(sub)   == MembershipKey(MembershipOf(sub))
Entry(sub) == [key |-> Key(sub), index |-> MembershipIndex(MembershipOf(sub))]
Holds(sub, part) == \E m \in sockets[sub.id].members[part] : m.key = Key(sub)

MarkJoined(i, value) == subscriptions' = [subscriptions EXCEPT ![i].joined = value]

(* The parts in P become members, the parts in Q leave. *)
SetMembers(sub, P, Q) ==
  sockets' = [sockets EXCEPT ![sub.id].members =
    [part \in DOMAIN @ |-> IF part \in P THEN @[part] \cup {Entry(sub)}
                           ELSE IF part \in Q THEN {m \in @[part] : m.key # Key(sub)}
                           ELSE @[part]]]

JoinSubscription(i) ==
  LET sub == subscriptions[i] IN
  /\ ~Busy
  /\ ~sub.joined
  /\ \A part \in Range(Parts) : ~Holds(sub, part)
  /\ SetMembers(sub, Range(Parts), {})
  /\ MarkJoined(i, TRUE)
  /\ UNCHANGED <<platform, next_subscription_id, next_recv_index, call, links, moves, history>>

(* join_raw_multicast_group, join_windows_raw_receive_sockets: part k      *)
(* refuses, the parts before it leave again, and a leave that fails is     *)
(* ignored.                                                                *)
JoinFails(i, k) ==
  LET sub    == subscriptions[i]
      before == {Parts[j] : j \in 1..(k - 1)}
  IN
  /\ ~Busy
  /\ ~sub.joined
  /\ \A part \in before : ~Holds(sub, part)
  /\ \E kept \in SUBSET before :
       /\ kept # {}                  \* otherwise nothing has changed
       /\ SetMembers(sub, kept, {})
       /\ leaked' = leaked \cup {sub.id}
  /\ UNCHANGED <<registry, next_recv_index, call, links, moves, arrived, received, moved, half_left>>

Mutant_ErrorsIgnored(i) ==
  LET sub == subscriptions[i] IN
  /\ ~Busy
  /\ sub.joined
  /\ Holds(sub, "membership")
  /\ \E failed \in SUBSET (Range(Parts) \ {"membership"}) :
       /\ \A part \in Range(Parts) \ failed : Holds(sub, part)
       /\ SetMembers(sub, {}, Range(Parts) \ failed)
       /\ MarkJoined(i, FALSE)
       /\ half_left' = half_left \cup {id \in {sub.id} : failed # {}}
  /\ UNCHANGED <<platform, next_subscription_id, next_recv_index, call, links, moves, arrived,
                 received, moved, leaked>>

(* leave_raw_multicast_group, leave_windows_raw_receive_sockets: the       *)
(* membership socket first, then both receive sockets whatever the first   *)
(* of them says; the subscription stays joined if one refuses.             *)
LeaveSubscription(i) ==
  LET sub == subscriptions[i] IN
  /\ ~Busy
  /\ sub.joined
  /\ Holds(sub, "membership")
  /\ \E failed \in SUBSET (Range(Parts) \ {"membership"}) :
       /\ \A part \in Range(Parts) \ failed : Holds(sub, part)
       /\ SetMembers(sub, {}, Range(Parts) \ failed)
       /\ MarkJoined(i, failed # {})
       /\ half_left' = half_left \cup {id \in {sub.id} : failed # {}}
  /\ UNCHANGED <<platform, next_subscription_id, next_recv_index, call, links, moves, arrived,
                 received, moved, leaked>>

-----------------------------------------------------------------------------
(* Receiving. *)
Current == At(call.index)
Socket  == sockets[Current.id]
Reading == Busy /\ Current.joined

TryRecvAny ==
  /\ ~Busy
  /\ Count > 0
  /\ call' = [Idle EXCEPT !.kind = "any", !.index = next_recv_index]
  /\ UNCHANGED <<registry, next_recv_index, sockets, links, moves, history>>

(* RawSubscription::try_recv *)
TryRecv(i) ==
  /\ ~Busy
  /\ subscriptions[i].joined
  /\ call' = [Idle EXCEPT !.kind = "one", !.index = i - 1]
  /\ UNCHANGED <<registry, next_recv_index, sockets, links, moves, history>>

(* Nothing from this subscription: the next one, or Ok(None). *)
GiveUp ==
  call' = IF call.kind = "one" \/ call.tried + 1 = Count THEN Idle
          ELSE [call EXCEPT !.tried = @ + 1, !.index = (@ + 1) % Count,
                            !.filtered = 0, !.socket = "primary"]

SkipUnjoined ==
  /\ Busy
  /\ ~Current.joined
  /\ GiveUp
  /\ UNCHANGED <<registry, next_recv_index, sockets, links, moves, history>>

(* None from one socket: on Windows the UDP socket follows the primary. *)
NoPacket ==
  IF platform = "windows" /\ call.socket = "primary"
    THEN call' = [call EXCEPT !.filtered = 0, !.socket = "udp"]
    ELSE GiveUp

Mutant_FilterUncounted == call' = call

(* raw_filter_budget_exhausted *)
Filter ==
  IF call.filtered + 1 >= FilterBudget THEN NoPacket
  ELSE call' = [call EXCEPT !.filtered = @ + 1]

(* The packet ends the call; the context goes on behind its subscription. *)
Deliver(parsed) ==
  /\ received' = [received EXCEPT ![Current.id] = Append(@, parsed)]
  /\ next_recv_index' = IF call.kind = "any" THEN (call.index + 1) % Count ELSE next_recv_index
  /\ call' = Idle

(* The datagram in a frame. *)
ParsedTable == [f \in DOMAIN Frames |-> [link \in Links |->
   ParseIpDatagram(IF link = "ip" THEN IpBytes(Frames[f])
                   ELSE StripAppleLinkLayer(FrameBytes(Frames[f], link), link))]]

Parsed(f) == ParsedTable[f][LinkOf(Socket.bound)]

(* What the loop over reads returns.  The primary socket of Windows sees   *)
(* UDP too and leaves it to the UDP socket.                                *)
Returned(parsed) ==
  /\ parsed # NotIp
  /\ platform = "windows" /\ call.socket = "primary" => parsed.protocol # UDP
  /\ PacketMatchesConfig(parsed, Configs[Current.config])

(* One recvfrom on Linux, one recv on Windows. *)
ReadDatagram ==
  LET queue == Socket.queue[call.socket] IN
  /\ Reading
  /\ platform # "macos"
  /\ queue # <<>>
  /\ sockets' = [sockets EXCEPT ![Current.id].queue[call.socket] = Tail(@)]
  /\ LET parsed == Parsed(Head(queue)) IN
     IF Returned(parsed) THEN Deliver(parsed)
     ELSE Filter /\ UNCHANGED <<received, next_recv_index>>
  /\ UNCHANGED <<registry, links, moves, arrived, moved, half_left, leaked>>

(* macOS: a read returns a block of frames, as many as were captured. *)
ReadBlock ==
  /\ Reading
  /\ platform = "macos"
  /\ Socket.block = <<>>
  /\ \E n \in 1..Len(Socket.queue.primary) :
       sockets' = [sockets EXCEPT ![Current.id].block = SubSeq(Socket.queue.primary, 1, n),
                                  ![Current.id].queue.primary = SubSeq(@, n + 1, Len(@))]
  /\ UNCHANGED <<registry, next_recv_index, call, links, moves, history>>

Mutant_RestDropped(k) == <<>>

(* The rest of the block behind record k stays for the next call. *)
Rest(k) == SubSeq(Socket.block, k + 1, Len(Socket.block))

(* next_matching_apple_bpf_packet: the first frame of the block that       *)
(* matches; a block without one is dropped and counts as one read.         *)
SearchBlock ==
  LET k == SelectInSeq(Socket.block, LAMBDA f : Returned(Parsed(f))) IN
  /\ Reading
  /\ platform = "macos"
  /\ Socket.block # <<>>
  /\ IF k > 0
       THEN Deliver(Parsed(Socket.block[k])) /\ sockets' = [sockets EXCEPT ![Current.id].block = Rest(k)]
       ELSE Filter /\ sockets' = [sockets EXCEPT ![Current.id].block = <<>>]
                   /\ UNCHANGED <<received, next_recv_index>>
  /\ UNCHANGED <<registry, links, moves, arrived, moved, half_left, leaked>>

WouldBlock ==
  /\ Reading
  /\ Socket.queue[call.socket] = <<>>
  /\ Socket.block = <<>>
  /\ NoPacket
  /\ UNCHANGED <<registry, next_recv_index, sockets, links, moves, history>>

(* ReceiveFailed: the error ends the call, the scan starts at the same     *)
(* place next time.                                                        *)
ReceiveFails ==
  /\ Reading
  /\ Socket.block = <<>>
  /\ call' = Idle
  /\ UNCHANGED <<registry, next_recv_index, sockets, links, moves, history>>

-----------------------------------------------------------------------------
(* External: frames and interface addresses. *)

(* A frame that arrives on an interface reaches every receive socket bound *)
(* to it, or to none, that its filter program admits it to.  On Windows    *)
(* the primary socket has no filter and sees all of IPv4, the UDP socket   *)
(* sees the UDP datagrams of the group it is a member of.                  *)
(* The frames are such that the filter programs admit the wanted ones, and *)
(* that parsing and the last check find exactly those and their content.   *)
ASSUME FrameAssumptions ==
  \A f \in DOMAIN Frames :
    /\ Frames[f].protocol \in 0..255
    /\ \A c \in DOMAIN Configs, link \in Links :
         LET parsed == ParsedTable[f][link] IN
         RawValidate(Configs[c]) =>
           /\ WantedTable[c][f] <=> parsed # NotIp /\ PacketMatchesConfig(parsed, Configs[c])
           /\ WantedTable[c][f] => f \in Attached[c][link] /\ parsed = Content(Frames[f])

OnInterface(socket, index) == socket.bound \in {0, index}

UdpAdmits(socket, f) ==
  /\ Frames[f].protocol = UDP
  /\ socket.members["udp"] # {}
  /\ WantedTable[socket.config][f]

AddIf(condition, queue, f) == IF condition THEN Append(queue, f) ELSE queue

Captured(socket, f) ==
  IF platform = "windows"
    THEN [socket EXCEPT !.queue.primary = AddIf(IsIpv4(Frames[f].group), @, f),
                        !.queue.udp = AddIf(UdpAdmits(socket, f), @, f)]
    ELSE [socket EXCEPT !.queue.primary = AddIf(f \in socket.filter, @, f)]

(* The wanted frames: of UDP on Windows those the UDP socket is there for. *)
Due(socket, f) ==
  /\ WantedTable[socket.config][f]
  /\ platform = "windows" /\ Frames[f].protocol = UDP => UdpAdmits(socket, f)

HasRoom(socket) ==
  /\ Len(socket.block) + Len(socket.queue.primary) < MaxQueue
  /\ Len(socket.queue.udp) < MaxQueue

FrameArrives(f, index) ==
  LET hit == {id \in DOMAIN sockets : OnInterface(sockets[id], index)} IN
  /\ \A id \in hit : HasRoom(sockets[id]) /\ Len(arrived[id]) < MaxArrivals
  /\ sockets' = [id \in DOMAIN sockets |->
                   IF id \in hit THEN Captured(sockets[id], f) ELSE sockets[id]]
  /\ arrived' = [id \in Ids |->
                   IF id \in hit /\ Due(sockets[id], f)
                     THEN Append(arrived[id], Content(Frames[f])) ELSE arrived[id]]
  /\ UNCHANGED <<registry, next_recv_index, call, links, moves, received, moved, half_left, leaked>>

(* An address moves to another interface.  No receive call reads links. *)
AddressMoves(a) ==
  /\ ~Busy
  /\ moves < MaxMoves
  /\ \E index \in Indexes \ {links[a]} : links' = [links EXCEPT ![a] = index]
  /\ moves' = moves + 1
  /\ moved' = moved \cup {id \in DOMAIN sockets : Configs[sockets[id].config].interface = a}
  /\ UNCHANGED <<registry, next_recv_index, call, sockets, arrived, received, half_left, leaked>>

-----------------------------------------------------------------------------
Receive == \/ TryRecvAny \/ SkipUnjoined \/ ReadDatagram \/ ReadBlock \/ SearchBlock
           \/ WouldBlock \/ ReceiveFails

Next ==
  \/ \E c \in DOMAIN Configs, early \in Early : AddSubscription(c, early)
  \/ \E i \in 1..Count : \/ RemoveSubscription(i)
                         \/ JoinSubscription(i)
                         \/ \E k \in 2..Len(Parts) : JoinFails(i, k)
                         \/ LeaveSubscription(i)
                         \/ TryRecv(i)
  \/ Receive
  \/ \E f \in DOMAIN Frames, index \in Indexes : FrameArrives(f, index)
  \/ \E a \in Interfaces : AddressMoves(a)

Spec == Init /\ [][Next]_vars

-----------------------------------------------------------------------------
SubscriptionType == [id: Ids, config: DOMAIN Configs, joined: BOOLEAN]
CallType == [kind: {"idle", "any", "one"}, tried: Nat, index: Nat,
             filtered: 0..(FilterBudget - 1), socket: {"primary", "udp"}]
QueueType == [primary: Seq(DOMAIN Frames), udp: Seq(DOMAIN Frames)]
SocketType(members) ==
  [config: DOMAIN Configs, bound: Indexes \cup {0}, filter: SUBSET DOMAIN Frames,
   members: {members}, queue: QueueType, block: Seq(DOMAIN Frames)]

(* Every variable has its type, and sockets are open for exactly the       *)
(* subscriptions of the context: add opens them, remove closes them.       *)
TypeOK ==
  /\ platform \in Platforms
  /\ subscriptions \in Seq(SubscriptionType)
  /\ next_subscription_id \in 1..(MaxId + 1)
  /\ next_recv_index \in Nat
  /\ call \in CallType
  /\ DOMAIN sockets = {subscriptions[i].id : i \in 1..Count}
  /\ \A id \in DOMAIN sockets :
       /\ sockets[id] \in SocketType(sockets[id].members)
       /\ DOMAIN sockets[id].members = Range(Parts)
       /\ id < next_subscription_id
  /\ links \in [Interfaces -> Indexes]
  /\ moved \cup half_left \cup leaked \subseteq DOMAIN sockets

(* The scan of try_recv_any always starts at a subscription, through every *)
(* swap_remove in between: next_recv_index indexes the vector (the panic   *)
(* of `self.subscriptions[index]`).                                        *)
ScanInRange ==
  /\ Count > 0 => next_recv_index < Count
  /\ Busy => call.index < Count /\ call.tried < Count

(* What config.validate lets in can be joined: it converts to a membership *)
(* of its own family (else the join fails with                             *)
(* InvalidSubscriptionAddressFamily after the sockets were opened).        *)
ValidatedConverts ==
  \A i \in 1..Count : MembershipOf(subscriptions[i]) # NoMembership

(* Every wanted datagram that reached the sockets of a subscription is     *)
(* handed out exactly once, without padding, in the order of arrival, or   *)
(* is still queued: no filter program loses one, the rest of a BPF block   *)
(* survives the call, and of the two copies Windows captures of a UDP      *)
(* datagram one is returned.  Windows keeps the order within UDP and       *)
(* within the rest.  What Linux queued before the capture was bound counts *)
(* as having reached it: a wanted datagram is handed out although it may   *)
(* be of another interface.                                                *)
Classes == IF platform = "windows" THEN {{UDP}, (0..255) \ {UDP}} ELSE {0..255}

Queued(socket, class) ==
  IF class = {UDP} THEN socket.queue.udp ELSE socket.block \o socket.queue.primary

(* Of frames, the content of those wanted of a class; of packets, those of *)
(* the class.                                                              *)
Owed(frames, c, class) ==
  LET contents == [k \in DOMAIN frames |-> Content(Frames[frames[k]])] IN
  Picked(contents, {k \in DOMAIN frames : WantedTable[c][frames[k]]
                                           /\ Frames[frames[k]].protocol \in class})
OfClass(packets, class) == Picked(packets, {k \in DOMAIN packets : packets[k].protocol \in class})

ReceivedExact ==
  \A id \in DOMAIN sockets, class \in Classes :
    OfClass(received[id], class) \o Owed(Queued(sockets[id], class), sockets[id].config, class)
      = OfClass(arrived[id], class)

(* A joined subscription is a member with each of its sockets unless a     *)
(* leave failed half way, and a bound one with none unless a roll-back     *)
(* failed: never is a subscription bound of which a leave failed.          *)
StateMatchesKernel ==
  \A i \in 1..Count :
    LET sub     == subscriptions[i]
        members == sockets[sub.id].members
    IN  /\ sub.joined /\ sub.id \notin half_left =>
             \A part \in DOMAIN members : Cardinality(members[part]) = 1
        /\ ~sub.joined /\ sub.id \notin leaked =>
             \A part \in DOMAIN members : members[part] = {}

(* The capture, bound when the subscription was added, and the membership, *)
(* resolved when it was joined, are on the same interface as long as the   *)
(* configured address has not moved; otherwise the subscription would be   *)
(* deaf (resolve_packet_interface_index, resolve_ipv6_interface).          *)
CaptureFollowsMembership ==
  \A i \in 1..Count :
    LET socket == sockets[subscriptions[i].id] IN
    subscriptions[i].id \notin moved =>
      \A m \in socket.members["membership"] : m.index = socket.bound

(* Every step of a receive call brings its end nearer, however many frames *)
(* arrive meanwhile: subscriptions left, sockets left, reads left, block.  *)
CallRank ==
  LET subs   == Count - call.tried
      reads  == FilterBudget - call.filtered
      blocks == IF Socket.block = <<>> THEN 1 ELSE 0
  IN  ((2 * subs + (IF call.socket = "primary" THEN 1 ELSE 0)) * (FilterBudget + 1) + reads) * 2 + blocks

(* A step of the call, as opposed to one of the kernel. *)
Stepped ==
  \/ call' # call
  \/ Socket'.block # Socket.block
  \/ \E part \in {"primary", "udp"} : Len(Socket'.queue[part]) < Len(Socket.queue[part])

ReceiveProgresses == [][Busy /\ Busy' /\ Stepped => CallRank' < CallRank]_vars
==============================================================================
