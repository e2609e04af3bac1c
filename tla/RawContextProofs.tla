-------------------------- MODULE RawContextProofs --------------------------
(***************************************************************************)
(* Proofs about RawContext: the scan, memberships against the lifecycle,   *)
(* captures against memberships, the end of receive calls and what they    *)
(* hand out, on the three platforms, for any configurations, frames and    *)
(* number of subscriptions.                                                *)
(***************************************************************************)
EXTENDS RawContext, SubsequenceProofs, FiniteSetTheorems, SequenceTheorems, WellFoundedInduction,
        TLAPS

(* A subscription's sockets are its own and were opened for it, and what   *)
(* opened them was valid and supported.                                    *)
Suits(config) == platform = "windows" => /\ IsIpv4(config.group)
                                         /\ config.interface # NoAddr
                                         /\ ~IsUnspecified(config.interface)
Stored ==
  /\ \A i, j \in 1..Count : subscriptions[i].id = subscriptions[j].id => i = j
  /\ \A i \in 1..Count :
       LET sub == subscriptions[i] IN
       /\ sockets[sub.id].config = sub.config
       /\ RawValidate(Configs[sub.config])
       /\ Suits(Configs[sub.config])
  /\ ~Busy => call = Idle
  /\ Count = 0 => next_recv_index = 0

(* StateMatchesKernel without counting, and what a failed leave and a      *)
(* failed roll-back leave behind: the one no membership to leave with, the *)
(* other one that refuses the next join.                                   *)
MembersOf(sub, members) ==
  /\ sub.joined /\ sub.id \notin half_left => \A part \in Range(Parts) : \E m : members[part] = {m}
  /\ ~sub.joined /\ sub.id \notin leaked => \A part \in Range(Parts) : members[part] = {}
  /\ sub.joined => sub.id \notin leaked
  /\ sub.id \in half_left => sub.joined /\ members["membership"] = {}
  /\ sub.id \in leaked =>
       platform = "windows" /\ \E part \in Range(Parts) : \E m \in members[part] : m.key = Key(sub)
Members == \A i \in 1..Count : MembersOf(subscriptions[i], sockets[subscriptions[i].id].members)

(* A capture is where a membership made now would be. *)
CapturedOn(sub, socket) ==
  sub.id \notin moved => /\ socket.bound = MembershipIndex(MembershipOf(sub))
                         /\ \A m \in socket.members["membership"] : m.index = socket.bound
Captures == \A i \in 1..Count : CapturedOn(subscriptions[i], sockets[subscriptions[i].id])

(* The inductive invariant. *)
RawInvariant == TypeOK /\ ScanInRange /\ Stored /\ Members /\ Captures

-----------------------------------------------------------------------------
(* Facts about the operators of the model. *)

(* The sockets that join. *)
LEMMA PartsFacts ==
  /\ "membership" \in Range(Parts)
  /\ platform # "windows" => Range(Parts) = {"membership"}
  /\ platform = "windows" => Range(Parts) = {"membership", "primary", "udp"}
  /\ Len(Parts) = IF platform = "windows" THEN 3 ELSE 1
  /\ \A k \in 1..Len(Parts) : Parts[k] \in Range(Parts)
BY DEF Parts, Range

(* The vector of subscriptions, field by field. *)
LEMMA SubsFacts ==
  ASSUME subscriptions \in Seq(SubscriptionType)
  PROVE  /\ Count \in Nat
         /\ \A i \in 1..Count : /\ subscriptions[i] \in SubscriptionType
                                /\ subscriptions[i].id \in Ids
                                /\ subscriptions[i].config \in DOMAIN Configs
                                /\ subscriptions[i].joined \in BOOLEAN
<1>1. Count \in Nat /\ \A i \in 1..Count : subscriptions[i] \in SubscriptionType
  BY DEF Count
<1>2. \A s \in SubscriptionType : s.id \in Ids /\ s.config \in DOMAIN Configs /\ s.joined \in BOOLEAN
  BY DEF SubscriptionType
<1>3. QED
  BY <1>1, <1>2

(* The sockets of a subscription, field by field. *)
LEMMA SocketFacts ==
  ASSUME NEW s, s \in SocketType(s.members)
  PROVE  /\ s.config \in DOMAIN Configs /\ s.bound \in Indexes \cup {0}
         /\ s.filter \in SUBSET DOMAIN Frames /\ s.queue \in QueueType
         /\ s.queue.primary \in Seq(DOMAIN Frames) /\ s.queue.udp \in Seq(DOMAIN Frames)
         /\ s.block \in Seq(DOMAIN Frames)
BY DEF SocketType, QueueType

(* A call, field by field. *)
LEMMA CallFields ==
  ASSUME NEW c \in CallType
  PROVE  /\ c.kind \in {"idle", "any", "one"} /\ c.tried \in Nat /\ c.index \in Nat
         /\ c.filtered \in Nat /\ c.filtered < FilterBudget /\ c.socket \in {"primary", "udp"}
<1>1. c.kind \in {"idle", "any", "one"} /\ c.tried \in Nat /\ c.index \in Nat
      /\ c.filtered \in 0..(FilterBudget - 1) /\ c.socket \in {"primary", "udp"}
  BY DEF CallType
<1>2. QED
  BY <1>1, RawAssumptions

(* No call in progress. *)
LEMMA IdleFacts ==
  Idle \in CallType /\ Idle.kind = "idle" /\ Idle.tried = 0 /\ Idle.index = 0
  /\ Idle.filtered = 0 /\ Idle.socket = "primary"
<1>1. 0 \in 0..(FilterBudget - 1)
  BY RawAssumptions
<1>2. QED
  BY <1>1 DEF Idle, CallType

(* A remainder is smaller than its divisor. *)
LEMMA ModFacts ==
  ASSUME NEW a \in Nat, NEW n \in Nat, n > 0
  PROVE  a % n \in Nat /\ a % n < n
OBVIOUS

(* What validate lets in converts to a membership of its own family. *)
LEMMA Converts ==
  ASSUME NEW c \in DOMAIN Configs, RawValidate(Configs[c])
  PROVE  LET config == Configs[c]
             m      == Membership(MembershipCompatConfig(config))
         IN  /\ m # NoMembership
             /\ m.interface = config.interface
             /\ IsIpv4(config.group) => m.family = 4 /\ config.interface_index = NoIndex
             /\ ~IsIpv4(config.group) => m.family = 16 /\ m.interface_index = config.interface_index
<1> DEFINE config == Configs[c]
           m == Membership(MembershipCompatConfig(config))
<1>1. /\ Family(config.group) \in {4, 16}
      /\ OfFamily(config.source, Family(config.group))
      /\ OfFamily(config.interface, Family(config.group))
      /\ config.interface_index # NoIndex => ~IsIpv4(config.group)
  BY ConfigAssumptions DEF RawValidate, ValidSelection, OfFamily, SameFamily
<1> DEFINE compat == MembershipCompatConfig(config)
<1>2. /\ compat.group = config.group /\ compat.source = config.source
      /\ compat.interface = config.interface /\ compat.interface_index = config.interface_index
  BY DEF MembershipCompatConfig
<1> HIDE DEF config, compat
<1>3. CASE IsIpv4(config.group)
  <2>1. Membership(compat) = [family |-> 4, group |-> config.group, source |-> config.source,
                              interface |-> config.interface]
    BY <1>1, <1>2, <1>3 DEF Membership, Ipv4Membership, IsIpv4
  <2>2. QED
    BY <1>1, <1>3, <2>1 DEF NoMembership, config, compat
<1>4. CASE ~IsIpv4(config.group)
  <2>1. Family(config.group) = 16
    BY <1>1, <1>4 DEF IsIpv4
  <2>2. Membership(compat) = [family |-> 16, group |-> config.group, source |-> config.source,
                              interface |-> config.interface,
                              interface_index |-> config.interface_index]
    BY <1>1, <1>2, <1>4, <2>1 DEF Membership, Ipv6Membership
  <2>3. QED
    BY <1>4, <2>2 DEF NoMembership, config, compat
<1>5. QED
  BY <1>3, <1>4

(* The interface a membership of a valid configuration is on. *)
LEMMA IndexOf ==
  ASSUME NEW c \in DOMAIN Configs, RawValidate(Configs[c])
  PROVE  MembershipIndex(Membership(MembershipCompatConfig(Configs[c]))) = PacketInterfaceIndex(Configs[c])
<1> DEFINE config == Configs[c]
           m == Membership(MembershipCompatConfig(config))
<1>1. /\ m.interface = config.interface
      /\ IsIpv4(config.group) => m.family = 4 /\ config.interface_index = NoIndex
      /\ ~IsIpv4(config.group) => m.family = 16 /\ m.interface_index = config.interface_index
  BY Converts
<1>2. IsUnspecified(NoAddr)
  BY DEF IsUnspecified, NoAddr
<1> HIDE DEF config, m
<1>3. MembershipIndex(m) = PacketInterfaceIndex(config)
  <2>1. CASE IsIpv4(config.group)
    BY <1>1, <1>2, <2>1 DEF MembershipIndex, PacketInterfaceIndex
  <2>2. CASE ~IsIpv4(config.group)
    BY <1>1, <1>2, <2>2 DEF MembershipIndex, MembershipKey, PacketInterfaceIndex
  <2>3. QED
    BY <2>1, <2>2
<1>4. QED
  BY <1>3 DEF config, m

(* The index a capture is bound to, and its type. *)
LEMMA PacketIndexType ==
  ASSUME NEW c \in DOMAIN Configs, RawValidate(Configs[c]), links \in [Interfaces -> Indexes]
  PROVE  PacketInterfaceIndex(Configs[c]) \in Indexes \cup {0}
BY ConfigAssumptions DEF PacketInterfaceIndex

(* The frames a Linux socket holds before it is bound. *)
LEMMA EarlyFacts ==
  ASSUME NEW early \in Early
  PROVE  /\ early \in Seq(DOMAIN Frames)
         /\ early = <<>> \/ (platform = "linux" /\ \E f \in DOMAIN Frames : early = <<f>>)
<1>1. ASSUME NEW f \in DOMAIN Frames PROVE <<f>> \in Seq(DOMAIN Frames)
  OBVIOUS
<1>2. CASE early = <<>>
  BY <1>2
<1>3. CASE platform = "linux" /\ early \in {<<f>> : f \in EarlyFrames}
  <2>1. PICK f \in EarlyFrames : early = <<f>>
    BY <1>3
  <2>2. f \in DOMAIN Frames
    BY <2>1, RawAssumptions
  <2>3. QED
    BY <1>1, <1>3, <2>1, <2>2
<1>4. early \in {<<>>} \/ early \in (IF platform = "linux" THEN {<<f>> : f \in EarlyFrames} ELSE {})
  BY DEF Early
<1>5. QED
  BY <1>2, <1>3, <1>4

(* open_raw_socket binds the capture where the membership will be. *)
LEMMA OpenFacts ==
  ASSUME NEW c \in DOMAIN Configs, RawValidate(Configs[c]), Supported(Configs[c]),
         links \in [Interfaces -> Indexes], platform \in Platforms, NEW early \in Early
  PROVE  LET s == OpenRawSocket(c, early) IN
         /\ s \in SocketType(s.members) /\ s.config = c
         /\ s.members = [part \in Range(Parts) |-> {}]
         /\ s.bound = PacketInterfaceIndex(Configs[c])
         /\ Suits(Configs[c])
<1> DEFINE config == Configs[c]
           index == PacketInterfaceIndex(config)
           capture == CASE platform = "linux"   -> LinuxCapture(c)
                        [] platform = "macos"   -> AppleCapture(c)
                        [] platform = "windows" -> WindowsCapture(c)
           s == OpenRawSocket(c, early)
<1>1. platform \in {"linux", "macos", "windows"}
  BY RawAssumptions
<1>2. index \in Indexes \cup {0}
  BY PacketIndexType
<1>3. \A link \in Links : Attached[c][link] \in SUBSET DOMAIN Frames
  BY DEF Attached
<1>4. Suits(config)
  BY <1>1 DEF Suits, Supported
<1>5. capture.bound = index /\ capture.filter \in SUBSET DOMAIN Frames
  <2>1. CASE platform = "linux"
    BY <1>3, <2>1 DEF LinuxCapture, Links
  <2>2. CASE platform = "macos"
    <3>1. index # 0 /\ index \in Indexes
      BY <1>2, <2>2 DEF Supported
    <3>2. Datalink[index] \in Links
      BY <3>1 DEF Links, Indexes, Range
    <3>3. QED
      BY <1>3, <2>2, <3>2 DEF AppleCapture
  <2>3. CASE platform = "windows"
    <3>1. config.interface_index = NoIndex
      BY <1>4, <2>3, Converts DEF Suits
    <3>2. index = links[config.interface]
      BY <1>4, <2>3, <3>1 DEF PacketInterfaceIndex, Suits
    <3>3. QED
      BY <2>3, <3>2 DEF WindowsCapture
  <2>4. QED
    BY <1>1, <2>1, <2>2, <2>3
<1>6. s = [config |-> c, bound |-> capture.bound, filter |-> capture.filter,
           members |-> [part \in Range(Parts) |-> {}],
           queue |-> [primary |-> early, udp |-> <<>>], block |-> <<>>]
  BY DEF OpenRawSocket
<1> HIDE DEF s, index, capture
<1>7. [primary |-> early, udp |-> <<>>] \in QueueType /\ <<>> \in Seq(DOMAIN Frames)
  BY EarlyFacts DEF QueueType
<1>8. s \in SocketType(s.members)
  BY <1>2, <1>5, <1>6, <1>7 DEF SocketType
<1>9. QED
  BY <1>4, <1>5, <1>6, <1>8 DEF s, index

(* The call in progress is within the vector. *)
CallFits ==
  /\ call \in CallType /\ next_recv_index \in Nat
  /\ ScanInRange /\ (~Busy => call = Idle) /\ (Count = 0 => next_recv_index = 0)

(* Where memberships are is decided by the links alone. *)
LEMMA LinksKept ==
  ASSUME links' = links, NEW sub
  PROVE  /\ Key(sub)' = Key(sub)
         /\ MembershipIndex(MembershipOf(sub))' = MembershipIndex(MembershipOf(sub))
         /\ Entry(sub)' = Entry(sub)
BY DEF Key, Entry, MembershipKey, MembershipIndex, MembershipOf

(* The parts of the invariant that are used most. *)
LEMMA InvariantParts ==
  ASSUME RawInvariant
  PROVE  /\ TypeOK /\ ScanInRange /\ Stored /\ Members /\ Captures /\ CallFits
         /\ subscriptions \in Seq(SubscriptionType) /\ Count \in Nat
         /\ \A i \in 1..Count : /\ subscriptions[i].id \in DOMAIN sockets
                                /\ subscriptions[i].id \in Ids
                                /\ subscriptions[i].config \in DOMAIN Configs
                                /\ subscriptions[i].joined \in BOOLEAN
         /\ \A id \in DOMAIN sockets : \E i \in 1..Count : subscriptions[i].id = id
<1>1. TypeOK /\ ScanInRange /\ Stored /\ Members /\ Captures /\ CallFits
  BY DEF RawInvariant, TypeOK, Stored, CallFits
<1>2. subscriptions \in Seq(SubscriptionType)
  BY <1>1 DEF TypeOK
<1>3. DOMAIN sockets = {subscriptions[i].id : i \in 1..Count}
  BY <1>1 DEF TypeOK
<1>4. QED
  BY <1>1, <1>2, <1>3, SubsFacts

(* Steps that change no subscription, membership or interface. *)
Unmoved == UNCHANGED <<platform, subscriptions, next_subscription_id, links, moved, half_left, leaked>>
SocketsKept ==
  /\ DOMAIN sockets' = DOMAIN sockets
  /\ \A id \in DOMAIN sockets :
       /\ sockets'[id].members = sockets[id].members
       /\ sockets'[id].config = sockets[id].config
       /\ sockets'[id].bound = sockets[id].bound
       /\ sockets'[id] \in SocketType(sockets'[id].members)

(* Such a step keeps the invariant if the call still fits the vector. *)
LEMMA QuietKeeps ==
  ASSUME RawInvariant, Unmoved, SocketsKept, CallFits'
  PROVE  RawInvariant'
<1>1. /\ UNCHANGED <<platform, subscriptions, next_subscription_id, links, moved, half_left, leaked>>
      /\ Parts' = Parts /\ Count' = Count
  BY DEF Unmoved, Parts, Count
<1>2. \A i \in 1..Count : subscriptions[i].id \in DOMAIN sockets
  BY InvariantParts
<1>3. TypeOK'
  <2>1. DOMAIN sockets' = {subscriptions'[i].id : i \in 1..Count'}
    BY <1>1, InvariantParts DEF TypeOK, SocketsKept
  <2>2. ASSUME NEW id \in DOMAIN sockets'
        PROVE  /\ sockets'[id] \in SocketType(sockets'[id].members)
               /\ DOMAIN sockets'[id].members = Range(Parts')
               /\ id < next_subscription_id'
    BY <1>1, InvariantParts DEF TypeOK, SocketsKept
  <2>3. moved' \cup half_left' \cup leaked' \subseteq DOMAIN sockets'
    BY <1>1, InvariantParts DEF TypeOK, SocketsKept
  <2>4. QED
    BY <1>1, <2>1, <2>2, <2>3, InvariantParts DEF TypeOK, CallFits
<1>4. Stored'
  <2>1. \A i \in 1..Count : sockets'[subscriptions[i].id].config = sockets[subscriptions[i].id].config
    BY <1>2 DEF SocketsKept
  <2>2. \A config : Suits(config)' <=> Suits(config)
    BY <1>1 DEF Suits
  <2>3. QED
    BY <1>1, <2>1, <2>2, InvariantParts DEF Stored, CallFits
<1>5. Members'
  <2>1. ASSUME NEW i \in 1..Count
        PROVE  MembersOf(subscriptions[i], sockets[subscriptions[i].id].members)'
    <3>1. sockets'[subscriptions[i].id].members = sockets[subscriptions[i].id].members
      BY <1>2 DEF SocketsKept
    <3>2. MembersOf(subscriptions[i], sockets[subscriptions[i].id].members)
      BY InvariantParts DEF Members
    <3>3. Key(subscriptions[i])' = Key(subscriptions[i])
      BY <1>1, LinksKept
    <3>4. QED
      BY <1>1, <3>1, <3>2, <3>3 DEF MembersOf
  <2>2. QED
    BY <1>1, <2>1 DEF Members
<1>6. Captures'
  <2>1. ASSUME NEW i \in 1..Count
        PROVE  CapturedOn(subscriptions[i], sockets[subscriptions[i].id])'
    <3>1. /\ sockets'[subscriptions[i].id].members = sockets[subscriptions[i].id].members
          /\ sockets'[subscriptions[i].id].bound = sockets[subscriptions[i].id].bound
      BY <1>2 DEF SocketsKept
    <3>2. CapturedOn(subscriptions[i], sockets[subscriptions[i].id])
      BY InvariantParts DEF Captures
    <3>3. MembershipIndex(MembershipOf(subscriptions[i]))' = MembershipIndex(MembershipOf(subscriptions[i]))
      BY <1>1, LinksKept
    <3>4. QED
      BY <1>1, <3>1, <3>2, <3>3 DEF CapturedOn
  <2>2. QED
    BY <1>1, <2>1 DEF Captures
<1>7. QED
  BY <1>3, <1>4, <1>5, <1>6 DEF RawInvariant, CallFits

-----------------------------------------------------------------------------
(* Receiving. *)

(* The subscription the scan is at, and its sockets. *)
LEMMA CurrentFacts ==
  ASSUME RawInvariant, Busy
  PROVE  /\ Count > 0 /\ call.index + 1 \in 1..Count /\ Current = subscriptions[call.index + 1]
         /\ Current.id \in DOMAIN sockets /\ Socket = sockets[Current.id]
         /\ Socket \in SocketType(Socket.members)
<1>1. Count \in Nat /\ call.index \in Nat /\ call.index < Count
  BY InvariantParts, CallFields DEF CallFits, ScanInRange
<1>2. call.index + 1 \in 1..Count /\ Current = subscriptions[call.index + 1]
  BY <1>1 DEF Current, At
<1>3. QED
  BY SMTT(20), <1>1, <1>2, InvariantParts DEF Socket, TypeOK

(* How a call goes on: with the next subscription, the other socket, one   *)
(* more read, or not at all.                                               *)
Onward(next) ==
  \/ next = Idle
  \/ /\ call.kind = "any" /\ call.tried + 1 < Count
     /\ next = [kind |-> call.kind, tried |-> call.tried + 1, index |-> (call.index + 1) % Count,
                filtered |-> 0, socket |-> "primary"]
  \/ /\ call.socket = "primary"
     /\ next = [kind |-> call.kind, tried |-> call.tried, index |-> call.index,
                filtered |-> 0, socket |-> "udp"]
  \/ /\ call.filtered + 1 < FilterBudget
     /\ next = [kind |-> call.kind, tried |-> call.tried, index |-> call.index,
                filtered |-> call.filtered + 1, socket |-> call.socket]

(* GiveUp, and with it NoPacket and Filter, are steps onward. *)
LEMMA OnwardFacts ==
  ASSUME RawInvariant, Busy, Filter \/ NoPacket \/ GiveUp
  PROVE  Onward(call')
<1>1. /\ call \in CallType /\ call.kind \in {"any", "one"} /\ call.tried \in Nat
      /\ call.index \in Nat /\ call.filtered \in Nat /\ call.tried < Count /\ Count \in Nat
  BY InvariantParts, CallFields DEF CallFits, ScanInRange, Busy
<1>2. call = [kind |-> call.kind, tried |-> call.tried, index |-> call.index,
              filtered |-> call.filtered, socket |-> call.socket]
  BY <1>1 DEF CallType
<1>3. CASE GiveUp
  <2>1. CASE call.kind = "one" \/ call.tried + 1 = Count
    BY <1>3, <2>1 DEF GiveUp, Onward
  <2>2. CASE call.kind # "one" /\ call.tried + 1 # Count
    <3>1. call' = [kind |-> call.kind, tried |-> call.tried + 1, index |-> (call.index + 1) % Count,
                   filtered |-> 0, socket |-> "primary"]
      BY <1>2, <1>3, <2>2 DEF GiveUp
    <3>2. call.kind = "any" /\ call.tried + 1 < Count
      BY <1>1, <2>2
    <3>3. QED
      BY <3>1, <3>2 DEF Onward
  <2>3. QED
    BY <2>1, <2>2
<1>4. CASE NoPacket
  <2>1. CASE platform = "windows" /\ call.socket = "primary"
    <3>1. call' = [kind |-> call.kind, tried |-> call.tried, index |-> call.index,
                   filtered |-> 0, socket |-> "udp"]
      BY <1>2, <1>4, <2>1 DEF NoPacket
    <3>2. QED
      BY <2>1, <3>1 DEF Onward
  <2>2. CASE ~(platform = "windows" /\ call.socket = "primary")
    BY <1>3, <1>4, <2>2 DEF NoPacket
  <2>3. QED
    BY <2>1, <2>2
<1>5. CASE Filter
  <2>1. CASE call.filtered + 1 >= FilterBudget
    BY <1>4, <1>5, <2>1 DEF Filter
  <2>2. CASE ~(call.filtered + 1 >= FilterBudget)
    <3>1. call' = [kind |-> call.kind, tried |-> call.tried, index |-> call.index,
                   filtered |-> call.filtered + 1, socket |-> call.socket]
      BY <1>2, <1>5, <2>2 DEF Filter
    <3>2. call.filtered + 1 < FilterBudget
      BY <1>1, <2>2, RawAssumptions
    <3>3. QED
      BY <3>1, <3>2 DEF Onward
  <2>3. QED
    BY <2>1, <2>2
<1>6. QED
  BY <1>3, <1>4, <1>5

(* The scan stays within the vector when the call goes on. *)
LEMMA OnwardFits ==
  ASSUME RawInvariant, Busy, Onward(call'), subscriptions' = subscriptions,
         next_recv_index' \in Nat, next_recv_index' < Count
  PROVE  CallFits'
<1>1. /\ call \in CallType /\ call.kind \in {"any", "one"} /\ call.tried \in Nat
      /\ call.index \in Nat /\ call.filtered \in Nat /\ call.tried < Count /\ Count \in Nat
      /\ call.index < Count /\ call.socket \in {"primary", "udp"} /\ Count' = Count /\ Count > 0
  BY InvariantParts, CallFields, CurrentFacts DEF CallFits, ScanInRange, Busy, Count
<1>2. FilterBudget \in Nat \ {0}
  BY RawAssumptions
<1>3. (call.index + 1) % Count \in Nat /\ (call.index + 1) % Count < Count
  BY <1>1, ModFacts
<1>4. CASE call' = Idle
  BY <1>1, <1>4, IdleFacts DEF CallFits, ScanInRange, Busy
<1>5. ASSUME call' # Idle
      PROVE  /\ call' \in CallType /\ call'.kind # "idle" /\ call'.index < Count /\ call'.tried < Count
  <2>1. CASE /\ call.tried + 1 < Count
             /\ call' = [kind |-> call.kind, tried |-> call.tried + 1,
                         index |-> (call.index + 1) % Count, filtered |-> 0, socket |-> "primary"]
    BY <1>1, <1>2, <1>3, <2>1 DEF CallType
  <2>2. CASE call' = [kind |-> call.kind, tried |-> call.tried, index |-> call.index,
                      filtered |-> 0, socket |-> "udp"]
    BY <1>1, <1>2, <2>2 DEF CallType
  <2>3. CASE /\ call.filtered + 1 < FilterBudget
             /\ call' = [kind |-> call.kind, tried |-> call.tried, index |-> call.index,
                         filtered |-> call.filtered + 1, socket |-> call.socket]
    BY <1>1, <1>2, <2>3 DEF CallType
  <2>4. QED
    BY <1>5, <2>1, <2>2, <2>3 DEF Onward
<1>6. CASE call' # Idle
  BY <1>1, <1>5, <1>6 DEF CallFits, ScanInRange, Busy
<1>7. QED
  BY <1>4, <1>6

(* Sockets with another queue and another block. *)
Refilled(s, queue, block) ==
  [config |-> s.config, bound |-> s.bound, filter |-> s.filter, members |-> s.members,
   queue |-> queue, block |-> block]

(* They are sockets again, and only the frames differ. *)
LEMMA RefilledType ==
  ASSUME NEW s, s \in SocketType(s.members), NEW queue \in QueueType, NEW block \in Seq(DOMAIN Frames)
  PROVE  LET r == Refilled(s, queue, block) IN
         /\ r \in SocketType(r.members)
         /\ r.members = s.members /\ r.config = s.config /\ r.bound = s.bound
         /\ r.queue = queue /\ r.block = block
BY DEF Refilled, SocketType

(* The updates the receive steps make are of that form. *)
LEMMA RefilledExcept ==
  ASSUME NEW s, s \in SocketType(s.members), NEW queue, NEW block
  PROVE  /\ [s EXCEPT !.queue = queue] = Refilled(s, queue, s.block)
         /\ [s EXCEPT !.block = block] = Refilled(s, s.queue, block)
BY DEF Refilled, SocketType

(* One read takes one frame. *)
LEMMA TailType ==
  ASSUME NEW S, NEW q \in Seq(S), q # <<>>
  PROVE  Tail(q) \in Seq(S) /\ Len(Tail(q)) < Len(q)
OBVIOUS

(* Frames come and go, the rest of the sockets stays. *)
LEMMA RefillKeeps ==
  ASSUME RawInvariant, NEW id \in DOMAIN sockets, NEW queue \in QueueType,
         NEW block \in Seq(DOMAIN Frames),
         sockets' = [sockets EXCEPT ![id] = Refilled(sockets[id], queue, block)]
  PROVE  SocketsKept /\ sockets'[id] = Refilled(sockets[id], queue, block)
<1>1. \A x \in DOMAIN sockets : sockets[x] \in SocketType(sockets[x].members)
  BY InvariantParts DEF TypeOK
<1>2. DOMAIN sockets' = DOMAIN sockets /\ sockets'[id] = Refilled(sockets[id], queue, block)
  OBVIOUS
<1>3. ASSUME NEW x \in DOMAIN sockets
      PROVE  /\ sockets'[x].members = sockets[x].members
             /\ sockets'[x].config = sockets[x].config
             /\ sockets'[x].bound = sockets[x].bound
             /\ sockets'[x] \in SocketType(sockets'[x].members)
  <2>1. CASE x = id
    BY <1>1, <1>2, <2>1, RefilledType
  <2>2. CASE x # id
    BY <1>1, <2>2
  <2>3. QED
    BY <2>1, <2>2
<1>4. QED
  BY <1>2, <1>3 DEF SocketsKept

(* Nothing happens to the sockets. *)
LEMMA SameSockets ==
  ASSUME RawInvariant, sockets' = sockets
  PROVE  SocketsKept
BY InvariantParts DEF SocketsKept, TypeOK

(* A read from one of the queues. *)
LEMMA PopQueue ==
  ASSUME RawInvariant, NEW id \in DOMAIN sockets, NEW part \in {"primary", "udp"},
         sockets[id].queue[part] # <<>>,
         sockets' = [sockets EXCEPT ![id].queue[part] = Tail(@)]
  PROVE  SocketsKept /\ sockets'[id].block = sockets[id].block
<1> DEFINE s == sockets[id]
           q == [s.queue EXCEPT ![part] = Tail(@)]
<1>1. s \in SocketType(s.members)
  BY InvariantParts DEF TypeOK
<1>2. /\ s.queue \in QueueType /\ s.queue.primary \in Seq(DOMAIN Frames)
      /\ s.queue.udp \in Seq(DOMAIN Frames) /\ s.block \in Seq(DOMAIN Frames)
  BY <1>1, SocketFacts
<1>3. q \in QueueType
  <2>1. CASE part = "primary"
    <3>1. s.queue["primary"] \in Seq(DOMAIN Frames) /\ s.queue["primary"] # <<>>
      BY <1>2, <2>1
    <3>2. Tail(s.queue["primary"]) \in Seq(DOMAIN Frames)
      BY <3>1, TailType
    <3>3. QED
      BY <1>2, <2>1, <3>2 DEF QueueType
  <2>2. CASE part = "udp"
    <3>1. s.queue["udp"] \in Seq(DOMAIN Frames) /\ s.queue["udp"] # <<>>
      BY <1>2, <2>2
    <3>2. Tail(s.queue["udp"]) \in Seq(DOMAIN Frames)
      BY <3>1, TailType
    <3>3. QED
      BY <1>2, <2>2, <3>2 DEF QueueType
  <2>3. QED
    BY <2>1, <2>2
<1>4. [s EXCEPT !.queue = q] = Refilled(s, q, s.block)
  BY <1>1, RefilledExcept
<1>5. sockets' = [sockets EXCEPT ![id] = [s EXCEPT !.queue = q]]
  OBVIOUS
<1> HIDE DEF q
<1>6. sockets' = [sockets EXCEPT ![id] = Refilled(s, q, s.block)]
  BY <1>4, <1>5
<1>7. SocketsKept /\ sockets'[id] = Refilled(s, q, s.block)
  BY <1>2, <1>3, <1>6, RefillKeeps
<1>8. QED
  BY <1>1, <1>2, <1>3, <1>7, RefilledType

(* Another block, same queues. *)
LEMMA SetBlock ==
  ASSUME RawInvariant, NEW id \in DOMAIN sockets, NEW block \in Seq(DOMAIN Frames),
         sockets' = [sockets EXCEPT ![id].block = block]
  PROVE  SocketsKept /\ sockets'[id].block = block
<1> DEFINE s == sockets[id]
<1>1. s \in SocketType(s.members)
  BY InvariantParts DEF TypeOK
<1>2. s.queue \in QueueType
  BY <1>1, SocketFacts
<1>3. [s EXCEPT !.block = block] = Refilled(s, s.queue, block)
  BY <1>1, RefilledExcept
<1>4. sockets' = [sockets EXCEPT ![id] = Refilled(s, s.queue, block)]
  BY <1>3
<1>5. SocketsKept /\ sockets'[id] = Refilled(s, s.queue, block)
  BY <1>2, <1>4, RefillKeeps
<1>6. QED
  BY <1>1, <1>2, <1>5, RefilledType

(* A packet ends the call: the scan goes on behind its subscription. *)
LEMMA DeliverFits ==
  ASSUME RawInvariant, Busy, NEW parsed, Deliver(parsed), subscriptions' = subscriptions
  PROVE  CallFits' /\ Onward(call')
<1>1. call.index \in Nat /\ Count \in Nat /\ Count > 0 /\ next_recv_index \in Nat
      /\ next_recv_index < Count
  BY InvariantParts, CallFields, CurrentFacts DEF CallFits, ScanInRange
<1>2. (call.index + 1) % Count \in Nat /\ (call.index + 1) % Count < Count
  BY <1>1, ModFacts
<1>3. call' = Idle /\ next_recv_index' \in Nat /\ next_recv_index' < Count
  BY <1>1, <1>2 DEF Deliver
<1>4. Onward(call')
  BY <1>3 DEF Onward
<1>5. QED
  BY <1>3, <1>4, OnwardFits

(* Nothing handed out: the scan starts at the same place next time. *)
LEMMA OnwardSame ==
  ASSUME RawInvariant, Busy, Onward(call'), subscriptions' = subscriptions,
         next_recv_index' = next_recv_index
  PROVE  CallFits'
<1>1. next_recv_index \in Nat /\ next_recv_index < Count
  BY InvariantParts, CurrentFacts DEF CallFits, ScanInRange
<1>2. QED
  BY <1>1, OnwardFits

(* How far into a block SearchBlock gets. *)
LEMMA RestType ==
  ASSUME NEW S, NEW block \in Seq(S), NEW k \in Nat
  PROVE  SubSeq(block, k + 1, Len(block)) \in Seq(S)
<1>1. \A j \in (k + 1)..Len(block) : block[j] \in S
  OBVIOUS
<1>2. QED
  BY <1>1

(* A call starts. *)
LEMMA StartFits ==
  ASSUME RawInvariant, NEW kind \in {"any", "one"}, NEW index \in Nat, index < Count,
         call' = [kind |-> kind, tried |-> 0, index |-> index, filtered |-> 0, socket |-> "primary"],
         UNCHANGED <<subscriptions, next_recv_index>>
  PROVE  CallFits'
<1>1. call' = [kind |-> kind, tried |-> 0, index |-> index, filtered |-> 0, socket |-> "primary"]
  OBVIOUS
<1>2. Count \in Nat /\ Count' = Count /\ FilterBudget \in Nat \ {0}
  BY RawAssumptions, InvariantParts DEF Count
<1>3. call' \in CallType
  BY <1>1, <1>2 DEF CallType
<1>4. Busy' /\ call'.index < Count /\ call'.tried < Count
  <2>1. call'.kind = kind /\ call'.index = index /\ call'.tried = 0
    BY <1>1
  <2>2. QED
    BY <1>2, <2>1 DEF Busy
<1>5. QED
  BY <1>2, <1>3, <1>4, InvariantParts DEF CallFits, ScanInRange

(* What a receive step does to the call: it goes on, or it stays and a     *)
(* block is read.                                                          *)
LEMMA ReadDatagramFacts ==
  ASSUME RawInvariant, ReadDatagram
  PROVE  Unmoved /\ SocketsKept /\ CallFits' /\ Onward(call') /\ Socket.block = sockets'[Current.id].block
<1>1. /\ Busy /\ subscriptions' = subscriptions
      /\ sockets' = [sockets EXCEPT ![Current.id].queue[call.socket] = Tail(@)]
      /\ Socket.queue[call.socket] # <<>>
  BY DEF ReadDatagram, Reading, registry
<1>2. Current.id \in DOMAIN sockets /\ Socket = sockets[Current.id] /\ call.socket \in {"primary", "udp"}
  BY <1>1, CurrentFacts, InvariantParts, CallFields DEF CallFits
<1>3. SocketsKept /\ sockets'[Current.id].block = Socket.block
  BY <1>1, <1>2, PopQueue
<1>4. Unmoved
  BY DEF ReadDatagram, Unmoved, registry
<1>5. \/ Deliver(Parsed(Head(Socket.queue[call.socket])))
      \/ Filter /\ UNCHANGED <<received, next_recv_index>>
  BY DEF ReadDatagram
<1>6. CASE Deliver(Parsed(Head(Socket.queue[call.socket])))
  <2>1. CallFits' /\ Onward(call')
    BY <1>1, <1>6, DeliverFits
  <2>2. QED
    BY <1>3, <1>4, <2>1
<1>7. CASE Filter /\ UNCHANGED <<received, next_recv_index>>
  <2>1. Onward(call')
    BY <1>1, <1>7, OnwardFacts
  <2>2. CallFits'
    BY <1>1, <1>7, <2>1, OnwardSame
  <2>3. QED
    BY <1>3, <1>4, <2>1, <2>2
<1>8. QED
  BY <1>5, <1>6, <1>7

(* ReadBlock: the call stays where it is, with a block to search. *)
LEMMA ReadBlockFacts ==
  ASSUME RawInvariant, ReadBlock
  PROVE  /\ Unmoved /\ SocketsKept /\ CallFits' /\ call' = call
         /\ Socket.block = <<>> /\ sockets'[Current.id].block # <<>>
<1>1. /\ Busy /\ UNCHANGED <<subscriptions, call, next_recv_index>> /\ Socket.block = <<>>
  BY DEF ReadBlock, Reading, registry
<1>2. /\ Current.id \in DOMAIN sockets /\ Socket = sockets[Current.id]
      /\ Socket \in SocketType(Socket.members)
  BY <1>1, CurrentFacts
<1> DEFINE q == Socket.queue.primary
<1>3. PICK n \in 1..Len(Socket.queue.primary) :
        sockets' = [sockets EXCEPT ![Current.id].block = SubSeq(Socket.queue.primary, 1, n),
                                   ![Current.id].queue.primary = SubSeq(@, n + 1, Len(@))]
  BY DEF ReadBlock
<1> DEFINE b == SubSeq(q, 1, n)
           r == SubSeq(q, n + 1, Len(q))
           z == [primary |-> r, udp |-> Socket.queue.udp]
<1>4. q \in Seq(DOMAIN Frames) /\ Socket.queue.udp \in Seq(DOMAIN Frames) /\ Socket.queue \in QueueType
  BY <1>2, SocketFacts
<1>5. b \in Seq(DOMAIN Frames) /\ r \in Seq(DOMAIN Frames) /\ b # <<>>
  <2>1. n \in Nat /\ n > 0 /\ n <= Len(q)
    BY <1>4
  <2>2. b \in Seq(DOMAIN Frames) /\ Len(b) = n
    BY <1>4, <2>1
  <2>3. r \in Seq(DOMAIN Frames)
    BY <1>4, <2>1, RestType
  <2>4. QED
    BY <2>1, <2>2, <2>3
<1>6. z \in QueueType
  BY <1>4, <1>5 DEF QueueType
<1>7. sockets' = [sockets EXCEPT ![Current.id] = Refilled(Socket, z, b)]
  <2>1. sockets' = [sockets EXCEPT ![Current.id] =
                      [[Socket EXCEPT !.block = b] EXCEPT !.queue.primary = r]]
    BY <1>2, <1>3 DEF SocketType
  <2> HIDE DEF b, r
  <2>2. [Socket.queue EXCEPT !.primary = r] = z
    BY <1>4 DEF QueueType
  <2>3. [[Socket EXCEPT !.block = b] EXCEPT !.queue.primary = r] =
        [[Socket EXCEPT !.block = b] EXCEPT !.queue = [Socket.queue EXCEPT !.primary = r]]
    BY <1>2 DEF SocketType
  <2> HIDE DEF z
  <2>4. [[Socket EXCEPT !.block = b] EXCEPT !.queue = z] = Refilled(Socket, z, b)
    <3>1. [Socket EXCEPT !.block = b] = Refilled(Socket, Socket.queue, b)
      BY <1>2, RefilledExcept
    <3>2. [Refilled(Socket, Socket.queue, b) EXCEPT !.queue = z] = Refilled(Socket, z, b)
      BY DEF Refilled
    <3>3. QED
      BY <3>1, <3>2
  <2>5. QED
    BY <2>1, <2>2, <2>3, <2>4
<1> HIDE DEF b, r, z
<1>8. SocketsKept /\ sockets'[Current.id] = Refilled(Socket, z, b)
  BY <1>2, <1>5, <1>6, <1>7, RefillKeeps
<1>9. sockets'[Current.id].block = b
  BY <1>2, <1>5, <1>6, <1>8, RefilledType
<1>10. Unmoved
  BY DEF ReadBlock, Unmoved, registry, history
<1>11. CallFits'
  BY <1>1, InvariantParts DEF CallFits, ScanInRange, Busy, Count
<1>12. QED
  BY <1>1, <1>5, <1>8, <1>9, <1>10, <1>11

(* A set of natural numbers that is not empty has a least element. *)
LEMMA MinOf ==
  ASSUME NEW T \in SUBSET Nat, T # {}
  PROVE  Min(T) \in T /\ \A y \in T : Min(T) <= y
<1> DEFINE R == {ss \in Nat \X Nat : ss[1] < ss[2]}
<1>1. IsWellFoundedOn(R, Nat)
  BY NatLessThanWellFounded, Zenon DEF OpToRel
<1>2. PICK x \in T : \A y \in T : ~ (<<y, x>> \in R)
  BY <1>1, WFMin
<1>3. ASSUME NEW y \in T PROVE x =< y
  <2>1. <<y, x>> \in Nat \X Nat /\ <<y, x>>[1] = y /\ <<y, x>>[2] = x
    OBVIOUS
  <2>2. ~(y < x)
    BY <1>2, <2>1
  <2>3. QED
    BY <2>2
<1>4. QED
  BY <1>3 DEF Min

(* SearchBlock: a frame of the block is handed out or the block is dropped, *)
(* and the call goes on.                                                   *)
LEMMA SearchBlockFacts ==
  ASSUME RawInvariant, SearchBlock
  PROVE  Unmoved /\ SocketsKept /\ CallFits' /\ Onward(call') /\ Socket.block # <<>>
<1> DEFINE block == Socket.block
           I == {i \in 1..Len(block) : Returned(Parsed(block[i]))}
           k == IF I # {} THEN Min(I) ELSE 0
<1>1. /\ Busy /\ subscriptions' = subscriptions /\ block # <<>>
      /\ IF k > 0
           THEN Deliver(Parsed(block[k])) /\ sockets' = [sockets EXCEPT ![Current.id].block = Rest(k)]
           ELSE Filter /\ sockets' = [sockets EXCEPT ![Current.id].block = <<>>]
                       /\ UNCHANGED <<received, next_recv_index>>
  BY DEF SearchBlock, Reading, registry, SelectInSeq
<1>2. /\ Current.id \in DOMAIN sockets /\ Socket = sockets[Current.id]
      /\ block \in Seq(DOMAIN Frames)
  BY <1>1, CurrentFacts, SocketFacts
<1>3. k \in Nat
  <2>1. I \in SUBSET Nat
    BY <1>2
  <2> HIDE DEF I
  <2>2. I # {} => Min(I) \in Nat
    BY <2>1, MinOf
  <2>3. QED
    BY <2>2
<1> HIDE DEF k
<1>4. Rest(k) \in Seq(DOMAIN Frames) /\ <<>> \in Seq(DOMAIN Frames)
  <2>1. SubSeq(block, k + 1, Len(block)) \in Seq(DOMAIN Frames)
    BY <1>2, <1>3, RestType
  <2>2. QED
    BY <2>1 DEF Rest
<1>5. Unmoved
  BY DEF SearchBlock, Unmoved, registry
<1> HIDE DEF block
<1>6. CASE k > 0
  <2>1. SocketsKept
    BY <1>1, <1>2, <1>4, <1>6, SetBlock
  <2>2. CallFits' /\ Onward(call')
    BY <1>1, <1>6, DeliverFits
  <2>3. QED
    BY <1>1, <1>5, <2>1, <2>2 DEF block
<1>7. CASE ~(k > 0)
  <2>1. SocketsKept
    BY <1>1, <1>2, <1>4, <1>7, SetBlock
  <2>2. Onward(call')
    BY <1>1, <1>7, OnwardFacts
  <2>3. CallFits'
    BY <1>1, <1>7, <2>2, OnwardSame
  <2>4. QED
    BY <1>1, <1>5, <2>1, <2>2, <2>3 DEF block
<1>8. QED
  BY <1>6, <1>7

(* The steps of a call that read nothing. *)
LEMMA UnreadFacts ==
  ASSUME RawInvariant, SkipUnjoined \/ WouldBlock \/ ReceiveFails
  PROVE  Unmoved /\ SocketsKept /\ CallFits' /\ Onward(call')
<1>1. /\ Busy /\ UNCHANGED <<subscriptions, sockets, next_recv_index>>
      /\ GiveUp \/ NoPacket \/ call' = Idle
  BY DEF SkipUnjoined, WouldBlock, ReceiveFails, Reading, registry
<1>2. Unmoved
  BY DEF SkipUnjoined, WouldBlock, ReceiveFails, Unmoved, registry, history
<1>3. Onward(call')
  <2>1. CASE GiveUp \/ NoPacket
    BY <1>1, <2>1, OnwardFacts
  <2>2. CASE call' = Idle
    BY <2>2 DEF Onward
  <2>3. QED
    BY <1>1, <2>1, <2>2
<1>4. CallFits'
  BY <1>1, <1>3, OnwardSame
<1>5. QED
  BY <1>1, <1>2, <1>3, <1>4, SameSockets

(* The first step of a call. *)
LEMMA StartFacts ==
  ASSUME RawInvariant, TryRecvAny \/ \E i \in 1..Count : TryRecv(i)
  PROVE  Unmoved /\ SocketsKept /\ CallFits' /\ ~Busy
<1>1. Unmoved /\ sockets' = sockets /\ ~Busy
  BY DEF TryRecvAny, TryRecv, Unmoved, registry, history
<1>2. CallFits'
  <2>1. CASE TryRecvAny
    <3>1. call' = [kind |-> "any", tried |-> 0, index |-> next_recv_index, filtered |-> 0,
                   socket |-> "primary"]
      BY <2>1 DEF TryRecvAny, Idle
    <3>2. next_recv_index \in Nat /\ next_recv_index < Count
      BY <2>1, InvariantParts DEF TryRecvAny, CallFits, ScanInRange
    <3>3. UNCHANGED <<subscriptions, next_recv_index>>
      BY <2>1 DEF TryRecvAny, registry
    <3>4. QED
      BY <3>1, <3>2, <3>3, StartFits
  <2>2. ASSUME NEW i \in 1..Count, TryRecv(i)
        PROVE  CallFits'
    <3>1. call' = [kind |-> "one", tried |-> 0, index |-> i - 1, filtered |-> 0,
                   socket |-> "primary"]
      BY <2>2 DEF TryRecv, Idle
    <3>2. i - 1 \in Nat /\ i - 1 < Count
      BY InvariantParts
    <3>3. UNCHANGED <<subscriptions, next_recv_index>>
      BY <2>2 DEF TryRecv, registry
    <3>4. QED
      BY <3>1, <3>2, <3>3, StartFits
  <2>3. QED
    BY <2>1, <2>2
<1>3. QED
  BY <1>1, <1>2, SameSockets

(* Frames reach sockets. *)
LEMMA AddIfType ==
  ASSUME NEW S, NEW q \in Seq(S), NEW f \in S, NEW b
  PROVE  AddIf(b, q, f) \in Seq(S) /\ Len(AddIf(b, q, f)) >= Len(q)
<1>1. CASE b
  BY <1>1 DEF AddIf
<1>2. CASE ~b
  BY <1>2 DEF AddIf
<1>3. QED
  BY <1>1, <1>2

(* A captured frame lengthens queues and touches nothing else. *)
LEMMA CapturedType ==
  ASSUME NEW s, s \in SocketType(s.members), NEW f \in DOMAIN Frames
  PROVE  \E queue \in QueueType : /\ Captured(s, f) = Refilled(s, queue, s.block)
                                  /\ Len(queue.primary) >= Len(s.queue.primary)
                                  /\ Len(queue.udp) >= Len(s.queue.udp)
<1>1. s.queue.primary \in Seq(DOMAIN Frames) /\ s.queue.udp \in Seq(DOMAIN Frames) /\ s.queue \in QueueType
  BY SocketFacts
<1>3. CASE platform = "windows"
  <2> DEFINE p == AddIf(IsIpv4(Frames[f].group), s.queue.primary, f)
             u == AddIf(UdpAdmits(s, f), s.queue.udp, f)
             q == [primary |-> p, udp |-> u]
  <2>1. /\ p \in Seq(DOMAIN Frames) /\ u \in Seq(DOMAIN Frames)
        /\ Len(p) >= Len(s.queue.primary) /\ Len(u) >= Len(s.queue.udp)
    BY <1>1, AddIfType
  <2>2. /\ q \in QueueType
        /\ Len(q.primary) >= Len(s.queue.primary) /\ Len(q.udp) >= Len(s.queue.udp)
    BY <2>1 DEF QueueType
  <2>3. Captured(s, f) = [[s EXCEPT !.queue.primary = p] EXCEPT !.queue.udp = u]
    BY <1>1, <1>3 DEF Captured, SocketType, QueueType
  <2> HIDE DEF p, u
  <2>4. [[s EXCEPT !.queue.primary = p] EXCEPT !.queue.udp = u]
        = [s EXCEPT !.queue = [[s.queue EXCEPT !.primary = p] EXCEPT !.udp = u]]
    BY DEF SocketType
  <2>5. [[s.queue EXCEPT !.primary = p] EXCEPT !.udp = u] = q
    <3>1. [s.queue EXCEPT !.primary = p] = [primary |-> p, udp |-> s.queue.udp]
      BY <1>1 DEF QueueType
    <3>2. [[primary |-> p, udp |-> s.queue.udp] EXCEPT !.udp = u] = q
      OBVIOUS
    <3>3. QED
      BY <3>1, <3>2
  <2> HIDE DEF q
  <2>6. Captured(s, f) = [s EXCEPT !.queue = q]
    BY <2>3, <2>4, <2>5
  <2>7. Captured(s, f) = Refilled(s, q, s.block)
    BY <2>6, RefilledExcept
  <2>8. QED
    BY <2>2, <2>7
<1>4. CASE platform # "windows"
  <2> DEFINE p == AddIf(f \in s.filter, s.queue.primary, f)
             q == [primary |-> p, udp |-> s.queue.udp]
  <2>1. p \in Seq(DOMAIN Frames) /\ Len(p) >= Len(s.queue.primary)
    BY <1>1, AddIfType
  <2>2. /\ q \in QueueType
        /\ Len(q.primary) >= Len(s.queue.primary) /\ Len(q.udp) >= Len(s.queue.udp)
    BY <1>1, <2>1 DEF QueueType
  <2>3. Captured(s, f) = [s EXCEPT !.queue.primary = p]
    BY <1>4 DEF Captured
  <2> HIDE DEF p
  <2>4. [s EXCEPT !.queue.primary = p] = [s EXCEPT !.queue = [s.queue EXCEPT !.primary = p]]
    OBVIOUS
  <2>5. [s.queue EXCEPT !.primary = p] = q
    BY <1>1 DEF QueueType
  <2> HIDE DEF q
  <2>6. Captured(s, f) = [s EXCEPT !.queue = q]
    BY <2>3, <2>4, <2>5
  <2>7. Captured(s, f) = Refilled(s, q, s.block)
    BY <2>6, RefilledExcept
  <2>8. QED
    BY <2>2, <2>7
<1>5. QED
  BY <1>3, <1>4

(* FrameArrives: no membership, capture or call changes. *)
LEMMA FrameArrivesFacts ==
  ASSUME RawInvariant, NEW f \in DOMAIN Frames, NEW index \in Indexes, FrameArrives(f, index)
  PROVE  /\ Unmoved /\ SocketsKept /\ CallFits' /\ call' = call
         /\ \A id \in DOMAIN sockets :
              \/ sockets'[id] = sockets[id]
              \/ sockets'[id] = Captured(sockets[id], f)
<1>1. /\ DOMAIN sockets' = DOMAIN sockets
      /\ \A id \in DOMAIN sockets :
              \/ sockets'[id] = sockets[id]
              \/ sockets'[id] = Captured(sockets[id], f)
  BY DEF FrameArrives
<1>2. Unmoved /\ UNCHANGED <<subscriptions, next_recv_index, call>>
  BY DEF FrameArrives, Unmoved, registry
<1>3. CallFits'
  BY <1>2, InvariantParts DEF CallFits, ScanInRange, Busy, Count
<1>4. ASSUME NEW id \in DOMAIN sockets
      PROVE  /\ sockets'[id].members = sockets[id].members
             /\ sockets'[id].config = sockets[id].config
             /\ sockets'[id].bound = sockets[id].bound
             /\ sockets'[id] \in SocketType(sockets'[id].members)
  <2>1. sockets[id] \in SocketType(sockets[id].members)
    BY InvariantParts DEF TypeOK
  <2>2. CASE sockets'[id] = sockets[id]
    BY <2>1, <2>2
  <2>3. CASE sockets'[id] = Captured(sockets[id], f)
    <3>1. PICK queue \in QueueType : sockets'[id] = Refilled(sockets[id], queue, sockets[id].block)
      BY <2>1, <2>3, CapturedType
    <3>2. sockets[id].block \in Seq(DOMAIN Frames)
      BY <2>1, SocketFacts
    <3>3. QED
      BY <2>1, <3>1, <3>2, RefilledType
  <2>4. QED
    BY <1>1, <2>2, <2>3
<1>5. SocketsKept
  BY <1>1, <1>4 DEF SocketsKept
<1>6. QED
  BY <1>1, <1>2, <1>3, <1>5

-----------------------------------------------------------------------------
(* Joining and leaving. *)

(* Sockets with other memberships. *)
Manned(s, members) ==
  [config |-> s.config, bound |-> s.bound, filter |-> s.filter, members |-> members,
   queue |-> s.queue, block |-> s.block]

(* They are sockets again, and only the memberships differ. *)
LEMMA MannedType ==
  ASSUME NEW s, s \in SocketType(s.members), NEW members
  PROVE  LET r == Manned(s, members) IN
         /\ r = [s EXCEPT !.members = members]
         /\ r \in SocketType(r.members)
         /\ r.members = members /\ r.config = s.config /\ r.bound = s.bound
BY DEF Manned, SocketType

(* One subscription gets other memberships and another state. *)
MembersChange(i, joined, members) ==
  LET id == subscriptions[i].id IN
  /\ subscriptions' = [subscriptions EXCEPT ![i] =
       [id |-> id, config |-> subscriptions[i].config, joined |-> joined]]
  /\ sockets' = [sockets EXCEPT ![id] = Manned(sockets[id], members)]
  /\ UNCHANGED <<platform, next_subscription_id, next_recv_index, call, links, moved>>
  /\ \A x \in DOMAIN sockets \ {id} : ((x \in half_left') <=> (x \in half_left))
                                      /\ ((x \in leaked') <=> (x \in leaked))
  /\ half_left' \cup leaked' \subseteq DOMAIN sockets

(* The memberships of a subscription fit its state as before when neither  *)
(* has changed.                                                            *)
LEMMA MembersOfKept ==
  ASSUME UNCHANGED <<links, platform>>, NEW sub, NEW members, MembersOf(sub, members),
         (sub.id \in half_left') <=> (sub.id \in half_left),
         (sub.id \in leaked') <=> (sub.id \in leaked)
  PROVE  MembersOf(sub, members)'
<1>1. Key(sub)' = Key(sub) /\ Parts' = Parts
  BY LinksKept DEF Parts
<1>2. /\ sub.joined /\ sub.id \notin half_left => \A part \in Range(Parts) : \E m : members[part] = {m}
      /\ ~sub.joined /\ sub.id \notin leaked => \A part \in Range(Parts) : members[part] = {}
      /\ sub.joined => sub.id \notin leaked
      /\ sub.id \in half_left => sub.joined /\ members["membership"] = {}
      /\ sub.id \in leaked =>
           platform = "windows" /\ \E part \in Range(Parts) : \E m \in members[part] : m.key = Key(sub)
  BY DEF MembersOf
<1>3. QED
  BY <1>1, <1>2 DEF MembersOf

(* Such a change keeps the invariant if the new memberships fit the new    *)
(* state and are where the capture is.                                     *)
LEMMA MembersChangeKeeps ==
  ASSUME RawInvariant, ~Busy, NEW i \in 1..Count, NEW joined \in BOOLEAN, NEW members,
         MembersChange(i, joined, members), DOMAIN members = Range(Parts),
         MembersOf(subscriptions[i], members)',
         subscriptions[i].id \notin moved =>
           \A m \in members["membership"] : m.index = sockets[subscriptions[i].id].bound
  PROVE  RawInvariant'
<1> DEFINE id == subscriptions[i].id
           new == [id |-> id, config |-> subscriptions[i].config, joined |-> joined]
<1>1. /\ subscriptions' = [subscriptions EXCEPT ![i] = new]
      /\ sockets' = [sockets EXCEPT ![id] = Manned(sockets[id], members)]
      /\ UNCHANGED <<platform, next_subscription_id, next_recv_index, call, links, moved>>
      /\ \A x \in DOMAIN sockets \ {id} : ((x \in half_left') <=> (x \in half_left))
                                          /\ ((x \in leaked') <=> (x \in leaked))
      /\ half_left' \cup leaked' \subseteq DOMAIN sockets
  BY DEF MembersChange
<1>2. /\ subscriptions \in Seq(SubscriptionType) /\ Count \in Nat /\ id \in DOMAIN sockets
      /\ id \in Ids /\ subscriptions[i].config \in DOMAIN Configs
  BY InvariantParts
<1>3. new \in SubscriptionType /\ new.id = id /\ new.config = subscriptions[i].config
  BY <1>2 DEF SubscriptionType
<1> HIDE DEF new
<1>4. /\ subscriptions' \in Seq(SubscriptionType) /\ Count' = Count /\ Parts' = Parts
      /\ subscriptions'[i] = new /\ \A j \in 1..Count : j # i => subscriptions'[j] = subscriptions[j]
      /\ \A j \in 1..Count : /\ subscriptions'[j].id = subscriptions[j].id
                             /\ subscriptions'[j].config = subscriptions[j].config
  BY <1>1, <1>2, <1>3 DEF Count, Parts
<1>5. \A j \in 1..Count : subscriptions[j].id \in DOMAIN sockets /\ (j # i => subscriptions[j].id # id)
  BY InvariantParts DEF Stored
<1>6. /\ sockets[id] \in SocketType(sockets[id].members)
      /\ DOMAIN sockets' = DOMAIN sockets /\ sockets'[id] = Manned(sockets[id], members)
      /\ \A x \in DOMAIN sockets : x # id => sockets'[x] = sockets[x]
  BY <1>1, <1>2, InvariantParts DEF TypeOK
<1>7. /\ sockets'[id] \in SocketType(sockets'[id].members) /\ sockets'[id].members = members
      /\ sockets'[id].config = sockets[id].config /\ sockets'[id].bound = sockets[id].bound
  BY <1>6, MannedType
<1>8. TypeOK'
  <2>1. DOMAIN sockets' = {subscriptions'[j].id : j \in 1..Count'}
    <3>1. DOMAIN sockets = {subscriptions[j].id : j \in 1..Count}
      BY InvariantParts DEF TypeOK
    <3>2. {subscriptions'[j].id : j \in 1..Count} = {subscriptions[j].id : j \in 1..Count}
      BY <1>4
    <3>3. QED
      BY <1>4, <1>6, <3>1, <3>2
  <2>2. ASSUME NEW x \in DOMAIN sockets'
        PROVE  /\ sockets'[x] \in SocketType(sockets'[x].members)
               /\ DOMAIN sockets'[x].members = Range(Parts')
               /\ x < next_subscription_id'
    BY <1>1, <1>4, <1>6, <1>7, InvariantParts DEF TypeOK
  <2>3. moved' \cup half_left' \cup leaked' \subseteq DOMAIN sockets'
    BY <1>1, <1>6, InvariantParts DEF TypeOK
  <2>4. QED
    BY <1>1, <1>4, <2>1, <2>2, <2>3, InvariantParts DEF TypeOK
<1>9. ScanInRange'
  BY <1>1, <1>4, InvariantParts DEF ScanInRange, Busy
<1>10. Stored'
  <2>1. \A j \in 1..Count : sockets'[subscriptions[j].id].config = sockets[subscriptions[j].id].config
    BY <1>5, <1>6, <1>7
  <2>3. ~Busy' => call' = Idle
    BY <1>1, InvariantParts DEF Stored, Busy
  <2>4. \A j, k \in 1..Count : subscriptions[j].id = subscriptions[k].id => j = k
    BY InvariantParts DEF Stored
  <2>5. \A j, k \in 1..Count' : subscriptions'[j].id = subscriptions'[k].id => j = k
    BY <1>4, <2>4
  <2>6. ASSUME NEW j \in 1..Count
        PROVE  /\ sockets'[subscriptions'[j].id].config = subscriptions'[j].config
               /\ RawValidate(Configs[subscriptions'[j].config])
               /\ Suits(Configs[subscriptions[j].config])'
    <3>1. /\ sockets[subscriptions[j].id].config = subscriptions[j].config
          /\ RawValidate(Configs[subscriptions[j].config])
          /\ Suits(Configs[subscriptions[j].config])
      BY InvariantParts DEF Stored
    <3>2. subscriptions'[j].id = subscriptions[j].id /\ subscriptions'[j].config = subscriptions[j].config
      BY <1>4
    <3>3. Suits(Configs[subscriptions[j].config])'
      BY <1>1, <3>1, <3>2 DEF Suits
    <3>4. QED
      BY <2>1, <3>1, <3>2, <3>3
  <2>7. QED
    BY <1>4, <2>3, <2>5, <2>6 DEF Stored
<1>11. Members'
  <2>1. ASSUME NEW j \in 1..Count
        PROVE  MembersOf(subscriptions[j], sockets[subscriptions[j].id].members)'
    <3>1. CASE j = i
      BY <1>3, <1>4, <1>7, <3>1
    <3>2. CASE j # i
      <4>1. /\ sockets'[subscriptions[j].id].members = sockets[subscriptions[j].id].members
            /\ subscriptions'[j] = subscriptions[j]
            /\ ((subscriptions[j].id \in half_left') <=> (subscriptions[j].id \in half_left))
            /\ ((subscriptions[j].id \in leaked') <=> (subscriptions[j].id \in leaked))
        BY <1>1, <1>4, <1>5, <1>6, <3>2
      <4>2. MembersOf(subscriptions[j], sockets[subscriptions[j].id].members)
        BY InvariantParts DEF Members
      <4>3. UNCHANGED <<links, platform>>
        BY <1>1
      <4>4. QED
        BY <4>1, <4>2, <4>3, MembersOfKept
    <3>3. QED
      BY <3>1, <3>2
  <2>2. QED
    BY <1>4, <2>1 DEF Members
<1>12. Captures'
  <2>1. ASSUME NEW j \in 1..Count
        PROVE  CapturedOn(subscriptions[j], sockets[subscriptions[j].id])'
    <3>1. CapturedOn(subscriptions[j], sockets[subscriptions[j].id])
      BY InvariantParts DEF Captures
    <3>2. MembershipIndex(MembershipOf(subscriptions[j]))' = MembershipIndex(MembershipOf(subscriptions[j]))
      BY <1>1, <1>4 DEF MembershipIndex, MembershipKey, MembershipOf
    <3>3. /\ sockets'[subscriptions[j].id].bound = sockets[subscriptions[j].id].bound
          /\ subscriptions'[j].id = subscriptions[j].id
          /\ j # i => sockets'[subscriptions[j].id].members = sockets[subscriptions[j].id].members
      BY <1>4, <1>5, <1>6, <1>7
    <3>4. CASE j = i
      BY <1>1, <1>7, <3>1, <3>2, <3>3, <3>4 DEF CapturedOn
    <3>5. CASE j # i
      BY <1>1, <3>1, <3>2, <3>3, <3>5 DEF CapturedOn
    <3>6. QED
      BY <3>4, <3>5
  <2>2. QED
    BY <1>4, <2>1 DEF Captures
<1>13. QED
  BY <1>8, <1>9, <1>10, <1>11, <1>12 DEF RawInvariant

(* The memberships after SetMembers. *)
Changed(sub, P, Q) ==
  [part \in Range(Parts) |-> IF part \in P THEN sockets[sub.id].members[part] \cup {Entry(sub)}
                             ELSE IF part \in Q THEN {m \in sockets[sub.id].members[part] : m.key # Key(sub)}
                             ELSE sockets[sub.id].members[part]]

(* SetMembers changes the sockets of one subscription, to these. *)
LEMMA SetMembersFacts ==
  ASSUME RawInvariant, NEW i \in 1..Count, NEW P, NEW Q, SetMembers(subscriptions[i], P, Q)
  PROVE  LET id == subscriptions[i].id IN
         sockets' = [sockets EXCEPT ![id] = Manned(sockets[id], Changed(subscriptions[i], P, Q))]
<1> DEFINE id == subscriptions[i].id
           members == Changed(subscriptions[i], P, Q)
<1>1. id \in DOMAIN sockets
  BY InvariantParts
<1>2. sockets[id] \in SocketType(sockets[id].members) /\ DOMAIN sockets[id].members = Range(Parts)
  BY <1>1, InvariantParts DEF TypeOK
<1>3. sockets' = [sockets EXCEPT ![id] = [sockets[id] EXCEPT !.members = members]]
  BY <1>1, <1>2 DEF SetMembers, Changed
<1>4. [sockets[id] EXCEPT !.members = members] = Manned(sockets[id], members)
  BY <1>2, MannedType
<1>5. QED
  BY <1>3, <1>4

(* Marking a subscription changes nothing else of it. *)
LEMMA MarkFacts ==
  ASSUME RawInvariant, NEW i \in 1..Count, NEW value, MarkJoined(i, value)
  PROVE  subscriptions' = [subscriptions EXCEPT ![i] =
           [id |-> subscriptions[i].id, config |-> subscriptions[i].config, joined |-> value]]
<1>1. subscriptions[i] \in SubscriptionType
  BY InvariantParts, SubsFacts
<1>2. [subscriptions[i] EXCEPT !.joined = value] =
        [id |-> subscriptions[i].id, config |-> subscriptions[i].config, joined |-> value]
  BY <1>1 DEF SubscriptionType
<1>3. QED
  BY <1>2 DEF MarkJoined

(* Where a new membership of a subscription is. *)
LEMMA EntryFacts ==
  ASSUME NEW sub
  PROVE  Entry(sub).key = Key(sub) /\ Entry(sub).index = MembershipIndex(MembershipOf(sub))
BY DEF Entry

(* join: no membership is held before, so there is one per socket after. *)
LEMMA JoinKeeps ==
  ASSUME RawInvariant, NEW i \in 1..Count, JoinSubscription(i)
  PROVE  RawInvariant'
<1> DEFINE sub == subscriptions[i]
           id == sub.id
<1>0. PICK members : members = Changed(sub, Range(Parts), {})
  OBVIOUS
<1>1. /\ ~Busy /\ ~sub.joined /\ \A part \in Range(Parts) : ~Holds(sub, part)
      /\ SetMembers(sub, Range(Parts), {}) /\ MarkJoined(i, TRUE)
      /\ UNCHANGED <<platform, next_subscription_id, next_recv_index, call, links, moved, half_left, leaked>>
  BY DEF JoinSubscription, history
<1>2. id \in DOMAIN sockets /\ half_left \cup leaked \subseteq DOMAIN sockets
  BY InvariantParts DEF TypeOK
<1>3. MembersOf(sub, sockets[id].members) /\ CapturedOn(sub, sockets[id])
  BY InvariantParts DEF Members, Captures
<1>4. id \notin leaked /\ id \notin half_left
  BY <1>1, <1>3 DEF MembersOf, Holds
<1>5. \A part \in Range(Parts) : sockets[id].members[part] = {}
  BY <1>1, <1>3, <1>4 DEF MembersOf
<1>6. DOMAIN members = Range(Parts) /\ \A part \in Range(Parts) : members[part] = {Entry(sub)}
  BY <1>0, <1>5 DEF Changed
<1>7. subscriptions' = [subscriptions EXCEPT ![i] = [id |-> id, config |-> sub.config, joined |-> TRUE]]
  BY <1>1, MarkFacts
<1>8. MembersChange(i, TRUE, members)
  BY <1>0, <1>1, <1>2, <1>7, SetMembersFacts DEF MembersChange
<1>9. sub'.id = id /\ sub'.joined /\ Parts' = Parts
  BY <1>1, <1>7, InvariantParts DEF Parts, Count
<1>10. \A part \in Range(Parts) : \E m : members[part] = {m}
  BY <1>6
<1>11. MembersOf(sub, members)'
  BY <1>1, <1>4, <1>9, <1>10 DEF MembersOf
<1>12. id \notin moved => \A m \in members["membership"] : m.index = sockets[id].bound
  BY <1>3, <1>6, EntryFacts, PartsFacts DEF CapturedOn
<1>13. QED
  BY <1>1, <1>6, <1>8, <1>11, <1>12, MembersChangeKeeps

(* A failed join whose roll-back fails leaves a membership behind. *)
LEMMA JoinFailsKeeps ==
  ASSUME RawInvariant, NEW i \in 1..Count, NEW k \in 2..Len(Parts), JoinFails(i, k)
  PROVE  RawInvariant'
<1> DEFINE sub == subscriptions[i]
           id == sub.id
           before == {Parts[j] : j \in 1..(k - 1)}
<1>1. /\ ~Busy /\ ~sub.joined
      /\ UNCHANGED <<platform, subscriptions, next_subscription_id, next_recv_index, call, links, moved,
                     half_left>>
  BY DEF JoinFails, registry
<1>2. PICK kept \in SUBSET before : /\ kept # {} /\ SetMembers(sub, kept, {})
                                    /\ leaked' = leaked \cup {id}
  BY DEF JoinFails
<1>3. platform = "windows" /\ kept \subseteq Range(Parts)
  BY PartsFacts
<1>4. PICK members : members = Changed(sub, kept, {})
  OBVIOUS
<1>5. id \in DOMAIN sockets /\ half_left \cup leaked \subseteq DOMAIN sockets
  BY InvariantParts DEF TypeOK
<1>6. MembersOf(sub, sockets[id].members) /\ CapturedOn(sub, sockets[id])
  BY InvariantParts DEF Members, Captures
<1>7. id \notin half_left
  BY <1>1, <1>6 DEF MembersOf
<1>8. /\ DOMAIN members = Range(Parts)
      /\ \A part \in Range(Parts) : members[part] = IF part \in kept
                                                      THEN sockets[id].members[part] \cup {Entry(sub)}
                                                      ELSE sockets[id].members[part]
  BY <1>4 DEF Changed
<1>9. subscriptions' = [subscriptions EXCEPT ![i] = [id |-> id, config |-> sub.config, joined |-> sub.joined]]
  <2>1. sub \in SubscriptionType
    BY InvariantParts, SubsFacts
  <2>2. sub = [id |-> id, config |-> sub.config, joined |-> sub.joined]
    BY <2>1 DEF SubscriptionType
  <2>3. [subscriptions EXCEPT ![i] = sub] = subscriptions
    BY InvariantParts
  <2>4. QED
    BY <1>1, <2>2, <2>3
<1>10. MembersChange(i, sub.joined, members)
  <2>1. sockets' = [sockets EXCEPT ![id] = Manned(sockets[id], members)]
    BY <1>2, <1>4, SetMembersFacts
  <2>2. /\ \A x \in DOMAIN sockets \ {id} : ((x \in half_left') <=> (x \in half_left))
                                             /\ ((x \in leaked') <=> (x \in leaked))
        /\ half_left' \cup leaked' \subseteq DOMAIN sockets
    BY <1>1, <1>2, <1>5
  <2>3. QED
    BY <1>1, <1>9, <2>1, <2>2 DEF MembersChange
<1>11. sub' = sub /\ Parts' = Parts
  BY <1>1 DEF Parts
<1>12. \E part \in Range(Parts) : \E m \in members[part] : m.key = Key(sub)'
  <2>1. PICK part \in Range(Parts) : part \in kept
    BY <1>2, <1>3
  <2>2. Entry(sub) \in members[part] /\ Entry(sub).key = Key(sub)
    BY <1>8, <2>1, EntryFacts
  <2>3. Key(sub)' = Key(sub)
    BY <1>1, <1>11 DEF Key, MembershipKey, MembershipOf
  <2>4. QED
    BY <2>2, <2>3
<1>13. MembersOf(sub, members)'
  BY <1>1, <1>2, <1>3, <1>7, <1>11, <1>12 DEF MembersOf
<1>14. id \notin moved => \A m \in members["membership"] : m.index = sockets[id].bound
  BY <1>6, <1>8, EntryFacts, PartsFacts DEF CapturedOn
<1>15. sub.joined \in BOOLEAN
  BY InvariantParts
<1>16. QED
  BY <1>1, <1>8, <1>10, <1>13, <1>14, <1>15, MembersChangeKeeps

(* leave: all memberships go and the subscription is bound, or one stays   *)
(* and it remains joined.                                                  *)
LEMMA LeaveKeeps ==
  ASSUME RawInvariant, NEW i \in 1..Count, LeaveSubscription(i)
  PROVE  RawInvariant'
<1> DEFINE sub == subscriptions[i]
           id == sub.id
<1>1. /\ ~Busy /\ sub.joined /\ Holds(sub, "membership")
      /\ UNCHANGED <<platform, next_subscription_id, next_recv_index, call, links, moved, leaked>>
  BY DEF LeaveSubscription
<1>2. PICK failed \in SUBSET (Range(Parts) \ {"membership"}) :
        /\ \A part \in Range(Parts) \ failed : Holds(sub, part)
        /\ SetMembers(sub, {}, Range(Parts) \ failed)
        /\ MarkJoined(i, failed # {})
        /\ half_left' = half_left \cup {x \in {id} : failed # {}}
  BY DEF LeaveSubscription
<1>3. PICK members : members = Changed(sub, {}, Range(Parts) \ failed)
  OBVIOUS
<1>4. PICK joined \in BOOLEAN : joined = (failed # {})
  OBVIOUS
<1>5. id \in DOMAIN sockets /\ half_left \cup leaked \subseteq DOMAIN sockets
  BY InvariantParts DEF TypeOK
<1>6. MembersOf(sub, sockets[id].members) /\ CapturedOn(sub, sockets[id])
  BY InvariantParts DEF Members, Captures
<1>7. id \notin half_left /\ id \notin leaked
  BY <1>1, <1>6 DEF MembersOf, Holds
<1>8. \A part \in Range(Parts) : \E m : sockets[id].members[part] = {m}
  BY <1>1, <1>6, <1>7 DEF MembersOf
<1>9. /\ DOMAIN members = Range(Parts)
      /\ \A part \in Range(Parts) \ failed : members[part] = {}
  <2>1. \A part \in Range(Parts) \ failed :
          members[part] = {m \in sockets[id].members[part] : m.key # Key(sub)}
    BY <1>3 DEF Changed
  <2>2. DOMAIN members = Range(Parts)
    BY <1>3 DEF Changed
  <2>3. ASSUME NEW part \in Range(Parts) \ failed PROVE members[part] = {}
    <3>1. PICK m : sockets[id].members[part] = {m}
      BY <1>8
    <3>2. m.key = Key(sub)
      BY <1>2, <3>1 DEF Holds
    <3>3. QED
      BY <2>1, <3>1, <3>2
  <2>4. QED
    BY <2>2, <2>3
<1>10. "membership" \in Range(Parts) \ failed
  BY PartsFacts
<1>11. subscriptions' = [subscriptions EXCEPT ![i] = [id |-> id, config |-> sub.config, joined |-> joined]]
  BY <1>2, <1>4, MarkFacts
<1>12. MembersChange(i, joined, members)
  <2>1. sockets' = [sockets EXCEPT ![id] = Manned(sockets[id], members)]
    BY <1>2, <1>3, SetMembersFacts
  <2>2. /\ \A x \in DOMAIN sockets \ {id} : ((x \in half_left') <=> (x \in half_left))
                                             /\ ((x \in leaked') <=> (x \in leaked))
        /\ half_left' \cup leaked' \subseteq DOMAIN sockets
    BY <1>1, <1>2, <1>5
  <2>3. QED
    BY <1>1, <1>11, <2>1, <2>2 DEF MembersChange
<1>13. sub'.id = id /\ sub'.joined = joined /\ Parts' = Parts
  BY <1>1, <1>11, InvariantParts DEF Parts, Count
<1>14. MembersOf(sub, members)'
  <2>1. CASE failed = {}
    <3>1. id \notin half_left' /\ ~joined /\ \A part \in Range(Parts) : members[part] = {}
      BY <1>2, <1>4, <1>7, <1>9, <2>1
    <3>2. QED
      BY <1>1, <1>7, <1>13, <3>1 DEF MembersOf
  <2>2. CASE failed # {}
    <3>1. id \in half_left' /\ joined /\ members["membership"] = {}
      BY <1>2, <1>4, <1>9, <1>10, <2>2
    <3>2. QED
      BY <1>1, <1>7, <1>13, <3>1 DEF MembersOf
  <2>3. QED
    BY <2>1, <2>2
<1>15. id \notin moved => \A m \in members["membership"] : m.index = sockets[id].bound
  BY <1>9, <1>10
<1>16. QED
  BY <1>1, <1>9, <1>12, <1>14, <1>15, MembersChangeKeeps

-----------------------------------------------------------------------------
(* Adding and removing. *)

(* What holds of one subscription. *)
Placed(k) ==
  LET sub == subscriptions[k] IN
  /\ sockets[sub.id].config = sub.config
  /\ RawValidate(Configs[sub.config])
  /\ Suits(Configs[sub.config])
  /\ MembersOf(sub, sockets[sub.id].members)
  /\ CapturedOn(sub, sockets[sub.id])

(* A capture is where the membership is as before if no address moved. *)
LEMMA CapturedKept ==
  ASSUME links' = links, NEW sub, NEW socket, CapturedOn(sub, socket),
         (sub.id \in moved') <=> (sub.id \in moved)
  PROVE  CapturedOn(sub, socket)'
BY LinksKept DEF CapturedOn

(* A subscription whose sockets stay is placed as before, wherever it is   *)
(* in the vector.                                                          *)
LEMMA PlacedKept ==
  ASSUME RawInvariant, UNCHANGED <<platform, links>>, NEW j \in 1..Count, NEW k,
         subscriptions'[k] = subscriptions[j],
         sockets'[subscriptions[j].id] = sockets[subscriptions[j].id],
         (subscriptions[j].id \in moved') <=> (subscriptions[j].id \in moved),
         (subscriptions[j].id \in half_left') <=> (subscriptions[j].id \in half_left),
         (subscriptions[j].id \in leaked') <=> (subscriptions[j].id \in leaked)
  PROVE  Placed(k)'
<1>1. PICK sub : sub = subscriptions[j]
  OBVIOUS
<1>2. PICK socket : socket = sockets[sub.id]
  OBVIOUS
<1>3. /\ socket.config = sub.config /\ RawValidate(Configs[sub.config]) /\ Suits(Configs[sub.config])
      /\ MembersOf(sub, socket.members) /\ CapturedOn(sub, socket)
  BY <1>1, <1>2, InvariantParts DEF Stored, Members, Captures
<1>4. Suits(Configs[sub.config])'
  BY <1>3 DEF Suits
<1>5. MembersOf(sub, socket.members)'
  BY <1>1, <1>3, MembersOfKept
<1>6. CapturedOn(sub, socket)'
  BY <1>1, <1>3, CapturedKept
<1>7. subscriptions'[k] = sub /\ sockets'[sub.id] = socket
  BY <1>1, <1>2
<1>8. QED
  BY <1>3, <1>4, <1>5, <1>6, <1>7 DEF Placed

(* The invariant again from its parts, when no call is in progress. *)
LEMMA Reassembled ==
  ASSUME RawInvariant, ~Busy, call' = call, TypeOK', Count' \in Nat,
         \A j, k \in 1..Count' : subscriptions'[j].id = subscriptions'[k].id => j = k,
         \A k \in 1..Count' : Placed(k)',
         Count' > 0 => next_recv_index' < Count', Count' = 0 => next_recv_index' = 0
  PROVE  RawInvariant'
<1>1. ScanInRange' /\ (~Busy' => call' = Idle)
  BY InvariantParts DEF ScanInRange, Busy, Stored
<1>2. Stored'
  BY <1>1 DEF Stored, Placed
<1>3. Members' /\ Captures'
  BY DEF Members, Captures, Placed
<1>4. QED
  BY <1>1, <1>2, <1>3 DEF RawInvariant

(* A new subscription: bound where its membership will be. *)
LEMMA AddKeeps ==
  ASSUME RawInvariant, NEW c \in DOMAIN Configs, NEW early \in Early,
         AddSubscription(c, early)
  PROVE  RawInvariant'
<1> DEFINE n == next_subscription_id
           new == [id |-> n, config |-> c, joined |-> FALSE]
<1>1. /\ ~Busy /\ n <= MaxId /\ RawValidate(Configs[c]) /\ Supported(Configs[c])
      /\ subscriptions' = Append(subscriptions, new)
      /\ sockets' = With(sockets, n, OpenRawSocket(c, early))
      /\ n' = n + 1
      /\ UNCHANGED <<platform, next_recv_index, call, links, moved, half_left, leaked>>
  BY DEF AddSubscription
<1>2. /\ platform \in Platforms /\ links \in [Interfaces -> Indexes] /\ n \in 1..(MaxId + 1)
      /\ next_recv_index \in Nat /\ call \in CallType
      /\ \A id \in DOMAIN sockets : id < n
      /\ moved \cup half_left \cup leaked \subseteq DOMAIN sockets
  BY InvariantParts DEF TypeOK
<1>3. MaxId \in Nat /\ n \in Ids /\ n' \in 1..(MaxId + 1) /\ n \notin DOMAIN sockets
  <2>1. MaxId \in Nat
    BY RawAssumptions
  <2>2. n \in Nat /\ n \in Ids /\ n + 1 \in 1..(MaxId + 1)
    BY <1>1, <1>2, <2>1 DEF Ids
  <2>3. n \notin DOMAIN sockets
    BY <1>2, <2>2
  <2>4. QED
    BY <1>1, <2>1, <2>2, <2>3
<1>4. PICK s : s = OpenRawSocket(c, early)
  OBVIOUS
<1>5. /\ s \in SocketType(s.members) /\ s.config = c
      /\ s.members = [part \in Range(Parts) |-> {}]
      /\ s.bound = PacketInterfaceIndex(Configs[c])
      /\ Suits(Configs[c])
  BY <1>1, <1>2, <1>4, OpenFacts
<1>6. /\ DOMAIN sockets' = DOMAIN sockets \cup {n} /\ sockets'[n] = s
      /\ \A id \in DOMAIN sockets : sockets'[id] = sockets[id]
  BY <1>1, <1>3, <1>4 DEF With
<1>7. new \in SubscriptionType
  BY <1>3 DEF SubscriptionType
<1>8. /\ subscriptions' \in Seq(SubscriptionType) /\ Count' = Count + 1 /\ Count \in Nat
      /\ subscriptions'[Count + 1] = new
      /\ \A j \in 1..Count : subscriptions'[j] = subscriptions[j]
  BY <1>1, <1>7, InvariantParts DEF Count
<1>9. Parts' = Parts
  BY <1>1 DEF Parts
<1>10. 1..Count' = 1..Count \cup {Count + 1} /\ Count + 1 \notin 1..Count /\ Count' \in Nat /\ Count' > 0
  BY <1>8
<1>11. TypeOK'
  <2>1. DOMAIN sockets' = {subscriptions'[j].id : j \in 1..Count'}
    <3>1. DOMAIN sockets = {subscriptions[j].id : j \in 1..Count}
      BY InvariantParts DEF TypeOK
    <3>2. {subscriptions'[j].id : j \in 1..Count'} = {subscriptions[j].id : j \in 1..Count} \cup {n}
      <4>1. subscriptions'[Count + 1].id = n
        BY <1>8
      <4>2. \A j \in 1..Count : subscriptions'[j].id = subscriptions[j].id
        BY <1>8
      <4>3. QED
        BY <1>10, <4>1, <4>2
    <3>3. QED
      BY <1>6, <3>1, <3>2
  <2>2. ASSUME NEW id \in DOMAIN sockets'
        PROVE  /\ sockets'[id] \in SocketType(sockets'[id].members)
               /\ DOMAIN sockets'[id].members = Range(Parts')
               /\ id < n'
    <3>1. CASE id = n
      BY <1>1, <1>2, <1>5, <1>6, <1>9, <3>1
    <3>2. CASE id \in DOMAIN sockets
      <4>1. sockets'[id] = sockets[id] /\ id < n
        BY <1>2, <1>6, <3>2
      <4>2. id \in Ids
        BY <3>2, InvariantParts
      <4>3. id < n + 1
        BY <1>2, <4>1, <4>2 DEF Ids
      <4>4. sockets[id] \in SocketType(sockets[id].members) /\ DOMAIN sockets[id].members = Range(Parts)
        BY <3>2, InvariantParts DEF TypeOK
      <4>5. QED
        BY <1>1, <1>9, <4>1, <4>3, <4>4
    <3>3. QED
      BY <1>6, <3>1, <3>2
  <2>3. moved' \cup half_left' \cup leaked' \subseteq DOMAIN sockets'
    BY <1>1, <1>2, <1>6
  <2>4. QED
    BY <1>1, <1>2, <1>3, <1>8, <2>1, <2>2, <2>3 DEF TypeOK
<1>12. \A j, k \in 1..Count' : subscriptions'[j].id = subscriptions'[k].id => j = k
  <2>1. \A j \in 1..Count : subscriptions[j].id # n
    BY <1>3, InvariantParts
  <2>2. \A j, k \in 1..Count : subscriptions[j].id = subscriptions[k].id => j = k
    BY InvariantParts DEF Stored
  <2>3. subscriptions'[Count + 1].id = n /\ \A j \in 1..Count : subscriptions'[j].id = subscriptions[j].id
    BY <1>8
  <2>4. QED
    BY <1>10, <2>1, <2>2, <2>3
<1>13. ASSUME NEW j \in 1..Count PROVE Placed(j)'
  <2>1. subscriptions[j].id \in DOMAIN sockets
    BY InvariantParts
  <2>2. subscriptions'[j] = subscriptions[j] /\ sockets'[subscriptions[j].id] = sockets[subscriptions[j].id]
    BY <1>6, <1>8, <2>1
  <2>3. UNCHANGED <<platform, links, moved, half_left, leaked>>
    BY <1>1
  <2>4. QED
    BY <2>2, <2>3, PlacedKept
<1>14. PICK last : last = Count + 1
  OBVIOUS
<1>15. Placed(last)'
  <2>1. PICK sub : sub = new
    OBVIOUS
  <2>2. sub.id = n /\ sub.config = c /\ ~sub.joined
    BY <2>1
  <2>3. subscriptions'[last] = sub /\ sockets'[sub.id] = s
    BY <1>6, <1>8, <1>14, <2>1, <2>2
  <2>4. Suits(Configs[sub.config])'
    BY <1>1, <1>5, <2>2 DEF Suits
  <2>5. MembersOf(sub, s.members)'
    <3>1. sub.id \notin half_left' /\ sub.id \notin leaked'
      BY <1>1, <1>2, <1>3, <2>2
    <3>2. \A part \in Range(Parts') : s.members[part] = {}
      BY <1>5, <1>9
    <3>3. QED
      BY <2>2, <3>1, <3>2 DEF MembersOf
  <2>6. CapturedOn(sub, s)'
    <3>1. MembershipIndex(MembershipOf(sub)) = s.bound
      BY <1>1, <1>5, <2>2, IndexOf DEF MembershipOf
    <3>2. MembershipIndex(MembershipOf(sub))' = s.bound
      BY <1>1, <3>1, LinksKept
    <3>3. s.members["membership"] = {}
      BY <1>5, PartsFacts
    <3>4. QED
      BY <3>2, <3>3 DEF CapturedOn
  <2>7. QED
    BY <1>1, <1>5, <2>2, <2>3, <2>4, <2>5, <2>6 DEF Placed
<1>16. next_recv_index' < Count'
  BY <1>1, <1>2, <1>8, InvariantParts DEF ScanInRange, Stored
<1>17. \A k \in 1..Count' : Placed(k)'
  BY <1>10, <1>13, <1>14, <1>15
<1>18. /\ Count' > 0 => next_recv_index' < Count'
       /\ Count' = 0 => next_recv_index' = 0
  BY <1>10, <1>16
<1>19. ~Busy /\ call' = call /\ Count' \in Nat
  BY <1>1, <1>10
<1>20. QED
  BY <1>11, <1>12, <1>17, <1>18, <1>19, Reassembled

(* Vec::swap_remove: element k of what is left was element From(i, k). *)
From(i, k) == IF k = i THEN Count ELSE k

(* What is left is all but element i, each once. *)
LEMMA SwapRemoveFacts ==
  ASSUME subscriptions \in Seq(SubscriptionType), NEW i \in 1..Count
  PROVE  LET rest == SwapRemove(subscriptions, i) IN
         /\ rest \in Seq(SubscriptionType) /\ Len(rest) = Count - 1
         /\ \A k \in 1..(Count - 1) : /\ From(i, k) \in 1..Count /\ From(i, k) # i
                                     /\ rest[k] = subscriptions[From(i, k)]
         /\ \A k, l \in 1..(Count - 1) : From(i, k) = From(i, l) => k = l
         /\ \A j \in 1..Count : j # i => \E k \in 1..(Count - 1) : From(i, k) = j
<1>1. Count \in Nat /\ \A k \in 1..Count : subscriptions[k] \in SubscriptionType
  BY SubsFacts
<1> DEFINE rest == SwapRemove(subscriptions, i)
<1>2. rest = [k \in 1..(Count - 1) |-> subscriptions[From(i, k)]]
  BY DEF SwapRemove, From, Count
<1>3. \A k \in 1..(Count - 1) : From(i, k) \in 1..Count /\ From(i, k) # i
  BY <1>1 DEF From
<1>4. \A k, l \in 1..(Count - 1) : From(i, k) = From(i, l) => k = l
  BY <1>1 DEF From
<1>5. ASSUME NEW j \in 1..Count, j # i PROVE \E k \in 1..(Count - 1) : From(i, k) = j
  <2>1. CASE j = Count
    <3>1. i \in 1..(Count - 1) /\ From(i, i) = j
      BY <1>1, <1>5, <2>1 DEF From
    <3>2. QED
      BY <3>1
  <2>2. CASE j # Count
    <3>1. j \in 1..(Count - 1) /\ From(i, j) = j
      BY <1>1, <1>5, <2>2 DEF From
    <3>2. QED
      BY <3>1
  <2>3. QED
    BY <2>1, <2>2
<1> HIDE DEF rest
<1>6. rest \in Seq(SubscriptionType) /\ Len(rest) = Count - 1
  BY <1>1, <1>2, <1>3
<1>7. QED
  BY <1>2, <1>3, <1>4, <1>5, <1>6 DEF rest

(* remove: the others are placed as before and the scan is within them. *)
LEMMA RemoveKeeps ==
  ASSUME RawInvariant, NEW i \in 1..Count, RemoveSubscription(i)
  PROVE  RawInvariant'
<1>1. PICK gone : gone = subscriptions[i].id
  OBVIOUS
<1>2. /\ ~Busy /\ subscriptions' = SwapRemove(subscriptions, i)
      /\ next_recv_index' = IF Count = 1 THEN 0 ELSE next_recv_index % (Count - 1)
      /\ sockets' = Without(sockets, gone)
      /\ moved' = moved \ {gone} /\ half_left' = half_left \ {gone} /\ leaked' = leaked \ {gone}
      /\ UNCHANGED <<platform, next_subscription_id, call, links>>
  BY <1>1 DEF RemoveSubscription, Forget
<1>3. /\ subscriptions \in Seq(SubscriptionType) /\ Count \in Nat /\ Count > 0
      /\ next_recv_index \in Nat /\ gone \in DOMAIN sockets
  BY <1>1, InvariantParts DEF CallFits
<1>4. /\ subscriptions' \in Seq(SubscriptionType) /\ Count' = Count - 1
      /\ \A k \in 1..(Count - 1) : /\ From(i, k) \in 1..Count /\ From(i, k) # i
                                    /\ subscriptions'[k] = subscriptions[From(i, k)]
      /\ \A k, l \in 1..(Count - 1) : From(i, k) = From(i, l) => k = l
      /\ \A j \in 1..Count : j # i => \E k \in 1..(Count - 1) : From(i, k) = j
  BY <1>2, <1>3, SwapRemoveFacts DEF Count
<1>5. Count' \in Nat /\ 1..Count' = 1..(Count - 1)
  BY <1>3, <1>4
<1>6. /\ DOMAIN sockets' = DOMAIN sockets \ {gone}
      /\ \A id \in DOMAIN sockets' : sockets'[id] = sockets[id]
  BY <1>2 DEF Without
<1>7. \A j \in 1..Count : j # i => subscriptions[j].id # gone
  BY <1>1, InvariantParts DEF Stored
<1>8. Parts' = Parts
  BY <1>2 DEF Parts
<1>9. TypeOK'
  <2>1. DOMAIN sockets' = {subscriptions'[k].id : k \in 1..Count'}
    <3>1. ASSUME NEW id \in DOMAIN sockets'
          PROVE  id \in {subscriptions'[k].id : k \in 1..Count'}
      <4>1. PICK j \in 1..Count : subscriptions[j].id = id
        BY <1>6, InvariantParts
      <4>2. j # i
        BY <1>1, <1>6, <4>1
      <4>3. PICK k \in 1..(Count - 1) : From(i, k) = j
        BY <1>4, <4>2
      <4>4. QED
        BY <1>4, <1>5, <4>1, <4>3
    <3>2. ASSUME NEW k \in 1..Count'
          PROVE  subscriptions'[k].id \in DOMAIN sockets'
      <4>1. PICK j \in 1..Count : j # i /\ subscriptions'[k] = subscriptions[j]
        BY <1>4, <1>5
      <4>2. QED
        BY <1>6, <1>7, <4>1, InvariantParts
    <3>3. QED
      BY <3>1, <3>2
  <2>2. ASSUME NEW id \in DOMAIN sockets'
        PROVE  /\ sockets'[id] \in SocketType(sockets'[id].members)
               /\ DOMAIN sockets'[id].members = Range(Parts')
               /\ id < next_subscription_id'
    BY <1>2, <1>6, <1>8, InvariantParts DEF TypeOK
  <2>3. moved' \cup half_left' \cup leaked' \subseteq DOMAIN sockets'
    BY <1>2, <1>6, InvariantParts DEF TypeOK
  <2>4. next_recv_index' \in Nat
    BY <1>2, <1>3, ModFacts
  <2>5. QED
    BY <1>2, <1>4, <2>1, <2>2, <2>3, <2>4, InvariantParts DEF TypeOK
<1>10. \A j, k \in 1..Count' : subscriptions'[j].id = subscriptions'[k].id => j = k
  <2>1. \A j, k \in 1..Count : subscriptions[j].id = subscriptions[k].id => j = k
    BY InvariantParts DEF Stored
  <2>2. QED
    BY SMTT(20), <1>4, <1>5, <2>1
<1>11. ASSUME NEW k \in 1..Count' PROVE Placed(k)'
  <2>1. PICK j \in 1..Count : j # i /\ subscriptions'[k] = subscriptions[j]
    BY <1>4, <1>5
  <2>2. subscriptions[j].id \in DOMAIN sockets /\ subscriptions[j].id # gone
    BY <1>7, <2>1, InvariantParts
  <2>3. sockets'[subscriptions[j].id] = sockets[subscriptions[j].id]
    BY <1>6, <2>2
  <2>4. /\ (subscriptions[j].id \in moved') <=> (subscriptions[j].id \in moved)
        /\ (subscriptions[j].id \in half_left') <=> (subscriptions[j].id \in half_left)
        /\ (subscriptions[j].id \in leaked') <=> (subscriptions[j].id \in leaked)
    BY <1>2, <2>2
  <2>5. UNCHANGED <<platform, links>>
    BY <1>2
  <2>6. QED
    BY <2>1, <2>3, <2>4, <2>5, PlacedKept
<1>12. /\ Count' > 0 => next_recv_index' < Count'
       /\ Count' = 0 => next_recv_index' = 0
  BY <1>2, <1>3, <1>4, ModFacts
<1>13. QED
  BY <1>2, <1>5, <1>9, <1>10, <1>11, <1>12, Reassembled

-----------------------------------------------------------------------------
(* Interfaces. *)

(* A move of one address touches no membership that names another, and no  *)
(* key of IPv4.                                                            *)
LEMMA MoveFacts ==
  ASSUME NEW sub, sub.config \in DOMAIN Configs, RawValidate(Configs[sub.config]),
         NEW a \in Interfaces, NEW index, links \in [Interfaces -> Indexes],
         links' = [links EXCEPT ![a] = index]
  PROVE  /\ Configs[sub.config].interface # a =>
              MembershipIndex(MembershipOf(sub))' = MembershipIndex(MembershipOf(sub))
         /\ IsIpv4(Configs[sub.config].group) => Key(sub)' = Key(sub)
<1> DEFINE config == Configs[sub.config]
<1>1. PICK m : m = MembershipOf(sub)
  OBVIOUS
<1>2. /\ m.interface = config.interface
      /\ IsIpv4(config.group) => m.family = 4
      /\ ~IsIpv4(config.group) => m.family = 16
      /\ config.interface \in Interfaces \/ IsUnspecified(config.interface)
  BY <1>1, Converts, ConfigAssumptions DEF MembershipOf
<1>3. MembershipOf(sub)' = m
  BY <1>1 DEF MembershipOf
<1>4. \A x \in Interfaces : x # a => links'[x] = links[x]
  OBVIOUS
<1> HIDE DEF config
<1>5. ASSUME config.interface # a
      PROVE  MembershipIndex(m)' = MembershipIndex(m)
  BY <1>2, <1>4, <1>5 DEF MembershipIndex, MembershipKey
<1>6. ASSUME IsIpv4(config.group)
      PROVE  MembershipKey(m)' = MembershipKey(m)
  BY <1>2, <1>6 DEF MembershipKey
<1>7. QED
  BY <1>1, <1>3, <1>5, <1>6 DEF Key, config

(* A move excuses the subscriptions that name the address, no others. *)
LEMMA AddressMovesKeeps ==
  ASSUME RawInvariant, NEW a \in Interfaces, AddressMoves(a)
  PROVE  RawInvariant'
<1>1. /\ ~Busy
      /\ moved' = moved \cup {id \in DOMAIN sockets : Configs[sockets[id].config].interface = a}
      /\ UNCHANGED <<platform, subscriptions, next_subscription_id, next_recv_index, call, sockets,
                     half_left, leaked>>
  BY DEF AddressMoves, registry
<1>2. PICK index \in Indexes : links' = [links EXCEPT ![a] = index]
  BY DEF AddressMoves
<1>3. links \in [Interfaces -> Indexes] /\ Count' = Count /\ Count \in Nat /\ Parts' = Parts
  BY <1>1, InvariantParts DEF TypeOK, Count, Parts
<1>4. TypeOK'
  <2>1. links' \in [Interfaces -> Indexes]
    BY <1>2, <1>3
  <2>2. moved' \cup half_left' \cup leaked' \subseteq DOMAIN sockets'
    BY <1>1, InvariantParts DEF TypeOK
  <2>3. QED
    BY <1>1, <1>3, <2>1, <2>2, InvariantParts DEF TypeOK
<1>5. ASSUME NEW k \in 1..Count PROVE Placed(k)'
  <2>1. PICK sub : sub = subscriptions[k]
    OBVIOUS
  <2>2. PICK socket : socket = sockets[sub.id]
    OBVIOUS
  <2>3. subscriptions'[k] = sub /\ sockets'[sub.id] = socket /\ sub.id \in DOMAIN sockets
    BY <1>1, <2>1, <2>2, InvariantParts
  <2>4. /\ socket.config = sub.config /\ RawValidate(Configs[sub.config]) /\ Suits(Configs[sub.config])
        /\ MembersOf(sub, socket.members) /\ CapturedOn(sub, socket) /\ sub.config \in DOMAIN Configs
    BY <2>1, <2>2, InvariantParts DEF Stored, Members, Captures
  <2>5. Suits(Configs[sub.config])'
    BY <1>1, <2>4 DEF Suits
  <2>6. /\ Configs[sub.config].interface # a =>
             MembershipIndex(MembershipOf(sub))' = MembershipIndex(MembershipOf(sub))
        /\ IsIpv4(Configs[sub.config].group) => Key(sub)' = Key(sub)
    BY <1>2, <1>3, <2>4, MoveFacts
  <2>7. MembersOf(sub, socket.members)'
    <3>1. platform = "windows" => Key(sub)' = Key(sub)
      BY <2>4, <2>6 DEF Suits
    <3>2. UNCHANGED <<platform, half_left, leaked>>
      BY <1>1
    <3>3. CASE platform = "windows"
      <4>1. Key(sub)' = Key(sub)
        BY <3>1, <3>3
      <4>2. QED
        BY <1>3, <2>4, <3>2, <4>1 DEF MembersOf
    <3>4. CASE platform # "windows"
      <4>1. sub.id \notin leaked
        BY <2>4, <3>4 DEF MembersOf
      <4>2. QED
        BY <1>3, <2>4, <3>2, <4>1 DEF MembersOf
    <3>5. QED
      BY <3>3, <3>4
  <2>8. CapturedOn(sub, socket)'
    <3>1. sub.id \notin moved' => sub.id \notin moved /\ Configs[sub.config].interface # a
      BY <1>1, <2>2, <2>3, <2>4
    <3>2. QED
      BY <2>4, <2>6, <3>1 DEF CapturedOn
  <2>9. QED
    BY <2>3, <2>4, <2>5, <2>7, <2>8 DEF Placed
<1>6. \A j, k \in 1..Count' : subscriptions'[j].id = subscriptions'[k].id => j = k
  BY <1>1, <1>3, InvariantParts DEF Stored
<1>7. /\ Count' > 0 => next_recv_index' < Count'
      /\ Count' = 0 => next_recv_index' = 0
  BY <1>1, <1>3, InvariantParts DEF ScanInRange, Stored
<1>8. QED
  BY <1>1, <1>3, <1>4, <1>5, <1>6, <1>7, Reassembled

-----------------------------------------------------------------------------
(* The invariant. *)

(* An empty context satisfies it. *)
LEMMA InitInvariant ==
  ASSUME Init
  PROVE  RawInvariant
<1>1. Count = 0 /\ DOMAIN sockets = {}
  BY DEF Init, Count
<1>2. ~Busy /\ call = Idle /\ Idle \in CallType
  BY IdleFacts DEF Init, Busy
<1>3. 1 \in 1..(MaxId + 1)
  BY RawAssumptions
<1>4. TypeOK
  <2>1. subscriptions \in Seq(SubscriptionType)
    BY DEF Init
  <2>2. {subscriptions[i].id : i \in 1..Count} = {}
    BY <1>1
  <2>3. QED
    BY <1>1, <1>2, <1>3, <2>1, <2>2, RawAssumptions DEF Init, TypeOK
<1>5. ScanInRange
  BY <1>1, <1>2 DEF ScanInRange
<1>6. Stored /\ Members /\ Captures
  BY <1>1, <1>2 DEF Stored, Members, Captures, Init
<1>7. QED
  BY <1>4, <1>5, <1>6 DEF RawInvariant

(* Every step keeps it. *)
LEMMA StepInvariant ==
  ASSUME RawInvariant, [Next]_vars
  PROVE  RawInvariant'
<1>1. ASSUME NEW c \in DOMAIN Configs, NEW early \in Early, AddSubscription(c, early)
      PROVE  RawInvariant'
  BY <1>1, AddKeeps
<1>2. ASSUME NEW i \in 1..Count, RemoveSubscription(i) PROVE RawInvariant'
  BY <1>2, RemoveKeeps
<1>3. ASSUME NEW i \in 1..Count, JoinSubscription(i) PROVE RawInvariant'
  BY <1>3, JoinKeeps
<1>4. ASSUME NEW i \in 1..Count, NEW k \in 2..Len(Parts), JoinFails(i, k) PROVE RawInvariant'
  BY <1>4, JoinFailsKeeps
<1>5. ASSUME NEW i \in 1..Count, LeaveSubscription(i) PROVE RawInvariant'
  BY <1>5, LeaveKeeps
<1>6. ASSUME NEW i \in 1..Count, TryRecv(i) PROVE RawInvariant'
  BY <1>6, StartFacts, QuietKeeps
<1>7. CASE TryRecvAny
  BY <1>7, StartFacts, QuietKeeps
<1>8. CASE SkipUnjoined \/ WouldBlock \/ ReceiveFails
  BY <1>8, UnreadFacts, QuietKeeps
<1>9. CASE ReadDatagram
  BY <1>9, ReadDatagramFacts, QuietKeeps
<1>10. CASE ReadBlock
  BY <1>10, ReadBlockFacts, QuietKeeps
<1>11. CASE SearchBlock
  BY <1>11, SearchBlockFacts, QuietKeeps
<1>12. ASSUME NEW f \in DOMAIN Frames, NEW index \in Indexes, FrameArrives(f, index)
       PROVE  RawInvariant'
  BY <1>12, FrameArrivesFacts, QuietKeeps
<1>13. ASSUME NEW a \in Interfaces, AddressMoves(a) PROVE RawInvariant'
  BY <1>13, AddressMovesKeeps
<1>14. CASE UNCHANGED vars
  <2>1. Unmoved /\ sockets' = sockets /\ UNCHANGED <<subscriptions, call, next_recv_index>>
    BY <1>14 DEF vars, Unmoved
  <2>2. CallFits'
    BY <2>1, InvariantParts DEF CallFits, ScanInRange, Busy, Count
  <2>3. QED
    BY <2>1, <2>2, SameSockets, QuietKeeps
<1>15. QED
  BY <1>1, <1>2, <1>3, <1>4, <1>5, <1>6, <1>7, <1>8, <1>9, <1>10, <1>11, <1>12, <1>13, <1>14
     DEF Next, Receive

(* The invariant holds of every reachable state. *)
THEOREM InvariantAlways == Spec => []RawInvariant
<1>1. Init => RawInvariant
  BY InitInvariant
<1>2. RawInvariant /\ [Next]_vars => RawInvariant'
  BY StepInvariant
<1>3. QED
  BY <1>1, <1>2, PTL DEF Spec

(* Every variable has its type, and sockets are open for exactly the       *)
(* subscriptions of the context.                                           *)
THEOREM TypeOKAlways == Spec => []TypeOK
BY InvariantAlways, PTL DEF RawInvariant

(* The scan of try_recv_any starts at a subscription, whatever swap_remove *)
(* did in between.                                                         *)
THEOREM ScanInRangeAlways == Spec => []ScanInRange
BY InvariantAlways, PTL DEF RawInvariant

(* A joined subscription holds one membership per socket unless a leave    *)
(* failed half way, a bound one none unless a roll-back failed.            *)
THEOREM StateMatchesKernelAlways == Spec => []StateMatchesKernel
<1>1. RawInvariant => StateMatchesKernel
  <2>1. HAVE RawInvariant
  <2>2. SUFFICES ASSUME NEW i \in 1..Count
                 PROVE  LET sub     == subscriptions[i]
                            members == sockets[sub.id].members
                        IN  /\ sub.joined /\ sub.id \notin half_left =>
                                 \A part \in DOMAIN members : Cardinality(members[part]) = 1
                            /\ ~sub.joined /\ sub.id \notin leaked =>
                                 \A part \in DOMAIN members : members[part] = {}
    BY DEF StateMatchesKernel
  <2> DEFINE sub == subscriptions[i]
             members == sockets[sub.id].members
  <2>3. DOMAIN members = Range(Parts) /\ MembersOf(sub, members)
    BY <2>1, InvariantParts DEF TypeOK, Members
  <2>4. \A m : Cardinality({m}) = 1
    BY FS_Singleton
  <2>5. /\ sub.joined /\ sub.id \notin half_left => \A part \in Range(Parts) : \E m : members[part] = {m}
        /\ ~sub.joined /\ sub.id \notin leaked => \A part \in Range(Parts) : members[part] = {}
    BY <2>3 DEF MembersOf
  <2> HIDE DEF members
  <2>6. ASSUME sub.joined, sub.id \notin half_left, NEW part \in DOMAIN members
        PROVE  Cardinality(members[part]) = 1
    <3>1. PICK m : members[part] = {m}
      BY <2>3, <2>5, <2>6
    <3>2. QED
      BY <2>4, <3>1
  <2>7. QED
    BY <2>3, <2>5, <2>6 DEF members
<1>2. QED
  BY <1>1, InvariantAlways, PTL

(* The capture of a subscription is on the interface of its membership, as *)
(* long as its address has not moved.                                      *)
THEOREM CaptureFollowsMembershipAlways == Spec => []CaptureFollowsMembership
<1>1. RawInvariant => CaptureFollowsMembership
  BY InvariantParts DEF CaptureFollowsMembership, Captures, CapturedOn
<1>2. QED
  BY <1>1, InvariantAlways, PTL

(* What validate lets in converts to a membership, on every platform.      *)
THEOREM ValidatedConvertsAlways == Spec => []ValidatedConverts
<1>1. RawInvariant => ValidatedConverts
  BY InvariantParts, Converts DEF ValidatedConverts, MembershipOf, Stored
<1>2. QED
  BY <1>1, InvariantAlways, PTL

-----------------------------------------------------------------------------
(* Receive calls end. *)

RankOf(a, r, b) == (a * (FilterBudget + 1) + r) * 2 + b

(* The first difference decides. *)
LEMMA RankLess ==
  ASSUME NEW a \in Nat, NEW a1 \in Nat, NEW r \in 1..FilterBudget, NEW r1 \in 1..FilterBudget,
         NEW b \in {0, 1}, NEW b1 \in {0, 1},
         a1 < a \/ (a1 = a /\ r1 < r) \/ (a1 = a /\ r1 = r /\ b1 < b)
  PROVE  RankOf(a1, r1, b1) < RankOf(a, r, b)
<1>1. FilterBudget \in Nat
  BY RawAssumptions
<1>2. \A x \in Nat : x * (FilterBudget + 1) \in Nat
  BY <1>1
<1>3. CASE a1 < a
  <2>1. a1 * (FilterBudget + 1) + (FilterBudget + 1) <= a * (FilterBudget + 1)
    <3>1. PICK d \in Nat : a = a1 + 1 + d
      <4>1. a - a1 - 1 \in Nat /\ a = a1 + 1 + (a - a1 - 1)
        BY <1>3
      <4>2. QED
        BY <4>1
    <3>2. \A M \in Nat : (a1 + 1 + d) * M = a1 * M + M + d * M /\ d * M \in Nat /\ a1 * M \in Nat
      OBVIOUS
    <3>3. QED
      BY <1>1, <3>1, <3>2
  <2>2. PICK x \in Nat : x = a * (FilterBudget + 1)
    BY <1>2
  <2>3. PICK y \in Nat : y = a1 * (FilterBudget + 1)
    BY <1>2
  <2>4. (y + r1) * 2 + b1 < (x + r) * 2 + b
    BY <1>1, <2>1, <2>2, <2>3
  <2>5. QED
    BY <2>2, <2>3, <2>4 DEF RankOf
<1>4. CASE a1 = a /\ (r1 < r \/ (r1 = r /\ b1 < b))
  <2>1. PICK x \in Nat : x = a * (FilterBudget + 1)
    BY <1>2
  <2>2. (x + r1) * 2 + b1 < (x + r) * 2 + b
    BY <1>1, <1>4
  <2>3. QED
    BY <1>4, <2>1, <2>2 DEF RankOf
<1>5. QED
  BY <1>3, <1>4

(* CallRank, by its digits. *)
Major  == 2 * (Count - call.tried) + (IF call.socket = "primary" THEN 1 ELSE 0)
Reads  == FilterBudget - call.filtered
Blocks == IF Socket.block = <<>> THEN 1 ELSE 0

Digits == Busy => /\ CallRank = RankOf(Major, Reads, Blocks)
                  /\ Major \in Nat /\ Reads \in 1..FilterBudget /\ Blocks \in {0, 1}

(* While a call is in progress its rank is made of these digits. *)
LEMMA RankDigits ==
  ASSUME RawInvariant
  PROVE  Digits
<1> SUFFICES ASSUME Busy
             PROVE  /\ CallRank = RankOf(Major, Reads, Blocks)
                    /\ Major \in Nat /\ Reads \in 1..FilterBudget /\ Blocks \in {0, 1}
  BY DEF Digits
<1>1. call \in CallType /\ call.tried < Count /\ Count \in Nat
  BY InvariantParts DEF CallFits, ScanInRange
<1>2. call.tried \in Nat /\ call.filtered \in Nat /\ call.filtered < FilterBudget /\ FilterBudget \in Nat
  BY <1>1, CallFields, RawAssumptions
<1>3. Major \in Nat /\ Reads \in 1..FilterBudget /\ Blocks \in {0, 1}
  BY <1>1, <1>2 DEF Major, Reads, Blocks
<1>4. CallRank = RankOf(Major, Reads, Blocks)
  BY DEF CallRank, RankOf, Major, Reads, Blocks
<1>5. QED
  BY <1>3, <1>4

(* A call that goes on is nearer to its end. *)
LEMMA OnwardNearer ==
  ASSUME RawInvariant, Digits', Busy, Busy', Onward(call'), subscriptions' = subscriptions
  PROVE  CallRank' < CallRank
<1>1. /\ call.tried \in Nat /\ call.filtered \in Nat /\ call.filtered < FilterBudget
      /\ FilterBudget \in Nat /\ Count \in Nat /\ Count' = Count /\ call.socket \in {"primary", "udp"}
      /\ call.tried < Count
  BY InvariantParts, CallFields, RawAssumptions DEF CallFits, ScanInRange, Count
<1>2. /\ CallRank = RankOf(Major, Reads, Blocks)
      /\ Major \in Nat /\ Reads \in 1..FilterBudget /\ Blocks \in {0, 1}
  BY RankDigits DEF Digits
<1>3. /\ CallRank' = RankOf(Major', Reads', Blocks')
      /\ Major' \in Nat /\ Reads' \in 1..FilterBudget /\ Blocks' \in {0, 1}
  BY DEF Digits
<1>4. Major' < Major \/ (Major' = Major /\ Reads' < Reads)
  <2>1. call' # Idle
    BY IdleFacts DEF Busy
  <2>2. CASE call' = [kind |-> call.kind, tried |-> call.tried + 1, index |-> (call.index + 1) % Count,
                      filtered |-> 0, socket |-> "primary"]
    BY <1>1, <2>2 DEF Major
  <2>3. CASE /\ call.socket = "primary"
             /\ call' = [kind |-> call.kind, tried |-> call.tried, index |-> call.index,
                         filtered |-> 0, socket |-> "udp"]
    BY <1>1, <2>3 DEF Major
  <2>4. CASE call' = [kind |-> call.kind, tried |-> call.tried, index |-> call.index,
                      filtered |-> call.filtered + 1, socket |-> call.socket]
    BY <1>1, <2>4 DEF Major, Reads
  <2>5. QED
    BY <2>1, <2>2, <2>3, <2>4 DEF Onward
<1>5. QED
  BY <1>2, <1>3, <1>4, RankLess

(* Reading a block is nearer to the end of the call too. *)
LEMMA BlockNearer ==
  ASSUME RawInvariant, Digits', Busy, Busy', ReadBlock
  PROVE  CallRank' < CallRank
<1>1. /\ CallRank = RankOf(Major, Reads, Blocks)
      /\ Major \in Nat /\ Reads \in 1..FilterBudget /\ Blocks \in {0, 1}
  BY RankDigits DEF Digits
<1>2. /\ CallRank' = RankOf(Major', Reads', Blocks')
      /\ Major' \in Nat /\ Reads' \in 1..FilterBudget /\ Blocks' \in {0, 1}
  BY DEF Digits
<1>3. UNCHANGED <<call, subscriptions>> /\ Socket.block = <<>> /\ sockets'[Current.id].block # <<>>
  BY ReadBlockFacts DEF Unmoved
<1>4. Major' = Major /\ Reads' = Reads
  BY <1>3 DEF Major, Reads, Count
<1>5. Blocks = 1 /\ Blocks' = 0
  <2>1. Current' = Current
    BY <1>3 DEF Current, At
  <2>2. Socket' = sockets'[Current.id]
    BY <2>1 DEF Socket
  <2>3. QED
    BY <1>3, <2>2 DEF Blocks
<1>6. QED
  BY <1>1, <1>2, <1>4, <1>5, RankLess

(* A frame that arrives is no step of the call. *)
LEMMA ArrivalNoStep ==
  ASSUME RawInvariant, Busy, NEW f \in DOMAIN Frames, NEW index \in Indexes, FrameArrives(f, index)
  PROVE  ~Stepped
<1>1. /\ UNCHANGED <<call, subscriptions>>
      /\ \A id \in DOMAIN sockets : \/ sockets'[id] = sockets[id]
                                    \/ sockets'[id] = Captured(sockets[id], f)
  BY FrameArrivesFacts DEF Unmoved
<1>2. Socket' = sockets'[Current.id]
  BY <1>1 DEF Socket, Current, At
<1>3. /\ Current.id \in DOMAIN sockets /\ Socket = sockets[Current.id]
      /\ Socket \in SocketType(Socket.members)
  BY CurrentFacts
<1>4. Socket' = Socket \/ Socket' = Captured(Socket, f)
  BY <1>1, <1>2, <1>3
<1>5. /\ Socket.queue.primary \in Seq(DOMAIN Frames) /\ Socket.queue.udp \in Seq(DOMAIN Frames)
  BY <1>3, SocketFacts
<1>6. CASE Socket' = Socket
  BY <1>1, <1>5, <1>6 DEF Stepped
<1>7. CASE Socket' = Captured(Socket, f)
  <2>1. PICK queue \in QueueType : /\ Captured(Socket, f) = Refilled(Socket, queue, Socket.block)
                                   /\ Len(queue.primary) >= Len(Socket.queue.primary)
                                   /\ Len(queue.udp) >= Len(Socket.queue.udp)
    BY <1>3, CapturedType
  <2>2. Socket.block \in Seq(DOMAIN Frames)
    BY <1>3, SocketFacts
  <2>3. Socket'.block = Socket.block /\ Socket'.queue = queue
    BY <1>3, <1>7, <2>1, <2>2, RefilledType
  <2>4. queue.primary \in Seq(DOMAIN Frames) /\ queue.udp \in Seq(DOMAIN Frames)
    BY DEF QueueType
  <2>5. ~(Len(queue.primary) < Len(Socket.queue.primary)) /\ ~(Len(queue.udp) < Len(Socket.queue.udp))
    BY <1>5, <2>1, <2>4
  <2>6. ASSUME NEW part \in {"primary", "udp"}
        PROVE  ~(Len(Socket'.queue[part]) < Len(Socket.queue[part]))
    BY <2>3, <2>5
  <2>7. QED
    BY <1>1, <2>3, <2>6 DEF Stepped
<1>8. QED
  BY <1>4, <1>6, <1>7

(* Every step of a receive call brings its end nearer, however many frames *)
(* arrive meanwhile: no call reads for ever, on any of the platforms.      *)
THEOREM ReceiveProgressesAlways == Spec => ReceiveProgresses
<1>1. RawInvariant => Digits
  BY RankDigits
<1>2. ASSUME RawInvariant, Digits', Next, Busy, Busy', Stepped
      PROVE  CallRank' < CallRank
  <2>1. ASSUME SkipUnjoined \/ WouldBlock \/ ReceiveFails PROVE CallRank' < CallRank
    <3>1. Onward(call') /\ subscriptions' = subscriptions
      BY <1>2, <2>1, UnreadFacts DEF Unmoved
    <3>2. QED
      BY <1>2, <3>1, OnwardNearer
  <2>2. ASSUME ReadDatagram PROVE CallRank' < CallRank
    <3>1. Onward(call') /\ subscriptions' = subscriptions
      BY <1>2, <2>2, ReadDatagramFacts DEF Unmoved
    <3>2. QED
      BY <1>2, <3>1, OnwardNearer
  <2>3. ASSUME SearchBlock PROVE CallRank' < CallRank
    <3>1. Onward(call') /\ subscriptions' = subscriptions
      BY <1>2, <2>3, SearchBlockFacts DEF Unmoved
    <3>2. QED
      BY <1>2, <3>1, OnwardNearer
  <2>4. ASSUME ReadBlock PROVE CallRank' < CallRank
    BY <1>2, <2>4, BlockNearer
  <2>5. ASSUME NEW f \in DOMAIN Frames, NEW index \in Indexes, FrameArrives(f, index) PROVE FALSE
    BY <1>2, <2>5, ArrivalNoStep
  <2>6. \/ SkipUnjoined \/ WouldBlock \/ ReceiveFails \/ ReadDatagram \/ SearchBlock \/ ReadBlock
        \/ \E f \in DOMAIN Frames, index \in Indexes : FrameArrives(f, index)
    BY <1>2 DEF Next, Receive, AddSubscription, RemoveSubscription, JoinSubscription, JoinFails,
                LeaveSubscription, TryRecv, TryRecvAny, AddressMoves
  <2>7. QED
    BY <2>1, <2>2, <2>3, <2>4, <2>5, <2>6
<1>3. RawInvariant /\ Digits' /\ [Next]_vars
        => (Busy /\ Busy' /\ Stepped => CallRank' < CallRank) \/ UNCHANGED vars
  BY <1>2
<1>4. QED
  BY <1>1, <1>3, InvariantAlways, PTL DEF Spec, ReceiveProgresses

-----------------------------------------------------------------------------
(* What is owed of a sequence of frames. *)

Contents == {Content(Frames[f]) : f \in DOMAIN Frames}

AskedFor(c, f, class) == WantedTable[c][f] /\ Frames[f].protocol \in class
ContentsOf(frames) == [k \in DOMAIN frames |-> Content(Frames[frames[k]])]
OwedAt(frames, c, class) == {k \in DOMAIN frames : AskedFor(c, frames[k], class)}

(* Owed, as a selection of contents. *)
LEMMA OwedFacts ==
  ASSUME NEW frames \in Seq(DOMAIN Frames), NEW c, NEW class
  PROVE  /\ Owed(frames, c, class) = Picked(ContentsOf(frames), OwedAt(frames, c, class))
         /\ ContentsOf(frames) \in Seq(Contents) /\ Len(ContentsOf(frames)) = Len(frames)
         /\ Len(frames) \in Nat /\ DOMAIN frames = 1..Len(frames)
         /\ DOMAIN ContentsOf(frames) = DOMAIN frames
         /\ \A k \in 1..Len(frames) : /\ frames[k] \in DOMAIN Frames
                                      /\ ContentsOf(frames)[k] = Content(Frames[frames[k]])
         /\ OwedAt(frames, c, class) \in SUBSET DOMAIN ContentsOf(frames)
         /\ Owed(frames, c, class) \in Seq(Contents)
<1>1. /\ Len(frames) \in Nat /\ DOMAIN frames = 1..Len(frames)
      /\ \A k \in 1..Len(frames) : frames[k] \in DOMAIN Frames
  OBVIOUS
<1>2. /\ DOMAIN ContentsOf(frames) = DOMAIN frames
      /\ \A k \in 1..Len(frames) : ContentsOf(frames)[k] = Content(Frames[frames[k]])
  BY <1>1 DEF ContentsOf
<1>3. ContentsOf(frames) \in [1..Len(frames) -> Contents]
  BY <1>1 DEF ContentsOf, Contents
<1>4. ContentsOf(frames) \in Seq(Contents) /\ Len(ContentsOf(frames)) = Len(frames)
  BY <1>1, <1>3
<1>5. OwedAt(frames, c, class) \in SUBSET DOMAIN ContentsOf(frames)
  BY <1>2 DEF OwedAt
<1>6. Owed(frames, c, class) = Picked(ContentsOf(frames), OwedAt(frames, c, class))
  BY DEF Owed, ContentsOf, OwedAt, AskedFor
<1>7. Picked(ContentsOf(frames), OwedAt(frames, c, class)) \in Seq(Contents)
  BY <1>4, <1>5, PickedFacts
<1>8. QED
  BY <1>1, <1>2, <1>4, <1>5, <1>6, <1>7

(* A frame more: if it is wanted, its content is owed last.                *)
LEMMA OwedGrows ==
  ASSUME NEW frames \in Seq(DOMAIN Frames), NEW f \in DOMAIN Frames, NEW c, NEW class
  PROVE  Owed(Append(frames, f), c, class) =
           IF AskedFor(c, f, class) THEN Append(Owed(frames, c, class), Content(Frames[f]))
                                ELSE Owed(frames, c, class)
<1>1. PICK more, s, t, K, L :
        /\ more = Append(frames, f) /\ s = ContentsOf(frames) /\ t = ContentsOf(more)
        /\ K = OwedAt(frames, c, class) /\ L = OwedAt(more, c, class)
  OBVIOUS
<1>2. /\ more \in Seq(DOMAIN Frames) /\ Len(frames) \in Nat /\ Len(more) = Len(frames) + 1
      /\ DOMAIN frames = 1..Len(frames) /\ DOMAIN more = 1..(Len(frames) + 1)
      /\ more[Len(frames) + 1] = f /\ \A k \in 1..Len(frames) : more[k] = frames[k]
  BY <1>1
<1>3. /\ s \in Seq(Contents) /\ Len(s) = Len(frames) /\ DOMAIN s = DOMAIN frames
      /\ t \in Seq(Contents) /\ Len(t) = Len(more)
      /\ K \in SUBSET DOMAIN s
      /\ Owed(frames, c, class) = Picked(s, K) /\ Owed(more, c, class) = Picked(t, L)
      /\ \A k \in 1..Len(frames) : s[k] = Content(Frames[frames[k]])
      /\ \A k \in 1..Len(more) : t[k] = Content(Frames[more[k]])
  BY <1>1, <1>2, OwedFacts
<1>4. t = Append(s, Content(Frames[f])) /\ Content(Frames[f]) \in Contents
  <2>1. Content(Frames[f]) \in Contents
    BY DEF Contents
  <2>2. PICK u : u = Append(s, Content(Frames[f]))
    OBVIOUS
  <2>3. /\ u \in Seq(Contents) /\ Len(u) = Len(frames) + 1
        /\ u[Len(frames) + 1] = Content(Frames[f])
        /\ \A k \in 1..Len(frames) : u[k] = s[k]
    BY <1>3, <2>1, <2>2
  <2>4. \A k \in 1..(Len(frames) + 1) : k \in 1..Len(frames) \/ k = Len(frames) + 1
    BY <1>2
  <2>5. \A k \in 1..(Len(frames) + 1) : t[k] = u[k]
    BY <1>2, <1>3, <2>3, <2>4
  <2>6. t = u
    BY <1>2, <1>3, <2>3, <2>5, SeqEqual
  <2>7. QED
    BY <2>1, <2>2, <2>6
<1>5. \A k : k \in L <=> k \in K \/ (k = Len(s) + 1 /\ AskedFor(c, f, class))
  BY <1>1, <1>2, <1>3 DEF OwedAt
<1>6. CASE AskedFor(c, f, class)
  <2>1. L = K \cup {Len(s) + 1}
    BY <1>5, <1>6
  <2>2. Picked(t, L) = Append(Picked(s, K), Content(Frames[f]))
    <3>1. Grows(Contents, s, K, Content(Frames[f]), L)
      BY <1>3, <1>4, <2>1 DEF Grows
    <3>2. QED
      BY <1>4, <3>1, PickedGrows
  <2>3. QED
    BY <1>1, <1>3, <1>6, <2>2
<1>7. CASE ~AskedFor(c, f, class)
  <2>1. L = K
    BY <1>5, <1>7
  <2>2. Picked(t, K) = Picked(s, K)
    <3>1. Grows(Contents, s, K, Content(Frames[f]), K \cup {Len(s) + 1})
      BY <1>3, <1>4 DEF Grows
    <3>2. QED
      BY <1>4, <3>1, PickedGrows
  <2>3. QED
    BY <1>1, <1>3, <1>7, <2>1, <2>2
<1>8. QED
  BY <1>6, <1>7

(* The positions M of K behind the n-th. *)
Behind(frames, n, K, M) ==
  n \in 0..Len(frames) /\ M \subseteq K /\ \A k \in K : k \in M <=> n < k

(* What is owed of the frames behind the n-th. *)
LEMMA OwedBehind ==
  ASSUME NEW frames \in Seq(DOMAIN Frames), NEW n, NEW c, NEW class, NEW K, NEW M,
         K = OwedAt(frames, c, class), Behind(frames, n, K, M)
  PROVE  Owed(SubSeq(frames, n + 1, Len(frames)), c, class) = Picked(ContentsOf(frames), M)
<1>0. n \in 0..Len(frames) /\ M \subseteq K /\ \A k \in K : k \in M <=> n < k
  BY DEF Behind
<1>1. PICK rest, s, t, L :
        /\ rest = SubSeq(frames, n + 1, Len(frames))
        /\ s = ContentsOf(frames) /\ t = ContentsOf(rest) /\ L = OwedAt(rest, c, class)
  OBVIOUS
<1>2. /\ s \in Seq(Contents) /\ Len(s) = Len(frames) /\ DOMAIN s = DOMAIN frames
      /\ DOMAIN frames = 1..Len(frames)
      /\ K \in SUBSET DOMAIN s
      /\ \A k \in 1..Len(frames) : s[k] = Content(Frames[frames[k]])
  BY <1>1, OwedFacts
<1>3. Len(frames) \in Nat /\ n \in Nat /\ n <= Len(frames)
  BY <1>0
<1>4. /\ rest \in Seq(DOMAIN Frames) /\ Len(rest) = Len(frames) - n
      /\ \A i \in 1..(Len(frames) - n) : rest[i] = frames[i + n]
  <2>1. /\ SubSeq(frames, n + 1, Len(frames)) \in Seq(DOMAIN Frames)
        /\ Len(SubSeq(frames, n + 1, Len(frames))) = Len(frames) - n
        /\ \A i \in 1..(Len(frames) - n) : SubSeq(frames, n + 1, Len(frames))[i] = frames[i + n]
    BY <1>0, SuffixFacts
  <2>2. QED
    BY <1>1, <2>1
<1>5. /\ t \in Seq(Contents) /\ Len(t) = Len(rest) /\ DOMAIN rest = 1..Len(rest)
      /\ \A i \in 1..Len(rest) : t[i] = Content(Frames[rest[i]])
      /\ Owed(rest, c, class) = Picked(t, L)
  BY <1>1, <1>4, OwedFacts
<1>6. t = SubSeq(s, n + 1, Len(s))
  <2>1. PICK u : u = SubSeq(s, n + 1, Len(s))
    OBVIOUS
  <2>2. n \in 0..Len(s)
    BY <1>0, <1>2
  <2>3. /\ u \in Seq(Contents) /\ Len(u) = Len(s) - n
        /\ \A i \in 1..(Len(s) - n) : u[i] = s[i + n]
    <3>1. s \in Seq(Contents)
      BY <1>2
    <3>2. /\ SubSeq(s, n + 1, Len(s)) \in Seq(Contents)
          /\ Len(SubSeq(s, n + 1, Len(s))) = Len(s) - n
          /\ \A i \in 1..(Len(s) - n) : SubSeq(s, n + 1, Len(s))[i] = s[i + n]
      BY <2>2, <3>1, SuffixFacts
    <3>3. QED
      BY <2>1, <3>2
  <2>4. Len(u) = Len(frames) - n /\ Len(t) = Len(frames) - n
    BY <1>2, <1>4, <1>5, <2>3
  <2>5. ASSUME NEW i \in 1..(Len(frames) - n)
        PROVE  t[i] = u[i]
    <3>1. i + n \in 1..Len(frames)
      BY <1>3
    <3>2. t[i] = Content(Frames[frames[i + n]])
      BY <1>4, <1>5
    <3>3. s[i + n] = Content(Frames[frames[i + n]])
      BY <1>2, <3>1
    <3>4. u[i] = s[i + n]
      BY <1>2, <2>3
    <3>5. QED
      BY <3>2, <3>3, <3>4
  <2>6. t = u
    BY <1>5, <2>3, <2>4, <2>5, SeqEqual
  <2>7. QED
    BY <2>1, <2>6
<1>7. Shifted(s, M, n, L)
  <2>1. L \in SUBSET Int
    BY <1>1, <1>5 DEF OwedAt
  <2>2. n \in 0..Len(s) /\ \A k \in M : n < k
    BY <1>0, <1>2
  <2>3. ASSUME NEW l \in Int
        PROVE  l \in L <=> l + n \in M
    <3>1. l \in L <=> l \in 1..(Len(frames) - n) /\ AskedFor(c, rest[l], class)
      BY <1>1, <1>4, <1>5 DEF OwedAt
    <3>2. l + n \in M <=> l + n \in K /\ n < l + n
      BY <1>0
    <3>3. l + n \in K <=> l + n \in 1..Len(frames) /\ AskedFor(c, frames[l + n], class)
      BY <1>2 DEF OwedAt
    <3>4. l + n \in 1..Len(frames) /\ n < l + n <=> l \in 1..(Len(frames) - n)
      BY <1>3
    <3>5. l \in 1..(Len(frames) - n) => rest[l] = frames[l + n]
      BY <1>4
    <3>6. QED
      BY <3>1, <3>2, <3>3, <3>4, <3>5
  <2>4. QED
    BY <2>1, <2>2, <2>3 DEF Shifted
<1>8. M \in SUBSET DOMAIN s
  BY <1>0, <1>2
<1>9. Picked(SubSeq(s, n + 1, Len(s)), L) = Picked(s, M)
  BY <1>2, <1>7, <1>8, PickedShrinks
<1>10. QED
  BY <1>1, <1>5, <1>6, <1>9

(* Frames that are not wanted leave what is owed as it is. *)
LEMMA OwedDrops ==
  ASSUME NEW frames \in Seq(DOMAIN Frames), NEW n \in 0..Len(frames), NEW c, NEW class,
         \A k \in 1..n : ~AskedFor(c, frames[k], class)
  PROVE  Owed(SubSeq(frames, n + 1, Len(frames)), c, class) = Owed(frames, c, class)
<1>1. PICK K : K = OwedAt(frames, c, class)
  OBVIOUS
<1>2. Owed(frames, c, class) = Picked(ContentsOf(frames), K)
  BY <1>1, OwedFacts
<1>3. ASSUME NEW k \in K
      PROVE  n < k
  <2>1. k \in 1..Len(frames) /\ AskedFor(c, frames[k], class)
    BY <1>1, OwedFacts DEF OwedAt
  <2>2. n \in Nat /\ k \in Nat /\ k > 0 /\ ~(k \in 1..n)
    BY <2>1
  <2>3. QED
    BY <2>2
<1>4. Behind(frames, n, K, K)
  BY <1>3 DEF Behind
<1>5. Owed(SubSeq(frames, n + 1, Len(frames)), c, class) = Picked(ContentsOf(frames), K)
  BY <1>1, <1>4, OwedBehind
<1>6. QED
  BY <1>2, <1>5

(* The first wanted frame, and what is owed of the frames behind it.       *)
LEMMA OwedTaken ==
  ASSUME NEW frames \in Seq(DOMAIN Frames), NEW n \in 1..Len(frames), NEW c, NEW class,
         AskedFor(c, frames[n], class), \A k \in 1..(n - 1) : ~AskedFor(c, frames[k], class)
  PROVE  Owed(frames, c, class) =
           <<Content(Frames[frames[n]])>> \o Owed(SubSeq(frames, n + 1, Len(frames)), c, class)
<1>1. PICK K, M, s :
        K = OwedAt(frames, c, class) /\ M = K \ {n} /\ s = ContentsOf(frames)
  OBVIOUS
<1>2. /\ s \in Seq(Contents) /\ K \in SUBSET DOMAIN s /\ Owed(frames, c, class) = Picked(s, K)
      /\ s[n] = Content(Frames[frames[n]]) /\ DOMAIN frames = 1..Len(frames) /\ Len(frames) \in Nat
  BY <1>1, OwedFacts
<1>3. n \in K /\ n \in Nat /\ n \in 0..Len(frames)
  BY <1>1, <1>2 DEF OwedAt
<1>4. ASSUME NEW k \in K
      PROVE  n <= k /\ (k # n <=> n < k)
  <2>1. k \in 1..Len(frames) /\ AskedFor(c, frames[k], class)
    BY <1>1, <1>2 DEF OwedAt
  <2>2. k \in Nat /\ ~(k \in 1..(n - 1)) /\ k >= 1
    BY <2>1
  <2>3. QED
    BY <1>3, <2>2
<1>5. Picked(s, K) = <<s[n]>> \o Picked(s, M)
  <2>1. s \in Seq(Contents) /\ K \in SUBSET DOMAIN s /\ n \in K
    BY <1>2, <1>3
  <2>2. \A k \in K : n <= k
    BY <1>4
  <2>3. Picked(s, K) = <<s[n]>> \o Picked(s, K \ {n})
    BY ZenonT(40), <2>1, <2>2, PickedFirst
  <2>4. QED
    BY <1>1, <2>3
<1>6. Behind(frames, n, K, M)
  BY <1>1, <1>3, <1>4 DEF Behind
<1>7. Owed(SubSeq(frames, n + 1, Len(frames)), c, class) = Picked(s, M)
  BY <1>1, <1>6, OwedBehind
<1>8. QED
  BY <1>2, <1>5, <1>7

(* A packet more: it counts if it is of the class. *)
LEMMA OfClassGrows ==
  ASSUME NEW packets \in Seq(Contents), NEW x \in Contents, NEW class
  PROVE  /\ OfClass(packets, class) \in Seq(Contents)
         /\ OfClass(Append(packets, x), class) =
              IF x.protocol \in class THEN Append(OfClass(packets, class), x)
                                      ELSE OfClass(packets, class)
<1>1. PICK more, K, L :
        /\ more = Append(packets, x)
        /\ K = {k \in DOMAIN packets : packets[k].protocol \in class}
        /\ L = {k \in DOMAIN more : more[k].protocol \in class}
  OBVIOUS
<1>2. /\ Len(packets) \in Nat /\ DOMAIN packets = 1..Len(packets)
      /\ DOMAIN more = 1..(Len(packets) + 1) /\ more[Len(packets) + 1] = x
      /\ \A k \in 1..Len(packets) : more[k] = packets[k]
      /\ K \in SUBSET DOMAIN packets
  BY <1>1
<1>3. OfClass(packets, class) = Picked(packets, K) /\ OfClass(more, class) = Picked(more, L)
  BY <1>1 DEF OfClass
<1>4. Picked(packets, K) \in Seq(Contents)
  BY <1>2, PickedFacts
<1>5. \A k : k \in L <=> k \in K \/ (k = Len(packets) + 1 /\ x.protocol \in class)
  BY <1>1, <1>2
<1>6. /\ Picked(more, K) = Picked(packets, K)
      /\ Picked(more, K \cup {Len(packets) + 1}) = Append(Picked(packets, K), x)
  <2>1. PICK M : M = K \cup {Len(packets) + 1}
    OBVIOUS
  <2>2. Grows(Contents, packets, K, x, M)
    BY <1>2, <2>1 DEF Grows
  <2>3. /\ Picked(Append(packets, x), K) = Picked(packets, K)
        /\ Picked(Append(packets, x), M) = Append(Picked(packets, K), x)
    BY <2>2, PickedGrows
  <2>4. QED
    BY <1>1, <2>1, <2>3
<1>7. CASE x.protocol \in class
  <2>1. L = K \cup {Len(packets) + 1}
    BY <1>5, <1>7
  <2>2. QED
    BY <1>1, <1>3, <1>4, <1>6, <1>7, <2>1
<1>8. CASE x.protocol \notin class
  <2>1. L = K
    BY <1>5, <1>8
  <2>2. QED
    BY <1>1, <1>3, <1>4, <1>6, <1>8, <2>1
<1>9. QED
  BY <1>7, <1>8

(* Of nothing, nothing is of a class and nothing is owed. *)
LEMMA NothingOwed ==
  ASSUME NEW c, NEW class
  PROVE  OfClass(<<>>, class) = <<>> /\ Owed(<<>>, c, class) = <<>>
<1>1. DOMAIN <<>> = {}
  OBVIOUS
<1>2. PICK none : none = <<>>
  OBVIOUS
<1>3. {k \in DOMAIN none : none[k].protocol \in class} = {}
  BY <1>1, <1>2
<1>4. OfClass(none, class) = <<>>
  BY <1>3, PickedNone DEF OfClass
<1>5. OwedAt(none, c, class) = {}
  BY <1>1, <1>2 DEF OwedAt
<1>6. none \in Seq(DOMAIN Frames)
  BY <1>2
<1>7. Owed(none, c, class) = <<>>
  BY <1>5, <1>6, OwedFacts, PickedNone
<1>8. QED
  BY <1>2, <1>4, <1>7

(* Concatenation and single elements. *)
LEMMA ConcatFacts ==
  ASSUME NEW S, NEW v \in Seq(S), NEW w \in Seq(S), NEW d \in S
  PROVE  /\ <<>> \o w = w
         /\ v \o Append(w, d) = Append(v \o w, d)
         /\ Append(v, d) \o w = v \o (<<d>> \o w)
<1>1. <<>> \o w = w
  BY ConcatEmptySeq
<1>2. v \o w \in Seq(S) /\ <<d>> \in Seq(S)
  BY ConcatProperties
<1>3. Append(w, d) = w \o <<d>> /\ Append(v, d) = v \o <<d>> /\ Append(v \o w, d) = (v \o w) \o <<d>>
  BY <1>2, AppendIsConcat
<1>4. (v \o w) \o <<d>> = v \o (w \o <<d>>)
  BY <1>2, ConcatAssociative
<1>5. (v \o <<d>>) \o w = v \o (<<d>> \o w)
  BY <1>2, ConcatAssociative
<1>6. QED
  BY <1>1, <1>3, <1>4, <1>5

-----------------------------------------------------------------------------
(* The account of a socket: what came is what was handed out and what is   *)
(* still owed of the frames that wait.                                     *)
Balanced(out, waiting, c, class, came) ==
  OfClass(out, class) \o Owed(waiting, c, class) = OfClass(came, class)

(* No frame has come. *)
LEMMA BalancedAtFirst ==
  ASSUME NEW c, NEW class
  PROVE  Balanced(<<>>, <<>>, c, class, <<>>)
<1>1. <<>> \in Seq(Contents)
  OBVIOUS
<1>2. <<>> \o <<>> = <<>>
  OBVIOUS
<1>3. QED
  BY <1>2, NothingOwed DEF Balanced

(* A frame arrives that is owed. *)
LEMMA BalancedArrival ==
  ASSUME NEW out \in Seq(Contents), NEW waiting \in Seq(DOMAIN Frames), NEW came \in Seq(Contents),
         NEW c, NEW class, NEW f \in DOMAIN Frames,
         Balanced(out, waiting, c, class, came), AskedFor(c, f, class)
  PROVE  Balanced(out, Append(waiting, f), c, class, Append(came, Content(Frames[f])))
<1>1. PICK d, v, w :
        d = Content(Frames[f]) /\ v = OfClass(out, class) /\ w = Owed(waiting, c, class)
  OBVIOUS
<1>2. d \in Contents /\ d.protocol \in class
  BY <1>1 DEF Contents, Content, AskedFor
<1>3. v \in Seq(Contents) /\ w \in Seq(Contents)
  <2>1. v \in Seq(Contents)
    BY <1>1, <1>2, OfClassGrows
  <2>2. w \in Seq(Contents)
    BY <1>1, OwedFacts
  <2>3. QED
    BY <2>1, <2>2
<1>4. Owed(Append(waiting, f), c, class) = Append(w, d)
  BY <1>1, OwedGrows
<1>5. OfClass(Append(came, d), class) = Append(OfClass(came, class), d)
  BY <1>2, OfClassGrows
<1>6. v \o Append(w, d) = Append(v \o w, d)
  BY <1>2, <1>3, ConcatFacts
<1>7. v \o w = OfClass(came, class)
  BY <1>1 DEF Balanced
<1>8. v \o Append(w, d) = OfClass(Append(came, d), class)
  BY <1>5, <1>6, <1>7
<1>9. QED
  BY <1>1, <1>4, <1>8 DEF Balanced

(* A frame arrives that is not owed. *)
LEMMA BalancedOther ==
  ASSUME NEW out \in Seq(Contents), NEW waiting \in Seq(DOMAIN Frames), NEW came \in Seq(Contents),
         NEW c, NEW class, NEW f \in DOMAIN Frames,
         Balanced(out, waiting, c, class, came), ~AskedFor(c, f, class)
  PROVE  Balanced(out, Append(waiting, f), c, class, came)
BY OwedGrows DEF Balanced

(* What comes of another class does not count. *)
LEMMA BalancedAside ==
  ASSUME NEW out \in Seq(Contents), NEW waiting, NEW came \in Seq(Contents),
         NEW c, NEW class, NEW x \in Contents,
         Balanced(out, waiting, c, class, came), x.protocol \notin class
  PROVE  /\ Balanced(out, waiting, c, class, Append(came, x))
         /\ Balanced(Append(out, x), waiting, c, class, came)
BY OfClassGrows DEF Balanced

(* Frames that are not owed are dropped. *)
LEMMA BalancedDrop ==
  ASSUME NEW out, NEW waiting \in Seq(DOMAIN Frames), NEW came, NEW c, NEW class,
         NEW n \in 0..Len(waiting), Balanced(out, waiting, c, class, came),
         \A k \in 1..n : ~AskedFor(c, waiting[k], class)
  PROVE  Balanced(out, SubSeq(waiting, n + 1, Len(waiting)), c, class, came)
BY OwedDrops DEF Balanced

(* The first frame that is owed is handed out. *)
LEMMA BalancedDelivery ==
  ASSUME NEW out \in Seq(Contents), NEW waiting \in Seq(DOMAIN Frames), NEW came, NEW c, NEW class,
         NEW n \in 1..Len(waiting), Balanced(out, waiting, c, class, came),
         AskedFor(c, waiting[n], class), \A k \in 1..(n - 1) : ~AskedFor(c, waiting[k], class)
  PROVE  Balanced(Append(out, Content(Frames[waiting[n]])), SubSeq(waiting, n + 1, Len(waiting)),
                  c, class, came)
<1>1. PICK d, v, w, rest :
        /\ d = Content(Frames[waiting[n]]) /\ v = OfClass(out, class)
        /\ rest = SubSeq(waiting, n + 1, Len(waiting)) /\ w = Owed(rest, c, class)
  OBVIOUS
<1>2. d \in Contents /\ d.protocol \in class
  <2>1. waiting[n] \in DOMAIN Frames
    OBVIOUS
  <2>2. QED
    BY <1>1, <2>1 DEF Contents, Content, AskedFor
<1>3. v \in Seq(Contents) /\ w \in Seq(Contents)
  <2>1. v \in Seq(Contents)
    BY <1>1, <1>2, OfClassGrows
  <2>2. n \in 0..Len(waiting)
    OBVIOUS
  <2>3. rest \in Seq(DOMAIN Frames)
    BY <1>1, <2>2, SuffixFacts
  <2>4. w \in Seq(Contents)
    BY <1>1, <2>3, OwedFacts
  <2>5. QED
    BY <2>1, <2>4
<1>4. Owed(waiting, c, class) = <<d>> \o w
  BY <1>1, OwedTaken
<1>5. OfClass(Append(out, d), class) = Append(v, d)
  BY <1>1, <1>2, OfClassGrows
<1>6. Append(v, d) \o w = v \o (<<d>> \o w)
  BY SMTT(20), <1>2, <1>3, ConcatFacts
<1>7. v \o (<<d>> \o w) = OfClass(came, class)
  BY <1>1, <1>4 DEF Balanced
<1>8. QED
  BY <1>1, <1>5, <1>6, <1>7 DEF Balanced

(* A frame arrives, may be added to what waits and may count as due: if it *)
(* is owed it must be both, and if it is due but not owed it is of another *)
(* class.                                                                  *)
LEMMA ArrivalBalanced ==
  ASSUME NEW out \in Seq(Contents), NEW waiting \in Seq(DOMAIN Frames), NEW came \in Seq(Contents),
         NEW c, NEW class, NEW f \in DOMAIN Frames, NEW added \in BOOLEAN, NEW due \in BOOLEAN,
         Balanced(out, waiting, c, class, came),
         AskedFor(c, f, class) => added /\ due,
         due /\ ~AskedFor(c, f, class) => Frames[f].protocol \notin class
  PROVE  Balanced(out, AddIf(added, waiting, f), c, class,
                  IF due THEN Append(came, Content(Frames[f])) ELSE came)
<1>1. Content(Frames[f]) \in Contents /\ Content(Frames[f]).protocol = Frames[f].protocol
  BY DEF Contents, Content
<1>2. CASE AskedFor(c, f, class)
  <2>1. Balanced(out, Append(waiting, f), c, class, Append(came, Content(Frames[f])))
    BY <1>2, BalancedArrival
  <2>2. QED
    BY <1>2, <2>1 DEF AddIf
<1>3. CASE ~AskedFor(c, f, class)
  <2>1. PICK more : more = AddIf(added, waiting, f)
    OBVIOUS
  <2>2. Balanced(out, Append(waiting, f), c, class, came)
    BY <1>3, BalancedOther
  <2>3. Balanced(out, more, c, class, came)
    BY <2>1, <2>2 DEF AddIf
  <2>4. CASE due
    <3>1. Balanced(out, more, c, class, Append(came, Content(Frames[f])))
      BY <1>1, <1>3, <2>3, <2>4, BalancedAside
    <3>2. QED
      BY <2>1, <2>4, <3>1
  <2>5. CASE ~due
    BY <2>1, <2>3, <2>5
  <2>6. QED
    BY <2>4, <2>5
<1>4. QED
  BY <1>2, <1>3

(* The first frame that waits is read: handed out if it is owed, dropped   *)
(* if not.                                                                 *)
LEMMA ReadBalanced ==
  ASSUME NEW out \in Seq(Contents), NEW waiting \in Seq(DOMAIN Frames), waiting # <<>>, NEW came,
         NEW c, NEW class, NEW f, f = Head(waiting),
         Balanced(out, waiting, c, class, came)
  PROVE  /\ AskedFor(c, f, class) =>
              Balanced(Append(out, Content(Frames[f])), Tail(waiting), c, class, came)
         /\ ~AskedFor(c, f, class) => Balanced(out, Tail(waiting), c, class, came)
<1>1. Len(waiting) \in Nat /\ Len(waiting) # 0 /\ 1 \in 1..Len(waiting) /\ 1 \in 0..Len(waiting)
  OBVIOUS
<1>2. f = waiting[1] /\ Tail(waiting) = SubSeq(waiting, 1 + 1, Len(waiting))
  <2>1. f = waiting[1]
    BY <1>1
  <2>2. PICK t, u : t = Tail(waiting) /\ u = SubSeq(waiting, 1 + 1, Len(waiting))
    OBVIOUS
  <2>3. /\ u \in Seq(DOMAIN Frames) /\ Len(u) = Len(waiting) - 1
        /\ \A i \in 1..(Len(waiting) - 1) : u[i] = waiting[i + 1]
    BY <1>1, <2>2, SuffixFacts
  <2>4. /\ t \in Seq(DOMAIN Frames) /\ Len(t) = Len(waiting) - 1
        /\ \A i \in 1..(Len(waiting) - 1) : t[i] = waiting[i + 1]
    BY <1>1, <2>2
  <2>5. t = u
    BY <2>3, <2>4, SeqEqual
  <2>6. QED
    BY <2>1, <2>2, <2>5
<1>3. ASSUME AskedFor(c, f, class)
      PROVE  Balanced(Append(out, Content(Frames[f])), Tail(waiting), c, class, came)
  <2>1. PICK n : n = 1
    OBVIOUS
  <2>2. \A k \in 1..(n - 1) : ~AskedFor(c, waiting[k], class)
    BY <2>1
  <2>3. Balanced(Append(out, Content(Frames[waiting[n]])), SubSeq(waiting, n + 1, Len(waiting)),
                 c, class, came)
    BY <1>1, <1>2, <1>3, <2>1, <2>2, BalancedDelivery
  <2>4. QED
    BY <1>2, <2>1, <2>3
<1>4. ASSUME ~AskedFor(c, f, class)
      PROVE  Balanced(out, Tail(waiting), c, class, came)
  <2>1. PICK n : n = 1
    OBVIOUS
  <2>2. \A k \in 1..n : ~AskedFor(c, waiting[k], class)
    BY <1>2, <1>4, <2>1
  <2>3. Balanced(out, SubSeq(waiting, n + 1, Len(waiting)), c, class, came)
    BY <1>1, <2>1, <2>2, BalancedDrop
  <2>4. QED
    BY <1>2, <2>1, <2>3
<1>5. QED
  BY <1>3, <1>4

(* A block and the queue behind it. *)
LEMMA BlockFacts ==
  ASSUME NEW S, NEW block \in Seq(S), NEW queue \in Seq(S)
  PROVE  /\ block \o queue \in Seq(S)
         /\ Len(block) <= Len(block \o queue)
         /\ \A k \in 1..Len(block) : (block \o queue)[k] = block[k]
         /\ \A n \in 0..Len(block) :
              SubSeq(block, n + 1, Len(block)) \o queue
                = SubSeq(block \o queue, n + 1, Len(block \o queue))
<1>1. PICK all : all = block \o queue
  OBVIOUS
<1>2. /\ all \in Seq(S) /\ Len(all) = Len(block) + Len(queue)
      /\ Len(block) \in Nat /\ Len(queue) \in Nat
      /\ \A i \in 1..(Len(block) + Len(queue)) :
           all[i] = IF i <= Len(block) THEN block[i] ELSE queue[i - Len(block)]
  BY <1>1, ConcatProperties
<1>3. ASSUME NEW n \in 0..Len(block)
      PROVE  SubSeq(block, n + 1, Len(block)) \o queue = SubSeq(all, n + 1, Len(all))
  <2>1. PICK rest, t, u :
          /\ rest = SubSeq(block, n + 1, Len(block))
          /\ t = rest \o queue /\ u = SubSeq(all, n + 1, Len(all))
    OBVIOUS
  <2>2. n \in Nat /\ n <= Len(block) /\ n \in 0..Len(all)
    BY <1>2
  <2>3. /\ rest \in Seq(S) /\ Len(rest) = Len(block) - n
        /\ \A i \in 1..(Len(block) - n) : rest[i] = block[i + n]
    BY <2>1, SuffixFacts
  <2>4. /\ u \in Seq(S) /\ Len(u) = Len(all) - n
        /\ \A i \in 1..(Len(all) - n) : u[i] = all[i + n]
    BY <1>2, <2>1, <2>2, SuffixFacts
  <2>5. /\ t \in Seq(S) /\ Len(t) = Len(rest) + Len(queue)
        /\ \A i \in 1..(Len(rest) + Len(queue)) :
             t[i] = IF i <= Len(rest) THEN rest[i] ELSE queue[i - Len(rest)]
    BY <2>1, <2>3, ConcatProperties
  <2>6. Len(t) = Len(u)
    BY <1>2, <2>2, <2>3, <2>4, <2>5
  <2>7. ASSUME NEW i \in 1..Len(t)
        PROVE  t[i] = u[i]
    <3>1. /\ i \in Nat /\ i >= 1 /\ i \in 1..(Len(rest) + Len(queue)) /\ i \in 1..(Len(all) - n)
          /\ i + n \in 1..(Len(block) + Len(queue))
      BY <1>2, <2>2, <2>3, <2>4, <2>5, <2>6
    <3>2. CASE i <= Len(rest)
      <4>1. i \in 1..(Len(block) - n) /\ i + n <= Len(block)
        BY <1>2, <2>2, <2>3, <3>1, <3>2
      <4>2. QED
        BY <1>2, <2>3, <2>4, <2>5, <3>1, <3>2, <4>1
    <3>3. CASE ~(i <= Len(rest))
      <4>1. ~(i + n <= Len(block)) /\ i - Len(rest) = (i + n) - Len(block)
        BY <1>2, <2>2, <2>3, <3>1, <3>3
      <4>2. QED
        BY <1>2, <2>4, <2>5, <3>1, <3>3, <4>1
    <3>4. QED
      BY <3>2, <3>3
  <2>8. t = u
    BY <2>4, <2>5, <2>6, <2>7, SeqEqual
  <2>9. QED
    BY <2>1, <2>8
<1>4. Len(block) <= Len(all) /\ \A k \in 1..Len(block) : all[k] = block[k]
  BY <1>2
<1>5. QED
  BY <1>1, <1>2, <1>3, <1>4

(* A block that is read off the front of the queue is still in front. *)
LEMMA SplitFacts ==
  ASSUME NEW S, NEW queue \in Seq(S), NEW n \in 1..Len(queue)
  PROVE  /\ SubSeq(queue, 1, n) \in Seq(S)
         /\ SubSeq(queue, n + 1, Len(queue)) \in Seq(S)
         /\ SubSeq(queue, 1, n) \o SubSeq(queue, n + 1, Len(queue)) = queue
<1>1. PICK b, r, t :
        /\ b = SubSeq(queue, 1, n) /\ r = SubSeq(queue, n + 1, Len(queue)) /\ t = b \o r
  OBVIOUS
<1>2. Len(queue) \in Nat /\ n \in Nat /\ n >= 1 /\ n <= Len(queue) /\ n \in 0..Len(queue)
  OBVIOUS
<1>3. b \in Seq(S) /\ Len(b) = n /\ \A i \in 1..n : b[i] = queue[i]
  BY <1>1, <1>2
<1>4. /\ r \in Seq(S) /\ Len(r) = Len(queue) - n
      /\ \A i \in 1..(Len(queue) - n) : r[i] = queue[i + n]
  BY <1>1, <1>2, SuffixFacts
<1>5. /\ t \in Seq(S) /\ Len(t) = Len(b) + Len(r)
      /\ \A i \in 1..(Len(b) + Len(r)) : t[i] = IF i <= Len(b) THEN b[i] ELSE r[i - Len(b)]
  BY <1>1, <1>3, <1>4, ConcatProperties
<1>6. Len(t) = Len(queue)
  BY <1>2, <1>3, <1>4, <1>5
<1>7. ASSUME NEW i \in 1..Len(t)
      PROVE  t[i] = queue[i]
  <2>1. i \in Nat /\ i >= 1 /\ i <= Len(queue) /\ i \in 1..(Len(b) + Len(r))
    BY <1>2, <1>5, <1>6
  <2>2. CASE i <= n
    <3>1. i \in 1..n
      BY <2>1, <2>2, <1>2
    <3>2. QED
      BY <1>3, <1>5, <2>1, <2>2, <3>1
  <2>3. CASE ~(i <= n)
    <3>1. i - n \in 1..(Len(queue) - n) /\ (i - n) + n = i
      BY <1>2, <2>1, <2>3
    <3>2. QED
      BY <1>3, <1>4, <1>5, <2>1, <2>3, <3>1
  <2>4. QED
    BY <2>2, <2>3
<1>8. t = queue
  BY <1>5, <1>6, <1>7, SeqEqual
<1>9. QED
  BY <1>1, <1>3, <1>4, <1>8

-----------------------------------------------------------------------------
(* What reaches a socket is handed out. *)

(* A capture admits the wanted frames; only macOS reads blocks, only the   *)
(* UDP socket of Windows holds frames of its own.                          *)
CaptureSound(s) ==
  /\ LinkOf(s.bound) \in Links
  /\ platform # "macos" => s.block = <<>>
  /\ platform = "windows" => \A k \in DOMAIN s.queue.udp : Frames[s.queue.udp[k]].protocol = UDP
  /\ platform # "windows" =>
       /\ s.queue.udp = <<>>
       /\ \A f \in DOMAIN Frames : WantedTable[s.config][f] => f \in s.filter

Account(s, out, came) ==
  \A class \in Classes : Balanced(out, Queued(s, class), s.config, class, came)

Histories ==
  /\ arrived \in [Ids -> Seq(Contents)] /\ received \in [Ids -> Seq(Contents)]
  /\ \A id \in Ids \ DOMAIN sockets : arrived[id] = <<>> /\ received[id] = <<>>

(* Inductive together with RawInvariant. *)
Delivery ==
  /\ Histories
  /\ \A id \in DOMAIN sockets :
       CaptureSound(sockets[id]) /\ Account(sockets[id], received[id], arrived[id])

(* A socket of a subscription and its histories. *)
LEMMA DeliveryFacts ==
  ASSUME RawInvariant, Delivery, NEW id \in DOMAIN sockets
  PROVE  /\ id \in Ids /\ sockets[id] \in SocketType(sockets[id].members)
         /\ CaptureSound(sockets[id]) /\ Account(sockets[id], received[id], arrived[id])
         /\ arrived[id] \in Seq(Contents) /\ received[id] \in Seq(Contents)
         /\ sockets[id].config \in DOMAIN Configs
         /\ RawValidate(Configs[sockets[id].config]) /\ Suits(Configs[sockets[id].config])
<1>1. PICK i \in 1..Count : subscriptions[i].id = id
  BY InvariantParts
<1>2. id \in Ids /\ subscriptions[i].config \in DOMAIN Configs
  BY <1>1, InvariantParts
<1>3. /\ sockets[id].config = subscriptions[i].config
      /\ RawValidate(Configs[subscriptions[i].config]) /\ Suits(Configs[subscriptions[i].config])
  BY <1>1, InvariantParts DEF Stored
<1>4. sockets[id] \in SocketType(sockets[id].members)
  BY InvariantParts DEF TypeOK
<1>5. arrived[id] \in Seq(Contents) /\ received[id] \in Seq(Contents)
  BY <1>2 DEF Delivery, Histories
<1>6. QED
  BY <1>2, <1>3, <1>4, <1>5 DEF Delivery

(* What the invariant says of a socket depends on the platform alone. *)
LEMMA SamePlatform ==
  ASSUME platform' = platform, NEW s, NEW out, NEW came
  PROVE  /\ CaptureSound(s)' <=> CaptureSound(s)
         /\ Account(s, out, came)' <=> Account(s, out, came)
<1>1. Classes' = Classes /\ \A bound : LinkOf(bound)' = LinkOf(bound)
  BY DEF Classes, LinkOf
<1>2. QED
  BY <1>1 DEF CaptureSound, Account

(* Memberships and filters do not matter once a capture is open. *)
LEMMA SameCapture ==
  ASSUME NEW s, NEW t, t.config = s.config, t.bound = s.bound, t.filter = s.filter,
         t.queue = s.queue, t.block = s.block, NEW out, NEW came
  PROVE  /\ CaptureSound(s) => CaptureSound(t)
         /\ Account(s, out, came) => Account(t, out, came)
<1>1. \A class : Queued(t, class) = Queued(s, class)
  BY DEF Queued
<1>2. QED
  BY <1>1 DEF CaptureSound, Account

(* A step that neither brings nor takes a frame keeps every account. *)
LEMMA NoTraffic ==
  ASSUME Delivery, UNCHANGED <<platform, arrived, received>>, DOMAIN sockets' = DOMAIN sockets,
         \A id \in DOMAIN sockets :
           /\ sockets'[id].config = sockets[id].config /\ sockets'[id].bound = sockets[id].bound
           /\ sockets'[id].filter = sockets[id].filter /\ sockets'[id].queue = sockets[id].queue
           /\ sockets'[id].block = sockets[id].block
  PROVE  Delivery'
<1>1. Histories'
  BY DEF Delivery, Histories
<1>2. ASSUME NEW id \in DOMAIN sockets'
      PROVE  /\ CaptureSound(sockets[id])'
             /\ Account(sockets[id], received[id], arrived[id])'
  <2>1. PICK s, t, out, came :
          s = sockets[id] /\ t = sockets'[id] /\ out = received[id] /\ came = arrived[id]
    OBVIOUS
  <2>2. CaptureSound(s) /\ Account(s, out, came)
    BY <1>2, <2>1 DEF Delivery
  <2>3. /\ t.config = s.config /\ t.bound = s.bound /\ t.filter = s.filter
        /\ t.queue = s.queue /\ t.block = s.block
    BY <1>2, <2>1
  <2>4. CaptureSound(t) /\ Account(t, out, came)
    BY <2>2, <2>3, SameCapture
  <2>5. CaptureSound(t)' /\ Account(t, out, came)'
    BY <2>4, SamePlatform
  <2>6. received'[id] = out /\ arrived'[id] = came
    BY <2>1
  <2>7. QED
    BY <2>1, <2>5, <2>6 DEF CaptureSound, Account
<1>3. QED
  BY <1>1, <1>2 DEF Delivery

(* A step that reads from one socket keeps the accounts if it keeps the    *)
(* one of that socket.                                                     *)
LEMMA OneReads ==
  ASSUME RawInvariant, Delivery, UNCHANGED <<platform, arrived>>, NEW id \in DOMAIN sockets,
         NEW s, sockets' = [sockets EXCEPT ![id] = s],
         NEW out \in Seq(Contents), received' = [received EXCEPT ![id] = out],
         CaptureSound(s), Account(s, out, arrived[id])
  PROVE  Delivery'
<1>1. DOMAIN sockets' = DOMAIN sockets /\ id \in Ids
  BY DeliveryFacts
<1>2. received \in [Ids -> Seq(Contents)]
  BY DEF Delivery, Histories
<1>3. received' \in [Ids -> Seq(Contents)] /\ \A x \in Ids : x # id => received'[x] = received[x]
  BY <1>2
<1>4. Histories'
  BY <1>1, <1>3 DEF Delivery, Histories
<1>5. ASSUME NEW x \in DOMAIN sockets'
      PROVE  /\ CaptureSound(sockets[x])'
             /\ Account(sockets[x], received[x], arrived[x])'
  <2>1. PICK t, went, came : t = sockets'[x] /\ went = received'[x] /\ came = arrived[x]
    OBVIOUS
  <2>2. x \in DOMAIN sockets /\ x \in Ids
    BY <1>1, <1>5, DeliveryFacts
  <2>3. CaptureSound(t) /\ Account(t, went, came)
    <3>1. CASE x = id
      BY <1>1, <1>2, <2>1, <3>1
    <3>2. CASE x # id
      <4>1. t = sockets[x] /\ went = received[x]
        BY <1>3, <2>1, <2>2, <3>2
      <4>2. QED
        BY <2>1, <2>2, <4>1 DEF Delivery
    <3>3. QED
      BY <3>1, <3>2
  <2>4. CaptureSound(t)' /\ Account(t, went, came)'
    BY <2>3, SamePlatform
  <2>5. arrived'[x] = came
    BY <2>1
  <2>6. QED
    BY <2>1, <2>4, <2>5 DEF CaptureSound, Account
<1>6. QED
  BY <1>4, <1>5 DEF Delivery

(* The classes of a platform, and the frames that wait for each. *)
LEMMA ClassFacts ==
  ASSUME platform \in {"linux", "macos", "windows"}, NEW s, s \in SocketType(s.members), CaptureSound(s)
  PROVE  /\ platform # "windows" => /\ Classes = {0..255}
                                    /\ Queued(s, 0..255) = s.block \o s.queue.primary
         /\ platform = "windows" => /\ Classes = {{UDP}, (0..255) \ {UDP}}
                                    /\ Queued(s, {UDP}) = s.queue.udp
                                    /\ Queued(s, (0..255) \ {UDP}) = s.queue.primary
         /\ platform # "macos" => s.block \o s.queue.primary = s.queue.primary
<1>1. 0..255 # {UDP} /\ (0..255) \ {UDP} # {UDP}
  BY DEF UDP
<1>2. s.queue.primary \in Seq(DOMAIN Frames)
  BY SocketFacts
<1>3. platform # "macos" => s.block \o s.queue.primary = s.queue.primary
  BY <1>2, ConcatEmptySeq DEF CaptureSound
<1>4. QED
  BY <1>1, <1>3 DEF Classes, Queued

(* What the frames waiting in a socket are asked for. *)
LEMMA AskedFacts ==
  ASSUME NEW f \in DOMAIN Frames, NEW c
  PROVE  /\ AskedFor(c, f, 0..255) <=> WantedTable[c][f]
         /\ AskedFor(c, f, {UDP}) <=> WantedTable[c][f] /\ Frames[f].protocol = UDP
         /\ AskedFor(c, f, (0..255) \ {UDP}) <=> WantedTable[c][f] /\ Frames[f].protocol # UDP
<1>1. Frames[f].protocol \in 0..255
  BY FrameAssumptions
<1>2. QED
  BY <1>1 DEF AskedFor

(* What the loop over reads does with a frame: it returns the wanted ones, *)
(* but for the UDP datagrams the primary socket of Windows leaves alone,   *)
(* with the content their sender meant.                                    *)
LEMMA ReturnedFacts ==
  ASSUME RawInvariant, Delivery, Busy, NEW f \in DOMAIN Frames
  PROVE  /\ Returned(Parsed(f)) <=>
              /\ WantedTable[Socket.config][f]
              /\ platform = "windows" /\ call.socket = "primary" => Frames[f].protocol # UDP
         /\ Returned(Parsed(f)) => Parsed(f) = Content(Frames[f])
<1>1. /\ Current.id \in DOMAIN sockets /\ Socket = sockets[Current.id]
      /\ call.index + 1 \in 1..Count /\ Current = subscriptions[call.index + 1]
  BY CurrentFacts
<1>2. Socket.config = Current.config
  BY <1>1, InvariantParts DEF Stored
<1>3. PICK c, link, parsed :
        c = Socket.config /\ link = LinkOf(Socket.bound) /\ parsed = Parsed(f)
  OBVIOUS
<1>4. c \in DOMAIN Configs /\ RawValidate(Configs[c]) /\ link \in Links
  BY <1>1, <1>3, DeliveryFacts DEF CaptureSound
<1>5. parsed = ParsedTable[f][link]
  BY <1>3 DEF Parsed
<1>6. /\ WantedTable[c][f] <=> parsed # NotIp /\ PacketMatchesConfig(parsed, Configs[c])
      /\ WantedTable[c][f] => parsed = Content(Frames[f])
  BY <1>4, <1>5, FrameAssumptions
<1>7. Returned(parsed) <=> /\ parsed # NotIp
                           /\ platform = "windows" /\ call.socket = "primary" => parsed.protocol # UDP
                           /\ PacketMatchesConfig(parsed, Configs[c])
  BY <1>2, <1>3 DEF Returned
<1>8. Content(Frames[f]).protocol = Frames[f].protocol
  BY DEF Content
<1>9. WantedTable[c][f] => parsed.protocol = Frames[f].protocol
  BY <1>6, <1>8
<1>10. QED
  BY <1>3, <1>6, <1>7, <1>9

(* How a read changes the history of its subscription. *)
LEMMA DeliverFacts ==
  ASSUME Delivery, NEW id \in Ids, Current.id = id, NEW parsed, Deliver(parsed)
  PROVE  received' = [received EXCEPT ![id] = Append(received[id], parsed)]
BY DEF Deliver, Delivery, Histories

(* One datagram is read: on Windows the socket it comes from decides which *)
(* class it is of.                                                         *)
LEMMA ReadDatagramDelivers ==
  ASSUME RawInvariant, Delivery, ReadDatagram
  PROVE  Delivery'
<1>1. PICK id, s, part, q, f :
        /\ id = Current.id /\ s = sockets[id] /\ part = call.socket
        /\ q = s.queue[part] /\ f = Head(q)
  OBVIOUS
<1>2. /\ Busy /\ platform # "macos" /\ q # <<>>
      /\ UNCHANGED <<platform, arrived>>
      /\ sockets' = [sockets EXCEPT ![id].queue[part] = Tail(@)]
      /\ IF Returned(Parsed(f)) THEN Deliver(Parsed(f))
         ELSE Filter /\ UNCHANGED <<received, next_recv_index>>
  BY <1>1 DEF ReadDatagram, Reading, Socket, registry
<1>3. /\ id \in DOMAIN sockets /\ Socket = s /\ part \in {"primary", "udp"}
      /\ platform \in {"linux", "windows"}
  <2>1. call \in CallType /\ platform \in Platforms
    BY InvariantParts DEF CallFits, TypeOK
  <2>2. QED
    BY <1>1, <1>2, <2>1, CurrentFacts, CallFields, RawAssumptions
<1>4. PICK out, came, c : out = received[id] /\ came = arrived[id] /\ c = s.config
  OBVIOUS
<1>5. /\ id \in Ids /\ s \in SocketType(s.members) /\ CaptureSound(s) /\ Account(s, out, came)
      /\ out \in Seq(Contents) /\ came \in Seq(Contents)
  BY <1>1, <1>3, <1>4, DeliveryFacts
<1>6. /\ s.queue \in QueueType /\ s.queue.primary \in Seq(DOMAIN Frames)
      /\ s.queue.udp \in Seq(DOMAIN Frames) /\ s.block = <<>>
  BY <1>2, <1>5, SocketFacts DEF CaptureSound
<1>7. q \in Seq(DOMAIN Frames) /\ f \in DOMAIN Frames /\ Tail(q) \in Seq(DOMAIN Frames)
  <2>1. q \in Seq(DOMAIN Frames)
    BY <1>1, <1>3, <1>6
  <2>2. Len(q) \in Nat /\ Len(q) # 0 /\ 1 \in 1..Len(q) /\ f = q[1]
    BY <1>1, <1>2, <2>1
  <2>3. f \in DOMAIN Frames
    BY <2>1, <2>2
  <2>4. QED
    BY <1>2, <2>1, <2>3, TailType
<1>8. PICK queue, t : /\ queue = [primary |-> IF part = "primary" THEN Tail(q) ELSE s.queue.primary,
                                  udp |-> IF part = "udp" THEN Tail(q) ELSE s.queue.udp]
                      /\ t = Refilled(s, queue, <<>>)
  OBVIOUS
<1>9. queue \in QueueType
  BY <1>6, <1>7, <1>8 DEF QueueType
<1>10. /\ t \in SocketType(t.members) /\ t.config = c /\ t.bound = s.bound /\ t.filter = s.filter
       /\ t.queue = queue /\ t.block = <<>>
  <2>1. PICK none \in Seq(DOMAIN Frames) : none = <<>>
    <3>1. <<>> \in Seq(DOMAIN Frames)
      OBVIOUS
    <3>2. QED
      BY <3>1
  <2>2. t = Refilled(s, queue, none) /\ t.filter = s.filter
    BY <1>8, <2>1 DEF Refilled
  <2>3. /\ t \in SocketType(t.members) /\ t.config = s.config /\ t.bound = s.bound
        /\ t.queue = queue /\ t.block = none
    BY <1>5, <1>9, <2>2, RefilledType
  <2>4. QED
    BY <1>4, <2>1, <2>2, <2>3
<1>11. sockets' = [sockets EXCEPT ![id] = t]
  <2>1. sockets' = [sockets EXCEPT ![id] = [s EXCEPT !.queue = [s.queue EXCEPT ![part] = Tail(q)]]]
    BY <1>1, <1>2
  <2>2. [s.queue EXCEPT ![part] = Tail(q)] = queue
    <3>1. PICK u, v, x : u = s.queue.primary /\ v = s.queue.udp /\ x = Tail(q)
      OBVIOUS
    <3>2. s.queue = [primary |-> u, udp |-> v]
      BY <1>6, <3>1 DEF QueueType
    <3>3. CASE part = "primary"
      <4>1. queue = [primary |-> x, udp |-> v]
        BY <1>8, <3>1, <3>3
      <4>2. [[primary |-> u, udp |-> v] EXCEPT !["primary"] = x] = [primary |-> x, udp |-> v]
        OBVIOUS
      <4>3. QED
        BY <3>1, <3>2, <3>3, <4>1, <4>2
    <3>4. CASE part = "udp"
      <4>1. queue = [primary |-> u, udp |-> x]
        BY <1>8, <3>1, <3>4
      <4>2. [[primary |-> u, udp |-> v] EXCEPT !["udp"] = x] = [primary |-> u, udp |-> x]
        OBVIOUS
      <4>3. QED
        BY <3>1, <3>2, <3>4, <4>1, <4>2
    <3>5. QED
      BY <1>3, <3>3, <3>4
  <2>3. [s EXCEPT !.queue = queue] = t
    BY <1>5, <1>6, <1>8, RefilledExcept
  <2>4. QED
    BY <2>1, <2>2, <2>3
<1>12. /\ Returned(Parsed(f)) <=> /\ WantedTable[c][f]
                                  /\ platform = "windows" /\ part = "primary" => Frames[f].protocol # UDP
       /\ Returned(Parsed(f)) => Parsed(f) = Content(Frames[f])
  BY <1>1, <1>2, <1>3, <1>4, <1>7, ReturnedFacts
<1>13. PICK got : /\ got = IF Returned(Parsed(f)) THEN Append(out, Content(Frames[f])) ELSE out
                  /\ got \in Seq(Contents)
  <2>1. Content(Frames[f]) \in Contents
    BY <1>7 DEF Contents
  <2>2. Append(out, Content(Frames[f])) \in Seq(Contents)
    BY <1>5, <2>1
  <2>3. QED
    BY <1>5, <2>2
<1>14. received' = [received EXCEPT ![id] = got]
  <2>1. CASE Returned(Parsed(f))
    <3>1. Deliver(Parsed(f)) /\ Parsed(f) = Content(Frames[f])
      BY <1>2, <1>12, <2>1
    <3>2. received' = [received EXCEPT ![id] = Append(received[id], Content(Frames[f]))]
      BY <1>1, <1>5, <3>1, DeliverFacts
    <3>3. QED
      BY <1>4, <1>13, <2>1, <3>2
  <2>2. CASE ~Returned(Parsed(f))
    <3>1. received' = received /\ got = received[id]
      BY <1>2, <1>4, <1>13, <2>2
    <3>2. received \in [Ids -> Seq(Contents)]
      BY DEF Delivery, Histories
    <3>3. QED
      BY <1>5, <3>1, <3>2
  <2>3. QED
    BY <2>1, <2>2
<1>15. ASSUME part = "udp"
       PROVE  platform = "windows" /\ Frames[f].protocol = UDP
  <2>1. q = s.queue.udp /\ Len(q) \in Nat /\ Len(q) # 0 /\ 1 \in DOMAIN q /\ f = q[1]
    BY <1>1, <1>2, <1>7, <1>15
  <2>2. QED
    BY <1>2, <1>3, <1>5, <2>1 DEF CaptureSound
<1>16. CaptureSound(t)
  <2>1. ASSUME platform = "windows", NEW k \in DOMAIN queue.udp
        PROVE  Frames[queue.udp[k]].protocol = UDP
    <3>1. \A j \in DOMAIN s.queue.udp : Frames[s.queue.udp[j]].protocol = UDP
      BY <1>5, <2>1 DEF CaptureSound
    <3>2. CASE part = "udp"
      <4>1. queue.udp = Tail(q) /\ q = s.queue.udp
        BY <1>1, <1>8, <3>2
      <4>2. k + 1 \in DOMAIN q /\ Tail(q)[k] = q[k + 1]
        BY <1>2, <1>7, <2>1, <4>1
      <4>3. QED
        BY <3>1, <4>1, <4>2
    <3>3. CASE part # "udp"
      BY <1>8, <2>1, <3>1, <3>3
    <3>4. QED
      BY <3>2, <3>3
  <2>2. ASSUME platform # "windows"
        PROVE  queue.udp = <<>>
    BY <1>5, <1>8, <1>15, <2>2 DEF CaptureSound
  <2>3. QED
    BY <1>4, <1>5, <1>10, <2>1, <2>2 DEF CaptureSound
<1>17. ASSUME NEW class,
              Balanced(out, q, c, class, came), AskedFor(c, f, class) <=> Returned(Parsed(f))
       PROVE  Balanced(got, Tail(q), c, class, came)
  BY <1>1, <1>2, <1>5, <1>7, <1>13, <1>17, ReadBalanced
<1>18. ASSUME NEW class, NEW waiting,
              Balanced(out, waiting, c, class, came), Returned(Parsed(f)) => Frames[f].protocol \notin class
       PROVE  Balanced(got, waiting, c, class, came)
  <2>1. Content(Frames[f]) \in Contents /\ Content(Frames[f]).protocol = Frames[f].protocol
    BY <1>7 DEF Contents, Content
  <2>2. CASE Returned(Parsed(f))
    BY <1>5, <1>13, <1>18, <2>1, <2>2, BalancedAside
  <2>3. CASE ~Returned(Parsed(f))
    BY <1>13, <1>18, <2>3
  <2>4. QED
    BY <2>2, <2>3
<1>19. Account(t, got, came)
  <2>1. CASE platform = "linux"
    <3>1. part = "primary" /\ q = s.queue.primary /\ queue.primary = Tail(q)
      BY <1>1, <1>3, <1>8, <1>15, <2>1
    <3>2. /\ Classes = {0..255} /\ Queued(s, 0..255) = q /\ Queued(t, 0..255) = Tail(q)
      <4>1. Classes = {0..255} /\ Queued(s, 0..255) = s.queue.primary
        BY <1>5, <2>1, ClassFacts
      <4>2. Queued(t, 0..255) = t.queue.primary
        BY <1>10, <1>16, <2>1, ClassFacts
      <4>3. QED
        BY <1>10, <3>1, <4>1, <4>2
    <3>3. Balanced(out, q, c, 0..255, came)
      BY <1>4, <1>5, <3>2 DEF Account
    <3>4. AskedFor(c, f, 0..255) <=> Returned(Parsed(f))
      BY <1>7, <1>12, <2>1, AskedFacts
    <3>5. Balanced(got, Tail(q), c, 0..255, came)
      BY <1>17, <3>3, <3>4
    <3>6. QED
      BY <1>10, <3>2, <3>5 DEF Account
  <2>2. CASE platform = "windows"
    <3>1. PICK others : others = (0..255) \ {UDP}
      OBVIOUS
    <3>2. /\ Classes = {{UDP}, others}
          /\ Queued(s, {UDP}) = s.queue.udp /\ Queued(s, others) = s.queue.primary
          /\ Queued(t, {UDP}) = queue.udp /\ Queued(t, others) = queue.primary
      <4>1. /\ Classes = {{UDP}, others}
            /\ Queued(s, {UDP}) = s.queue.udp /\ Queued(s, others) = s.queue.primary
        BY <1>5, <2>2, <3>1, ClassFacts
      <4>2. Queued(t, {UDP}) = t.queue.udp /\ Queued(t, others) = t.queue.primary
        BY <1>10, <1>16, <2>2, <3>1, ClassFacts
      <4>3. QED
        BY <1>10, <4>1, <4>2
    <3>3. /\ Balanced(out, s.queue.udp, c, {UDP}, came)
          /\ Balanced(out, s.queue.primary, c, others, came)
      BY <1>4, <1>5, <3>2 DEF Account
    <3>4. /\ AskedFor(c, f, {UDP}) <=> WantedTable[c][f] /\ Frames[f].protocol = UDP
          /\ AskedFor(c, f, others) <=> WantedTable[c][f] /\ Frames[f].protocol # UDP
      BY <1>7, <3>1, AskedFacts
    <3>5. CASE part = "primary"
      <4>1. q = s.queue.primary /\ queue.primary = Tail(q) /\ queue.udp = s.queue.udp
        BY <1>1, <1>8, <3>5
      <4>2. /\ AskedFor(c, f, others) <=> Returned(Parsed(f))
            /\ Returned(Parsed(f)) => Frames[f].protocol \notin {UDP}
        BY <1>12, <2>2, <3>4, <3>5
      <4>3. Balanced(got, Tail(q), c, others, came)
        BY <1>17, <3>3, <4>1, <4>2
      <4>4. Balanced(got, s.queue.udp, c, {UDP}, came)
        BY <1>18, <3>3, <4>2
      <4>5. QED
        BY <1>10, <3>2, <4>1, <4>3, <4>4 DEF Account
    <3>6. CASE part = "udp"
      <4>1. q = s.queue.udp /\ queue.udp = Tail(q) /\ queue.primary = s.queue.primary
        BY <1>1, <1>8, <3>6
      <4>2. /\ AskedFor(c, f, {UDP}) <=> Returned(Parsed(f))
            /\ Frames[f].protocol \notin others
        BY <1>12, <1>15, <3>1, <3>4, <3>6
      <4>3. Balanced(got, Tail(q), c, {UDP}, came)
        BY <1>17, <3>3, <4>1, <4>2
      <4>4. Balanced(got, s.queue.primary, c, others, came)
        BY <1>18, <3>3, <4>2
      <4>5. QED
        BY <1>10, <3>2, <4>1, <4>3, <4>4 DEF Account
    <3>7. QED
      BY <1>3, <3>5, <3>6
  <2>3. QED
    BY <1>3, <2>1, <2>2
<1>20. QED
  BY <1>2, <1>3, <1>4, <1>11, <1>13, <1>14, <1>16, <1>19, OneReads

(* macOS has one class: the block, and behind it what it was read off. *)
LEMMA AppleAccount ==
  ASSUME platform = "macos", NEW s, s \in SocketType(s.members), CaptureSound(s), NEW out, NEW came
  PROVE  Account(s, out, came) <=>
           Balanced(out, s.block \o s.queue.primary, s.config, 0..255, came)
<1>1. Classes = {0..255} /\ Queued(s, 0..255) = s.block \o s.queue.primary
  BY ClassFacts
<1>2. QED
  BY <1>1 DEF Account

(* A block goes from the queue in front of it. *)
LEMMA ReadBlockDelivers ==
  ASSUME RawInvariant, Delivery, ReadBlock
  PROVE  Delivery'
<1>1. PICK id, s, q : id = Current.id /\ s = sockets[id] /\ q = s.queue.primary
  OBVIOUS
<1>2. /\ Busy /\ platform = "macos" /\ s.block = <<>>
      /\ UNCHANGED <<platform, arrived, received>>
  BY <1>1 DEF ReadBlock, Reading, Socket, registry, history
<1>3. id \in DOMAIN sockets /\ Socket = s
  BY <1>1, <1>2, CurrentFacts
<1>4. PICK n \in 1..Len(q) :
        sockets' = [sockets EXCEPT ![id].block = SubSeq(q, 1, n),
                                   ![id].queue.primary = SubSeq(@, n + 1, Len(@))]
  <2>1. \E n \in 1..Len(Socket.queue.primary) :
          sockets' = [sockets EXCEPT ![Current.id].block = SubSeq(Socket.queue.primary, 1, n),
                                     ![Current.id].queue.primary = SubSeq(@, n + 1, Len(@))]
    BY DEF ReadBlock
  <2>2. Socket.queue.primary = q /\ Current.id = id
    BY <1>1, <1>3
  <2>3. QED
    BY <2>1, <2>2
<1>5. PICK out, came, c : out = received[id] /\ came = arrived[id] /\ c = s.config
  OBVIOUS
<1>6. /\ id \in Ids /\ s \in SocketType(s.members) /\ CaptureSound(s) /\ Account(s, out, came)
      /\ out \in Seq(Contents) /\ s.queue \in QueueType
      /\ q \in Seq(DOMAIN Frames) /\ s.queue.udp \in Seq(DOMAIN Frames)
  BY <1>1, <1>3, <1>5, DeliveryFacts, SocketFacts
<1>7. PICK b, r : b = SubSeq(q, 1, n) /\ r = SubSeq(q, n + 1, Len(q))
  OBVIOUS
<1>8. b \in Seq(DOMAIN Frames) /\ r \in Seq(DOMAIN Frames) /\ b \o r = q
  BY <1>6, <1>7, SplitFacts
<1>9. PICK queue, t : queue = [primary |-> r, udp |-> s.queue.udp] /\ t = Refilled(s, queue, b)
  OBVIOUS
<1>10. queue \in QueueType
  BY <1>6, <1>8, <1>9 DEF QueueType
<1>11. /\ t \in SocketType(t.members) /\ t.config = c /\ t.bound = s.bound /\ t.filter = s.filter
       /\ t.queue = queue /\ t.block = b /\ t.queue.primary = r /\ t.queue.udp = s.queue.udp
  <2>1. t.filter = s.filter
    BY <1>9 DEF Refilled
  <2>2. /\ t \in SocketType(t.members) /\ t.config = s.config /\ t.bound = s.bound
        /\ t.queue = queue /\ t.block = b
    <3>1. /\ s \in SocketType(s.members) /\ queue \in QueueType /\ b \in Seq(DOMAIN Frames)
          /\ t = Refilled(s, queue, b)
      BY <1>6, <1>8, <1>9, <1>10
    <3>2. QED
      BY <3>1, RefilledType
  <2>3. QED
    BY <1>5, <1>9, <2>1, <2>2
<1>12. sockets' = [sockets EXCEPT ![id] = t]
  <2>1. sockets' = [sockets EXCEPT ![id] = [[s EXCEPT !.block = b] EXCEPT !.queue.primary = r]]
    BY <1>1, <1>3, <1>4, <1>6, <1>7 DEF SocketType
  <2>2. [s.queue EXCEPT !.primary = r] = queue
    <3>1. PICK u : u = s.queue.udp
      OBVIOUS
    <3>2. s.queue = [primary |-> q, udp |-> u]
      BY <1>1, <1>6, <3>1 DEF QueueType
    <3>3. [[primary |-> q, udp |-> u] EXCEPT !.primary = r] = [primary |-> r, udp |-> u]
      OBVIOUS
    <3>4. QED
      BY <1>9, <3>1, <3>2, <3>3
  <2>3. [[s EXCEPT !.block = b] EXCEPT !.queue.primary = r] =
        [[s EXCEPT !.block = b] EXCEPT !.queue = [s.queue EXCEPT !.primary = r]]
    BY <1>6 DEF SocketType
  <2>4. [s EXCEPT !.block = b] = Refilled(s, s.queue, b)
    BY <1>6, RefilledExcept
  <2>5. [Refilled(s, s.queue, b) EXCEPT !.queue = queue] = t
    BY <1>9 DEF Refilled
  <2>6. QED
    BY <2>1, <2>2, <2>3, <2>4, <2>5
<1>13. CaptureSound(t)
  BY <1>2, <1>5, <1>6, <1>11 DEF CaptureSound
<1>14. s.block \o q = q
  BY <1>2, <1>6, ConcatEmptySeq
<1>15. Balanced(out, q, c, 0..255, came)
  <2>1. Balanced(out, s.block \o s.queue.primary, s.config, 0..255, came)
    BY <1>2, <1>6, AppleAccount
  <2>2. QED
    BY <1>1, <1>5, <1>14, <2>1
<1>16. Account(t, out, came)
  BY <1>2, <1>8, <1>11, <1>13, <1>15, AppleAccount
<1>17. received' = [received EXCEPT ![id] = out]
  BY <1>2, <1>5, <1>6 DEF Delivery, Histories
<1>18. QED
  BY <1>2, <1>3, <1>5, <1>6, <1>12, <1>13, <1>16, <1>17, OneReads

(* The first frame of the block that is wanted is handed out, the frames   *)
(* before it are not wanted, and those behind it stay; a block without one *)
(* is dropped.                                                             *)
LEMMA SearchBlockDelivers ==
  ASSUME RawInvariant, Delivery, SearchBlock
  PROVE  Delivery'
<1>1. PICK id, s, block, q :
        id = Current.id /\ s = sockets[id] /\ block = s.block /\ q = s.queue.primary
  OBVIOUS
<1>2. Busy /\ platform = "macos" /\ block # <<>> /\ UNCHANGED <<platform, arrived>>
  BY <1>1 DEF SearchBlock, Reading, Socket, registry
<1>3. id \in DOMAIN sockets /\ Socket = s
  BY <1>1, <1>2, CurrentFacts
<1>4. PICK I, k : /\ I = {i \in 1..Len(block) : Returned(Parsed(block[i]))}
                  /\ k = IF I # {} THEN Min(I) ELSE 0
  OBVIOUS
<1>5. IF k > 0
        THEN Deliver(Parsed(block[k])) /\ sockets' = [sockets EXCEPT ![id].block = Rest(k)]
        ELSE Filter /\ sockets' = [sockets EXCEPT ![id].block = <<>>]
                    /\ UNCHANGED <<received, next_recv_index>>
  BY <1>1, <1>3, <1>4 DEF SearchBlock, SelectInSeq
<1>6. PICK out, came, c : out = received[id] /\ came = arrived[id] /\ c = s.config
  OBVIOUS
<1>7. /\ id \in Ids /\ s \in SocketType(s.members) /\ CaptureSound(s) /\ Account(s, out, came)
      /\ out \in Seq(Contents) /\ s.queue \in QueueType
      /\ q \in Seq(DOMAIN Frames) /\ block \in Seq(DOMAIN Frames)
  BY <1>1, <1>3, <1>6, DeliveryFacts, SocketFacts
<1>8. Len(block) \in Nat /\ \A i \in 1..Len(block) : block[i] \in DOMAIN Frames
  BY <1>7
<1>9. \A f \in DOMAIN Frames :
        /\ Returned(Parsed(f)) <=> AskedFor(c, f, 0..255)
        /\ Returned(Parsed(f)) => Parsed(f) = Content(Frames[f])
  <2>1. ASSUME NEW f \in DOMAIN Frames
        PROVE  /\ Returned(Parsed(f)) <=> AskedFor(c, f, 0..255)
               /\ Returned(Parsed(f)) => Parsed(f) = Content(Frames[f])
    BY <1>2, <1>3, <1>6, ReturnedFacts, AskedFacts
  <2>2. QED
    BY <2>1
<1>10. /\ k \in 0..Len(block)
       /\ k > 0 => k \in 1..Len(block) /\ Returned(Parsed(block[k]))
       /\ k > 0 => \A i \in 1..(k - 1) : ~Returned(Parsed(block[i]))
       /\ k = 0 => \A i \in 1..Len(block) : ~Returned(Parsed(block[i]))
  <2>1. I \in SUBSET Nat
    BY <1>4, <1>8
  <2>2. CASE I = {}
    BY <1>4, <1>8, <2>2
  <2>3. CASE I # {}
    <3>1. k \in I /\ \A y \in I : k <= y
      BY <1>4, <2>1, <2>3, MinOf
    <3>2. k \in 1..Len(block) /\ Returned(Parsed(block[k])) /\ k \in Nat /\ k > 0
      BY <1>4, <1>8, <3>1
    <3>3. ASSUME NEW i \in 1..(k - 1), Returned(Parsed(block[i])) PROVE FALSE
      <4>1. i \in 1..Len(block) /\ ~(k <= i)
        BY <1>8, <3>2
      <4>2. QED
        BY <1>4, <3>1, <3>3, <4>1
    <3>4. QED
      BY <1>8, <3>2, <3>3
  <2>4. QED
    BY <2>2, <2>3
<1>11. PICK n, rest : /\ n = IF k > 0 THEN k ELSE Len(block)
                      /\ rest = SubSeq(block, n + 1, Len(block))
  OBVIOUS
<1>12. n \in 0..Len(block) /\ rest \in Seq(DOMAIN Frames)
  <2>1. n \in 0..Len(block)
    BY <1>8, <1>10, <1>11
  <2>2. QED
    BY <1>7, <1>11, <2>1, SuffixFacts
<1>13. PICK t : t = Refilled(s, s.queue, rest)
  OBVIOUS
<1>14. /\ t \in SocketType(t.members) /\ t.config = c /\ t.bound = s.bound /\ t.filter = s.filter
       /\ t.queue = s.queue /\ t.block = rest
  <2>1. t.filter = s.filter
    BY <1>13 DEF Refilled
  <2>2. QED
    BY <1>6, <1>7, <1>12, <1>13, <2>1, RefilledType
<1>15. sockets' = [sockets EXCEPT ![id] = t]
  <2>1. sockets' = [sockets EXCEPT ![id].block = rest]
    <3>1. CASE k > 0
      BY <1>1, <1>3, <1>5, <1>11, <3>1 DEF Rest
    <3>2. CASE ~(k > 0)
      <4>1. Len(rest) = 0
        BY <1>7, <1>8, <1>11, <1>12, <3>2, SuffixFacts
      <4>2. rest = <<>>
        BY <1>12, <4>1
      <4>3. QED
        BY <1>5, <3>2, <4>2
    <3>3. QED
      BY <3>1, <3>2
  <2>2. [s EXCEPT !.block = rest] = t
    BY <1>7, <1>13, RefilledExcept
  <2>3. QED
    BY <1>1, <2>1, <2>2
<1>16. CaptureSound(t)
  BY <1>2, <1>6, <1>7, <1>14 DEF CaptureSound
<1>17. PICK all : all = block \o q
  OBVIOUS
<1>18. /\ all \in Seq(DOMAIN Frames) /\ Len(block) <= Len(all) /\ Len(all) \in Nat
       /\ \A i \in 1..Len(block) : all[i] = block[i]
       /\ rest \o q = SubSeq(all, n + 1, Len(all))
  <2>1. all \in Seq(DOMAIN Frames)
    BY <1>7, <1>17, BlockFacts
  <2>2. Len(block) <= Len(all) /\ \A i \in 1..Len(block) : all[i] = block[i]
    BY <1>7, <1>17, BlockFacts
  <2>3. SubSeq(block, n + 1, Len(block)) \o q = SubSeq(block \o q, n + 1, Len(block \o q))
    BY <1>7, <1>12, BlockFacts
  <2>4. rest \o q = SubSeq(all, n + 1, Len(all))
    BY <1>11, <1>17, <2>3
  <2>5. QED
    BY <2>1, <2>2, <2>4
<1>19. Balanced(out, all, c, 0..255, came)
  BY <1>1, <1>2, <1>6, <1>7, <1>17, AppleAccount
<1>20. CASE k > 0
  <2>1. n = k /\ n \in 1..Len(all) /\ n \in 1..Len(block) /\ all[n] = block[k] /\ n \in Nat
    BY <1>8, <1>10, <1>11, <1>18, <1>20
  <2>2. AskedFor(c, all[n], 0..255) /\ Parsed(block[k]) = Content(Frames[all[n]])
    BY <1>8, <1>9, <1>10, <1>20, <2>1
  <2>3. \A i \in 1..(n - 1) : ~AskedFor(c, all[i], 0..255)
    <3>1. ASSUME NEW i \in 1..(n - 1)
          PROVE  i \in 1..Len(block)
      BY <1>8, <2>1
    <3>2. QED
      BY <1>8, <1>9, <1>10, <1>18, <1>20, <2>1, <3>1
  <2>4. PICK got : got = Append(out, Content(Frames[all[n]]))
    OBVIOUS
  <2>5. Balanced(got, rest \o q, c, 0..255, came)
    <3>1. PICK class : class = 0..255
      OBVIOUS
    <3>2. /\ Balanced(out, all, c, class, came) /\ AskedFor(c, all[n], class)
          /\ \A i \in 1..(n - 1) : ~AskedFor(c, all[i], class)
      BY <1>19, <2>2, <2>3, <3>1
    <3>3. Balanced(Append(out, Content(Frames[all[n]])), SubSeq(all, n + 1, Len(all)), c, class, came)
      BY <1>7, <1>18, <2>1, <3>2, BalancedDelivery
    <3>4. QED
      BY <1>18, <2>4, <3>1, <3>3
  <2>6. got \in Seq(Contents)
    <3>1. Content(Frames[all[n]]) \in Contents
      BY <1>8, <2>1 DEF Contents
    <3>2. QED
      BY <1>7, <2>4, <3>1
  <2>7. received' = [received EXCEPT ![id] = got]
    BY <1>1, <1>5, <1>6, <1>7, <1>20, <2>2, <2>4, DeliverFacts
  <2>8. Account(t, got, came)
    BY <1>1, <1>2, <1>14, <1>16, <2>5, AppleAccount
  <2>9. QED
    BY <1>2, <1>3, <1>6, <1>15, <1>16, <2>6, <2>7, <2>8, OneReads
<1>21. CASE ~(k > 0)
  <2>1. n = Len(block) /\ n \in 0..Len(all) /\ k = 0
    BY <1>8, <1>10, <1>11, <1>18, <1>21
  <2>2. \A i \in 1..n : ~AskedFor(c, all[i], 0..255)
    BY <1>8, <1>9, <1>10, <1>18, <2>1
  <2>3. Balanced(out, rest \o q, c, 0..255, came)
    BY <1>18, <1>19, <2>1, <2>2, BalancedDrop
  <2>4. received' = [received EXCEPT ![id] = out]
    BY <1>5, <1>6, <1>7, <1>21 DEF Delivery, Histories
  <2>5. Account(t, out, came)
    BY <1>1, <1>2, <1>14, <1>16, <2>3, AppleAccount
  <2>6. QED
    BY <1>2, <1>3, <1>6, <1>7, <1>15, <1>16, <2>4, <2>5, OneReads
<1>22. QED
  BY <1>20, <1>21

(* What a frame does to the queues of a socket it reaches. *)
LEMMA CapturedQueues ==
  ASSUME NEW s, s \in SocketType(s.members), NEW f \in DOMAIN Frames, NEW t, t = Captured(s, f)
  PROVE  /\ t \in SocketType(t.members) /\ t.config = s.config /\ t.bound = s.bound
         /\ t.filter = s.filter /\ t.block = s.block
         /\ t.queue.primary = AddIf(IF platform = "windows" THEN IsIpv4(Frames[f].group)
                                                            ELSE f \in s.filter, s.queue.primary, f)
         /\ t.queue.udp = AddIf(platform = "windows" /\ UdpAdmits(s, f), s.queue.udp, f)
<1>1. PICK queue \in QueueType : t = Refilled(s, queue, s.block)
  BY CapturedType
<1>2. s.block \in Seq(DOMAIN Frames) /\ s.queue \in QueueType
  BY SocketFacts
<1>3. /\ t \in SocketType(t.members) /\ t.config = s.config /\ t.bound = s.bound /\ t.block = s.block
  BY <1>1, <1>2, RefilledType
<1>4. t.filter = s.filter
  BY <1>1 DEF Refilled
<1>5. CASE platform = "windows"
  <2>1. PICK p, u : /\ p = AddIf(IsIpv4(Frames[f].group), s.queue.primary, f)
                    /\ u = AddIf(UdpAdmits(s, f), s.queue.udp, f)
    OBVIOUS
  <2>2. t = [[s EXCEPT !.queue.primary = p] EXCEPT !.queue.udp = u]
    BY <1>2, <1>5, <2>1 DEF Captured, SocketType, QueueType
  <2>3. t.queue.primary = p /\ t.queue.udp = u
    <3>1. PICK r : r = [s EXCEPT !.queue.primary = p]
      OBVIOUS
    <3>2. r.queue = [s.queue EXCEPT !.primary = p] /\ "queue" \in DOMAIN r
      BY <3>1 DEF SocketType
    <3>3. r.queue.primary = p /\ DOMAIN r.queue = {"primary", "udp"}
      BY <1>2, <3>2 DEF QueueType
    <3>4. t.queue = [r.queue EXCEPT !.udp = u]
      BY <2>2, <3>1, <3>2
    <3>5. QED
      BY <3>3, <3>4
  <2>4. QED
    BY <1>3, <1>4, <1>5, <2>1, <2>3 DEF AddIf
<1>6. CASE platform # "windows"
  <2>1. PICK p : p = AddIf(f \in s.filter, s.queue.primary, f)
    OBVIOUS
  <2>2. t = [s EXCEPT !.queue.primary = p]
    BY <1>6, <2>1 DEF Captured
  <2>3. t.queue.primary = p /\ t.queue.udp = s.queue.udp
    BY <1>2, <2>2 DEF SocketType, QueueType
  <2>4. QED
    BY <1>3, <1>4, <1>6, <2>1, <2>3 DEF AddIf
<1>7. QED
  BY <1>5, <1>6

(* A frame that reaches a socket: it is due exactly if its account has to  *)
(* say so, and if it is owed it is there to be read.                       *)
LEMMA CapturedDelivers ==
  ASSUME platform \in {"linux", "macos", "windows"},
         NEW s, s \in SocketType(s.members), NEW f \in DOMAIN Frames,
         Suits(Configs[s.config]), CaptureSound(s),
         NEW out \in Seq(Contents), NEW came \in Seq(Contents), Account(s, out, came)
  PROVE  /\ CaptureSound(Captured(s, f))
         /\ Account(Captured(s, f), out,
                    IF Due(s, f) THEN Append(came, Content(Frames[f])) ELSE came)
<1>1. PICK t, c, now : /\ t = Captured(s, f) /\ c = s.config
                       /\ now = IF Due(s, f) THEN Append(came, Content(Frames[f])) ELSE came
  OBVIOUS
<1>2. /\ t \in SocketType(t.members) /\ t.config = c /\ t.bound = s.bound
      /\ t.filter = s.filter /\ t.block = s.block
      /\ t.queue.primary = AddIf(IF platform = "windows" THEN IsIpv4(Frames[f].group)
                                                         ELSE f \in s.filter, s.queue.primary, f)
      /\ t.queue.udp = AddIf(platform = "windows" /\ UdpAdmits(s, f), s.queue.udp, f)
  BY <1>1, CapturedQueues
<1>3. /\ s.block \in Seq(DOMAIN Frames) /\ s.queue.primary \in Seq(DOMAIN Frames)
      /\ s.queue.udp \in Seq(DOMAIN Frames) /\ c \in DOMAIN Configs
  BY <1>1, SocketFacts
<1>4. CaptureSound(t)
  <2>1. ASSUME platform = "windows", NEW k \in DOMAIN t.queue.udp
        PROVE  Frames[t.queue.udp[k]].protocol = UDP
    <3>1. \A j \in DOMAIN s.queue.udp : Frames[s.queue.udp[j]].protocol = UDP
      BY <2>1 DEF CaptureSound
    <3>2. CASE UdpAdmits(s, f)
      <4>1. t.queue.udp = Append(s.queue.udp, f) /\ Frames[f].protocol = UDP
        BY <1>2, <2>1, <3>2 DEF AddIf, UdpAdmits
      <4>2. \/ k \in DOMAIN s.queue.udp /\ t.queue.udp[k] = s.queue.udp[k]
            \/ t.queue.udp[k] = f
        <5>1. PICK v, w : v = s.queue.udp /\ w = t.queue.udp
          OBVIOUS
        <5>2. /\ v \in Seq(DOMAIN Frames) /\ w = Append(v, f) /\ w \in Seq(DOMAIN Frames)
              /\ Len(w) = Len(v) + 1 /\ w[Len(v) + 1] = f /\ \A j \in 1..Len(v) : w[j] = v[j]
          BY <1>3, <4>1, <5>1, AppendProperties
        <5>3. k \in 1..(Len(v) + 1) /\ Len(v) \in Nat /\ DOMAIN v = 1..Len(v)
          BY <2>1, <5>1, <5>2
        <5>4. k \in 1..Len(v) \/ k = Len(v) + 1
          BY <5>3
        <5>5. QED
          BY <5>1, <5>2, <5>3, <5>4
      <4>3. QED
        BY <3>1, <4>1, <4>2
    <3>3. CASE ~UdpAdmits(s, f)
      <4>1. t.queue.udp = s.queue.udp
        BY <1>2, <3>3 DEF AddIf
      <4>2. QED
        BY <2>1, <3>1, <4>1
    <3>4. QED
      BY <3>2, <3>3
  <2>2. platform # "windows" => t.queue.udp = s.queue.udp
    BY <1>2 DEF AddIf
  <2>3. QED
    BY <1>1, <1>2, <2>1, <2>2 DEF CaptureSound
<1>5. ASSUME NEW class, NEW waiting \in Seq(DOMAIN Frames), NEW added \in BOOLEAN,
             Balanced(out, waiting, c, class, came),
             AskedFor(c, f, class) => added /\ Due(s, f),
             Due(s, f) /\ ~AskedFor(c, f, class) => Frames[f].protocol \notin class
      PROVE  Balanced(out, AddIf(added, waiting, f), c, class, now)
  <2>1. PICK due \in BOOLEAN : due <=> Due(s, f)
    OBVIOUS
  <2>2. now = IF due THEN Append(came, Content(Frames[f])) ELSE came
    BY <1>1, <2>1
  <2>3. Balanced(out, AddIf(added, waiting, f), c, class,
                 IF due THEN Append(came, Content(Frames[f])) ELSE came)
    BY <1>5, <2>1, ArrivalBalanced
  <2>4. QED
    BY <2>2, <2>3
<1>6. CASE platform # "windows"
  <2>1. PICK any, q, b : any = 0..255 /\ q = s.queue.primary /\ b = s.block
    OBVIOUS
  <2>2. Classes = {any} /\ Queued(s, any) = b \o q
    BY <1>6, <2>1, ClassFacts
  <2>3. Queued(t, any) = b \o t.queue.primary
    BY <1>2, <1>4, <1>6, <2>1, ClassFacts
  <2>4. PICK added \in BOOLEAN : added <=> f \in s.filter
    OBVIOUS
  <2>5. t.queue.primary = AddIf(added, q, f)
    BY <1>2, <1>6, <2>1, <2>4 DEF AddIf
  <2>6. b \o AddIf(added, q, f) = AddIf(added, b \o q, f) /\ b \o q \in Seq(DOMAIN Frames)
    <3>1. b \o Append(q, f) = Append(b \o q, f)
      <4>1. b \in Seq(DOMAIN Frames) /\ q \in Seq(DOMAIN Frames)
        BY <1>3, <2>1
      <4>2. QED
        BY <4>1, ConcatFacts
    <3>2. b \o q \in Seq(DOMAIN Frames)
      BY <1>3, <2>1, ConcatProperties
    <3>3. QED
      BY <3>1, <3>2 DEF AddIf
  <2>7. AskedFor(c, f, any) <=> WantedTable[c][f]
    BY <2>1, AskedFacts
  <2>8. (Due(s, f) <=> WantedTable[c][f]) /\ (WantedTable[c][f] => added)
    BY <1>1, <1>6, <2>4 DEF Due, CaptureSound
  <2>9. Balanced(out, b \o q, c, any, came)
    BY <1>1, <2>2 DEF Account
  <2>10. Balanced(out, AddIf(added, b \o q, f), c, any, now)
    BY <1>5, <2>6, <2>7, <2>8, <2>9
  <2>11. Account(t, out, now)
    BY <1>2, <2>2, <2>3, <2>5, <2>6, <2>10 DEF Account
  <2>12. QED
    BY <1>1, <1>4, <2>11
<1>7. CASE platform = "windows"
  <2>1. PICK others : others = (0..255) \ {UDP}
    OBVIOUS
  <2>2. /\ Classes = {{UDP}, others}
        /\ Queued(s, {UDP}) = s.queue.udp /\ Queued(s, others) = s.queue.primary
    BY <1>7, <2>1, ClassFacts
  <2>3. Queued(t, {UDP}) = t.queue.udp /\ Queued(t, others) = t.queue.primary
    BY <1>2, <1>4, <1>7, <2>1, ClassFacts
  <2>4. PICK added \in BOOLEAN, admitted \in BOOLEAN :
          (added <=> IsIpv4(Frames[f].group)) /\ (admitted <=> UdpAdmits(s, f))
    OBVIOUS
  <2>5. /\ t.queue.primary = AddIf(added, s.queue.primary, f)
        /\ t.queue.udp = AddIf(admitted, s.queue.udp, f)
    BY <1>2, <1>7, <2>4 DEF AddIf
  <2>6. /\ AskedFor(c, f, {UDP}) <=> WantedTable[c][f] /\ Frames[f].protocol = UDP
        /\ AskedFor(c, f, others) <=> WantedTable[c][f] /\ Frames[f].protocol # UDP
    BY <2>1, AskedFacts
  <2>7. Due(s, f) <=> WantedTable[c][f] /\ (Frames[f].protocol = UDP => admitted)
    BY <1>1, <1>7, <2>4 DEF Due
  <2>8. WantedTable[c][f] => added
    <3>1. WantedTable[c][f] => Frames[f].group = Configs[c].group
      BY <1>3 DEF WantedTable, Wanted
    <3>2. IsIpv4(Configs[c].group)
      BY <1>1, <1>7 DEF Suits
    <3>3. QED
      BY <2>4, <3>1, <3>2
  <2>9. /\ Balanced(out, s.queue.udp, c, {UDP}, came)
        /\ Balanced(out, s.queue.primary, c, others, came)
    BY <1>1, <2>2 DEF Account
  <2>10. Balanced(out, AddIf(added, s.queue.primary, f), c, others, now)
    <3>1. AskedFor(c, f, others) => added /\ Due(s, f)
      BY <2>6, <2>7, <2>8
    <3>2. Due(s, f) /\ ~AskedFor(c, f, others) => Frames[f].protocol \notin others
      BY <2>1, <2>6, <2>7
    <3>3. QED
      BY <1>3, <1>5, <2>9, <3>1, <3>2
  <2>11. Balanced(out, AddIf(admitted, s.queue.udp, f), c, {UDP}, now)
    <3>1. CASE WantedTable[c][f] /\ Frames[f].protocol = UDP /\ ~admitted
      <4>1. ~Due(s, f)
        BY <2>7, <3>1
      <4>2. now = came /\ AddIf(admitted, s.queue.udp, f) = s.queue.udp
        BY <1>1, <3>1, <4>1 DEF AddIf
      <4>3. QED
        BY <2>9, <4>2
    <3>2. CASE ~(WantedTable[c][f] /\ Frames[f].protocol = UDP /\ ~admitted)
      <4>1. AskedFor(c, f, {UDP}) => admitted /\ Due(s, f)
        BY <2>6, <2>7, <3>2
      <4>2. Due(s, f) /\ ~AskedFor(c, f, {UDP}) => Frames[f].protocol \notin {UDP}
        BY <2>6, <2>7
      <4>3. QED
        BY <1>3, <1>5, <2>9, <4>1, <4>2
    <3>3. QED
      BY <3>1, <3>2
  <2>12. Account(t, out, now)
    BY <1>2, <2>2, <2>3, <2>5, <2>10, <2>11 DEF Account
  <2>13. QED
    BY <1>1, <1>4, <2>12
<1>8. QED
  BY <1>6, <1>7

(* A frame arrives at every socket it reaches. *)
LEMMA FrameArrivesDelivers ==
  ASSUME RawInvariant, Delivery, NEW f \in DOMAIN Frames, NEW index \in Indexes, FrameArrives(f, index)
  PROVE  Delivery'
<1>1. PICK hit : hit = {id \in DOMAIN sockets : OnInterface(sockets[id], index)}
  OBVIOUS
<1>2. /\ sockets' = [id \in DOMAIN sockets |->
                       IF id \in hit THEN Captured(sockets[id], f) ELSE sockets[id]]
      /\ arrived' = [id \in Ids |->
                       IF id \in hit /\ Due(sockets[id], f)
                         THEN Append(arrived[id], Content(Frames[f])) ELSE arrived[id]]
      /\ UNCHANGED <<platform, received>>
  BY <1>1 DEF FrameArrives, registry
<1>3. platform \in {"linux", "macos", "windows"}
  BY InvariantParts, RawAssumptions DEF TypeOK
<1>4. Content(Frames[f]) \in Contents
  BY DEF Contents
<1>5. arrived \in [Ids -> Seq(Contents)]
  BY DEF Delivery, Histories
<1>6. arrived' \in [Ids -> Seq(Contents)]
  <2>1. \A id \in Ids : Append(arrived[id], Content(Frames[f])) \in Seq(Contents)
    BY <1>4, <1>5
  <2>2. QED
    BY <1>2, <1>5, <2>1
<1>7. \A id \in Ids \ DOMAIN sockets : arrived'[id] = arrived[id]
  BY <1>1, <1>2
<1>8. Histories'
  BY <1>2, <1>6, <1>7 DEF Delivery, Histories
<1>9. ASSUME NEW id \in DOMAIN sockets'
      PROVE  /\ CaptureSound(sockets[id])'
             /\ Account(sockets[id], received[id], arrived[id])'
  <2>1. PICK s, t, out, came, now :
          /\ s = sockets[id] /\ t = sockets'[id] /\ out = received[id]
          /\ came = arrived[id] /\ now = arrived'[id]
    OBVIOUS
  <2>2. id \in DOMAIN sockets
    BY <1>2, <1>9
  <2>3. /\ id \in Ids /\ s \in SocketType(s.members) /\ CaptureSound(s) /\ Account(s, out, came)
        /\ came \in Seq(Contents) /\ out \in Seq(Contents) /\ Suits(Configs[s.config])
    BY <2>1, <2>2, DeliveryFacts
  <2>4. CaptureSound(t) /\ Account(t, out, now)
    <3>1. CASE id \in hit
      <4>1. /\ t = Captured(s, f)
            /\ now = IF Due(s, f) THEN Append(came, Content(Frames[f])) ELSE came
        BY <1>2, <2>1, <2>2, <2>3, <3>1
      <4>2. QED
        BY <1>3, <2>3, <4>1, CapturedDelivers
    <3>2. CASE id \notin hit
      <4>1. t = s /\ now = came
        BY <1>2, <2>1, <2>2, <2>3, <3>2
      <4>2. QED
        BY <2>3, <4>1
    <3>3. QED
      BY <3>1, <3>2
  <2>5. CaptureSound(t)' /\ Account(t, out, now)'
    BY <1>2, <2>4, SamePlatform
  <2>6. received'[id] = out
    BY <1>2, <2>1
  <2>7. QED
    BY <2>1, <2>5, <2>6 DEF CaptureSound, Account
<1>10. QED
  BY <1>8, <1>9 DEF Delivery

(* A capture is opened so that it admits the wanted frames, with the early *)
(* ones in it.                                                             *)
LEMMA OpenSound ==
  ASSUME NEW c \in DOMAIN Configs, RawValidate(Configs[c]), Supported(Configs[c]),
         links \in [Interfaces -> Indexes], platform \in Platforms,
         NEW early \in Early, NEW s, s = OpenRawSocket(c, early)
  PROVE  /\ CaptureSound(s) /\ Account(s, <<>>, EarlyWanted(c, early))
         /\ EarlyWanted(c, early) \in Seq(Contents)
<1>1. platform \in {"linux", "macos", "windows"}
  BY RawAssumptions
<1>2. PICK index : index = PacketInterfaceIndex(Configs[c])
  OBVIOUS
<1>3. /\ s.config = c /\ s.bound = index /\ s.block = <<>>
      /\ s.queue.primary = early /\ s.queue.udp = <<>>
  <2>1. s.config = c /\ s.bound = index
    BY <1>2, OpenFacts
  <2>2. s.block = <<>> /\ s.queue.primary = early /\ s.queue.udp = <<>>
    BY DEF OpenRawSocket
  <2>3. QED
    BY <2>1, <2>2
<1>4. PICK link : link = LinkOf(index)
  OBVIOUS
<1>5. link \in Links /\ (platform # "windows" => s.filter = Attached[c][link])
  <2>1. CASE platform = "linux"
    <3>1. link = "ip" /\ s.filter = Attached[c]["ip"]
      BY <1>4, <2>1 DEF LinkOf, OpenRawSocket, LinuxCapture
    <3>2. QED
      BY <3>1 DEF Links
  <2>2. CASE platform = "macos"
    <3>1. index \in Indexes
      BY <1>2, <2>2, PacketIndexType DEF Supported
    <3>2. link = Datalink[index]
      BY <1>4, <2>2 DEF LinkOf
    <3>3. s.filter = Attached[c][Datalink[index]]
      BY <1>2, <2>2 DEF OpenRawSocket, AppleCapture
    <3>4. link \in Links
      BY <3>1, <3>2 DEF Links, Indexes, Range
    <3>5. QED
      BY <3>2, <3>3, <3>4
  <2>3. CASE platform = "windows"
    BY <1>4, <2>3 DEF LinkOf, Links
  <2>4. QED
    BY <1>1, <2>1, <2>2, <2>3
<1>6. \A f \in DOMAIN Frames : WantedTable[c][f] => f \in Attached[c][link]
  BY <1>5, FrameAssumptions
<1>7. CaptureSound(s)
  <2>1. \A k \in DOMAIN s.queue.udp : Frames[s.queue.udp[k]].protocol = UDP
    BY <1>3
  <2>2. QED
    BY <1>3, <1>4, <1>5, <1>6, <2>1 DEF CaptureSound
<1>8. Account(s, <<>>, EarlyWanted(c, early)) /\ EarlyWanted(c, early) \in Seq(Contents)
  <2>1. CASE early = <<>>
    <3>1. \A class : Queued(s, class) = <<>>
      <4>1. <<>> \o <<>> = <<>>
        OBVIOUS
      <4>2. QED
        BY <1>3, <2>1, <4>1 DEF Queued
    <3>2. EarlyWanted(c, early) = <<>>
      BY <2>1 DEF EarlyWanted
    <3>3. QED
      BY <1>3, <3>1, <3>2, BalancedAtFirst DEF Account
  <2>2. CASE early # <<>>
    <3>1. PICK f \in DOMAIN Frames : early = <<f>>
      BY <2>2, EarlyFacts
    <3>2. PICK x : x = Content(Frames[f])
      OBVIOUS
    <3>3. PICK came : came = EarlyWanted(c, early)
      OBVIOUS
    <3>4. x \in Contents
      BY <3>2 DEF Contents
    <3>5. came = IF WantedTable[c][f] THEN <<x>> ELSE <<>>
      BY <3>1, <3>2, <3>3 DEF EarlyWanted
    <3>6. came = IF WantedTable[c][f] THEN Append(<<>>, x) ELSE <<>>
      BY <3>5
    <3>7. platform = "linux"
      BY <2>2, EarlyFacts
    <3>8. Queued(s, 0..255) = AddIf(TRUE, <<>>, f)
      <4>1. <<f>> \in Seq(DOMAIN Frames) /\ AddIf(TRUE, <<>>, f) = <<f>>
        <5>1. <<f>> \in Seq(DOMAIN Frames)
          BY <3>1, EarlyFacts
        <5>2. Append(<<>>, f) = <<f>>
          OBVIOUS
        <5>3. QED
          BY <5>1, <5>2 DEF AddIf
      <4>2. <<>> \o <<f>> = <<f>>
        BY <4>1, ConcatEmptySeq
      <4>3. s.block \o s.queue.primary = <<f>>
        BY <1>3, <3>1, <4>2
      <4>4. 0..255 # {UDP}
        BY DEF UDP
      <4>5. QED
        BY <4>1, <4>3, <4>4 DEF Queued
    <3>9. ASSUME NEW class \in Classes
          PROVE  Balanced(<<>>, AddIf(TRUE, <<>>, f), c, class, came)
      <4>1. class = 0..255
        BY <3>7 DEF Classes
      <4>2. AskedFor(c, f, class) <=> WantedTable[c][f]
        BY <4>1, AskedFacts
      <4>3. PICK due \in BOOLEAN : due = WantedTable[c][f]
        BY DEF WantedTable, Wanted
      <4>4. <<>> \in Seq(Contents) /\ <<>> \in Seq(DOMAIN Frames) /\ TRUE \in BOOLEAN
        OBVIOUS
      <4>5. Balanced(<<>>, <<>>, c, class, <<>>)
        BY BalancedAtFirst
      <4>6. Balanced(<<>>, AddIf(TRUE, <<>>, f), c, class,
                     IF due THEN Append(<<>>, Content(Frames[f])) ELSE <<>>)
        BY <4>2, <4>3, <4>4, <4>5, ArrivalBalanced
      <4>7. QED
        BY <3>2, <3>6, <4>3, <4>6
    <3>10. came \in Seq(Contents)
      BY <3>4, <3>5
    <3>11. Classes = {0..255}
      BY <3>7 DEF Classes
    <3>12. QED
      BY <1>3, <3>3, <3>8, <3>9, <3>10, <3>11 DEF Account
  <2>3. QED
    BY <2>1, <2>2
<1>9. QED
  BY <1>7, <1>8

(* A new subscription has no history but the early frames. *)
LEMMA AddDelivers ==
  ASSUME RawInvariant, Delivery, NEW c \in DOMAIN Configs, NEW early \in Early,
         AddSubscription(c, early)
  PROVE  Delivery'
<1>1. PICK n, new, first : /\ n = next_subscription_id /\ new = OpenRawSocket(c, early)
                          /\ first = EarlyWanted(c, early)
  OBVIOUS
<1>2. /\ n <= MaxId /\ RawValidate(Configs[c]) /\ Supported(Configs[c])
      /\ sockets' = With(sockets, n, new)
      /\ arrived' = [arrived EXCEPT ![n] = first]
      /\ UNCHANGED <<platform, received>>
  BY <1>1 DEF AddSubscription
<1>3. /\ platform \in Platforms /\ links \in [Interfaces -> Indexes] /\ n \in 1..(MaxId + 1)
      /\ \A id \in DOMAIN sockets : id < n
  BY <1>1, InvariantParts DEF TypeOK
<1>4. n \in Ids /\ n \notin DOMAIN sockets
  <2>1. MaxId \in Nat
    BY RawAssumptions
  <2>2. n \in Ids /\ ~(n < n)
    BY <1>2, <1>3, <2>1 DEF Ids
  <2>3. QED
    BY <1>3, <2>2
<1>5. CaptureSound(new) /\ Account(new, <<>>, first) /\ first \in Seq(Contents)
  BY <1>1, <1>2, <1>3, OpenSound
<1>6. /\ DOMAIN sockets' = DOMAIN sockets \cup {n} /\ sockets'[n] = new
      /\ \A id \in DOMAIN sockets : sockets'[id] = sockets[id]
  BY <1>2, <1>4 DEF With
<1>7. /\ received[n] = <<>> /\ arrived'[n] = first
      /\ \A id \in Ids \ {n} : arrived'[id] = arrived[id]
      /\ arrived' \in [Ids -> Seq(Contents)]
  BY <1>2, <1>4, <1>5 DEF Delivery, Histories
<1>8. Histories'
  BY <1>2, <1>6, <1>7 DEF Delivery, Histories
<1>9. ASSUME NEW id \in DOMAIN sockets'
      PROVE  /\ CaptureSound(sockets[id])'
             /\ Account(sockets[id], received[id], arrived[id])'
  <2>1. PICK t, out, came : t = sockets'[id] /\ out = received[id] /\ came = arrived'[id]
    OBVIOUS
  <2>2. CaptureSound(t) /\ Account(t, out, came)
    <3>1. CASE id = n
      BY <1>5, <1>6, <1>7, <2>1, <3>1
    <3>2. CASE id # n
      <4>1. id \in DOMAIN sockets /\ t = sockets[id]
        BY <1>6, <1>9, <2>1, <3>2
      <4>2. id \in Ids
        BY <4>1, DeliveryFacts
      <4>3. came = arrived[id]
        BY <1>7, <2>1, <3>2, <4>2
      <4>4. QED
        BY <2>1, <4>1, <4>3 DEF Delivery
    <3>3. QED
      BY <3>1, <3>2
  <2>3. CaptureSound(t)' /\ Account(t, out, came)'
    BY <1>2, <2>2, SamePlatform
  <2>4. received'[id] = out /\ arrived'[id] = came
    BY <1>2, <2>1
  <2>5. QED
    BY <2>1, <2>3, <2>4 DEF CaptureSound, Account
<1>10. QED
  BY <1>8, <1>9 DEF Delivery

(* A removed one has none left; the others keep theirs. *)
LEMMA RemoveDelivers ==
  ASSUME RawInvariant, Delivery, NEW i \in 1..Count, RemoveSubscription(i)
  PROVE  Delivery'
<1>1. PICK gone : gone = subscriptions[i].id
  OBVIOUS
<1>2. /\ sockets' = Without(sockets, gone)
      /\ arrived' = [arrived EXCEPT ![gone] = <<>>]
      /\ received' = [received EXCEPT ![gone] = <<>>]
      /\ platform' = platform
  BY <1>1 DEF RemoveSubscription, Forget
<1>3. /\ DOMAIN sockets' = DOMAIN sockets \ {gone}
      /\ \A id \in DOMAIN sockets' : sockets'[id] = sockets[id]
  BY <1>2 DEF Without
<1>4. arrived \in [Ids -> Seq(Contents)] /\ received \in [Ids -> Seq(Contents)] /\ gone \in Ids
  BY <1>1, InvariantParts DEF Delivery, Histories
<1>5. /\ arrived' \in [Ids -> Seq(Contents)] /\ received' \in [Ids -> Seq(Contents)]
      /\ arrived'[gone] = <<>> /\ received'[gone] = <<>>
      /\ \A id \in Ids : id # gone => arrived'[id] = arrived[id] /\ received'[id] = received[id]
  <2>1. <<>> \in Seq(Contents)
    OBVIOUS
  <2>2. QED
    BY <1>2, <1>4, <2>1
<1>6. Histories'
  BY <1>3, <1>5 DEF Delivery, Histories
<1>7. ASSUME NEW id \in DOMAIN sockets'
      PROVE  /\ CaptureSound(sockets[id])'
             /\ Account(sockets[id], received[id], arrived[id])'
  <2>1. PICK t, out, came : t = sockets[id] /\ out = received[id] /\ came = arrived[id]
    OBVIOUS
  <2>2. id \in DOMAIN sockets /\ id # gone /\ id \in Ids
    BY <1>3, <1>7, DeliveryFacts
  <2>3. CaptureSound(t) /\ Account(t, out, came)
    BY <2>1, <2>2 DEF Delivery
  <2>4. CaptureSound(t)' /\ Account(t, out, came)'
    BY <1>2, <2>3, SamePlatform
  <2>5. sockets'[id] = t /\ received'[id] = out /\ arrived'[id] = came
    BY <1>3, <1>5, <1>7, <2>1, <2>2
  <2>6. QED
    BY <2>4, <2>5 DEF CaptureSound, Account
<1>8. QED
  BY <1>6, <1>7 DEF Delivery

(* Joining and leaving move no frame. *)
LEMMA MembersDeliver ==
  ASSUME RawInvariant, Delivery, NEW i \in 1..Count, NEW P, NEW Q, SetMembers(subscriptions[i], P, Q),
         UNCHANGED <<platform, arrived, received>>
  PROVE  Delivery'
<1>1. PICK id, members : id = subscriptions[i].id /\ members = Changed(subscriptions[i], P, Q)
  OBVIOUS
<1>2. sockets' = [sockets EXCEPT ![id] = Manned(sockets[id], members)]
  BY <1>1, SetMembersFacts
<1>3. DOMAIN sockets' = DOMAIN sockets
  BY <1>2
<1>4. ASSUME NEW x \in DOMAIN sockets
      PROVE  /\ sockets'[x].config = sockets[x].config /\ sockets'[x].bound = sockets[x].bound
             /\ sockets'[x].filter = sockets[x].filter /\ sockets'[x].queue = sockets[x].queue
             /\ sockets'[x].block = sockets[x].block
  <2>1. CASE x = id
    <3>1. sockets'[x] = Manned(sockets[x], members)
      BY <1>2, <2>1
    <3>2. QED
      BY <3>1 DEF Manned
  <2>2. CASE x # id
    BY <1>2, <2>2
  <2>3. QED
    BY <2>1, <2>2
<1>5. QED
  BY <1>3, <1>4, NoTraffic

(* Every step keeps the accounts. *)
LEMMA StepDelivers ==
  ASSUME RawInvariant, Delivery, [Next]_vars
  PROVE  Delivery'
<1>1. ASSUME NEW c \in DOMAIN Configs, NEW early \in Early, AddSubscription(c, early)
      PROVE  Delivery'
  BY <1>1, AddDelivers
<1>2. ASSUME NEW i \in 1..Count, RemoveSubscription(i) PROVE Delivery'
  BY <1>2, RemoveDelivers
<1>3. ASSUME NEW i \in 1..Count, JoinSubscription(i) PROVE Delivery'
  <2>1. /\ SetMembers(subscriptions[i], Range(Parts), {})
        /\ UNCHANGED <<platform, arrived, received>>
    BY <1>3 DEF JoinSubscription, history
  <2>2. QED
    BY <2>1, MembersDeliver
<1>4. ASSUME NEW i \in 1..Count, NEW k \in 2..Len(Parts), JoinFails(i, k) PROVE Delivery'
  <2>1. /\ \E kept : SetMembers(subscriptions[i], kept, {})
        /\ UNCHANGED <<platform, arrived, received>>
    BY <1>4 DEF JoinFails, registry
  <2>2. QED
    BY <2>1, MembersDeliver
<1>5. ASSUME NEW i \in 1..Count, LeaveSubscription(i) PROVE Delivery'
  <2>1. /\ \E left : SetMembers(subscriptions[i], {}, left)
        /\ UNCHANGED <<platform, arrived, received>>
    BY <1>5 DEF LeaveSubscription
  <2>2. QED
    BY <2>1, MembersDeliver
<1>6. CASE \/ \E i \in 1..Count : TryRecv(i)
           \/ TryRecvAny \/ SkipUnjoined \/ WouldBlock \/ ReceiveFails
           \/ \E a \in Interfaces : AddressMoves(a)
           \/ UNCHANGED vars
  <2>1. UNCHANGED <<platform, sockets, arrived, received>>
    <3>1. ASSUME NEW i \in 1..Count, TryRecv(i)
          PROVE  UNCHANGED <<platform, sockets, arrived, received>>
      BY <3>1 DEF TryRecv, registry, history
    <3>2. CASE TryRecvAny
      BY <3>2 DEF TryRecvAny, registry, history
    <3>3. CASE SkipUnjoined \/ WouldBlock \/ ReceiveFails
      BY <3>3 DEF SkipUnjoined, WouldBlock, ReceiveFails, registry, history
    <3>4. CASE \E a \in Interfaces : AddressMoves(a)
      BY <3>4 DEF AddressMoves, registry
    <3>5. CASE UNCHANGED vars
      BY <3>5 DEF vars
    <3>6. QED
      BY <1>6, <3>1, <3>2, <3>3, <3>4, <3>5
  <2>2. QED
    BY <2>1, NoTraffic
<1>7. CASE ReadDatagram
  BY <1>7, ReadDatagramDelivers
<1>8. CASE ReadBlock
  BY <1>8, ReadBlockDelivers
<1>9. CASE SearchBlock
  BY <1>9, SearchBlockDelivers
<1>10. ASSUME NEW f \in DOMAIN Frames, NEW index \in Indexes, FrameArrives(f, index) PROVE Delivery'
  BY <1>10, FrameArrivesDelivers
<1>11. QED
  BY <1>1, <1>2, <1>3, <1>4, <1>5, <1>6, <1>7, <1>8, <1>9, <1>10 DEF Next, Receive

(* Every wanted datagram that reached the sockets of a subscription is     *)
(* handed out exactly once, in the order of arrival and with the content   *)
(* its sender meant, or waits in a queue or a block: through the blocks of *)
(* macOS, the two sockets of Windows and every change of the vector in     *)
(* between.  That the filter programs and the parser tell the wanted       *)
(* frames from the others is FrameAssumptions.                             *)
THEOREM ReceivedExactAlways == Spec => []ReceivedExact
<1>1. Init => Delivery
  <2>1. <<>> \in Seq(Contents)
    OBVIOUS
  <2>2. ASSUME Init PROVE Delivery
    BY <2>1, <2>2 DEF Init, Delivery, Histories
  <2>3. QED
    BY <2>2
<1>2. RawInvariant /\ Delivery /\ [Next]_vars => Delivery'
  BY StepDelivers
<1>3. Delivery => ReceivedExact
  BY DEF Delivery, Account, Balanced, ReceivedExact
<1>4. QED
  BY <1>1, <1>2, <1>3, InvariantAlways, PTL DEF Spec
=============================================================================
