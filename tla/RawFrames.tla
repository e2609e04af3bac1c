------------------------------ MODULE RawFrames ------------------------------
(***************************************************************************)
(* What raw receive does with one captured frame (src/platform/raw.rs):    *)
(* the classic BPF programs it attaches to its sockets, the removal of the *)
(* link layer on macOS, the IP header parser and the last check against    *)
(* the configuration.  All of them are operators on bytes, checked against *)
(* what the sender of the frame meant (Wanted, Content).                   *)
(***************************************************************************)
EXTENDS ConfigRules, SequencesExt

-----------------------------------------------------------------------------
(* External: a frame as its sender means it, and its bytes.  A frame is    *)
(*   [source, group, protocol, payload, tags, pad, cut]:                   *)
(* payload is the length of the IP payload, tags are the ethertypes of its *)
(* VLAN tags, pad the bytes of padding after the datagram and cut the      *)
(* bytes missing at its end.                                               *)
UDP == 17

Zeros(n)  == [i \in 1..n |-> 0]
Word16(n) == <<n \div 256, n % 256>>

IpHeader(frame) ==
  IF IsIpv4(frame.group)
    THEN <<69, 0>> \o Word16(20 + frame.payload) \o Zeros(5) \o <<frame.protocol>>
           \o Zeros(2) \o frame.source \o frame.group
    ELSE <<96, 0, 0, 0>> \o Word16(frame.payload) \o <<frame.protocol, 1>>
           \o frame.source \o frame.group

IpBytes(frame) ==
  LET whole == IpHeader(frame) \o Zeros(frame.payload + frame.pad)
  IN  SubSeq(whole, 1, Len(whole) - frame.cut)

EtherType(frame) == IF IsIpv4(frame.group) THEN <<8, 0>> ELSE <<134, 221>>

LinkHeader(frame, datalink) ==
  CASE datalink = "raw"  -> <<>>
    [] datalink = "null" -> Zeros(4)
    [] datalink = "ethernet" ->
         Zeros(12) \o FlattenSeq([i \in DOMAIN frame.tags |-> frame.tags[i] \o Zeros(2)])
           \o EtherType(frame)

FrameBytes(frame, datalink) == LinkHeader(frame, datalink) \o IpBytes(frame)

(* A complete datagram that is not a jumbogram. *)
Intact(frame) == frame.cut = 0 /\ (IsIpv4(frame.group) \/ frame.payload > 0 \/ frame.protocol # 0)

(* The datagrams a subscription with this configuration asks for. *)
Wanted(frame, config) ==
  /\ Intact(frame)
  /\ frame.group = config.group
  /\ config.source # NoAddr => frame.source = config.source

(* What the application should get of it: the datagram without padding. *)
Content(frame) ==
  [source |-> frame.source, group |-> frame.group, protocol |-> frame.protocol,
   datagram_len |-> Len(IpHeader(frame)) + frame.payload]

-----------------------------------------------------------------------------
(* Classic BPF.  The accumulator holds the bytes that were loaded, most    *)
(* significant first, and k the bytes they are masked or compared with.    *)
Load(width, offset) == [code |-> "ld", width |-> width, offset |-> offset]
And(mask)           == [code |-> "and", k |-> mask]
JumpEq(k, jt, jf)   == [code |-> "jeq", k |-> k, jt |-> jt, jf |-> jf]
Ret(accept)         == [code |-> "ret", accept |-> accept]

(* Every failed comparison of the program goes to its last instruction. *)
PatchRejects(program) ==
  [i \in DOMAIN program |->
     IF program[i].code = "jeq" THEN [program[i] EXCEPT !.jf = Len(program) - i - 1]
     ELSE program[i]]

(* add_comparison for each word of the address *)
Comparisons(at, address) ==
  FlattenSeq([word \in 1..(Len(address) \div 4) |->
    <<Load(4, at + 4 * (word - 1)), JumpEq(SubSeq(address, 4 * word - 3, 4 * word), 0, 0)>>])

VersionCheck(family, ip_offset) ==
  <<Load(1, ip_offset), And(240), JumpEq(IF family = 4 THEN <<64>> ELSE <<96>>, 0, 0)>>

SourceOffset(family)      == IF family = 4 THEN 12 ELSE 8
DestinationOffset(family) == IF family = 4 THEN 16 ELSE 24

BpfIpFilter(config, ip_offset) ==
  LET family == Family(config.group) IN
  PatchRejects(
    VersionCheck(family, ip_offset)
      \o Comparisons(ip_offset + DestinationOffset(family), config.group)
      \o Comparisons(ip_offset + SourceOffset(family), config.source)
      \o <<Ret(TRUE), Ret(FALSE)>>)

(* bpf_ip_multicast_family_filter, of a shared capture *)
BpfIpMulticastFamilyFilter(family, ip_offset) ==
  PatchRejects(
    VersionCheck(family, ip_offset)
      \o <<Load(1, ip_offset + DestinationOffset(family))>>
      \o (IF family = 4 THEN <<And(240), JumpEq(<<224>>, 0, 0)>> ELSE <<JumpEq(<<255>>, 0, 0)>>)
      \o <<Ret(TRUE), Ret(FALSE)>>)

(* apple_subscription_filter: tagged Ethernet frames are left to the       *)
(* process, whatever they carry.                                           *)
AppleSubscriptionFilter(datalink, config) ==
  CASE datalink = "raw"  -> BpfIpFilter(config, 0)
    [] datalink = "null" -> BpfIpFilter(config, 4)
    [] datalink = "ethernet" ->
         <<Load(2, 12),
           JumpEq(IF IsIpv4(config.group) THEN <<8, 0>> ELSE <<134, 221>>, 7, 0),
           JumpEq(<<129, 0>>, 0, 1), Ret(TRUE),
           JumpEq(<<136, 168>>, 0, 1), Ret(TRUE),
           JumpEq(<<145, 0>>, 0, 1), Ret(TRUE),
           Ret(FALSE)>> \o BpfIpFilter(config, 14)

(* External: how the kernel runs a program.  All jumps go forward; a load  *)
(* beyond the end of the frame rejects it.                                 *)
BpfStep(program, bytes, m) ==
  LET i == program[m.pc] IN
  CASE m.done        -> m
    [] i.code = "ld" ->
         IF i.offset + i.width > Len(bytes) THEN [m EXCEPT !.done = TRUE]
         ELSE [m EXCEPT !.pc = @ + 1, !.acc = SubSeq(bytes, i.offset + 1, i.offset + i.width)]
    [] i.code = "and" -> [m EXCEPT !.pc = @ + 1, !.acc = <<(m.acc[1] \div (256 - i.k)) * (256 - i.k)>>]
    [] i.code = "jeq" -> [m EXCEPT !.pc = @ + 1 + (IF m.acc = i.k THEN i.jt ELSE i.jf)]
    [] i.code = "ret" -> [m EXCEPT !.done = TRUE, !.accept = i.accept]

BpfAccepts(program, bytes) ==
  LET run[n \in 0..Len(program)] ==
        IF n = 0 THEN [pc |-> 1, acc |-> <<>>, done |-> FALSE, accept |-> FALSE]
        ELSE BpfStep(program, bytes, run[n - 1])
  IN  run[Len(program)].accept

-----------------------------------------------------------------------------
(* Link layer and IP header.  None is <<>> or NotIp. *)
VlanTypes == {<<129, 0>>, <<136, 168>>, <<145, 0>>}

(* The ethertype after each number of tags, as far as the frame reaches. *)
EtherTypes(bytes) == [n \in 1..((Len(bytes) - 10) \div 4) |-> SubSeq(bytes, 9 + 4 * n, 10 + 4 * n)]
IpTypes == {<<8, 0>>, <<134, 221>>}

(* strip_ethernet_link_layer: skip the tags, keep what an IP ethertype     *)
(* announces.                                                              *)
StripEthernetLinkLayer(bytes) ==
  LET types == EtherTypes(bytes)
      n     == SelectInSeq(types, LAMBDA t : t \notin VlanTypes)
  IN  IF n > 0 /\ types[n] \in IpTypes THEN SubSeq(bytes, 11 + 4 * n, Len(bytes)) ELSE <<>>

StripAppleLinkLayer(bytes, datalink) ==
  CASE datalink = "raw"      -> bytes
    [] datalink = "null"     -> SubSeq(bytes, 5, Len(bytes))
    [] datalink = "ethernet" -> StripEthernetLinkLayer(bytes)

NotIp == [datagram_len |-> 0]

At16(bytes, offset) == bytes[offset + 1] * 256 + bytes[offset + 2]
Octets(bytes, offset, n) == SubSeq(bytes, offset + 1, offset + n)

ParseIpv4Datagram(bytes) ==
  LET ihl == (bytes[1] % 16) * 4 IN
  IF Len(bytes) < 20 \/ ihl < 20 \/ Len(bytes) < ihl \/ At16(bytes, 2) < ihl \/ Len(bytes) < At16(bytes, 2)
    THEN NotIp
    ELSE [source |-> Octets(bytes, 12, 4), group |-> Octets(bytes, 16, 4),
          protocol |-> bytes[10], datagram_len |-> At16(bytes, 2)]

ParseIpv6Datagram(bytes) ==
  IF \/ Len(bytes) < 40
     \/ At16(bytes, 4) = 0 /\ bytes[7] = 0   \* possibly a jumbogram
     \/ Len(bytes) < 40 + At16(bytes, 4)
    THEN NotIp
    ELSE [source |-> Octets(bytes, 8, 16), group |-> Octets(bytes, 24, 16),
          protocol |-> bytes[7], datagram_len |-> 40 + At16(bytes, 4)]

ParseIpDatagram(bytes) ==
  IF bytes = <<>> THEN NotIp
  ELSE CASE bytes[1] \div 16 = 4 -> ParseIpv4Datagram(bytes)
         [] bytes[1] \div 16 = 6 -> ParseIpv6Datagram(bytes)
         [] OTHER -> NotIp

(* packet_matches_config *)
PacketMatchesConfig(parsed, config) ==
  /\ SameFamily(parsed.group, config.group)
  /\ parsed.group = config.group
  /\ config.source # NoAddr => parsed.source = config.source
==============================================================================
