---------------------------- MODULE MCRawContext ----------------------------
(* An instance of RawContext: two interfaces, Ethernet and loopback.       *)
EXTENDS RawContext

V4(a, b, c, d) == <<a, b, c, d>>
V6(first, second, last) == [i \in 1..16 |-> CASE i = 1 -> first [] i = 2 -> second [] i = 16 -> last [] OTHER -> 0]

Eth4 == V4(10, 0, 0, 1)
Eth6 == V6(253, 0, 1)

MCInitialLinks == [a \in {Eth4, Eth6} |-> 1]
MCDatalink     == <<"ethernet", "null">>

Asm4   == [group |-> V4(239, 1, 1, 1), source |-> NoAddr, interface |-> Eth4, interface_index |-> NoIndex]
Ssm4   == [group |-> V4(232, 1, 1, 1), source |-> V4(10, 0, 0, 9), interface |-> Eth4,
           interface_index |-> NoIndex]
Asm6   == [group |-> V6(255, 21, 1), source |-> NoAddr, interface |-> Eth6, interface_index |-> NoIndex]
\* an address and the index of another interface
Ssm6   == [group |-> V6(255, 53, 1), source |-> V6(253, 0, 9), interface |-> Eth6, interface_index |-> 2]
\* refused by validate
Mixed4 == [Ssm4 EXCEPT !.source = V6(253, 0, 9)]
Index4 == [Asm4 EXCEPT !.interface_index = 2]

MCConfigs == [asm4 |-> Asm4, asm6 |-> Asm6, ssm6 |-> Ssm6, mixed4 |-> Mixed4, index4 |-> Index4]

Frame(source, group, protocol) ==
  [source |-> source, group |-> group, protocol |-> protocol, payload |-> 2, tags |-> <<>>,
   pad |-> 0, cut |-> 0]

MCFrames ==
  [udp4     |-> Frame(V4(10, 0, 0, 9), Asm4.group, UDP),
   padded4  |-> [Frame(V4(10, 0, 0, 9), Asm4.group, 2) EXCEPT !.pad = 4],
   cut4     |-> [Frame(V4(10, 0, 0, 9), Asm4.group, UDP) EXCEPT !.cut = 1],
   unicast4 |-> Frame(V4(10, 0, 0, 9), Eth4, UDP),
   tagged6  |-> [Frame(V6(253, 0, 9), Asm6.group, UDP) EXCEPT !.tags = <<<<136, 168>>, <<129, 0>>>>],
   ssm6     |-> Frame(V6(253, 0, 9), Ssm6.group, 6),
   other6   |-> Frame(V6(253, 0, 8), Ssm6.group, UDP),
   jumbo6   |-> [Frame(V6(253, 0, 9), Asm6.group, 0) EXCEPT !.payload = 0]]

(* The filter of a shared capture admits exactly the multicast datagrams   *)
(* of its family: it loses none that a subscription may ask for, and       *)
(* leaves unicast and the other family in the kernel.                      *)
ASSUME SharedFilterExact ==
  \A f \in DOMAIN Frames, family \in {4, 16} :
    Intact(Frames[f]) =>
      (BpfAccepts(BpfIpMulticastFamilyFilter(family, 0), IpBytes(Frames[f]))
         <=> Family(Frames[f].group) = family /\ IsMulticast(Frames[f].group))
==============================================================================
