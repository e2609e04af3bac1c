---------------------------- MODULE MCUdpContext ----------------------------
(* A small instance of UdpContext. *)
EXTENDS UdpContext, TLC

CONSTANTS g1, g2, s1, if1, p1, p2

Config(group, source, port, interface, index) ==
  [group |-> group, source |-> source, port |-> port, interface |-> interface, index |-> index]
Datagram(group, source, index, control) ==
  [group |-> group, source |-> source, index |-> index, control |-> control]

(* An any-source subscription on an IPv4 address, which may move, and      *)
(* a source-specific one of another group on an explicit index.            *)
MixedConfigs == {Config(g1, AnySource, p1, if1, 0), Config(g2, s1, p1, NoAddress, 2)}

(* What each of them wants, told by two control messages and by one, a     *)
(* datagram from the wrong interface and one without metadata.             *)
ForFirst       == Datagram(g1, s1, 1, <<RecvDstAddr(g1), RecvIf(1)>>)
ForSecond      == Datagram(g2, s1, 2, <<PktInfo(g2, 2)>>)
WrongInterface == Datagram(g2, s1, 1, <<RecvDstAddr(g2), RecvIf(1)>>)
MixedDatagrams == {ForFirst, ForSecond, WrongInterface, Datagram(g1, s1, 1, <<>>)}

(* Sockets of the caller: one bound to another port, one that already      *)
(* holds a datagram for somebody else and one of the group it will serve.  *)
MixedSockets == {Bound(p2, <<>>), Bound(p1, <<WrongInterface, ForFirst>>)}
=============================================================================
