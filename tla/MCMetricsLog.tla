---------------------------- MODULE MCMetricsLog ----------------------------
(* A small instance of MetricsLog.  The first three command lines spell    *)
(* one receiver in three ways, the fourth differs in its source; the       *)
(* others are refused: by the parser for a missing value, an unknown flag, *)
(* a scope that names no interface or a text too many, by validation for a *)
(* source-specific group without a source.                                 *)
EXTENDS MetricsLog

CONSTANTS p1, p2

MCInterfaces == [en0 |-> 7]

Group       == <<255, 62, 0, 0, 0, 0, 0, 0, 0, 0, 0, 0, 0, 0, 0, 1>>
LinkLocal   == <<254, 128, 0, 0, 0, 0, 0, 0, 0, 0, 0, 0, 0, 0, 0, 1>>
Sender(n)   == <<253, 0, 0, 0, 0, 0, 0, 0, 0, 0, 0, 0, 0, 0, 0, n>>
Receiver(rest) == <<Ip(Group), Number(5000)>> \o rest

MCCommandLines ==
  {Receiver(rest) : rest \in
     {<<Ip(Sender(1)), Number(7)>>,
      <<Flag("--interface"), Number(7), Flag("--source"), Ip(Sender(1))>>,
      <<Flag("--interface"), Number(3), Ip(Sender(1)), Number(7)>>,
      <<Ip(Sender(2)), Flag("--interface"), Number(7)>>,
      <<Flag("--source")>>,
      <<Flag("--group"), Ip(Group)>>,
      <<Ip(Sender(1)), Scoped(LinkLocal, Name("en9"))>>,
      <<Ip(Sender(1)), Ip(LinkLocal), Number(7)>>,
      <<Flag("--interface"), Scoped(LinkLocal, Name("en0"))>>}}

(* A user who names the sender in the environment. *)
MCEnvironments == {NotSet, NotAnObject, Object([source_addr |-> Sender(1)])}

MCOtherFlags ==
  {OwnFlags(ParseReceiveCliArgs(Receiver(<<Ip(Sender(1)), Number(7)>>)).config)}

MCSymmetry == Permutations({p1, p2})
=============================================================================
