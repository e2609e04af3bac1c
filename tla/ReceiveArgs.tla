----------------------------- MODULE ReceiveArgs -----------------------------
(***************************************************************************)
(* The command line of the demo receivers (src/bin/common/recv_args.rs):   *)
(* group, port, and then a source and an interface, each given by its      *)
(* position or by a flag.                                                  *)
(*                                                                         *)
(* An argument is a text of one of five kinds: a flag, an address, a       *)
(* number, a name, or an address with a scope ("fe80::1%7", "fe80::1%en0") *)
(* whose scope is a number or a name.  The name of the program is left out *)
(* of a command line.                                                      *)
(***************************************************************************)
EXTENDS ConfigRules, SequencesExt

CONSTANT InterfaceIndex  \* the interfaces the system has, by name

Flag(name)             == [kind |-> "flag", name |-> name]
Ip(address)            == [kind |-> "ip", address |-> address]
Number(n)              == [kind |-> "number", n |-> n]
Name(name)             == [kind |-> "name", name |-> name]
Scoped(address, scope) == [kind |-> "scoped", address |-> address, scope |-> scope]

ParseIp(text) == IF text.kind = "ip" THEN text.address ELSE NoAddr

(* 0 for a port that does not fit 16 bits, or is no number. *)
ParsePort(text) == IF text.kind = "number" /\ text.n \in 1..65535 THEN text.n ELSE 0

(* if_nametoindex: 0 for a name no interface has. *)
InterfaceNameToIndex(name) ==
  IF name \in DOMAIN InterfaceIndex THEN InterfaceIndex[name] ELSE 0

(* The index of a scope, 0 for one that is refused. *)
ParseInterfaceScope(scope) ==
  CASE scope.kind = "number" -> scope.n
    [] scope.kind = "name"   -> InterfaceNameToIndex(scope.name)

(* What an interface is given as: for IPv6 a scoped address or an index    *)
(* besides an address.                                                     *)
ParseInterfaceValue(group, text) ==
  IF ~IsIpv4(group) /\ text.kind = "scoped"
    THEN [valid |-> ~IsIpv4(text.address) /\ ParseInterfaceScope(text.scope) # 0,
          interface |-> text.address, interface_index |-> ParseInterfaceScope(text.scope)]
  ELSE IF ~IsIpv4(group) /\ text.kind = "number"
    THEN [valid |-> ParseInterfaceScope(text) # 0,
          interface |-> NoAddr, interface_index |-> ParseInterfaceScope(text)]
  ELSE [valid |-> ParseIp(text) # NoAddr,
        interface |-> ParseIp(text), interface_index |-> NoIndex]

NoSelectors ==
  [valid |-> TRUE, source |-> NoAddr, interface |-> NoAddr, interface_index |-> NoIndex]

WithSource(selectors, text) ==
  [selectors EXCEPT !.valid = @ /\ ParseIp(text) # NoAddr, !.source = ParseIp(text)]

WithInterface(selectors, group, text) ==
  LET parsed == ParseInterfaceValue(group, text) IN
  [selectors EXCEPT !.valid = @ /\ parsed.valid,
                    !.interface = parsed.interface,
                    !.interface_index = parsed.interface_index]

(* parse_flag_args: a flag given twice counts as given last. *)
ParseFlagArgs(group, flagged) ==
  FoldLeft(LAMBDA selectors, pair :
             CASE pair.flag = "--source"    -> WithSource(selectors, pair.value)
               [] pair.flag = "--interface" -> WithInterface(selectors, group, pair.value)
               [] OTHER                     -> [selectors EXCEPT !.valid = FALSE],
           NoSelectors, flagged)

(* The flags with the text behind each, whatever it is, and the other      *)
(* texts in their order.  A flag at the end has no value.                  *)
SplitArgs(remainder) ==
  FoldLeft(LAMBDA split, text :
             IF split.open # ""
               THEN [split EXCEPT !.flagged = Append(@, [flag |-> split.open, value |-> text]),
                                  !.open = ""]
             ELSE IF text.kind = "flag" THEN [split EXCEPT !.open = text.name]
             ELSE [split EXCEPT !.positional = Append(@, text)],
           [flagged |-> <<>>, positional |-> <<>>, open |-> ""], remainder)

(* parse_mixed_args: the positions fill what the flags leave open.  An     *)
(* interface given by its index leaves the address open, so that one more  *)
(* position replaces it.                                                   *)
ParseMixedArgs(group, remainder) ==
  LET split     == SplitArgs(remainder)
      flags     == ParseFlagArgs(group, split.flagged)
      source_at == IF flags.source = NoAddr /\ split.positional # <<>> THEN 1 ELSE 0
      sourced   == IF source_at = 1 THEN WithSource(flags, split.positional[1]) ELSE flags
      rest      == SubSeq(split.positional, source_at + 1, Len(split.positional))
      used      == IF rest # <<>> /\ flags.interface = NoAddr THEN 1 ELSE 0
      last      == IF used = 1 THEN WithInterface(sourced, group, rest[1]) ELSE sourced
  IN  [last EXCEPT !.valid = @ /\ split.open = "" /\ Len(rest) = used]

(* parse_receive_cli_args, and the configuration made of the result. *)
Refused == [valid |-> FALSE]

ParseReceiveCliArgs(args) ==
  IF Len(args) < 2 THEN Refused ELSE
  LET group     == ParseIp(args[1])
      dst_port  == ParsePort(args[2])
      selectors == ParseMixedArgs(group, SubSeq(args, 3, Len(args)))
  IN  IF group = NoAddr \/ dst_port = 0 \/ ~selectors.valid \/ ~IsMulticast(group)
        THEN Refused
        ELSE [valid |-> TRUE,
              config |-> [group |-> group, source |-> selectors.source, dst_port |-> dst_port,
                          interface |-> selectors.interface,
                          interface_index |-> selectors.interface_index]]

-----------------------------------------------------------------------------
(* What a command line asks for, read off its texts: a source is what the  *)
(* last --source says, or else the first position; an interface is what    *)
(* the last --interface says unless that is a mere index and a position is *)
(* left over, or else the position behind the source's.                    *)
Given(args, name) == {i \in 3..Len(args) : args[i] = Flag(name)}
Positions(args)   == {i \in 3..Len(args) : args[i].kind # "flag" /\ args[i - 1].kind # "flag"}

Places(address, scope) == [address |-> address, index |-> scope]
Place(text) ==
  CASE text.kind = "ip"     -> Places(text.address, NoIndex)
    [] text.kind = "number" -> Places(NoAddr, text.n)
    [] text.kind = "scoped" -> Places(text.address, ParseInterfaceScope(text.scope))

AsksFor(args) ==
  LET flagged(name) == args[Max(Given(args, name)) + 1]
      by_flag       == Given(args, "--source") # {}
      first         == IF Positions(args) = {} THEN 0 ELSE Min(Positions(args))
      left          == IF by_flag THEN Positions(args) ELSE Positions(args) \ {first}
      replaced      == Given(args, "--interface") # {} =>
                         left # {} /\ flagged("--interface").kind = "number"
  IN  [group |-> args[1], dst_port |-> args[2],
       source |-> IF by_flag THEN flagged("--source").address
                  ELSE IF first # 0 THEN args[first].address ELSE NoAddr,
       interface |-> IF ~replaced THEN Place(flagged("--interface"))
                     ELSE IF left # {} THEN Place(args[Min(left)])
                     ELSE Places(NoAddr, NoIndex)]
=============================================================================
