-------------------------- MODULE MetricsLogProofs --------------------------
(***************************************************************************)
(* Proofs about MetricsLog, for every set of receivers, command lines and  *)
(* environments and for every bound: the headers of the two logs, what a   *)
(* cut write can damage, that a receiver can be started again, that deltas *)
(* add up, and that a log is about one receiver.                           *)
(***************************************************************************)
EXTENDS MetricsLog, FiniteSetTheorems, TLAPS

(* The flags of a receiver, read back. *)
LEMMA FlagsShow ==
  ASSUME NEW config, NEW environment, NEW shown,
         shown = BuildReceiverMetricsFlags(config, environment)
  PROVE  /\ shown["multicast_group"] = config.group
         /\ shown["multicast_port"] = config.dst_port
         /\ shown["multicast_interface"] = InterfaceString(config.interface, config.interface_index)
         /\ shown["join_mode"] = IF config.source = NoAddr THEN "asm" ELSE "ssm"
         /\ config.source # NoAddr => shown["source_addr"] = config.source
<1>1. CASE config.source = NoAddr
  BY <1>1 DEF BuildReceiverMetricsFlags, OwnFlags, Extended, NoFlags
<1>2. CASE config.source # NoAddr
  BY <1>2 DEF BuildReceiverMetricsFlags, OwnFlags, Extended
<1>3. QED
  BY <1>1, <1>2

(* A receiver's configuration is a valid one of five fields.               *)
LEMMA ReceiverConfig ==
  ASSUME NEW x \in Receivers
  PROVE  /\ x.asked \in {r.asked : r \in Receivers}
         /\ Validate(x.config)
         /\ x.config = [group |-> x.config.group, source |-> x.config.source,
                        dst_port |-> x.config.dst_port, interface |-> x.config.interface,
                        interface_index |-> x.config.interface_index]
<1>1. PICK args \in CommandLines :
        /\ x = [asked |-> AsksFor(args), config |-> ParseReceiveCliArgs(args).config]
        /\ ParseReceiveCliArgs(args).valid
        /\ Validate(ParseReceiveCliArgs(args).config)
  BY DEF Receivers
<1>2. ParseReceiveCliArgs(args) # Refused
  BY <1>1 DEF Refused
<1>3. ASSUME NEW g, NEW s, NEW d, NEW i, NEW n, NEW c,
             c = [group |-> g, source |-> s, dst_port |-> d, interface |-> i,
                  interface_index |-> n]
      PROVE  c = [group |-> c.group, source |-> c.source, dst_port |-> c.dst_port,
                  interface |-> c.interface, interface_index |-> c.interface_index]
  BY <1>3
<1>4. PICK g, s, d, i, n :
        x.config = [group |-> g, source |-> s, dst_port |-> d, interface |-> i,
                    interface_index |-> n]
  BY <1>1, <1>2 DEF ParseReceiveCliArgs
<1>5. QED
  BY <1>1, <1>3, <1>4

(* The flags of a header tell two configurations apart, whatever the       *)
(* environment of each receiver named.                                     *)
LEMMA SameFlagsSameConfig ==
  ASSUME NEW x \in Receivers, NEW y \in Receivers, NEW e, NEW d,
         BuildReceiverMetricsFlags(x.config, e) = BuildReceiverMetricsFlags(y.config, d)
  PROVE  x.config = y.config
<1>1. /\ Validate(x.config) /\ Validate(y.config)
      /\ x.config = [group |-> x.config.group, source |-> x.config.source,
                     dst_port |-> x.config.dst_port, interface |-> x.config.interface,
                     interface_index |-> x.config.interface_index]
      /\ y.config = [group |-> y.config.group, source |-> y.config.source,
                     dst_port |-> y.config.dst_port, interface |-> y.config.interface,
                     interface_index |-> y.config.interface_index]
  BY ReceiverConfig
<1>2. /\ x.config.group = y.config.group
      /\ x.config.dst_port = y.config.dst_port
      /\ InterfaceString(x.config.interface, x.config.interface_index) =
         InterfaceString(y.config.interface, y.config.interface_index)
      /\ x.config.source = NoAddr <=> y.config.source = NoAddr
      /\ x.config.source # NoAddr => x.config.source = y.config.source
  BY FlagsShow
<1>3. /\ x.config.interface = y.config.interface
      /\ ~IsIpv4(x.config.interface) => x.config.interface_index = y.config.interface_index
  BY <1>2 DEF InterfaceString
<1>4. ASSUME NEW c, Validate(c), IsIpv4(c.interface)
      PROVE  c.interface_index = NoIndex
  <2>1. c.interface # NoAddr
    <3>1. Len(NoAddr) = 0 /\ Len(c.interface) = 4
      BY <1>4 DEF IsIpv4, Family, NoAddr
    <3>2. Len(NoAddr) # Len(c.interface)
      BY <3>1
    <3>3. QED
      BY <3>2, Zenon
  <2>2. QED
    BY <1>4, <2>1 DEF Validate, ValidSelection, SameFamily, IsIpv4
<1>5. x.config.interface_index = y.config.interface_index
  BY <1>1, <1>3, <1>4
<1>6. QED
  BY <1>1, <1>2, <1>3, <1>5

-----------------------------------------------------------------------------
(* A file and one line more. *)

(* The lines of a file: a header of the right artifact comes first, rows   *)
(* follow, and only a file with a line can end in the middle of one.       *)
Shaped(file, f) ==
  /\ file \in FileType
  /\ file.lines = <<>> => file.terminated
  /\ \A i \in 1..Len(file.lines) : file.lines[i] # <<>>
  /\ \A i \in 1..Len(file.lines) : \A j \in 1..Len(file.lines[i]) :
       IF i = 1 /\ j = 1
         THEN file.lines[1][1].value \in HeaderType /\ file.lines[1][1].value.artifact_type = f
         ELSE file.lines[i][j].value \in RowType

(* What may be written to it next. *)
Fits(file, f, value) ==
  IF file.lines = <<>> THEN value \in HeaderType /\ value.artifact_type = f
                       ELSE value \in RowType

Text(value, cut) == [value |-> value, whole |-> cut # "middle"]

(* Where the next text goes: its line, and its place in it. *)
NextLine(file)  == IF file.terminated THEN Len(file.lines) + 1 ELSE Len(file.lines)
NextPlace(file) == IF file.terminated THEN 1 ELSE Len(file.lines[Len(file.lines)]) + 1

(* write_json_line adds one text and leaves the others where they are.     *)
LEMMA WriteLines ==
  ASSUME NEW file, NEW f \in Artifacts, NEW value, NEW cut \in Cuts, NEW after,
         Shaped(file, f), value \in HeaderType \cup RowType,
         after = WriteJsonLine(file, value, cut)
  PROVE  /\ after \in FileType
         /\ after.terminated <=> cut = "none"
         /\ NextLine(file) \in 1..(Len(file.lines) + 1) /\ NextPlace(file) \in Nat \ {0}
         /\ Len(after.lines) = NextLine(file)
         /\ \A i \in 1..Len(after.lines) : i # NextLine(file) =>
              i \in 1..Len(file.lines) /\ after.lines[i] = file.lines[i]
         /\ Len(after.lines[NextLine(file)]) = NextPlace(file)
         /\ after.lines[NextLine(file)][NextPlace(file)] = Text(value, cut)
         /\ \A j \in 1..NextPlace(file) : j # NextPlace(file) =>
              /\ NextLine(file) \in 1..Len(file.lines)
              /\ j \in 1..Len(file.lines[NextLine(file)])
              /\ after.lines[NextLine(file)][j] = file.lines[NextLine(file)][j]
         /\ NextLine(file) \in 1..Len(file.lines) =>
              /\ ~file.terminated /\ NextLine(file) = Len(file.lines)
              /\ Len(file.lines[NextLine(file)]) = NextPlace(file) - 1
              /\ NextPlace(file) # 1
<1> DEFINE L == file.lines
           text == Text(value, cut)
<1>1. /\ L \in Seq(Seq(TextType)) /\ Len(L) \in Nat /\ file.terminated \in BOOLEAN
      /\ text \in TextType
      /\ after = [lines |-> after.lines, terminated |-> after.terminated]
      /\ after.terminated = (cut = "none")
  BY DEF Shaped, FileType, TextType, Text, WriteJsonLine
<1>2. CASE file.terminated
  <2>1. after.lines = Append(L, <<text>>)
    BY <1>2 DEF WriteJsonLine, Text
  <2>2. /\ NextLine(file) = Len(L) + 1 /\ NextPlace(file) = 1
    BY <1>2 DEF NextLine, NextPlace
  <2>3. <<text>> \in Seq(TextType) /\ Len(<<text>>) = 1 /\ <<text>>[1] = text
    BY <1>1
  <2>4. /\ after.lines \in Seq(Seq(TextType)) /\ Len(after.lines) = Len(L) + 1
        /\ \A i \in 1..Len(L) : after.lines[i] = L[i]
        /\ after.lines[Len(L) + 1] = <<text>>
    BY <1>1, <2>1, <2>3
  <2>5. after \in FileType
    BY <1>1, <2>4 DEF FileType
  <2>6. /\ NextLine(file) \in 1..(Len(L) + 1) /\ NextPlace(file) \in Nat \ {0}
        /\ \A i \in 1..(Len(L) + 1) : i # Len(L) + 1 => i \in 1..Len(L)
        /\ \A j \in 1..1 : j = 1
        /\ ~(Len(L) + 1 \in 1..Len(L))
    <3>1. ASSUME NEW n \in Nat
          PROVE  /\ n + 1 \in 1..(n + 1) /\ 1 \in Nat \ {0}
                 /\ \A i \in 1..(n + 1) : i # n + 1 => i \in 1..n
                 /\ \A j \in 1..1 : j = 1
                 /\ ~(n + 1 \in 1..n)
      OBVIOUS
    <3>2. Len(L) \in Nat
      BY <1>1
    <3>3. QED
      BY <2>2, <3>1, <3>2
  <2>7. QED
    BY <1>1, <2>2, <2>3, <2>4, <2>5, <2>6
<1>3. CASE ~file.terminated
  <2> DEFINE n == Len(L)
  <2>1. L # <<>> /\ n \in 1..n /\ n \in Nat
    BY <1>1, <1>3 DEF Shaped
  <2>2. after.lines = [L EXCEPT ![n] = Append(@, text)]
    BY <1>3 DEF WriteJsonLine, Text
  <2>3. NextLine(file) = n /\ NextPlace(file) = Len(L[n]) + 1
    BY <1>3 DEF NextLine, NextPlace
  <2>4. L[n] \in Seq(TextType) /\ L[n] # <<>>
    <3>1. L[n] \in Seq(TextType)
      BY <1>1, <2>1
    <3>2. QED
      BY <2>1, <3>1 DEF Shaped
  <2>5. /\ Append(L[n], text) \in Seq(TextType) /\ Len(Append(L[n], text)) = Len(L[n]) + 1
        /\ Len(L[n]) \in Nat /\ Len(L[n]) # 0
        /\ \A j \in 1..Len(L[n]) : Append(L[n], text)[j] = L[n][j]
        /\ Append(L[n], text)[Len(L[n]) + 1] = text
    BY <1>1, <2>4
  <2>6. /\ after.lines \in Seq(Seq(TextType)) /\ Len(after.lines) = n
        /\ \A i \in 1..n : i # n => after.lines[i] = L[i]
        /\ after.lines[n] = Append(L[n], text)
    BY <1>1, <2>1, <2>2, <2>5
  <2>7. after \in FileType
    BY <1>1, <2>6 DEF FileType
  <2>8. /\ n \in 1..(n + 1) /\ Len(L[n]) + 1 \in Nat \ {0} /\ Len(L[n]) + 1 # 1
        /\ \A j \in 1..(Len(L[n]) + 1) : j # Len(L[n]) + 1 => j \in 1..Len(L[n])
        /\ Len(L[n]) = (Len(L[n]) + 1) - 1
    BY <2>1, <2>5
  <2>9. QED
    BY <1>1, <1>3, <2>1, <2>3, <2>5, <2>6, <2>7, <2>8
<1>4. QED
  BY <1>2, <1>3

(* What fits keeps the lines in shape, and the first text stays first.     *)
LEMMA WriteShaped ==
  ASSUME NEW file, NEW f \in Artifacts, NEW value, NEW cut \in Cuts, NEW after,
         Shaped(file, f), Fits(file, f, value), after = WriteJsonLine(file, value, cut)
  PROVE  /\ Shaped(after, f)
         /\ after.lines # <<>>
         /\ after.lines[1][1].value =
              IF file.lines = <<>> THEN value ELSE file.lines[1][1].value
<1> DEFINE L == Len(file.lines)
           a == NextLine(file)
           b == NextPlace(file)
<1>1. value \in HeaderType \cup RowType
  BY DEF Fits
<1>2. /\ after \in FileType
      /\ after.terminated <=> cut = "none"
      /\ a \in 1..(L + 1) /\ b \in Nat \ {0}
      /\ Len(after.lines) = a
      /\ \A i \in 1..a : i # a => i \in 1..L /\ after.lines[i] = file.lines[i]
      /\ Len(after.lines[a]) = b
      /\ after.lines[a][b] = Text(value, cut)
      /\ \A j \in 1..b : j # b =>
           a \in 1..L /\ j \in 1..Len(file.lines[a]) /\ after.lines[a][j] = file.lines[a][j]
      /\ a \in 1..L => b # 1
  BY <1>1, WriteLines
<1>3. /\ file.lines \in Seq(Seq(TextType)) /\ L \in Nat /\ (file.lines = <<>> <=> L = 0)
      /\ after.lines \in Seq(Seq(TextType))
  BY <1>2 DEF Shaped, FileType
<1> HIDE DEF a, b
<1>4. /\ a \in Nat /\ b \in Nat /\ a # 0 /\ b # 0
      /\ 1 \in 1..a /\ a \in 1..a /\ 1 \in 1..b /\ b \in 1..b
      /\ L = 0 => a = 1
      /\ L # 0 => 1 \in 1..L
  BY <1>2, <1>3
<1>5. L = 0 => a = 1 /\ b = 1
  <2>1. L = 0 => ~(a \in 1..L)
    BY <1>3
  <2>2. QED
    BY <1>2, <1>4, <2>1
<1>6. L # 0 => ~(a = 1 /\ b = 1)
  BY <1>2, <1>4
<1>7. Text(value, cut).value = value
  BY DEF Text
<1>8. L = 0 => after.lines[1][1].value = value
  BY <1>2, <1>5, <1>7
<1>9. L # 0 => after.lines[1][1] = file.lines[1][1]
  <2>1. CASE L # 0 /\ a # 1
    BY <1>2, <1>4, <2>1
  <2>2. CASE L # 0 /\ a = 1
    BY <1>2, <1>4, <1>6, <2>2
  <2>3. QED
    BY <2>1, <2>2
<1>10. ASSUME NEW i \in 1..Len(after.lines)
       PROVE  after.lines[i] # <<>>
  <2>1. CASE i # a
    BY <1>2, <2>1 DEF Shaped
  <2>2. CASE i = a
    BY <1>2, <1>4, <2>2
  <2>3. QED
    BY <2>1, <2>2
<1>11. ASSUME NEW i \in 1..Len(after.lines), NEW j \in 1..Len(after.lines[i])
       PROVE  IF i = 1 /\ j = 1
                THEN after.lines[1][1].value \in HeaderType /\ after.lines[1][1].value.artifact_type = f
                ELSE after.lines[i][j].value \in RowType
  <2>1. CASE i = 1 /\ j = 1 /\ L = 0
    BY <1>3, <1>8, <2>1 DEF Fits
  <2>2. CASE i = 1 /\ j = 1 /\ L # 0
    <3>1. 1 \in 1..L /\ 1 \in 1..Len(file.lines[1])
      <4>1. file.lines[1] # <<>> /\ file.lines[1] \in Seq(TextType)
        BY <1>3, <1>4, <2>2 DEF Shaped
      <4>2. QED
        BY <1>4, <2>2, <4>1
    <3>2. QED
      BY <1>9, <2>2, <3>1 DEF Shaped
  <2>3. CASE ~(i = 1 /\ j = 1) /\ i # a
    <3>1. i \in 1..L /\ after.lines[i] = file.lines[i]
      BY <1>2, <2>3
    <3>2. QED
      BY <2>3, <3>1 DEF Shaped
  <2>4. CASE ~(i = 1 /\ j = 1) /\ i = a /\ j # b
    <3>1. /\ i \in 1..L /\ j \in 1..Len(file.lines[i])
          /\ after.lines[i][j] = file.lines[i][j]
      BY <1>2, <2>4
    <3>2. QED
      BY <2>4, <3>1 DEF Shaped
  <2>5. CASE ~(i = 1 /\ j = 1) /\ i = a /\ j = b
    BY <1>2, <1>3, <1>5, <1>7, <2>5 DEF Fits
  <2>6. QED
    BY <2>1, <2>2, <2>3, <2>4, <2>5
<1>12. after.lines # <<>>
  BY <1>2, <1>3, <1>4
<1>13. Shaped(after, f)
  BY <1>2, <1>10, <1>11, <1>12 DEF Shaped
<1>14. QED
  BY <1>3, <1>8, <1>9, <1>12, <1>13

(* A file holds what was written to it.                                    *)
LEMMA WriteContents ==
  ASSUME NEW file, NEW f \in Artifacts, NEW value, NEW cut \in Cuts, NEW after,
         Shaped(file, f), value \in HeaderType \cup RowType,
         after = WriteJsonLine(file, value, cut)
  PROVE  Contents(after) = Contents(file) \cup {value}
<1> DEFINE L == Len(file.lines)
           a == NextLine(file)
           b == NextPlace(file)
<1>1. /\ a \in 1..(L + 1) /\ b \in Nat \ {0}
      /\ Len(after.lines) = a
      /\ \A i \in 1..a : i # a => i \in 1..L /\ after.lines[i] = file.lines[i]
      /\ Len(after.lines[a]) = b
      /\ after.lines[a][b] = Text(value, cut)
      /\ \A j \in 1..b : j # b =>
           a \in 1..L /\ j \in 1..Len(file.lines[a]) /\ after.lines[a][j] = file.lines[a][j]
      /\ a \in 1..L => a = L /\ Len(file.lines[a]) = b - 1
  BY WriteLines
<1>2. L \in Nat
  BY DEF Shaped, FileType
<1>3. \A v : v \in Contents(file) <=>
               \E i \in 1..L : \E j \in 1..Len(file.lines[i]) : v = file.lines[i][j].value
  BY DEF Contents
<1>4. \A v : v \in Contents(after) <=>
               \E i \in 1..a : \E j \in 1..Len(after.lines[i]) : v = after.lines[i][j].value
  BY <1>1 DEF Contents
<1> HIDE DEF a, b, L
<1>5. /\ a \in Nat /\ b \in Nat /\ a \in 1..a /\ b \in 1..b
      /\ \A i \in 1..L : i # a => i \in 1..a
      /\ \A j \in 1..(b - 1) : j \in 1..b /\ j # b
  <2>1. a = L \/ a = L + 1
    BY <1>1, <1>2
  <2>2. QED
    BY <1>1, <1>2, <2>1
<1>6. Text(value, cut).value = value
  BY DEF Text
<1>7. ASSUME NEW v \in Contents(after)
      PROVE  v \in Contents(file) \cup {value}
  <2>1. PICK i \in 1..a : \E j \in 1..Len(after.lines[i]) : v = after.lines[i][j].value
    BY <1>4
  <2>2. CASE i # a
    <3>1. i \in 1..L /\ after.lines[i] = file.lines[i]
      BY <1>1, <2>2
    <3>2. QED
      BY <1>3, <2>1, <3>1
  <2>3. CASE i = a
    <3>1. PICK j \in 1..b : v = after.lines[a][j].value
      BY <1>1, <2>1, <2>3
    <3>2. CASE j = b
      BY <1>1, <1>6, <3>1, <3>2
    <3>3. CASE j # b
      <4>1. a \in 1..L /\ j \in 1..Len(file.lines[a]) /\ after.lines[a][j] = file.lines[a][j]
        BY <1>1, <3>3
      <4>2. QED
        BY <1>3, <3>1, <4>1
    <3>4. QED
      BY <3>2, <3>3
  <2>4. QED
    BY <2>2, <2>3
<1>8. value \in Contents(after)
  BY <1>1, <1>4, <1>5, <1>6
<1>9. ASSUME NEW v \in Contents(file)
      PROVE  v \in Contents(after)
  <2>1. PICK i \in 1..L : \E j \in 1..Len(file.lines[i]) : v = file.lines[i][j].value
    BY <1>3
  <2>2. PICK j \in 1..Len(file.lines[i]) : v = file.lines[i][j].value
    BY <2>1
  <2>3. CASE i # a
    <3>1. i \in 1..a /\ after.lines[i] = file.lines[i]
      BY <1>1, <1>5, <2>3
    <3>2. QED
      BY <1>4, <2>1, <3>1
  <2>4. CASE i = a
    <3>1. j \in 1..(b - 1)
      BY <1>1, <2>4
    <3>2. j \in 1..b /\ j # b
      BY <1>5, <3>1
    <3>3. after.lines[a][j] = file.lines[a][j]
      BY <1>1, <3>2
    <3>4. QED
      BY <1>1, <1>4, <1>5, <2>2, <2>4, <3>2, <3>3
  <2>5. QED
    BY <2>3, <2>4
<1>10. QED
  BY <1>7, <1>8, <1>9
-----------------------------------------------------------------------------
(* What cut writes damage. *)

Unfinished(file) == IF file.terminated THEN 0 ELSE 1

(* Acknowledged rows that cannot be read, and an unfinished line, which    *)
(* the next row may be glued to, are paid for by cut writes.  The row in   *)
(* an unfinished line was not acknowledged.  Without a cut every line is   *)
(* JSON.                                                                   *)
Damage(file, ack, cut_short, written) ==
  /\ written \in Nat /\ cut_short \in Nat
  /\ ack \subseteq 1..written
  /\ Cardinality(ack \ ReadableRows(file)) + Unfinished(file) <= cut_short
  /\ ~file.terminated /\ ReadableRow(file.lines[Len(file.lines)]) =>
       Value(file.lines[Len(file.lines)]).n \notin ack
  /\ cut_short = 0 => \A i \in 1..Len(file.lines) : IsJson(file.lines[i])

(* One line more loses at most one acknowledged row, and that one when a   *)
(* cut had left a line unfinished.                                         *)
LEMMA WriteLoses ==
  ASSUME NEW file, NEW f \in Artifacts, NEW value, NEW cut \in Cuts, NEW after,
         NEW ack, NEW cut_short, NEW written,
         Shaped(file, f), Fits(file, f, value), after = WriteJsonLine(file, value, cut),
         Damage(file, ack, cut_short, written)
  PROVE  /\ ack \ ReadableRows(after) \subseteq ack \ ReadableRows(file)
         /\ file.terminated /\ cut = "none" /\ value.kind = "sample" =>
              value.n \in ReadableRows(after)
         /\ ~after.terminated /\ ReadableRow(after.lines[Len(after.lines)]) =>
              Value(after.lines[Len(after.lines)]) = value
         /\ file.terminated /\ cut = "none" /\
              (\A i \in 1..Len(file.lines) : IsJson(file.lines[i])) =>
                \A i \in 1..Len(after.lines) : IsJson(after.lines[i])
<1> DEFINE L == Len(file.lines)
           a == NextLine(file)
           b == NextPlace(file)
<1>1. value \in HeaderType \cup RowType
  BY DEF Fits
<1>2. /\ a \in 1..(L + 1) /\ b \in Nat \ {0}
      /\ Len(after.lines) = a
      /\ \A i \in 1..a : i # a => i \in 1..L /\ after.lines[i] = file.lines[i]
      /\ Len(after.lines[a]) = b
      /\ after.lines[a][b] = Text(value, cut)
      /\ a \in 1..L => ~file.terminated /\ a = L /\ b # 1
  BY <1>1, WriteLines
<1>3. L \in Nat /\ (~file.terminated => a = L /\ a \in 1..L) /\ (file.terminated => a = L + 1 /\ b = 1)
  <2>1. file.lines \in Seq(Seq(TextType)) /\ (~file.terminated => file.lines # <<>>)
    BY DEF Shaped, FileType
  <2>2. QED
    BY <2>1 DEF NextLine, NextPlace
<1>4. \A n : n \in ReadableRows(file) <=>
               \E i \in 1..L : ReadableRow(file.lines[i]) /\ n = Value(file.lines[i]).n
  BY DEF ReadableRows
<1>5. \A n : n \in ReadableRows(after) <=>
               \E i \in 1..a : ReadableRow(after.lines[i]) /\ n = Value(after.lines[i]).n
  BY <1>2 DEF ReadableRows
<1> HIDE DEF a, b, L
<1>6. ASSUME NEW n \in ack, n \in ReadableRows(file)
      PROVE  n \in ReadableRows(after)
  <2>1. PICK i \in 1..L : ReadableRow(file.lines[i]) /\ n = Value(file.lines[i]).n
    BY <1>4, <1>6
  <2>2. i # a
    <3>1. CASE file.terminated
      BY <1>3, <3>1
    <3>2. CASE ~file.terminated
      BY <1>3, <1>6, <2>1, <3>2 DEF Damage, L
    <3>3. QED
      BY <3>1, <3>2
  <2>3. i \in 1..a
    BY <1>2, <1>3, <2>2
  <2>4. QED
    BY <1>2, <1>5, <2>1, <2>2, <2>3
<1>7. /\ Text(value, cut).value = value
      /\ Text(value, cut).whole <=> cut # "middle"
  BY DEF Text
<1>8. IsJson(after.lines[a]) <=> b = 1 /\ cut # "middle"
  BY <1>2, <1>7 DEF IsJson
<1>9. IsJson(after.lines[a]) => Value(after.lines[a]) = value
  BY <1>2, <1>7, <1>8 DEF Value
<1>10. a \in 1..a
  BY <1>2, <1>3
<1>11. file.terminated /\ cut = "none" /\ value.kind = "sample" => value.n \in ReadableRows(after)
  BY <1>3, <1>5, <1>8, <1>9, <1>10 DEF ReadableRow
<1>12. ReadableRow(after.lines[Len(after.lines)]) => Value(after.lines[Len(after.lines)]) = value
  BY <1>2, <1>9 DEF ReadableRow
<1>13. ASSUME file.terminated, cut = "none", \A i \in 1..L : IsJson(file.lines[i]), NEW i \in 1..a
       PROVE  IsJson(after.lines[i])
  BY <1>2, <1>3, <1>8, <1>13
<1>14. QED
  BY <1>2, <1>6, <1>11, <1>12, <1>13 DEF L

(* The rows acknowledged, and the writes cut short, with one line more. *)
WithAck(ack, value, cut) ==
  IF cut = "none" /\ value.kind = "sample" THEN ack \cup {value.n} ELSE ack
WithCut(cut_short, cut) == IF cut = "none" THEN cut_short ELSE cut_short + 1

(* A cut write pays for the row it costs.                                  *)
LEMMA WriteDamage ==
  ASSUME NEW file, NEW f \in Artifacts, NEW value, NEW cut \in Cuts, NEW after,
         NEW ack, NEW cut_short, NEW written, NEW ack_after, NEW cuts_after,
         NEW written_after \in Nat,
         Shaped(file, f), Fits(file, f, value), after = WriteJsonLine(file, value, cut),
         Damage(file, ack, cut_short, written), written <= written_after,
         value.kind = "sample" => value.n \in (written + 1)..written_after,
         ack_after = WithAck(ack, value, cut), cuts_after = WithCut(cut_short, cut)
  PROVE  Damage(after, ack_after, cuts_after, written_after)
<1> DEFINE lost == ack \ ReadableRows(file)
           lost_after == ack_after \ ReadableRows(after)
<1>1. /\ ack \ ReadableRows(after) \subseteq lost
      /\ file.terminated /\ cut = "none" /\ value.kind = "sample" =>
           value.n \in ReadableRows(after)
      /\ ~after.terminated /\ ReadableRow(after.lines[Len(after.lines)]) =>
           Value(after.lines[Len(after.lines)]) = value
      /\ file.terminated /\ cut = "none" /\
           (\A i \in 1..Len(file.lines) : IsJson(file.lines[i])) =>
             \A i \in 1..Len(after.lines) : IsJson(after.lines[i])
  BY WriteLoses
<1>2. /\ written \in Nat /\ cut_short \in Nat /\ ack \subseteq 1..written
      /\ Cardinality(lost) + Unfinished(file) <= cut_short
      /\ cut_short = 0 => \A i \in 1..Len(file.lines) : IsJson(file.lines[i])
  BY DEF Damage
<1>3. after.terminated <=> cut = "none"
  BY DEF WriteJsonLine
<1>4. IsFiniteSet(lost) /\ Cardinality(lost) \in Nat
  <2>1. IsFiniteSet(1..written)
    BY <1>2, FS_Interval
  <2>2. IsFiniteSet(lost)
    BY <1>2, <2>1, FS_Subset
  <2>3. QED
    BY <2>2, FS_CardinalityType
<1>5. ack_after \subseteq 1..written_after /\ cuts_after \in Nat
  <2>1. \A i \in 1..written : i \in 1..written_after
    BY <1>2
  <2>2. value.kind = "sample" => value.n \in 1..written_after
    BY <1>2
  <2>3. ack \subseteq 1..written_after
    BY <1>2, <2>1
  <2>4. ack_after \subseteq 1..written_after
    BY <2>2, <2>3, Zenon DEF WithAck
  <2>5. cuts_after \in Nat
    BY <1>2 DEF WithCut
  <2>6. QED
    BY <2>4, <2>5
<1>6. Cardinality(lost_after) + Unfinished(after) <= cuts_after
  <2>1. CASE lost_after \subseteq lost /\ (cut = "none" => file.terminated)
    <3>1. Cardinality(lost_after) \in Nat /\ Cardinality(lost_after) <= Cardinality(lost)
      BY <1>4, <2>1, FS_Subset, FS_CardinalityType
    <3>2. QED
      BY <1>2, <1>3, <1>4, <2>1, <3>1 DEF Unfinished, WithCut
  <2>2. CASE cut = "none" /\ ~file.terminated
    <3>1. PICK n : lost_after \subseteq lost \cup {n}
      BY <1>1 DEF WithAck
    <3>2. IsFiniteSet(lost \cup {n}) /\ Cardinality(lost \cup {n}) <= Cardinality(lost) + 1
          /\ Cardinality(lost \cup {n}) \in Nat
      <4>1. IsFiniteSet(lost)
        BY <1>4
      <4>2. /\ IsFiniteSet(lost \cup {n})
            /\ Cardinality(lost \cup {n}) =
                 IF n \in lost THEN Cardinality(lost) ELSE Cardinality(lost) + 1
        BY <4>1, FS_AddElement, Zenon
      <4>3. QED
        BY <1>4, <4>2
    <3>3. Cardinality(lost_after) <= Cardinality(lost \cup {n}) /\ Cardinality(lost_after) \in Nat
      BY <3>1, <3>2, FS_Subset, FS_CardinalityType
    <3>4. QED
      BY <1>2, <1>3, <1>4, <2>2, <3>2, <3>3 DEF Unfinished, WithCut
  <2>3. lost_after \subseteq lost \/ (cut = "none" /\ ~file.terminated)
    BY <1>1 DEF WithAck
  <2>4. CASE cut # "none"
    BY <1>1, <2>1, <2>4 DEF WithAck
  <2>5. QED
    BY <2>1, <2>2, <2>3, <2>4
<1>7. ~after.terminated /\ ReadableRow(after.lines[Len(after.lines)]) =>
        Value(after.lines[Len(after.lines)]).n \notin ack_after
  <2>1. SUFFICES ASSUME ~after.terminated, ReadableRow(after.lines[Len(after.lines)])
                 PROVE  Value(after.lines[Len(after.lines)]).n \notin ack_after
    OBVIOUS
  <2>2. Value(after.lines[Len(after.lines)]) = value /\ value.kind = "sample" /\ ack_after = ack
    BY <1>1, <1>3, <2>1 DEF ReadableRow, WithAck
  <2>3. ~(value.n \in 1..written)
    BY <1>2, <2>2
  <2>4. QED
    BY <1>2, <2>2, <2>3
<1>8. cuts_after = 0 => \A i \in 1..Len(after.lines) : IsJson(after.lines[i])
  <2>1. SUFFICES ASSUME cuts_after = 0
                 PROVE  \A i \in 1..Len(after.lines) : IsJson(after.lines[i])
    OBVIOUS
  <2>2. cut = "none" /\ cut_short = 0
    BY <1>2, <2>1 DEF WithCut
  <2>3. Unfinished(file) # 1
    BY <1>2, <1>4, <2>2
  <2>4. file.terminated
    BY <2>3 DEF Unfinished
  <2>5. QED
    BY <1>1, <1>2, <2>2, <2>4
<1>9. QED
  BY <1>5, <1>6, <1>7, <1>8 DEF Damage
-----------------------------------------------------------------------------
(* What the rows of a run add up to. *)

RunRows(texts, run) == {v \in texts : v.kind = "sample" /\ v.run = run}

(* The total of the last of some rows, 0 if there are none. *)
LastIs(rows, total) ==
  \/ rows = {} /\ total = 0
  \/ \E r \in rows : r.total = total /\ \A q \in rows : q.n <= r.n

(* A row accounts for no more than what was counted since the row before,  *)
(* and for all of it unless the clock was set back.                        *)
Accounts(rows, row, exact) ==
  \E before \in Nat :
    /\ LastIs({r \in rows : r.n < row.n}, before)
    /\ row.delta \in 0..(row.total - before) /\ row.interval >= 0
    /\ exact => row.delta = row.total - before

(* Rows are numbered in the order they were written, each accounts for     *)
(* its run's progress, and rows of run 0 are those of other programs.      *)
Ledger(texts, written, known_runs, back) ==
  /\ texts \subseteq HeaderType \cup RowType
  /\ written \in Nat /\ known_runs \in Nat
  /\ \A v \in texts : v.kind = "sample" => v.n <= written /\ v.run <= known_runs
  /\ \A v, w \in texts : v.kind = "sample" /\ w.kind = "sample" /\ v.n = w.n => v = w
  /\ \A v \in texts : v.kind = "sample" /\ v.run # 0 =>
       Accounts(RunRows(texts, v.run), v, v.run \notin back)

(* Headers and rows by their kind.                                         *)
LEMMA Kinds ==
  /\ \A v \in HeaderType : v.kind = "header" /\ v \notin RowType
  /\ \A v \in RowType : /\ v.kind = "sample" /\ v \notin HeaderType
                        /\ v.n \in Nat /\ v.run \in Nat /\ v.total \in Nat
                        /\ v.delta \in Nat /\ v.interval \in Nat
  BY MetricsAssumptions DEF HeaderType, RowType

(* The rows of a set that holds the headers and rows written.              *)
LEMMA RowsTyped ==
  ASSUME NEW texts, texts \subseteq HeaderType \cup RowType
  PROVE  \A v \in texts : v.kind = "sample" => v \in RowType
  BY Kinds

(* A ledger stays one while runs start and the clock is set back.          *)
LEMMA LedgerKept ==
  ASSUME NEW texts, NEW written, NEW known_runs, NEW back,
         NEW written_after \in Nat, NEW runs_after \in Nat, NEW back_after,
         Ledger(texts, written, known_runs, back),
         written <= written_after, known_runs <= runs_after, back \subseteq back_after
  PROVE  Ledger(texts, written_after, runs_after, back_after)
<1>1. /\ texts \subseteq HeaderType \cup RowType /\ written \in Nat /\ known_runs \in Nat
      /\ \A v \in texts : v.kind = "sample" => v.n <= written /\ v.run <= known_runs
      /\ \A v, w \in texts : v.kind = "sample" /\ w.kind = "sample" /\ v.n = w.n => v = w
      /\ \A v \in texts : v.kind = "sample" /\ v.run # 0 =>
           Accounts(RunRows(texts, v.run), v, v.run \notin back)
  BY DEF Ledger
<1>2. ASSUME NEW v \in texts, v.kind = "sample"
      PROVE  v.n <= written_after /\ v.run <= runs_after
  <2>1. v.n \in Nat /\ v.run \in Nat
    BY <1>1, <1>2, Kinds
  <2>2. QED
    BY <1>1, <1>2, <2>1
<1>3. ASSUME NEW v \in texts, v.kind = "sample", v.run # 0
      PROVE  Accounts(RunRows(texts, v.run), v, v.run \notin back_after)
  <2>1. Accounts(RunRows(texts, v.run), v, v.run \notin back)
    BY <1>1, <1>3
  <2>2. v.run \notin back_after => v.run \notin back
    OBVIOUS
  <2>3. QED
    BY <2>1, <2>2 DEF Accounts
<1>4. QED
  BY <1>1, <1>2, <1>3 DEF Ledger

(* A header more changes no run's rows.                                    *)
LEMMA LedgerHeader ==
  ASSUME NEW texts, NEW written, NEW known_runs, NEW back, NEW value \in HeaderType, NEW after,
         Ledger(texts, written, known_runs, back), after = texts \cup {value}
  PROVE  /\ Ledger(after, written, known_runs, back)
         /\ \A run : RunRows(after, run) = RunRows(texts, run)
<1>1. \A v \in after : v.kind = "sample" => v \in texts
  BY Kinds
<1>2. \A run : RunRows(after, run) = RunRows(texts, run)
  BY <1>1 DEF RunRows
<1>3. after \subseteq HeaderType \cup RowType
  BY DEF Ledger
<1>4. /\ \A v \in after : v.kind = "sample" => v.n <= written /\ v.run <= known_runs
      /\ \A v, w \in after : v.kind = "sample" /\ w.kind = "sample" /\ v.n = w.n => v = w
  BY <1>1 DEF Ledger
<1>5. \A v \in after : v.kind = "sample" /\ v.run # 0 =>
        Accounts(RunRows(after, v.run), v, v.run \notin back)
  BY <1>1, <1>2 DEF Ledger
<1>6. QED
  BY <1>2, <1>3, <1>4, <1>5 DEF Ledger

(* A row counts on from the last one of its run. *)
CountsOn(texts, back, row) ==
  \E before \in Nat :
    /\ LastIs(RunRows(texts, row.run), before)
    /\ row.delta \in 0..(row.total - before) /\ row.interval >= 0
    /\ row.run \notin back => row.delta = row.total - before

(* A row more, numbered behind all others, is its run's last, and counts   *)
(* on from the last before it.                                             *)
LEMMA LedgerRow ==
  ASSUME NEW texts, NEW written, NEW known_runs, NEW back, NEW value \in RowType, NEW after,
         NEW written_after \in Nat,
         Ledger(texts, written, known_runs, back), after = texts \cup {value},
         written < value.n, value.n <= written_after, value.run <= known_runs,
         value.run = 0 \/ CountsOn(texts, back, value)
  PROVE  /\ Ledger(after, written_after, known_runs, back)
         /\ \A run : run # value.run => RunRows(after, run) = RunRows(texts, run)
         /\ LastIs(RunRows(after, value.run), value.total)
<1>1. /\ texts \subseteq HeaderType \cup RowType /\ written \in Nat /\ known_runs \in Nat
      /\ \A v \in texts : v.kind = "sample" => v.n <= written /\ v.run <= known_runs
      /\ \A v, w \in texts : v.kind = "sample" /\ w.kind = "sample" /\ v.n = w.n => v = w
      /\ \A v \in texts : v.kind = "sample" /\ v.run # 0 =>
           Accounts(RunRows(texts, v.run), v, v.run \notin back)
  BY DEF Ledger
<1>2. value.kind = "sample" /\ value.n \in Nat /\ value.run \in Nat
  BY Kinds
<1>3. \A v \in texts : v.kind = "sample" => v.n \in Nat /\ v.n < value.n
  <2>1. SUFFICES ASSUME NEW v \in texts, v.kind = "sample"
                 PROVE  v.n \in Nat /\ v.n < value.n
    OBVIOUS
  <2>2. v.n \in Nat
    BY <1>1, <2>1, Kinds
  <2>3. QED
    BY <1>1, <1>2, <2>1, <2>2
<1>4. \A run : run # value.run => RunRows(after, run) = RunRows(texts, run)
  BY DEF RunRows
<1>5. RunRows(after, value.run) = RunRows(texts, value.run) \cup {value}
  BY <1>2 DEF RunRows
<1>6. LastIs(RunRows(after, value.run), value.total)
  <2>1. \A q \in RunRows(after, value.run) : q.n <= value.n
    BY <1>2, <1>3, <1>5 DEF RunRows
  <2>2. QED
    BY <1>5, <2>1 DEF LastIs
<1>7. ASSUME NEW v \in texts, v.kind = "sample", NEW run
      PROVE  {r \in RunRows(after, run) : r.n < v.n} = {r \in RunRows(texts, run) : r.n < v.n}
  <2>1. ~(value.n < v.n)
    BY <1>2, <1>3, <1>7
  <2>2. QED
    BY <1>4, <1>5, <2>1
<1>8. {r \in RunRows(after, value.run) : r.n < value.n} = RunRows(texts, value.run)
  <2>1. ~(value.n < value.n)
    BY <1>2
  <2>2. \A r \in RunRows(texts, value.run) : r.n < value.n
    BY <1>3 DEF RunRows
  <2>3. QED
    BY <1>5, <2>1, <2>2
<1>9. after \subseteq HeaderType \cup RowType
  BY <1>1
<1>10. ASSUME NEW v \in after, v.kind = "sample"
       PROVE  v.n <= written_after /\ v.run <= known_runs
  <2>1. CASE v = value
    BY <2>1
  <2>2. CASE v \in texts
    <3>1. v.n \in Nat /\ v.n < value.n /\ v.run <= known_runs
      BY <1>1, <1>3, <1>10, <2>2
    <3>2. QED
      BY <1>2, <3>1
  <2>3. QED
    BY <2>1, <2>2
<1>11. ASSUME NEW v \in after, NEW w \in after, v.kind = "sample", w.kind = "sample", v.n = w.n
       PROVE  v = w
  <2>1. CASE v \in texts /\ w \in texts
    BY <1>1, <1>11, <2>1
  <2>2. CASE v = value /\ w \in texts
    BY <1>2, <1>3, <1>11, <2>2
  <2>3. CASE v \in texts /\ w = value
    BY <1>2, <1>3, <1>11, <2>3
  <2>4. QED
    BY <2>1, <2>2, <2>3
<1>12. ASSUME NEW v \in after, v.kind = "sample", v.run # 0
       PROVE  Accounts(RunRows(after, v.run), v, v.run \notin back)
  <2>1. CASE v = value
    BY <1>8, <1>12, <2>1 DEF Accounts, CountsOn
  <2>2. CASE v \in texts
    <3>1. Accounts(RunRows(texts, v.run), v, v.run \notin back)
      BY <1>1, <1>12, <2>2
    <3>2. {r \in RunRows(after, v.run) : r.n < v.n} = {r \in RunRows(texts, v.run) : r.n < v.n}
      BY <1>7, <1>12, <2>2
    <3>3. QED
      BY <3>1, <3>2 DEF Accounts
  <2>3. QED
    BY <2>1, <2>2
<1>13. Ledger(after, written_after, known_runs, back)
  BY <1>1, <1>9, <1>10, <1>11, <1>12 DEF Ledger
<1>14. QED
  BY <1>4, <1>6, <1>13

(* The last of rows numbered apart is the one LastTotal chooses.           *)
LEMMA LastTotalIs ==
  ASSUME NEW rows, NEW total, LastIs(rows, total),
         \A v \in rows : v.n \in Nat,
         \A v, w \in rows : v.n = w.n => v = w
  PROVE  LastTotal(rows) = total
<1>1. CASE rows = {}
  BY <1>1 DEF LastIs, LastTotal
<1>2. CASE rows # {}
  <2>1. PICK r \in rows : r.total = total /\ \A q \in rows : q.n <= r.n
    BY <1>2 DEF LastIs
  <2>2. \A s \in rows : (\A q \in rows : q.n <= s.n) => s = r
    BY <2>1
  <2>3. (CHOOSE s \in rows : \A q \in rows : q.n <= s.n) = r
    BY <2>1, <2>2
  <2>4. QED
    BY <1>2, <2>1, <2>3 DEF LastTotal
<1>3. QED
  BY <1>1, <1>2
-----------------------------------------------------------------------------
(* The invariant. *)

FirstValue(file) == file.lines[1][1].value

(* The header of a log is that of a run. *)
Titled(f, run) == files[f].lines # <<>> /\ FirstValue(files[f]).flags = started[run].flags

(* What a baseline has counted is what the rows written so far show, or    *)
(* more if the clock was set back.                                         *)
Accounted(f, run, count) ==
  \E total \in Nat :
    /\ LastIs(RowsOf(f, run), total)
    /\ total <= count
    /\ run \notin set_back => total = count

FilesSound ==
  \A f \in Artifacts :
    /\ Shaped(files[f], f)
    /\ Damage(files[f], acked[f], cuts[f], writes)
    /\ Ledger(Texts(f), writes, runs, set_back)

(* The hardware log has the header of the network log. *)
PairTitled ==
  files["process-hardware"].lines # <<>> =>
    /\ files["mcrx-network"].lines # <<>>
    /\ FirstValue(files["mcrx-network"]).flags = FirstValue(files["process-hardware"]).flags

RowsTitled ==
  \A f \in Artifacts : \A run \in 1..runs : RowsOf(f, run) # {} => Titled(f, run)

StartedReceivers ==
  \A run \in 1..runs : \E receiver \in Receivers, environment \in Environments :
    started[run] =
      [asked |-> receiver.asked,
       flags |-> BuildReceiverMetricsFlags(receiver.config, MetricsFlagsFromEnv(environment))]

RunsUnique ==
  \A p, q \in Processes : Running(p) /\ Running(q) /\ process[p].run = process[q].run => p = q

(* A receiver past its opening of a log finds its own header there, and    *)
(* its baselines are what its rows show.                                   *)
Sound(p) ==
  /\ process[p].run \in 1..runs
  /\ process[p].pc \in {"open hardware", "hardware"} => has_hardware
  /\ process[p].pc # "open network" => Titled("mcrx-network", process[p].run)
  /\ process[p].pc \in {"loop", "hardware"} /\ has_hardware =>
       Titled("process-hardware", process[p].run)
  /\ process[p].context.count <= process[p].packets
  /\ process[p].run \notin set_back =>
       /\ process[p].context.captured_at <= clock
       /\ process[p].hardware.captured_at <= clock
  /\ Accounted("mcrx-network", process[p].run, process[p].context.count)
  /\ Accounted("process-hardware", process[p].run, process[p].hardware.count)

ProcessesSound == \A p \in Processes : Running(p) => Sound(p)

IInv ==
  /\ TypeOK /\ FilesSound /\ PairTitled /\ RowsTitled
  /\ StartedReceivers /\ RunsUnique /\ ProcessesSound

(* Of the two logs one is for the network. *)
LEMMA TwoArtifacts ==
  /\ "mcrx-network" \in Artifacts /\ "process-hardware" \in Artifacts
  /\ \A f \in Artifacts : f # "mcrx-network" => f = "process-hardware"
  BY DEF Artifacts

(* A receiver either runs or has no state, and what runs has its fields.   *)
LEMMA RunningTyped ==
  ASSUME TypeOK, NEW p \in Processes
  PROVE  /\ Running(p) <=> process[p] \in ProcessType
         /\ Running(p) =>
              /\ process[p].pc \in {"open network", "open hardware", "loop", "hardware"}
              /\ process[p].run \in 1..MaxRuns /\ process[p].run \in Nat
              /\ process[p].created_at \in 0..MaxTime
              /\ process[p].packets \in 0..MaxCount
              /\ process[p].context \in SnapshotType /\ process[p].hardware \in SnapshotType
              /\ process[p].context.count \in 0..MaxCount
              /\ process[p].context.captured_at \in 0..MaxTime
              /\ process[p].hardware.count \in 0..MaxCount
              /\ process[p].hardware.captured_at \in 0..MaxTime
         /\ ~Running(p) => process[p] = NotRunning
<1>1. process[p] \in ProcessType \cup {NotRunning} /\ NotRunning.pc = "off"
  BY DEF TypeOK, NotRunning
<1>2. \A x \in ProcessType :
        /\ x.pc \in {"open network", "open hardware", "loop", "hardware"}
        /\ x.run \in 1..MaxRuns /\ x.created_at \in 0..MaxTime
        /\ x.packets \in 0..MaxCount /\ x.context \in SnapshotType /\ x.hardware \in SnapshotType
        /\ x.pc # "off"
  BY DEF ProcessType
<1>3. \A s \in SnapshotType : s.count \in 0..MaxCount /\ s.captured_at \in 0..MaxTime
  BY DEF SnapshotType
<1>4. Running(p) <=> process[p] \in ProcessType
  BY <1>1, <1>2 DEF Running
<1>5. \A run \in 1..MaxRuns : run \in Nat
  BY MetricsAssumptions
<1>6. QED
  BY <1>1, <1>2, <1>3, <1>4, <1>5

-----------------------------------------------------------------------------
(* One step's writing. *)

(* What a step that writes does to the files: one of them holds more, its  *)
(* first text stays, and the account of damage is kept.                    *)
Wrote(f, texts) ==
  /\ writes' \in 0..MaxWrites /\ writes < writes'
  /\ has_hardware' = has_hardware
  /\ files' \in [Artifacts -> FileType]
  /\ acked' \in [Artifacts -> SUBSET (1..writes')]
  /\ cuts' \in [Artifacts -> 0..writes']
  /\ \A g \in Artifacts :
       /\ Shaped(files'[g], g)
       /\ Damage(files'[g], acked'[g], cuts'[g], writes')
       /\ g # f => files'[g] = files[g]
  /\ Contents(files'[f]) = Texts(f) \cup texts
  /\ files'[f].lines # <<>>
  /\ files[f].lines # <<>> => FirstValue(files'[f]) = FirstValue(files[f])

(* A damage account with more lines written elsewhere.                     *)
LEMMA DamageKept ==
  ASSUME NEW file, NEW ack, NEW cut_short, NEW written, NEW written_after \in Nat,
         Damage(file, ack, cut_short, written), written <= written_after
  PROVE  Damage(file, ack, cut_short, written_after) /\ ack \subseteq 1..written_after
<1>1. \A i \in 1..written : i \in 1..written_after
  BY DEF Damage
<1>2. QED
  BY <1>1 DEF Damage

(* What one file needs for a step to have written to it.                   *)
LEMMA FilesWrote ==
  ASSUME TypeOK, FilesSound, NEW f \in Artifacts, NEW texts,
         NEW after, NEW ack_after, NEW cuts_after, NEW n \in {1, 2},
         writes + n <= MaxWrites, writes' = writes + n, has_hardware' = has_hardware,
         files' = [files EXCEPT ![f] = after],
         acked' = [acked EXCEPT ![f] = ack_after],
         cuts' = [cuts EXCEPT ![f] = cuts_after],
         Shaped(after, f), after.lines # <<>>, Contents(after) = Texts(f) \cup texts,
         files[f].lines # <<>> => FirstValue(after) = FirstValue(files[f]),
         Damage(after, ack_after, cuts_after, writes + n), cuts_after \in {cuts[f], cuts[f] + 1}
  PROVE  Wrote(f, texts) /\ files'[f] = after
<1>1. /\ files \in [Artifacts -> FileType] /\ writes \in Nat /\ writes' \in 0..MaxWrites
      /\ writes' \in Nat /\ writes <= writes' /\ writes < writes'
      /\ cuts \in [Artifacts -> 0..writes] /\ acked \in [Artifacts -> SUBSET (1..writes)]
  BY MetricsAssumptions DEF TypeOK
<1>2. files'[f] = after /\ acked'[f] = ack_after /\ cuts'[f] = cuts_after
  BY <1>1
<1>3. \A g \in Artifacts : g # f =>
        files'[g] = files[g] /\ acked'[g] = acked[g] /\ cuts'[g] = cuts[g]
  BY <1>1
<1>4. ASSUME NEW g \in Artifacts
      PROVE  Shaped(files'[g], g) /\ Damage(files'[g], acked'[g], cuts'[g], writes')
  <2>1. CASE g = f
    BY <1>2, <2>1
  <2>2. CASE g # f
    <3>1. Shaped(files[g], g) /\ Damage(files[g], acked[g], cuts[g], writes)
      BY DEF FilesSound
    <3>2. Damage(files[g], acked[g], cuts[g], writes')
      BY <1>1, <3>1, DamageKept
    <3>3. QED
      BY <1>3, <2>2, <3>1, <3>2
  <2>3. QED
    BY <2>1, <2>2
<1>5. files' \in [Artifacts -> FileType]
  <2>1. after \in FileType
    BY DEF Shaped
  <2>2. QED
    BY <1>1, <2>1
<1>6. acked' \in [Artifacts -> SUBSET (1..writes')]
  <2>1. \A g \in Artifacts : acked'[g] \subseteq 1..writes'
    BY <1>4 DEF Damage
  <2>2. DOMAIN acked' = Artifacts /\ acked' = [g \in Artifacts |-> acked'[g]]
    BY <1>1
  <2>3. QED
    BY <2>1, <2>2
<1>7. cuts' \in [Artifacts -> 0..writes']
  <2>1. cuts[f] \in 0..writes
    BY <1>1
  <2>2. cuts_after \in 0..writes'
    BY <1>1, <2>1
  <2>3. \A g \in Artifacts : g # f => cuts[g] \in 0..writes'
    BY <1>1
  <2>4. QED
    BY <1>1, <2>2, <2>3
<1>8. QED
  BY <1>1, <1>2, <1>3, <1>4, <1>5, <1>6, <1>7 DEF Wrote

(* The file with one line more.                                            *)
LEMMA WriteFile ==
  ASSUME NEW file, NEW f \in Artifacts, NEW value, NEW cut \in Cuts,
         NEW ack, NEW cut_short, NEW written, NEW written_after \in Nat,
         Shaped(file, f), Fits(file, f, value),
         Damage(file, ack, cut_short, written), written <= written_after,
         value.kind = "sample" => value.n \in (written + 1)..written_after
  PROVE  LET after == WriteJsonLine(file, value, cut)
         IN  /\ Shaped(after, f) /\ after.lines # <<>>
             /\ FirstValue(after) = IF file.lines = <<>> THEN value ELSE FirstValue(file)
             /\ Contents(after) = Contents(file) \cup {value}
             /\ Damage(after, WithAck(ack, value, cut), WithCut(cut_short, cut), written_after)
<1>1. PICK after : after = WriteJsonLine(file, value, cut)
  OBVIOUS
<1>2. /\ Shaped(after, f) /\ after.lines # <<>>
      /\ after.lines[1][1].value =
           IF file.lines = <<>> THEN value ELSE file.lines[1][1].value
  BY <1>1, WriteShaped
<1>3. value \in HeaderType \cup RowType
  BY DEF Fits
<1>4. Contents(after) = Contents(file) \cup {value}
  BY <1>1, <1>3, WriteContents
<1>5. Damage(after, WithAck(ack, value, cut), WithCut(cut_short, cut), written_after)
  BY <1>1, WriteDamage
<1>6. QED
  BY <1>1, <1>2, <1>4, <1>5 DEF FirstValue

(* The writing of one line.                                                *)
LEMMA WriteOne ==
  ASSUME TypeOK, FilesSound, NEW f \in Artifacts, NEW value, NEW cut \in Cuts,
         Write(f, <<value>>, cut), Fits(files[f], f, value),
         value.kind = "sample" => value.n = writes + 1
  PROVE  /\ Wrote(f, {value})
         /\ files[f].lines = <<>> => FirstValue(files'[f]) = value
<1> DEFINE after == WriteJsonLine(files[f], value, cut)
           ack_after == WithAck(acked[f], value, cut)
           cuts_after == WithCut(cuts[f], cut)
<1>1. Len(<<value>>) = 1 /\ <<value>>[1] = value
  OBVIOUS
<1>2. /\ writes + 1 <= MaxWrites /\ writes' = writes + 1
      /\ files' = [files EXCEPT ![f] = after]
      /\ cuts' = [cuts EXCEPT ![f] = cuts_after]
      /\ acked' = [acked EXCEPT ![f] = ack_after]
      /\ has_hardware' = has_hardware
  <2>1. acked \in [Artifacts -> SUBSET (1..writes)] /\ cuts \in [Artifacts -> 0..writes]
    BY DEF TypeOK
  <2>2. acked = [acked EXCEPT ![f] = acked[f]]
    BY <2>1
  <2>3. QED
    BY <1>1, <2>1, <2>2 DEF Write, WithAck, WithCut
<1>3. writes \in Nat /\ writes + 1 \in Nat /\ writes <= writes + 1
  BY MetricsAssumptions DEF TypeOK
<1>4. Shaped(files[f], f) /\ Damage(files[f], acked[f], cuts[f], writes)
  BY DEF FilesSound
<1>5. value.kind = "sample" => value.n \in (writes + 1)..(writes + 1)
  BY <1>3
<1>6. /\ Shaped(after, f) /\ after.lines # <<>>
      /\ FirstValue(after) = IF files[f].lines = <<>> THEN value ELSE FirstValue(files[f])
      /\ Contents(after) = Texts(f) \cup {value}
      /\ Damage(after, ack_after, cuts_after, writes + 1)
  BY <1>3, <1>4, <1>5, WriteFile DEF Texts
<1>7. cuts_after \in {cuts[f], cuts[f] + 1}
  BY DEF WithCut
<1> HIDE DEF after, ack_after, cuts_after
<1>8. Wrote(f, {value}) /\ files'[f] = after
  BY <1>2, <1>6, <1>7, FilesWrote
<1>9. QED
  BY <1>6, <1>8

(* The writing of a header and a row into an empty file.                   *)
LEMMA WriteTwo ==
  ASSUME TypeOK, FilesSound, NEW f \in Artifacts, NEW header \in HeaderType,
         NEW row \in RowType, NEW cut \in Cuts, Write(f, <<header, row>>, cut),
         files[f].lines = <<>>, header.artifact_type = f, row.n = writes + 1
  PROVE  Wrote(f, {header, row})
<1> DEFINE middle == WriteJsonLine(files[f], header, "none")
           after == WriteJsonLine(middle, row, cut)
           ack_after == WithAck(acked[f], row, cut)
           cuts_after == WithCut(cuts[f], cut)
<1>1. /\ Len(<<header, row>>) = 2 /\ <<header, row>>[1] = header /\ <<header, row>>[2] = row
      /\ header.kind # "sample" /\ row.kind = "sample"
  BY Kinds
<1>2. /\ writes + 2 <= MaxWrites /\ writes' = writes + 2
      /\ files' = [files EXCEPT ![f] = after]
      /\ cuts' = [cuts EXCEPT ![f] = cuts_after]
      /\ acked' = [acked EXCEPT ![f] = ack_after]
      /\ has_hardware' = has_hardware
  <2>1. acked \in [Artifacts -> SUBSET (1..writes)] /\ cuts \in [Artifacts -> 0..writes]
    BY DEF TypeOK
  <2>2. acked = [acked EXCEPT ![f] = acked[f]]
    BY <2>1
  <2>3. QED
    BY <1>1, <2>1, <2>2 DEF Write, WithAck, WithCut
<1>3. writes \in Nat /\ writes + 2 \in Nat /\ writes <= writes /\ writes <= writes + 2
  BY MetricsAssumptions DEF TypeOK
<1>4. Shaped(files[f], f) /\ Damage(files[f], acked[f], cuts[f], writes)
  BY DEF FilesSound
<1>5. Fits(files[f], f, header) /\ "none" \in Cuts
  BY DEF Fits, Cuts
<1>6. /\ Shaped(middle, f) /\ middle.lines # <<>>
      /\ Contents(middle) = Texts(f) \cup {header}
      /\ Damage(middle, WithAck(acked[f], header, "none"), WithCut(cuts[f], "none"), writes)
  BY <1>1, <1>3, <1>4, <1>5, WriteFile DEF Texts
<1> HIDE DEF middle
<1>7. WithAck(acked[f], header, "none") = acked[f] /\ WithCut(cuts[f], "none") = cuts[f]
  BY <1>1 DEF WithAck, WithCut
<1>8. Damage(middle, acked[f], cuts[f], writes)
  BY <1>6, <1>7
<1>9. row.n \in (writes + 1)..(writes + 2) /\ Fits(middle, f, row)
  BY <1>3, <1>6 DEF Fits
<1>10. /\ Shaped(after, f) /\ after.lines # <<>>
       /\ Contents(after) = Contents(middle) \cup {row}
       /\ Damage(after, ack_after, cuts_after, writes + 2)
  <2>1. /\ Shaped(middle, f) /\ Fits(middle, f, row) /\ Damage(middle, acked[f], cuts[f], writes)
        /\ writes + 2 \in Nat /\ writes <= writes + 2
        /\ row.kind = "sample" => row.n \in (writes + 1)..(writes + 2)
    BY <1>3, <1>6, <1>8, <1>9
  <2>2. PICK written, written_after \in Nat : written = writes /\ written_after = writes + 2
    BY <1>3
  <2>3. /\ Damage(middle, acked[f], cuts[f], written) /\ written <= written_after
        /\ row.kind = "sample" => row.n \in (written + 1)..written_after
    BY <2>1, <2>2
  <2>4. /\ Shaped(after, f) /\ after.lines # <<>>
        /\ Contents(after) = Contents(middle) \cup {row}
        /\ Damage(after, WithAck(acked[f], row, cut), WithCut(cuts[f], cut), written_after)
    BY <2>1, <2>3, WriteFile
  <2>5. QED
    BY <2>2, <2>4
<1>11. Contents(after) = Texts(f) \cup {header, row}
  BY <1>6, <1>10
<1>12. cuts_after \in {cuts[f], cuts[f] + 1}
  BY DEF WithCut
<1> HIDE DEF after, ack_after, cuts_after
<1>13. QED
  BY <1>2, <1>10, <1>11, <1>12, FilesWrote

-----------------------------------------------------------------------------
(* What a step leaves as it was. *)

(* Headers stay, and so does what is known of the runs started. *)
Onward ==
  /\ has_hardware' = has_hardware
  /\ \A f \in Artifacts : files[f].lines # <<>> =>
       files'[f].lines # <<>> /\ FirstValue(files'[f]) = FirstValue(files[f])
  /\ runs \in Nat /\ runs' \in Nat /\ runs <= runs'
  /\ \A run \in 1..runs : started'[run] = started[run]

(* A log that has a run's header keeps it.                                 *)
LEMMA TitledKept ==
  ASSUME Onward, NEW f \in Artifacts, NEW run \in 1..runs, Titled(f, run)
  PROVE  Titled(f, run)'
  BY DEF Onward, Titled

(* Rows by their run.                                                      *)
LEMMA RowsAre ==
  ASSUME NEW f, NEW run
  PROVE  /\ RowsOf(f, run) = RunRows(Texts(f), run)
         /\ RowsOf(f, run)' = RunRows(Contents(files'[f]), run)
  BY DEF RowsOf, RunRows, Texts

(* A baseline still shows what its rows do when neither changed.           *)
LEMMA AccountedKept ==
  ASSUME NEW f \in Artifacts, NEW run, NEW count, Accounted(f, run, count),
         set_back' = set_back,
         RunRows(Contents(files'[f]), run) = RunRows(Texts(f), run)
  PROVE  Accounted(f, run, count)'
  BY RowsAre DEF Accounted

(* A receiver that a step does not concern stays sound.                    *)
LEMMA SoundKept ==
  ASSUME Onward, NEW p \in Processes, Sound(p), process'[p] = process[p],
         clock' = clock, set_back' = set_back,
         \A f \in Artifacts :
           RunRows(Contents(files'[f]), process[p].run) = RunRows(Texts(f), process[p].run)
  PROVE  Sound(p)'
<1> DEFINE x == process[p]
<1>1. /\ x.run \in 1..runs
      /\ x.pc \in {"open hardware", "hardware"} => has_hardware
      /\ x.pc # "open network" => Titled("mcrx-network", x.run)
      /\ x.pc \in {"loop", "hardware"} /\ has_hardware => Titled("process-hardware", x.run)
      /\ x.context.count <= x.packets
      /\ x.run \notin set_back => x.context.captured_at <= clock /\ x.hardware.captured_at <= clock
      /\ Accounted("mcrx-network", x.run, x.context.count)
      /\ Accounted("process-hardware", x.run, x.hardware.count)
  BY DEF Sound
<1>2. PICK r : r = x
  OBVIOUS
<1>3. r = process'[p]
  BY <1>2
<1> HIDE DEF x
<1>4. r.run \in 1..runs /\ r.run \in 1..runs'
  <2>1. runs \in Nat /\ runs' \in Nat /\ runs <= runs'
    BY DEF Onward
  <2>2. \A run \in 1..runs : run \in 1..runs'
    BY <2>1
  <2>3. QED
    BY <1>1, <1>2, <2>2
<1>5. /\ r.pc # "open network" => Titled("mcrx-network", r.run)'
      /\ r.pc \in {"loop", "hardware"} /\ has_hardware => Titled("process-hardware", r.run)'
  BY <1>1, <1>2, <1>4, TitledKept, TwoArtifacts
<1>6. /\ Accounted("mcrx-network", r.run, r.context.count)'
      /\ Accounted("process-hardware", r.run, r.hardware.count)'
  BY <1>1, <1>2, AccountedKept, TwoArtifacts DEF x
<1>7. has_hardware' = has_hardware
  BY DEF Onward
<1>8. QED
  BY <1>1, <1>2, <1>3, <1>4, <1>5, <1>6, <1>7 DEF Sound

(* What a receiver has to be after a step, whatever it is then.            *)
LEMMA SoundAfter ==
  ASSUME NEW p \in Processes, NEW y, process'[p] = y,
         y.run \in 1..runs',
         y.pc \in {"open hardware", "hardware"} => has_hardware',
         y.pc # "open network" => Titled("mcrx-network", y.run)',
         y.pc \in {"loop", "hardware"} /\ has_hardware' => Titled("process-hardware", y.run)',
         y.context.count <= y.packets,
         y.run \notin set_back' =>
           y.context.captured_at <= clock' /\ y.hardware.captured_at <= clock',
         Accounted("mcrx-network", y.run, y.context.count)',
         Accounted("process-hardware", y.run, y.hardware.count)'
  PROVE  Sound(p)'
  BY DEF Sound

(* Receivers other than the one that takes a step stay sound, as no two    *)
(* share a run.                                                            *)
LEMMA OthersSound ==
  ASSUME RunsUnique, ProcessesSound, Onward, NEW p \in Processes,
         \A q \in Processes : q # p => process'[q] = process[q],
         clock' = clock, set_back' = set_back,
         \A f \in Artifacts : \A run \in 1..runs :
           \/ RunRows(Contents(files'[f]), run) = RunRows(Texts(f), run)
           \/ Running(p) /\ run = process[p].run
  PROVE  \A q \in Processes : q # p /\ Running(q) => Sound(q)'
<1> SUFFICES ASSUME NEW q \in Processes, q # p, Running(q)
             PROVE  Sound(q)'
  OBVIOUS
<1>1. Sound(q) /\ process[q].run \in 1..runs
  BY DEF ProcessesSound, Sound
<1>2. ~(Running(p) /\ process[q].run = process[p].run)
  BY DEF RunsUnique
<1>3. process'[q] = process[q]
  OBVIOUS
<1>4. \A f \in Artifacts :
        RunRows(Contents(files'[f]), process[q].run) = RunRows(Texts(f), process[q].run)
  BY <1>1, <1>2
<1>5. QED
  BY <1>1, <1>3, <1>4, SoundKept

(* The processes after a step of one of them, given what it is then.       *)
LEMMA ProcessesAfter ==
  ASSUME NEW p \in Processes,
         \A q \in Processes : q # p => process'[q] = process[q],
         \A q \in Processes : q # p /\ Running(q) => Sound(q)',
         Running(p)' => Sound(p)'
  PROVE  ProcessesSound'
<1> SUFFICES ASSUME NEW q \in Processes, Running(q)'
             PROVE  Sound(q)'
  BY DEF ProcessesSound
<1>1. CASE q = p
  BY <1>1
<1>2. CASE q # p
  BY <1>2 DEF Running
<1>3. QED
  BY <1>1, <1>2

(* A step that writes keeps the logs sound if what it writes is accounted  *)
(* for, under the header of its run.                                       *)
LEMMA Logged ==
  ASSUME IInv, NEW f \in Artifacts, NEW texts, Wrote(f, texts),
         started' = started, set_back' = set_back,
         Ledger(Contents(files'[f]), writes', runs, set_back),
         \A v \in texts : v.kind = "sample" /\ v.run \in 1..runs => Titled(f, v.run),
         f = "process-hardware" /\ files[f].lines = <<>> =>
           /\ files["mcrx-network"].lines # <<>>
           /\ FirstValue(files["mcrx-network"]).flags = FirstValue(files'[f]).flags
  PROVE  FilesSound' /\ PairTitled' /\ RowsTitled' /\ StartedReceivers' /\ Onward
<1>1. runs \in Nat /\ runs' = runs /\ started' = started
  BY DEF IInv, TypeOK, runs
<1>2. \A g \in Artifacts : g # f => files'[g] = files[g]
  BY DEF Wrote
<1>3. Onward
  BY <1>1, <1>2 DEF Wrote, Onward
<1>4. FilesSound'
  <2>1. ASSUME NEW g \in Artifacts
        PROVE  Ledger(Contents(files'[g]), writes', runs, set_back)
    <3>1. CASE g # f
      <4>1. Ledger(Texts(g), writes, runs, set_back) /\ Contents(files'[g]) = Texts(g)
        BY <1>2, <3>1 DEF IInv, FilesSound, Texts
      <4>2. writes \in Nat /\ writes' \in Nat /\ writes <= writes'
        BY MetricsAssumptions DEF IInv, TypeOK, Wrote
      <4>3. runs <= runs /\ runs \in Nat /\ set_back \subseteq set_back
        BY <1>1
      <4>4. Ledger(Texts(g), writes', runs, set_back)
        BY <4>1, <4>2, <4>3, LedgerKept
      <4>5. QED
        BY <4>1, <4>4
    <3>2. QED
      BY <3>1
  <2>2. QED
    BY <1>1, <2>1 DEF Wrote, FilesSound, Texts
<1>5. PairTitled'
  <2>1. SUFFICES ASSUME files'["process-hardware"].lines # <<>>
                 PROVE  /\ files'["mcrx-network"].lines # <<>>
                        /\ FirstValue(files'["mcrx-network"]).flags =
                             FirstValue(files'["process-hardware"]).flags
    BY DEF PairTitled
  <2>2. CASE files["process-hardware"].lines # <<>>
    <3>1. /\ files["mcrx-network"].lines # <<>>
          /\ FirstValue(files["mcrx-network"]).flags = FirstValue(files["process-hardware"]).flags
      BY <2>2 DEF IInv, PairTitled
    <3>2. QED
      BY <1>3, <2>2, <3>1, TwoArtifacts DEF Onward
  <2>3. CASE files["process-hardware"].lines = <<>>
    <3>1. f = "process-hardware"
      BY <1>2, <2>1, <2>3, TwoArtifacts
    <3>2. files'["mcrx-network"] = files["mcrx-network"]
      BY <1>2, <3>1, TwoArtifacts
    <3>3. QED
      BY <2>3, <3>1, <3>2
  <2>4. QED
    BY <2>2, <2>3
<1>6. RowsTitled'
  <2>1. SUFFICES ASSUME NEW g \in Artifacts, NEW run \in 1..runs,
                        RunRows(Contents(files'[g]), run) # {}
                 PROVE  Titled(g, run)'
    BY <1>1, RowsAre DEF RowsTitled
  <2>2. Titled(g, run)
    <3>1. PICK v \in Contents(files'[g]) : v.kind = "sample" /\ v.run = run
      BY <2>1 DEF RunRows
    <3>2. CASE v \in Texts(g)
      <4>1. RowsOf(g, run) # {}
        BY <3>1, <3>2 DEF RowsOf
      <4>2. QED
        BY <4>1 DEF IInv, RowsTitled
    <3>3. CASE v \notin Texts(g)
      <4>1. g = f
        BY <1>2, <3>1, <3>3 DEF Texts
      <4>2. v \in texts
        BY <3>1, <3>3, <4>1 DEF Wrote
      <4>3. QED
        BY <3>1, <4>1, <4>2
    <3>4. QED
      BY <3>2, <3>3
  <2>3. QED
    BY <1>3, <2>2, TitledKept
<1>7. StartedReceivers'
  BY <1>1 DEF IInv, StartedReceivers
<1>8. QED
  BY <1>3, <1>4, <1>5, <1>6, <1>7

(* A step that writes nothing keeps the logs sound.                        *)
LEMMA Unlogged ==
  ASSUME IInv, NoWrite, started' = started, set_back' = set_back
  PROVE  FilesSound' /\ PairTitled' /\ RowsTitled' /\ StartedReceivers' /\ Onward
<1>1. runs \in Nat /\ runs' = runs /\ UNCHANGED <<has_hardware, files, writes, cuts, acked>>
  BY DEF IInv, TypeOK, runs, NoWrite
<1>2. FilesSound' /\ PairTitled'
  BY <1>1 DEF IInv, FilesSound, PairTitled, Texts
<1>3. RowsTitled' /\ StartedReceivers'
  BY <1>1 DEF IInv, RowsTitled, RowsOf, Texts, Titled, StartedReceivers
<1>4. Onward
  BY <1>1 DEF Onward
<1>5. QED
  BY <1>2, <1>3, <1>4
-----------------------------------------------------------------------------
(* Types and runs after a step. *)

ProcessTypes ==
  /\ lock \in [Artifacts -> Processes \cup {Free}]
  /\ \A f \in Artifacts : lock[f] # Free => Running(lock[f])
  /\ process \in [Processes -> ProcessType \cup {NotRunning}]

(* A receiver that ends holds no lock and leaves the others alone.         *)
LEMMA EndsProcesses ==
  ASSUME TypeOK, RunsUnique, NEW p \in Processes, Ends(p)
  PROVE  /\ ProcessTypes' /\ RunsUnique' /\ ~Running(p)'
         /\ \A q \in Processes : q # p => process'[q] = process[q]
<1>1. /\ lock \in [Artifacts -> Processes \cup {Free}]
      /\ \A f \in Artifacts : lock[f] # Free => Running(lock[f])
      /\ process \in [Processes -> ProcessType \cup {NotRunning}]
  BY DEF TypeOK
<1>2. /\ process' = [process EXCEPT ![p] = NotRunning]
      /\ lock' = [f \in Artifacts |-> IF lock[f] = p THEN Free ELSE lock[f]]
  BY DEF Ends
<1>3. /\ process' \in [Processes -> ProcessType \cup {NotRunning}]
      /\ process'[p] = NotRunning
      /\ \A q \in Processes : q # p => process'[q] = process[q]
  BY <1>1, <1>2
<1>4. ~Running(p)'
  BY <1>3 DEF Running, NotRunning
<1>5. lock' \in [Artifacts -> Processes \cup {Free}]
  BY <1>1, <1>2
<1>6. ASSUME NEW f \in Artifacts, lock'[f] # Free
      PROVE  Running(lock[f])' /\ lock'[f] = lock[f]
  <2>1. lock'[f] = lock[f] /\ lock[f] # p /\ lock[f] \in Processes
    BY <1>1, <1>2, <1>6
  <2>2. Running(lock[f]) /\ process'[lock'[f]] = process[lock[f]]
    BY <1>1, <1>3, <1>6, <2>1
  <2>3. QED
    BY <2>1, <2>2 DEF Running
<1>7. RunsUnique'
  <2>1. \A q \in Processes : Running(q)' => q # p
    BY <1>4
  <2>2. QED
    BY <1>3, <2>1 DEF RunsUnique, Running
<1>8. QED
  BY <1>3, <1>4, <1>5, <1>6, <1>7 DEF ProcessTypes

(* A receiver that goes on, or starts with a run of its own, may take a    *)
(* lock.                                                                   *)
LEMMA StepProcesses ==
  ASSUME TypeOK, RunsUnique, NEW p \in Processes, NEW next \in ProcessType,
         process' = [process EXCEPT ![p] = next],
         lock' = lock \/ \E f \in Artifacts : lock' = [lock EXCEPT ![f] = p],
         \A q \in Processes : q # p /\ Running(q) => process[q].run # next.run
  PROVE  /\ ProcessTypes' /\ RunsUnique' /\ Running(p)' /\ process'[p] = next
         /\ \A q \in Processes : q # p => process'[q] = process[q]
<1>1. /\ lock \in [Artifacts -> Processes \cup {Free}]
      /\ \A f \in Artifacts : lock[f] # Free => Running(lock[f])
      /\ process \in [Processes -> ProcessType \cup {NotRunning}]
  BY DEF TypeOK
<1>2. /\ process' \in [Processes -> ProcessType \cup {NotRunning}]
      /\ process'[p] = next
      /\ \A q \in Processes : q # p => process'[q] = process[q]
  BY <1>1
<1>3. Running(p)'
  BY <1>2 DEF Running, ProcessType
<1>4. \A q \in Processes : Running(q) => Running(q)'
  BY <1>2, <1>3 DEF Running
<1>5. lock' \in [Artifacts -> Processes \cup {Free}]
  BY <1>1
<1>6. ASSUME NEW f \in Artifacts, lock'[f] # Free
      PROVE  lock'[f] = p \/ (lock'[f] = lock[f] /\ lock[f] \in Processes /\ Running(lock[f]))
  BY <1>1, <1>6
<1>7. \A f \in Artifacts : lock'[f] # Free => process'[lock'[f]].pc # "off"
  BY <1>3, <1>4, <1>6 DEF Running
<1>8. RunsUnique'
  BY <1>2 DEF RunsUnique, Running
<1>9. QED
  BY <1>2, <1>3, <1>5, <1>7, <1>8 DEF ProcessTypes, Running

(* The type invariant after a step that writes, or does not.               *)
LEMMA TypesAfter ==
  ASSUME TypeOK, NoWrite \/ \E f \in Artifacts : \E texts : Wrote(f, texts),
         started' = started, clock' = clock, set_back' = set_back, ProcessTypes'
  PROVE  TypeOK'
<1>1. /\ writes' \in 0..MaxWrites /\ has_hardware' = has_hardware
      /\ files' \in [Artifacts -> FileType]
      /\ acked' \in [Artifacts -> SUBSET (1..writes')]
      /\ cuts' \in [Artifacts -> 0..writes']
  <2>1. CASE NoWrite
    BY <2>1 DEF TypeOK, NoWrite
  <2>2. CASE \E f \in Artifacts : \E texts : Wrote(f, texts)
    BY <2>2 DEF Wrote
  <2>3. QED
    BY <2>1, <2>2
<1>2. QED
  BY <1>1 DEF TypeOK, ProcessTypes, runs, Running

(* One record of a receiver's state for another.                           *)
LEMMA PacketsField ==
  ASSUME NEW x \in ProcessType, NEW n \in 0..MaxCount, NEW y, y = [x EXCEPT !.packets = n]
  PROVE  /\ y \in ProcessType /\ y.packets = n
         /\ y.pc = x.pc /\ y.run = x.run /\ y.created_at = x.created_at
         /\ y.context = x.context /\ y.hardware = x.hardware
  BY DEF ProcessType

(* The same for when it was created.                                     *)
LEMMA CreatedField ==
  ASSUME NEW x \in ProcessType, NEW t \in 0..MaxTime, NEW y, y = [x EXCEPT !.created_at = t]
  PROVE  /\ y \in ProcessType /\ y.created_at = t
         /\ y.pc = x.pc /\ y.run = x.run /\ y.packets = x.packets
         /\ y.context = x.context /\ y.hardware = x.hardware
  BY DEF ProcessType

Pcs == {"open network", "open hardware", "loop", "hardware"}

(* The same for where it is.                                             *)
LEMMA PcField ==
  ASSUME NEW x \in ProcessType, NEW pc \in Pcs, NEW y, y = [x EXCEPT !.pc = pc]
  PROVE  /\ y \in ProcessType /\ y.pc = pc
         /\ y.created_at = x.created_at /\ y.run = x.run /\ y.packets = x.packets
         /\ y.context = x.context /\ y.hardware = x.hardware
  BY DEF ProcessType, Pcs

(* The same for its context's baseline.                                  *)
LEMMA ContextField ==
  ASSUME NEW x \in ProcessType, NEW s \in SnapshotType, NEW y, y = [x EXCEPT !.context = s]
  PROVE  /\ y \in ProcessType /\ y.context = s
         /\ y.pc = x.pc /\ y.created_at = x.created_at /\ y.run = x.run
         /\ y.packets = x.packets /\ y.hardware = x.hardware
  BY DEF ProcessType

(* The same for its hardware baseline.                                   *)
LEMMA HardwareField ==
  ASSUME NEW x \in ProcessType, NEW s \in SnapshotType, NEW y, y = [x EXCEPT !.hardware = s]
  PROVE  /\ y \in ProcessType /\ y.hardware = s
         /\ y.pc = x.pc /\ y.created_at = x.created_at /\ y.run = x.run
         /\ y.packets = x.packets /\ y.context = x.context
  BY DEF ProcessType

(* Two fields at once are one after the other. *)
LEMMA TwoFields ==
  ASSUME NEW x \in ProcessType, NEW s, NEW pc, NEW t
  PROVE  /\ [x EXCEPT !.pc = pc, !.created_at = t] = [[x EXCEPT !.pc = pc] EXCEPT !.created_at = t]
         /\ [x EXCEPT !.context = s, !.pc = pc] = [[x EXCEPT !.context = s] EXCEPT !.pc = pc]
         /\ [x EXCEPT !.hardware = s, !.pc = pc] = [[x EXCEPT !.hardware = s] EXCEPT !.pc = pc]
  OBVIOUS

-----------------------------------------------------------------------------
(* The actions. *)

(* What an action of receiver p has to show: the logs, the types, and the  *)
(* receiver itself.                                                        *)
LEMMA ActionKeeps ==
  ASSUME IInv, NEW p \in Processes,
         NoWrite \/ \E f \in Artifacts : \E texts : Wrote(f, texts),
         started' = started, clock' = clock, set_back' = set_back,
         FilesSound', PairTitled', RowsTitled', StartedReceivers', Onward,
         ProcessTypes', RunsUnique',
         \A q \in Processes : q # p => process'[q] = process[q],
         \A f \in Artifacts : \A run \in 1..runs :
           \/ RunRows(Contents(files'[f]), run) = RunRows(Texts(f), run)
           \/ Running(p) /\ run = process[p].run,
         Running(p)' => Sound(p)'
  PROVE  IInv'
<1>1. TypeOK'
  BY TypesAfter DEF IInv
<1>2. RunsUnique /\ ProcessesSound
  BY DEF IInv
<1>3. \A q \in Processes : q # p /\ Running(q) => Sound(q)'
  BY <1>2, OthersSound
<1>4. ProcessesSound'
  BY <1>3, ProcessesAfter
<1>5. QED
  BY <1>1, <1>4 DEF IInv

(* A step that writes nothing changes no rows.                             *)
LEMMA NoRows ==
  ASSUME NoWrite
  PROVE  \A f, run : RunRows(Contents(files'[f]), run) = RunRows(Texts(f), run)
  BY DEF NoWrite, Texts

(* A running receiver may go on with its run.                              *)
LEMMA GoesOn ==
  ASSUME IInv, NEW p \in Processes, Running(p), NEW next \in ProcessType,
         next.run = process[p].run,
         process' = [process EXCEPT ![p] = next],
         lock' = lock \/ \E f \in Artifacts : lock' = [lock EXCEPT ![f] = p]
  PROVE  /\ ProcessTypes' /\ RunsUnique' /\ Running(p)' /\ process'[p] = next
         /\ \A q \in Processes : q # p => process'[q] = process[q]
<1>1. TypeOK /\ RunsUnique
  BY DEF IInv
<1>2. \A q \in Processes : q # p /\ Running(q) => process[q].run # next.run
  BY <1>1 DEF RunsUnique
<1>3. QED
  BY <1>1, <1>2, StepProcesses

(* A received packet is counted.                                           *)
LEMMA ReceivePacketKeeps ==
  ASSUME IInv, NEW p \in Processes, ReceivePacket(p)
  PROVE  IInv'
<1> DEFINE x == process[p]
<1>1. /\ x.pc = "loop" /\ x.packets < MaxCount /\ NoWrite
      /\ process' = [process EXCEPT ![p].packets = @ + 1]
      /\ lock' = lock /\ clock' = clock /\ started' = started /\ set_back' = set_back
  BY DEF ReceivePacket
<1>2. TypeOK /\ RunsUnique /\ ProcessesSound /\ Running(p)
  BY <1>1 DEF IInv, Running
<1>3. /\ x \in ProcessType /\ x.packets \in 0..MaxCount /\ x.context.count \in 0..MaxCount
      /\ process \in [Processes -> ProcessType \cup {NotRunning}]
  BY <1>2, RunningTyped DEF TypeOK
<1>4. x.packets + 1 \in 0..MaxCount /\ x.context.count <= x.packets => x.context.count <= x.packets + 1
  BY <1>1, <1>3, MetricsAssumptions
<1>5. PICK y : y = [x EXCEPT !.packets = x.packets + 1]
  OBVIOUS
<1>6. /\ y \in ProcessType /\ y.packets = x.packets + 1
      /\ y.pc = x.pc /\ y.run = x.run /\ y.created_at = x.created_at
      /\ y.context = x.context /\ y.hardware = x.hardware
  <2>1. x.packets + 1 \in 0..MaxCount
    BY <1>1, <1>3, MetricsAssumptions
  <2>2. QED
    BY <1>3, <1>5, <2>1, PacketsField
<1>7. process' = [process EXCEPT ![p] = y]
  BY <1>1, <1>3, <1>5
<1>8. /\ ProcessTypes' /\ RunsUnique' /\ Running(p)' /\ process'[p] = y
      /\ \A q \in Processes : q # p => process'[q] = process[q]
  BY <1>1, <1>2, <1>6, <1>7, GoesOn
<1>9. FilesSound' /\ PairTitled' /\ RowsTitled' /\ StartedReceivers' /\ Onward
  BY <1>1, Unlogged
<1>10. Sound(p)'
  <2>1. Sound(p)
    BY <1>2 DEF ProcessesSound
  <2>2. /\ x.run \in 1..runs
        /\ Titled("mcrx-network", x.run)
        /\ has_hardware => Titled("process-hardware", x.run)
        /\ x.context.count <= x.packets
        /\ x.run \notin set_back => x.context.captured_at <= clock /\ x.hardware.captured_at <= clock
        /\ Accounted("mcrx-network", x.run, x.context.count)
        /\ Accounted("process-hardware", x.run, x.hardware.count)
    BY <1>1, <2>1 DEF Sound
  <2>3. /\ y.run \in 1..runs /\ runs' = runs /\ has_hardware' = has_hardware
        /\ Titled("mcrx-network", y.run)'
        /\ has_hardware => Titled("process-hardware", y.run)'
    BY <1>1, <1>6, <1>9, <2>2, TitledKept, TwoArtifacts DEF runs, NoWrite
  <2>4. /\ Accounted("mcrx-network", y.run, y.context.count)'
        /\ Accounted("process-hardware", y.run, y.hardware.count)'
    BY <1>1, <1>6, <2>2, NoRows, AccountedKept, TwoArtifacts
  <2>5. y.context.count <= y.packets
    BY <1>4, <1>3, <1>6, <2>2
  <2>6. y.run \notin set_back' =>
          y.context.captured_at <= clock' /\ y.hardware.captured_at <= clock'
    BY <1>1, <1>6, <2>2
  <2>7. y.pc = "loop"
    BY <1>1, <1>6
  <2>8. QED
    BY <1>8, <2>3, <2>4, <2>5, <2>6, <2>7, SoundAfter
<1>11. QED
  BY <1>1, <1>8, <1>9, <1>10, NoRows, ActionKeeps

(* A receiver that stops leaves its logs behind.                           *)
LEMMA StopKeeps ==
  ASSUME IInv, NEW p \in Processes, Stop(p)
  PROVE  IInv'
<1>1. Ends(p) /\ NoWrite /\ clock' = clock /\ started' = started /\ set_back' = set_back
  BY DEF Stop
<1>2. TypeOK /\ RunsUnique
  BY DEF IInv
<1>3. /\ ProcessTypes' /\ RunsUnique' /\ ~Running(p)'
      /\ \A q \in Processes : q # p => process'[q] = process[q]
  BY <1>1, <1>2, EndsProcesses
<1>4. FilesSound' /\ PairTitled' /\ RowsTitled' /\ StartedReceivers' /\ Onward
  BY <1>1, Unlogged
<1>5. QED
  BY <1>1, <1>3, <1>4, NoRows, ActionKeeps
(* A row for what was counted since the baseline keeps the logs sound, and *)
(* is the last of its run.                                                 *)
LEMMA RowLogged ==
  ASSUME IInv, NEW p \in Processes, Running(p), NEW f \in Artifacts, NEW cut \in Cuts,
         NEW current \in SnapshotType, NEW earlier \in SnapshotType, NEW run, run = process[p].run,
         NEW row, row = NetworkRow(run, current, earlier),
         Write(f, <<row>>, cut), Titled(f, run), Accounted(f, run, earlier.count),
         current.captured_at >= earlier.captured_at, current.count >= earlier.count,
         started' = started, set_back' = set_back
  PROVE  /\ Wrote(f, {row})
         /\ FilesSound' /\ PairTitled' /\ RowsTitled' /\ StartedReceivers' /\ Onward
         /\ \A g \in Artifacts : \A r \in 1..runs :
              RunRows(Contents(files'[g]), r) = RunRows(Texts(g), r) \/ (r = run /\ g = f)
         /\ LastIs(RunRows(Contents(files'[f]), run), current.count)
<1>1. /\ TypeOK /\ FilesSound /\ Sound(p)
  BY DEF IInv, ProcessesSound
<1>2. /\ run \in 1..MaxRuns /\ run \in 1..runs /\ runs \in Nat /\ writes \in Nat
  <2>1. run \in 1..MaxRuns
    BY <1>1, RunningTyped
  <2>2. run \in 1..runs
    BY <1>1 DEF Sound
  <2>3. runs \in Nat
    BY <1>1 DEF TypeOK, runs
  <2>4. writes \in Nat
    BY <1>1, MetricsAssumptions DEF TypeOK
  <2>5. QED
    BY <2>1, <2>2, <2>3, <2>4
<1>3. writes + 1 <= MaxWrites /\ writes' = writes + 1
  <2>1. Len(<<row>>) = 1
    OBVIOUS
  <2>2. QED
    BY <2>1 DEF Write
<1>4. /\ current.count \in 0..MaxCount /\ earlier.count \in 0..MaxCount
      /\ current.captured_at \in 0..MaxTime /\ earlier.captured_at \in 0..MaxTime
  BY DEF SnapshotType
<1>5. row = [kind |-> "sample", n |-> writes + 1, run |-> run, total |-> current.count,
             delta |-> current.count - earlier.count,
             interval |-> current.captured_at - earlier.captured_at]
  BY DEF NetworkRow
<1>6. row \in RowType
  <2>1. /\ writes + 1 \in 1..MaxWrites /\ run \in 0..MaxRuns
        /\ current.count - earlier.count \in 0..MaxCount
        /\ current.captured_at - earlier.captured_at \in 0..MaxTime
    BY <1>2, <1>3, <1>4, MetricsAssumptions
  <2>2. QED
    BY <1>4, <1>5, <2>1 DEF RowType
<1>7. /\ row.kind = "sample" /\ row.n = writes + 1 /\ row.run = run /\ row.total = current.count
      /\ row.delta = current.count - earlier.count
      /\ row.interval = current.captured_at - earlier.captured_at
  BY <1>5
<1>8. Fits(files[f], f, row)
  BY <1>6 DEF Fits, Titled
<1>9. Wrote(f, {row})
  BY <1>1, <1>7, <1>8, WriteOne
<1>10. Contents(files'[f]) = Texts(f) \cup {row} /\ Ledger(Texts(f), writes, runs, set_back)
  BY <1>1, <1>9 DEF Wrote, FilesSound
<1>11. PICK before \in Nat :
         /\ LastIs(RunRows(Texts(f), run), before) /\ before <= earlier.count
         /\ run \notin set_back => before = earlier.count
  BY RowsAre DEF Accounted
<1>12. /\ writes' \in Nat /\ writes < row.n /\ row.n <= writes' /\ row.run <= runs
  BY <1>2, <1>3, <1>7
<1>13. /\ row.delta \in 0..(row.total - before) /\ row.interval >= 0
       /\ row.run \notin set_back => row.delta = row.total - before
  BY <1>4, <1>7, <1>11, MetricsAssumptions
<1>14. PICK after : after = Contents(files'[f])
  OBVIOUS
<1>15. LastIs(RunRows(Texts(f), row.run), before) /\ after = Texts(f) \cup {row}
  BY <1>7, <1>10, <1>11, <1>14
<1>16. /\ Ledger(after, writes', runs, set_back)
       /\ \A r : r # row.run => RunRows(after, r) = RunRows(Texts(f), r)
       /\ LastIs(RunRows(after, row.run), row.total)
  <2>1. CountsOn(Texts(f), set_back, row)
    BY <1>13, <1>15 DEF CountsOn
  <2>2. QED
    BY <1>6, <1>10, <1>12, <1>14, <2>1, LedgerRow
<1>17. /\ \A v \in {row} : v.kind = "sample" /\ v.run \in 1..runs => Titled(f, v.run)
       /\ files[f].lines # <<>>
  BY <1>7 DEF Titled
<1>18. FilesSound' /\ PairTitled' /\ RowsTitled' /\ StartedReceivers' /\ Onward
  BY <1>9, <1>14, <1>16, <1>17, Logged
<1>19. \A g \in Artifacts : g # f => Contents(files'[g]) = Texts(g)
  BY <1>9 DEF Wrote, Texts
<1>20. QED
  BY <1>7, <1>9, <1>14, <1>16, <1>18, <1>19
(* The clock was not set back between two snapshots. *)
Forward(current, earlier) == current.captured_at >= earlier.captured_at

(* The logs after a summary: either a row is written, the last of its run, *)
(* or the clock was set back and none is.                                  *)
LEMMA SummaryLogged ==
  ASSUME IInv, NEW p \in Processes, Running(p), NEW f \in Artifacts, NEW cut \in Cuts,
         NEW current \in SnapshotType, NEW earlier \in SnapshotType, NEW next,
         NEW run, run = process[p].run,
         Titled(f, run), Accounted(f, run, earlier.count),
         current.captured_at = clock, current.count >= earlier.count,
         run \notin set_back => earlier.captured_at <= clock,
         WriteSummary(p, f, Forward(current, earlier), NetworkRow(run, current, earlier), next, cut)
  PROVE  /\ NoWrite \/ \E g \in Artifacts : \E texts : Wrote(g, texts)
         /\ FilesSound' /\ PairTitled' /\ RowsTitled' /\ StartedReceivers' /\ Onward
         /\ started' = started /\ clock' = clock /\ set_back' = set_back
         /\ \A g \in Artifacts : \A r \in 1..runs :
              \/ RunRows(Contents(files'[g]), r) = RunRows(Texts(g), r)
              \/ r = run /\ g = f
         /\ Accounted(f, run, current.count)'
<1>1. started' = started /\ clock' = clock /\ set_back' = set_back
  BY DEF WriteSummary
<1>2. /\ current.count \in Nat /\ earlier.count \in Nat
      /\ current.captured_at \in Nat /\ earlier.captured_at \in Nat
  BY MetricsAssumptions DEF SnapshotType
<1>3. CASE Forward(current, earlier)
  <2>1. PICK row : row = NetworkRow(run, current, earlier)
    OBVIOUS
  <2>2. Write(f, <<row>>, cut)
    BY <1>3, <2>1 DEF WriteSummary
  <2>3. current.captured_at >= earlier.captured_at
    BY <1>3 DEF Forward
  <2>4. /\ run = process[p].run /\ Titled(f, run) /\ Accounted(f, run, earlier.count)
        /\ current.count >= earlier.count
    OBVIOUS
  <2>5. /\ Wrote(f, {row})
        /\ FilesSound' /\ PairTitled' /\ RowsTitled' /\ StartedReceivers' /\ Onward
        /\ \A g \in Artifacts : \A r \in 1..runs :
             RunRows(Contents(files'[g]), r) = RunRows(Texts(g), r) \/ (r = run /\ g = f)
        /\ LastIs(RunRows(Contents(files'[f]), run), current.count)
    BY <1>1, <2>1, <2>2, <2>3, <2>4, RowLogged
  <2>6. Accounted(f, run, current.count)'
    <3>1. LastIs(RowsOf(f, run)', current.count)
      BY <2>5, RowsAre
    <3>2. PICK count \in Nat : count = current.count
      BY <1>2
    <3>3. LastIs(RowsOf(f, run)', count) /\ count <= count
      BY <3>1, <3>2
    <3>4. Accounted(f, run, count)'
      BY <3>3 DEF Accounted, LastIs
    <3>5. QED
      BY <3>2, <3>4
  <2>7. QED
    BY <1>1, <2>1, <2>5, <2>6
<1>4. CASE ~Forward(current, earlier)
  <2>1. NoWrite
    BY <1>4 DEF WriteSummary
  <2>2. FilesSound' /\ PairTitled' /\ RowsTitled' /\ StartedReceivers' /\ Onward
    BY <1>1, <2>1, Unlogged
  <2>3. PICK count, last : count = current.count /\ last = earlier.count
    OBVIOUS
  <2>4. run \in set_back
    BY <1>2, <1>4, <2>3 DEF Forward
  <2>5. Accounted(f, run, last) /\ count \in Nat /\ last \in Nat /\ last <= count
    BY <1>2, <2>3
  <2>6. Accounted(f, run, count)
    BY <2>4, <2>5 DEF Accounted
  <2>7. Accounted(f, run, count)'
    BY <1>1, <2>1, <2>6, NoRows, AccountedKept
  <2>8. QED
    BY <1>1, <2>1, <2>2, <2>3, <2>7, NoRows
<1>5. QED
  BY <1>3, <1>4
(* A network summary makes what the context has counted the baseline.      *)
LEMMA NetworkSummaryKeeps ==
  ASSUME IInv, NEW p \in Processes, NEW cut \in Cuts, NetworkSummary(p, cut)
  PROVE  IInv'
<1>1. PICK x, current, earlier, run, pc :
        /\ x = process[p] /\ current = MetricsSnapshot(x.packets) /\ earlier = x.context
        /\ run = x.run /\ pc = IF has_hardware THEN "hardware" ELSE "loop"
  OBVIOUS
<1>2. PICK y : y = [x EXCEPT !.context = current, !.pc = pc]
  OBVIOUS
<1>3. /\ x.pc = "loop"
      /\ WriteSummary(p, "mcrx-network", HasDelta(current, earlier),
                      NetworkRow(run, current, earlier), y, cut)
  BY <1>1, <1>2 DEF NetworkSummary, Sampled
<1>4. TypeOK /\ RunsUnique /\ Running(p) /\ Sound(p) /\ clock \in 0..MaxTime
  BY <1>1, <1>3 DEF IInv, TypeOK, Running, ProcessesSound
<1>5. /\ x \in ProcessType /\ x.packets \in 0..MaxCount
      /\ earlier \in SnapshotType /\ earlier.count \in 0..MaxCount
  BY <1>1, <1>4, RunningTyped
<1>6. /\ current \in SnapshotType /\ current.count = x.packets /\ current.captured_at = clock
  BY <1>1, <1>4, <1>5 DEF SnapshotType, MetricsSnapshot
<1>7. /\ run \in 1..runs
      /\ Titled("mcrx-network", run)
      /\ has_hardware => Titled("process-hardware", run)
      /\ earlier.count <= x.packets
      /\ run \notin set_back => earlier.captured_at <= clock /\ x.hardware.captured_at <= clock
      /\ Accounted("mcrx-network", run, earlier.count)
      /\ Accounted("process-hardware", run, x.hardware.count)
  BY <1>1, <1>3, <1>4 DEF Sound
<1>8. current.count >= earlier.count
  BY <1>5, <1>6, <1>7, MetricsAssumptions
<1>9. HasDelta(current, earlier) <=> Forward(current, earlier)
  BY <1>8 DEF HasDelta, Forward
<1>10. /\ NoWrite \/ \E g \in Artifacts : \E texts : Wrote(g, texts)
       /\ FilesSound' /\ PairTitled' /\ RowsTitled' /\ StartedReceivers' /\ Onward
       /\ started' = started /\ clock' = clock /\ set_back' = set_back
       /\ \A g \in Artifacts : \A r \in 1..runs :
            \/ RunRows(Contents(files'[g]), r) = RunRows(Texts(g), r)
            \/ r = run /\ g = "mcrx-network"
       /\ Accounted("mcrx-network", run, current.count)'
  <2>1. WriteSummary(p, "mcrx-network", Forward(current, earlier),
                     NetworkRow(run, current, earlier), y, cut)
    BY <1>3, <1>9 DEF WriteSummary
  <2>2. run = process[p].run
    BY <1>1
  <2>3. run \notin set_back => earlier.captured_at <= clock
    BY <1>7
  <2>4. QED
    BY <1>4, <1>5, <1>6, <1>7, <1>8, <2>1, <2>2, <2>3, TwoArtifacts, SummaryLogged
<1>11. CASE cut # "none"
  <2>1. Ends(p)
    BY <1>3, <1>11 DEF WriteSummary
  <2>2. /\ ProcessTypes' /\ RunsUnique' /\ ~Running(p)'
        /\ \A q \in Processes : q # p => process'[q] = process[q]
    BY <1>4, <2>1, EndsProcesses
  <2>3. QED
    BY <1>1, <1>4, <1>10, <2>2, ActionKeeps
<1>12. CASE cut = "none"
  <2>1. process' = [process EXCEPT ![p] = y] /\ lock' = lock
    BY <1>3, <1>12 DEF WriteSummary
  <2>2. /\ y \in ProcessType /\ y.run = run /\ y.pc = pc /\ y.packets = x.packets
        /\ y.context = current /\ y.hardware = x.hardware
    <3>1. PICK z : z = [x EXCEPT !.context = current]
      OBVIOUS
    <3>2. y = [z EXCEPT !.pc = pc]
      BY <1>2, <1>5, <3>1, TwoFields
    <3>3. /\ z \in ProcessType /\ z.run = run /\ z.packets = x.packets
          /\ z.context = current /\ z.hardware = x.hardware
      BY <1>1, <1>5, <1>6, <3>1, ContextField
    <3>4. pc \in Pcs
      BY <1>1 DEF Pcs
    <3>5. /\ y \in ProcessType /\ y.pc = pc /\ y.run = z.run /\ y.packets = z.packets
          /\ y.context = z.context /\ y.hardware = z.hardware
      BY <3>2, <3>3, <3>4, PcField
    <3>6. QED
      BY <3>3, <3>5
  <2>3. /\ ProcessTypes' /\ RunsUnique' /\ Running(p)' /\ process'[p] = y
        /\ \A q \in Processes : q # p => process'[q] = process[q]
    BY <1>1, <1>4, <2>1, <2>2, GoesOn
  <2>4. has_hardware' = has_hardware /\ runs' = runs
    BY <1>10 DEF Onward, runs
  <2>5. Titled("mcrx-network", run)' /\ (has_hardware => Titled("process-hardware", run)')
    BY <1>7, <1>10, TitledKept, TwoArtifacts
  <2>6. Accounted("process-hardware", run, x.hardware.count)'
    <3>1. RunRows(Contents(files'["process-hardware"]), run) = RunRows(Texts("process-hardware"), run)
      BY <1>7, <1>10, TwoArtifacts
    <3>2. QED
      BY <1>7, <1>10, <3>1, AccountedKept, TwoArtifacts
  <2>7. current.count <= x.packets /\ current.captured_at <= clock
    BY <1>4, <1>5, <1>6, MetricsAssumptions
  <2>8. Sound(p)'
    <3>1. /\ y.run \in 1..runs'
          /\ y.pc \in {"open hardware", "hardware"} => has_hardware'
          /\ Titled("mcrx-network", y.run)'
          /\ has_hardware' => Titled("process-hardware", y.run)'
      BY <1>1, <1>7, <2>2, <2>4, <2>5
    <3>2. /\ y.context.count <= y.packets
          /\ y.run \notin set_back' =>
               y.context.captured_at <= clock' /\ y.hardware.captured_at <= clock'
      BY <1>7, <1>10, <2>2, <2>7
    <3>3. /\ Accounted("mcrx-network", y.run, y.context.count)'
          /\ Accounted("process-hardware", y.run, y.hardware.count)'
      BY <1>10, <2>2, <2>6
    <3>4. QED
      BY <2>3, <3>1, <3>2, <3>3, SoundAfter
  <2>9. QED
    BY <1>1, <1>4, <1>10, <2>3, <2>8, ActionKeeps
<1>13. QED
  BY <1>11, <1>12

(* A hardware summary makes what the process has used the baseline.        *)
LEMMA HardwareSummaryKeeps ==
  ASSUME IInv, NEW p \in Processes, NEW cpu \in 0..MaxCount, NEW cut \in Cuts,
         HardwareSummary(p, cpu, cut)
  PROVE  IInv'
<1>1. PICK x, current, earlier, run :
        /\ x = process[p] /\ current = HardwareSnapshot(cpu) /\ earlier = x.hardware
        /\ run = x.run
  OBVIOUS
<1>2. PICK y : y = [x EXCEPT !.hardware = current, !.pc = "loop"]
  OBVIOUS
<1>3. /\ x.pc = "hardware" /\ cpu >= earlier.count
      /\ WriteSummary(p, "process-hardware", HasHardwareDelta(current, earlier),
                      NetworkRow(run, current, earlier), y, cut)
  BY <1>1, <1>2 DEF HardwareSummary, HardwareSampled, HardwareRow
<1>4. TypeOK /\ RunsUnique /\ Running(p) /\ Sound(p) /\ clock \in 0..MaxTime
  BY <1>1, <1>3 DEF IInv, TypeOK, Running, ProcessesSound
<1>5. /\ x \in ProcessType /\ x.packets \in 0..MaxCount
      /\ earlier \in SnapshotType /\ earlier.count \in 0..MaxCount
  BY <1>1, <1>4, RunningTyped
<1>6. /\ current \in SnapshotType /\ current.count = cpu /\ current.captured_at = clock
  BY <1>1, <1>4 DEF SnapshotType, HardwareSnapshot
<1>7. /\ run \in 1..runs /\ has_hardware
      /\ Titled("mcrx-network", run) /\ Titled("process-hardware", run)
      /\ x.context.count <= x.packets
      /\ run \notin set_back => x.context.captured_at <= clock /\ earlier.captured_at <= clock
      /\ Accounted("mcrx-network", run, x.context.count)
      /\ Accounted("process-hardware", run, earlier.count)
  BY <1>1, <1>3, <1>4 DEF Sound
<1>8. current.count >= earlier.count
  BY <1>3, <1>6
<1>9. HasHardwareDelta(current, earlier) <=> Forward(current, earlier)
  BY <1>3, <1>5, <1>6, MetricsAssumptions DEF HasHardwareDelta, Forward
<1>10. /\ NoWrite \/ \E g \in Artifacts : \E texts : Wrote(g, texts)
       /\ FilesSound' /\ PairTitled' /\ RowsTitled' /\ StartedReceivers' /\ Onward
       /\ started' = started /\ clock' = clock /\ set_back' = set_back
       /\ \A g \in Artifacts : \A r \in 1..runs :
            \/ RunRows(Contents(files'[g]), r) = RunRows(Texts(g), r)
            \/ r = run /\ g = "process-hardware"
       /\ Accounted("process-hardware", run, current.count)'
  <2>1. WriteSummary(p, "process-hardware", Forward(current, earlier),
                     NetworkRow(run, current, earlier), y, cut)
    BY <1>3, <1>9 DEF WriteSummary
  <2>2. run = process[p].run
    BY <1>1
  <2>3. run \notin set_back => earlier.captured_at <= clock
    BY <1>7
  <2>4. QED
    BY <1>4, <1>5, <1>6, <1>7, <1>8, <2>1, <2>2, <2>3, TwoArtifacts, SummaryLogged
<1>11. CASE cut # "none"
  <2>1. Ends(p)
    BY <1>3, <1>11 DEF WriteSummary
  <2>2. /\ ProcessTypes' /\ RunsUnique' /\ ~Running(p)'
        /\ \A q \in Processes : q # p => process'[q] = process[q]
    BY <1>4, <2>1, EndsProcesses
  <2>3. QED
    BY <1>1, <1>4, <1>10, <2>2, ActionKeeps
<1>12. CASE cut = "none"
  <2>1. process' = [process EXCEPT ![p] = y] /\ lock' = lock
    BY <1>3, <1>12 DEF WriteSummary
  <2>2. /\ y \in ProcessType /\ y.run = run /\ y.pc = "loop" /\ y.packets = x.packets
        /\ y.context = x.context /\ y.hardware = current
    <3>1. PICK z : z = [x EXCEPT !.hardware = current]
      OBVIOUS
    <3>2. y = [z EXCEPT !.pc = "loop"]
      BY <1>2, <1>5, <3>1, TwoFields
    <3>3. /\ z \in ProcessType /\ z.run = run /\ z.packets = x.packets
          /\ z.context = x.context /\ z.hardware = current
      BY <1>1, <1>5, <1>6, <3>1, HardwareField
    <3>4. /\ y \in ProcessType /\ y.pc = "loop" /\ y.run = z.run /\ y.packets = z.packets
          /\ y.context = z.context /\ y.hardware = z.hardware
      <4>1. "loop" \in Pcs
        BY DEF Pcs
      <4>2. QED
        BY <3>2, <3>3, <4>1, PcField
    <3>5. QED
      BY <3>3, <3>4
  <2>3. /\ ProcessTypes' /\ RunsUnique' /\ Running(p)' /\ process'[p] = y
        /\ \A q \in Processes : q # p => process'[q] = process[q]
    BY <1>1, <1>4, <2>1, <2>2, GoesOn
  <2>4. has_hardware' = has_hardware /\ runs' = runs
    BY <1>10 DEF Onward, runs
  <2>5. Titled("mcrx-network", run)' /\ Titled("process-hardware", run)'
    BY <1>7, <1>10, TitledKept, TwoArtifacts
  <2>6. Accounted("mcrx-network", run, x.context.count)'
    <3>1. RunRows(Contents(files'["mcrx-network"]), run) = RunRows(Texts("mcrx-network"), run)
      BY <1>7, <1>10, TwoArtifacts
    <3>2. QED
      BY <1>7, <1>10, <3>1, AccountedKept, TwoArtifacts
  <2>7. current.captured_at <= clock
    BY <1>4, <1>6, MetricsAssumptions
  <2>8. Sound(p)'
    <3>1. /\ y.run \in 1..runs' /\ y.pc = "loop" /\ has_hardware'
          /\ Titled("mcrx-network", y.run)' /\ Titled("process-hardware", y.run)'
      BY <1>7, <2>2, <2>4, <2>5
    <3>2. /\ y.context.count <= y.packets
          /\ y.run \notin set_back' =>
               y.context.captured_at <= clock' /\ y.hardware.captured_at <= clock'
      BY <1>7, <1>10, <2>2, <2>7
    <3>3. /\ Accounted("mcrx-network", y.run, y.context.count)'
          /\ Accounted("process-hardware", y.run, y.hardware.count)'
      BY <1>10, <2>2, <2>6
    <3>4. QED
      BY <2>3, <3>1, <3>2, <3>3, SoundAfter
  <2>9. QED
    BY <1>1, <1>4, <1>10, <2>3, <2>8, ActionKeeps
<1>13. QED
  BY <1>11, <1>12
(* The flags a run started with.                                           *)
LEMMA StartedFlags ==
  ASSUME TypeOK, NEW run \in 1..runs
  PROVE  started[run].flags \in AllFlags
<1>1. PICK type : type = [asked: {r.asked : r \in Receivers}, flags: AllFlags]
  OBVIOUS
<1>2. started \in Seq(type)
  BY <1>1 DEF TypeOK
<1>3. started[run] \in type
  BY <1>2 DEF runs
<1>4. QED
  BY <1>1, <1>3

(* A header more changes no rows.                                          *)
LEMMA HeaderLogged ==
  ASSUME TypeOK, FilesSound, NEW f \in Artifacts, NEW header \in HeaderType, Wrote(f, {header})
  PROVE  /\ Ledger(Contents(files'[f]), writes', runs, set_back)
         /\ \A g \in Artifacts : \A run :
              RunRows(Contents(files'[g]), run) = RunRows(Texts(g), run)
<1>1. PICK after : after = Contents(files'[f])
  OBVIOUS
<1>2. after = Texts(f) \cup {header} /\ Ledger(Texts(f), writes, runs, set_back)
  BY <1>1 DEF Wrote, FilesSound
<1>3. /\ Ledger(after, writes, runs, set_back)
      /\ \A run : RunRows(after, run) = RunRows(Texts(f), run)
  BY <1>2, LedgerHeader
<1>4. /\ writes \in Nat /\ writes' \in Nat /\ writes <= writes' /\ runs \in Nat /\ runs <= runs
      /\ set_back \subseteq set_back
  BY MetricsAssumptions DEF TypeOK, Wrote, runs
<1>5. Ledger(after, writes', runs, set_back)
  BY <1>3, <1>4, LedgerKept
<1>6. \A g \in Artifacts : g # f => Contents(files'[g]) = Texts(g)
  BY DEF Wrote, Texts
<1>7. QED
  BY <1>1, <1>3, <1>5, <1>6

(* What ensure_header_in_locked_file finds.                                *)
LEMMA HeaderFound ==
  ASSUME NEW file, NEW header, NEW scan_samples
  PROVE  /\ EnsureHeader(file, header, scan_samples) \in {"refused", "write", "present"}
         /\ EnsureHeader(file, header, scan_samples) = "write" => file.lines = <<>>
         /\ EnsureHeader(file, header, scan_samples) = "present" =>
              /\ file.lines # <<>>
              /\ FirstValue(file).flags = header.flags
  BY DEF EnsureHeader, HeadersAreCompatible, Value, FirstValue

(* The logs after the opening of a writer: if it opens, the log has the    *)
(* header of the run.                                                      *)
LEMMA OpenLogged ==
  ASSUME IInv, NEW p \in Processes, NEW f \in Artifacts, NEW cut \in Cuts, OpenWriter(p, f, cut),
         NEW run, run = process[p].run,
         NEW header, header = HeaderJson(f, started[run].flags, process[p].created_at),
         NEW found, found = IF lock[f] # Free THEN "refused"
                            ELSE EnsureHeader(files[f], header, TRUE)
  PROVE  /\ Running(p) /\ run \in 1..runs
         /\ NoWrite \/ \E g \in Artifacts : \E texts : Wrote(g, texts)
         /\ FilesSound' /\ PairTitled' /\ RowsTitled' /\ StartedReceivers' /\ Onward
         /\ started' = started /\ clock' = clock /\ set_back' = set_back
         /\ \A g \in Artifacts : \A r : RunRows(Contents(files'[g]), r) = RunRows(Texts(g), r)
         /\ found \in {"write", "present"} => Titled(f, run)'
<1>1. /\ process[p].pc = Opening[f]
      /\ IF found = "write" THEN Write(f, <<header>>, cut) ELSE NoWrite /\ cut = "none"
      /\ started' = started /\ clock' = clock /\ set_back' = set_back
  BY DEF OpenWriter
<1>2. Running(p) /\ TypeOK /\ FilesSound /\ Sound(p)
  BY <1>1 DEF IInv, ProcessesSound, Running, Opening
<1>3. run \in 1..runs
  BY <1>2 DEF Sound
<1>4. process[p].created_at \in 0..MaxTime /\ started[run].flags \in AllFlags
  BY <1>2, <1>3, RunningTyped, StartedFlags
<1>5. header \in HeaderType /\ header.artifact_type = f /\ header.flags = started[run].flags
  BY <1>4 DEF HeaderJson, HeaderType
<1>6. CASE found = "write"
  <2>1. Write(f, <<header>>, cut) /\ files[f].lines = <<>>
    <3>1. EnsureHeader(files[f], header, TRUE) = "write"
      BY <1>6
    <3>2. QED
      BY <1>1, <1>6, <3>1, HeaderFound
  <2>2. Fits(files[f], f, header) /\ header.kind # "sample"
    BY <1>5, <2>1, Kinds DEF Fits
  <2>3. Wrote(f, {header}) /\ FirstValue(files'[f]) = header
    BY <1>2, <2>1, <2>2, WriteOne
  <2>4. /\ Ledger(Contents(files'[f]), writes', runs, set_back)
        /\ \A g \in Artifacts : \A r : RunRows(Contents(files'[g]), r) = RunRows(Texts(g), r)
    BY <1>2, <1>5, <2>3, HeaderLogged
  <2>5. \A v \in {header} : v.kind = "sample" /\ v.run \in 1..runs => Titled(f, v.run)
    BY <2>2
  <2>6. f = "process-hardware" /\ files[f].lines = <<>> =>
          /\ files["mcrx-network"].lines # <<>>
          /\ FirstValue(files["mcrx-network"]).flags = FirstValue(files'[f]).flags
    <3>1. SUFFICES ASSUME f = "process-hardware"
                   PROVE  Titled("mcrx-network", run)
      BY <1>5, <2>3 DEF Titled
    <3>2. process[p].pc = "open hardware"
      BY <1>1, <3>1 DEF Opening
    <3>3. QED
      BY <1>2, <3>2 DEF Sound
  <2>7. FilesSound' /\ PairTitled' /\ RowsTitled' /\ StartedReceivers' /\ Onward
    BY <1>1, <2>3, <2>4, <2>5, <2>6, Logged
  <2>8. Titled(f, run)'
    BY <1>1, <1>5, <2>3 DEF Titled, Wrote
  <2>9. QED
    BY <1>1, <1>2, <1>3, <2>3, <2>4, <2>7, <2>8
<1>7. CASE found # "write"
  <2>1. NoWrite
    BY <1>1, <1>7
  <2>2. FilesSound' /\ PairTitled' /\ RowsTitled' /\ StartedReceivers' /\ Onward
    BY <1>1, <2>1, Unlogged
  <2>3. found \in {"write", "present"} => Titled(f, run)
    BY <1>5, <1>7, HeaderFound DEF Titled
  <2>4. found \in {"write", "present"} => Titled(f, run)'
    BY <1>3, <2>2, <2>3, TitledKept
  <2>5. QED
    BY <1>1, <1>2, <1>3, <2>1, <2>2, <2>4, NoRows
<1>8. QED
  BY <1>6, <1>7

(* A writer that opens leaves its receiver with a log of its own header.   *)
LEMMA OpenWriterKeeps ==
  ASSUME IInv, NEW p \in Processes, NEW f \in Artifacts, NEW cut \in Cuts, OpenWriter(p, f, cut)
  PROVE  IInv'
<1>1. PICK x, run, header, found :
        /\ x = process[p] /\ run = process[p].run
        /\ header = HeaderJson(f, started[run].flags, process[p].created_at)
        /\ found = IF lock[f] # Free THEN "refused" ELSE EnsureHeader(files[f], header, TRUE)
  OBVIOUS
<1>2. /\ Running(p) /\ run \in 1..runs
      /\ NoWrite \/ \E g \in Artifacts : \E texts : Wrote(g, texts)
      /\ FilesSound' /\ PairTitled' /\ RowsTitled' /\ StartedReceivers' /\ Onward
      /\ started' = started /\ clock' = clock /\ set_back' = set_back
      /\ \A g \in Artifacts : \A r : RunRows(Contents(files'[g]), r) = RunRows(Texts(g), r)
      /\ found \in {"write", "present"} => Titled(f, run)'
  BY <1>1, OpenLogged
<1>3. TypeOK /\ RunsUnique /\ Sound(p)
  BY <1>2 DEF IInv, ProcessesSound
<1>4. /\ x.pc = Opening[f]
      /\ IF found = "present" \/ (found = "write" /\ cut = "none")
         THEN /\ process' = [process EXCEPT ![p] =
                   [process[p] EXCEPT !.pc = Opened[f],
                      !.created_at = IF Opened[f] = "loop" THEN 0 ELSE process[p].created_at]]
              /\ lock' = [lock EXCEPT ![f] = p]
         ELSE Ends(p)
  BY <1>1 DEF OpenWriter
<1>5. CASE ~(found = "present" \/ (found = "write" /\ cut = "none"))
  <2>1. Ends(p)
    BY <1>4, <1>5
  <2>2. /\ ProcessTypes' /\ RunsUnique' /\ ~Running(p)'
        /\ \A q \in Processes : q # p => process'[q] = process[q]
    BY <1>3, <2>1, EndsProcesses
  <2>3. QED
    BY <1>2, <2>2, ActionKeeps
<1>6. CASE found = "present" \/ (found = "write" /\ cut = "none")
  <2>1. PICK pc, time, y :
          /\ pc = Opened[f] /\ time = (IF pc = "loop" THEN 0 ELSE x.created_at)
          /\ y = [x EXCEPT !.pc = pc, !.created_at = time]
    OBVIOUS
  <2>2. process' = [process EXCEPT ![p] = y] /\ lock' = [lock EXCEPT ![f] = p]
    BY <1>1, <1>4, <1>6, <2>1
  <2>3. /\ x \in ProcessType /\ x.created_at \in 0..MaxTime
    BY <1>1, <1>2, <1>3, RunningTyped
  <2>4. /\ y \in ProcessType /\ y.run = run /\ y.pc = pc /\ y.packets = x.packets
        /\ y.context = x.context /\ y.hardware = x.hardware
    <3>1. PICK z : z = [x EXCEPT !.pc = pc]
      OBVIOUS
    <3>2. y = [z EXCEPT !.created_at = time]
      BY <2>1, <2>3, <3>1, TwoFields
    <3>3. pc \in Pcs /\ time \in 0..MaxTime
      <4>1. pc \in {"open hardware", "loop"}
        BY <2>1 DEF Opened
      <4>2. pc \in Pcs
        BY <4>1 DEF Pcs
      <4>3. 0 \in 0..MaxTime
        BY MetricsAssumptions
      <4>4. QED
        BY <2>1, <2>3, <4>2, <4>3
    <3>4. /\ z \in ProcessType /\ z.pc = pc /\ z.run = x.run /\ z.packets = x.packets
          /\ z.context = x.context /\ z.hardware = x.hardware
      BY <2>3, <3>1, <3>3, PcField
    <3>5. /\ y \in ProcessType /\ y.pc = z.pc /\ y.run = z.run /\ y.packets = z.packets
          /\ y.context = z.context /\ y.hardware = z.hardware
      BY <3>2, <3>3, <3>4, CreatedField
    <3>6. QED
      BY <1>1, <3>4, <3>5
  <2>5. /\ ProcessTypes' /\ RunsUnique' /\ Running(p)' /\ process'[p] = y
        /\ \A q \in Processes : q # p => process'[q] = process[q]
    BY <1>1, <1>2, <2>2, <2>4, GoesOn
  <2>6. /\ x.pc = "open hardware" => has_hardware /\ Titled("mcrx-network", run)
        /\ x.context.count <= x.packets
        /\ run \notin set_back => x.context.captured_at <= clock /\ x.hardware.captured_at <= clock
        /\ Accounted("mcrx-network", run, x.context.count)
        /\ Accounted("process-hardware", run, x.hardware.count)
    BY <1>1, <1>3 DEF Sound
  <2>7. has_hardware' = has_hardware /\ runs' = runs
    BY <1>2 DEF Onward, runs
  <2>8. /\ pc \in {"open hardware", "hardware"} => has_hardware
        /\ pc # "open network" => Titled("mcrx-network", run)'
        /\ pc \in {"loop", "hardware"} /\ has_hardware => Titled("process-hardware", run)'
    <3>1. Titled(f, run)'
      BY <1>2, <1>6
    <3>2. CASE f = "mcrx-network"
      BY <2>1, <3>1, <3>2 DEF Opened, Artifacts
    <3>3. CASE f = "process-hardware"
      <4>1. x.pc = "open hardware" /\ pc = "loop"
        BY <1>4, <2>1, <3>3 DEF Opening, Opened, Artifacts
      <4>2. Titled("mcrx-network", run)'
        BY <1>2, <2>6, <4>1, TitledKept, TwoArtifacts
      <4>3. QED
        BY <3>1, <3>3, <4>1, <4>2
    <3>4. QED
      BY <3>2, <3>3, TwoArtifacts
  <2>9. /\ Accounted("mcrx-network", run, x.context.count)'
        /\ Accounted("process-hardware", run, x.hardware.count)'
    BY <1>2, <2>6, AccountedKept, TwoArtifacts
  <2>10. Sound(p)'
    <3>1. /\ y.run \in 1..runs'
          /\ y.pc \in {"open hardware", "hardware"} => has_hardware'
          /\ y.pc # "open network" => Titled("mcrx-network", y.run)'
          /\ y.pc \in {"loop", "hardware"} /\ has_hardware' => Titled("process-hardware", y.run)'
      BY <1>2, <2>4, <2>7, <2>8
    <3>2. /\ y.context.count <= y.packets
          /\ y.run \notin set_back' =>
               y.context.captured_at <= clock' /\ y.hardware.captured_at <= clock'
      BY <1>2, <2>4, <2>6
    <3>3. /\ Accounted("mcrx-network", y.run, y.context.count)'
          /\ Accounted("process-hardware", y.run, y.hardware.count)'
      BY <2>4, <2>9
    <3>4. QED
      BY <2>5, <3>1, <3>2, <3>3, SoundAfter
  <2>11. QED
    BY <1>2, <2>5, <2>10, ActionKeeps
<1>7. QED
  BY <1>5, <1>6
(* What other programs write concerns no receiver's state.                 *)
LEMMA OthersWriteKeeps ==
  ASSUME IInv, NEW f \in Artifacts, NEW texts, Wrote(f, texts),
         UNCHANGED <<lock, process, clock, started, set_back>>,
         FilesSound', PairTitled', RowsTitled', StartedReceivers', Onward,
         \A g \in Artifacts : \A run \in 1..runs :
           RunRows(Contents(files'[g]), run) = RunRows(Texts(g), run)
  PROVE  IInv'
<1>1. TypeOK /\ ProcessTypes /\ RunsUnique
  BY DEF IInv, TypeOK, ProcessTypes
<1>2. ProcessTypes' /\ RunsUnique'
  BY <1>1 DEF ProcessTypes, RunsUnique, Running
<1>3. TypeOK'
  BY <1>1, <1>2, TypesAfter
<1>4. ProcessesSound'
  <2>1. SUFFICES ASSUME NEW p \in Processes, Running(p)
                 PROVE  Sound(p)'
    BY DEF ProcessesSound, Running
  <2>2. Sound(p) /\ process[p].run \in 1..runs
    BY <2>1 DEF IInv, ProcessesSound, Sound
  <2>3. QED
    BY <2>2, SoundKept
<1>5. QED
  BY <1>2, <1>3, <1>4 DEF IInv

(* The header another program writes.                                      *)
LEMMA OtherHeader ==
  ASSUME TypeOK, NEW flags \in OtherFlags
  PROVE  /\ HeaderJson("mcrx-network", flags, clock) \in HeaderType
         /\ HeaderJson("mcrx-network", flags, clock).artifact_type = "mcrx-network"
         /\ HeaderJson("mcrx-network", flags, clock).kind # "sample"
  BY TwoArtifacts DEF HeaderJson, HeaderType, AllFlags, TypeOK

(* A row of another program, with a header if it is the first.             *)
LEMMA AppendSampleRowKeeps ==
  ASSUME IInv, NEW flags \in OtherFlags, NEW kind \in {"sample", "header", "scalar"},
         NEW cut \in Cuts, AppendSampleRow(flags, kind, cut)
  PROVE  IInv'
<1>1. PICK f, header, row, found :
        /\ f = "mcrx-network" /\ header = HeaderJson(f, flags, clock)
        /\ row = OtherRow(kind, flags) /\ found = EnsureHeader(files[f], header, FALSE)
  OBVIOUS
<1>2. /\ ValidateSampleRow(row) /\ found # "refused"
      /\ Write(f, IF found = "write" THEN <<header, row>> ELSE <<row>>, cut)
      /\ UNCHANGED <<lock, process, clock, started, set_back>>
  BY <1>1 DEF AppendSampleRow
<1>3. TypeOK /\ FilesSound /\ f \in Artifacts /\ writes \in Nat /\ runs \in Nat
  BY <1>1, TwoArtifacts, MetricsAssumptions DEF IInv, TypeOK, runs
<1>4. row = [kind |-> "sample", n |-> writes + 1, run |-> 0, total |-> 0, delta |-> 0,
             interval |-> 0]
  BY <1>1, <1>2 DEF OtherRow, ValidateSampleRow, RepeatedHeaderField, HeaderJson
<1>5. writes + 1 <= MaxWrites
  <2>1. Len(<<header, row>>) = 2 /\ Len(<<row>>) = 1
    OBVIOUS
  <2>2. CASE found = "write"
    BY <1>2, <1>3, <2>1, <2>2, MetricsAssumptions DEF Write
  <2>3. CASE found # "write"
    BY <1>2, <2>1, <2>3 DEF Write
  <2>4. QED
    BY <2>2, <2>3
<1>6. row \in RowType /\ row.kind = "sample" /\ row.n = writes + 1 /\ row.run = 0
  BY <1>3, <1>4, <1>5, MetricsAssumptions DEF RowType
<1>7. header \in HeaderType /\ header.artifact_type = f /\ header.kind # "sample"
  BY <1>1, <1>3, OtherHeader
<1>8. PICK texts :
        /\ Wrote(f, texts)
        /\ texts = {row} \/ (texts = {header, row} /\ writes' = writes + 2)
  <2>1. CASE found = "write"
    <3>1. files[f].lines = <<>> /\ Write(f, <<header, row>>, cut)
      BY <1>1, <1>2, <2>1, HeaderFound
    <3>2. Wrote(f, {header, row})
      BY <1>3, <1>6, <1>7, <3>1, WriteTwo
    <3>3. Len(<<header, row>>) = 2
      OBVIOUS
    <3>4. writes' = writes + 2
      BY <3>1, <3>3 DEF Write
    <3>5. QED
      BY <3>2, <3>4
  <2>2. CASE found # "write"
    <3>1. found = "present" /\ Write(f, <<row>>, cut)
      BY <1>1, <1>2, <2>2, HeaderFound
    <3>2. files[f].lines # <<>>
      BY <1>1, <3>1, HeaderFound
    <3>3. Fits(files[f], f, row)
      BY <1>6, <3>2 DEF Fits
    <3>4. Wrote(f, {row})
      BY <1>3, <1>6, <3>1, <3>3, WriteOne
    <3>5. QED
      BY <3>4
  <2>3. QED
    BY <2>1, <2>2
<1>9. PICK after : after = Contents(files'[f])
  OBVIOUS
<1>10. /\ after = Texts(f) \cup texts /\ Ledger(Texts(f), writes, runs, set_back)
       /\ writes' \in Nat /\ writes < row.n /\ row.n <= writes' /\ row.run <= runs
  BY <1>3, <1>6, <1>8, <1>9, MetricsAssumptions DEF Wrote, FilesSound
<1>11. PICK middle :
         /\ after = middle \cup {row} /\ Ledger(middle, writes, runs, set_back)
         /\ \A run : RunRows(middle, run) = RunRows(Texts(f), run)
  <2>1. CASE texts = {row}
    BY <1>10, <2>1
  <2>2. CASE texts = {header, row}
    <3>1. PICK middle : middle = Texts(f) \cup {header}
      OBVIOUS
    <3>2. /\ Ledger(middle, writes, runs, set_back)
          /\ \A run : RunRows(middle, run) = RunRows(Texts(f), run)
      BY <1>7, <1>10, <3>1, LedgerHeader
    <3>3. after = middle \cup {row}
      BY <1>10, <2>2, <3>1
    <3>4. QED
      BY <3>2, <3>3
  <2>3. QED
    BY <1>8, <2>1, <2>2
<1>12. /\ Ledger(after, writes', runs, set_back)
       /\ \A run : run # row.run => RunRows(after, run) = RunRows(middle, run)
  BY <1>6, <1>10, <1>11, LedgerRow
<1>13. \A g \in Artifacts : \A run \in 1..runs :
         RunRows(Contents(files'[g]), run) = RunRows(Texts(g), run)
  <2>1. \A g \in Artifacts : g # f => Contents(files'[g]) = Texts(g)
    BY <1>8 DEF Wrote, Texts
  <2>2. \A run \in 1..runs : run # 0
    BY <1>3
  <2>3. QED
    BY <1>6, <1>9, <1>11, <1>12, <2>1, <2>2
<1>14. \A v \in texts : v.kind = "sample" /\ v.run \in 1..runs => Titled(f, v.run)
  <2>1. ~(row.run \in 1..runs)
    BY <1>6, <1>3
  <2>2. QED
    BY <1>7, <1>8, <2>1
<1>15. f # "process-hardware"
  BY <1>1
<1>16. FilesSound' /\ PairTitled' /\ RowsTitled' /\ StartedReceivers' /\ Onward
  BY <1>2, <1>3, <1>8, <1>9, <1>12, <1>14, <1>15, Logged
<1>17. QED
  BY <1>2, <1>3, <1>8, <1>13, <1>16, OthersWriteKeeps

(* A header of another program, into an empty log.                         *)
LEMMA EnsureSingleHeaderKeeps ==
  ASSUME IInv, NEW flags \in OtherFlags, NEW cut \in Cuts, EnsureSingleHeader(flags, cut)
  PROVE  IInv'
<1>1. PICK f, header : f = "mcrx-network" /\ header = HeaderJson(f, flags, clock)
  OBVIOUS
<1>2. /\ EnsureHeader(files[f], header, TRUE) = "write" /\ Write(f, <<header>>, cut)
      /\ UNCHANGED <<lock, process, clock, started, set_back>>
  BY <1>1 DEF EnsureSingleHeader
<1>3. TypeOK /\ FilesSound /\ f \in Artifacts
  BY <1>1, TwoArtifacts DEF IInv
<1>4. header \in HeaderType /\ header.artifact_type = f /\ header.kind # "sample"
  BY <1>1, <1>3, OtherHeader
<1>5. files[f].lines = <<>>
  BY <1>2, HeaderFound
<1>6. Fits(files[f], f, header)
  BY <1>4, <1>5 DEF Fits
<1>7. Wrote(f, {header})
  BY <1>2, <1>3, <1>4, <1>6, WriteOne
<1>8. /\ Ledger(Contents(files'[f]), writes', runs, set_back)
      /\ \A g \in Artifacts : \A run :
           RunRows(Contents(files'[g]), run) = RunRows(Texts(g), run)
  BY <1>3, <1>4, <1>7, HeaderLogged
<1>9. /\ \A v \in {header} : v.kind = "sample" /\ v.run \in 1..runs => Titled(f, v.run)
      /\ f # "process-hardware"
  BY <1>1, <1>4
<1>10. FilesSound' /\ PairTitled' /\ RowsTitled' /\ StartedReceivers' /\ Onward
  BY <1>2, <1>3, <1>7, <1>8, <1>9, Logged
<1>11. QED
  BY <1>2, <1>3, <1>7, <1>8, <1>10, OthersWriteKeeps

(* The clock may be set back under a run, which is then known to have seen *)
(* it.                                                                     *)
LEMMA SetClockKeeps ==
  ASSUME IInv, NEW time \in 0..MaxTime, SetClock(time)
  PROVE  IInv'
<1>1. /\ clock' = time /\ NoWrite /\ UNCHANGED <<lock, process, started>>
      /\ set_back' = IF time < clock
                     THEN set_back \cup {process[q].run : q \in {r \in Processes : Running(r)}}
                     ELSE set_back
  BY DEF SetClock
<1>2. TypeOK /\ FilesSound /\ ProcessesSound /\ clock \in 0..MaxTime /\ runs \in Nat
  BY DEF IInv, TypeOK, runs
<1>3. UNCHANGED <<has_hardware, files, writes, cuts, acked, runs>>
  BY <1>1 DEF NoWrite, runs
<1>4. set_back \subseteq set_back' /\ set_back' \subseteq 1..runs
  BY <1>1, <1>2 DEF TypeOK, ProcessesSound, Sound
<1>5. TypeOK'
  BY <1>1, <1>2, <1>3, <1>4 DEF TypeOK, Running, runs
<1>6. FilesSound'
  <2>1. ASSUME NEW f \in Artifacts
        PROVE  Ledger(Texts(f), writes, runs, set_back')
    <3>1. Ledger(Texts(f), writes, runs, set_back) /\ writes \in Nat
      BY <1>2 DEF FilesSound, Ledger
    <3>2. writes <= writes /\ runs <= runs
      BY <1>2, <3>1
    <3>3. QED
      BY <1>2, <1>4, <3>1, <3>2, LedgerKept
  <2>2. QED
    BY <1>2, <1>3, <2>1 DEF FilesSound, Texts
<1>7. PairTitled' /\ RowsTitled' /\ StartedReceivers' /\ RunsUnique'
  BY <1>1, <1>3 DEF IInv, PairTitled, RowsTitled, RowsOf, Texts, Titled, StartedReceivers,
                    RunsUnique, Running
<1>8. ProcessesSound'
  <2>1. SUFFICES ASSUME NEW p \in Processes, Running(p)
                 PROVE  Sound(p)'
    BY <1>1 DEF ProcessesSound, Running
  <2>2. PICK x : x = process[p]
    OBVIOUS
  <2>3. process'[p] = x
    BY <1>1, <2>2
  <2>4. /\ x.run \in 1..runs
        /\ x.pc \in {"open hardware", "hardware"} => has_hardware
        /\ x.pc # "open network" => Titled("mcrx-network", x.run)
        /\ x.pc \in {"loop", "hardware"} /\ has_hardware => Titled("process-hardware", x.run)
        /\ x.context.count <= x.packets
        /\ x.run \notin set_back =>
             x.context.captured_at <= clock /\ x.hardware.captured_at <= clock
        /\ Accounted("mcrx-network", x.run, x.context.count)
        /\ Accounted("process-hardware", x.run, x.hardware.count)
    BY <1>2, <2>1, <2>2 DEF ProcessesSound, Sound
  <2>5. x.run \notin set_back' => x.run \notin set_back /\ ~(time < clock)
    BY <1>1, <2>1, <2>2
  <2>6. x.run \notin set_back' =>
          x.context.captured_at <= clock' /\ x.hardware.captured_at <= clock'
    <3>1. /\ x.context.captured_at \in 0..MaxTime /\ x.hardware.captured_at \in 0..MaxTime
      BY <1>2, <2>1, <2>2, RunningTyped
    <3>2. \A a \in 0..MaxTime : a <= clock /\ ~(time < clock) => a <= time
      BY <1>2, MetricsAssumptions
    <3>3. QED
      BY <1>1, <2>4, <2>5, <3>1, <3>2
  <2>7. /\ Accounted("mcrx-network", x.run, x.context.count)'
        /\ Accounted("process-hardware", x.run, x.hardware.count)'
    BY <1>3, <1>4, <2>4 DEF Accounted, RowsOf, Texts
  <2>8. /\ x.pc # "open network" => Titled("mcrx-network", x.run)'
        /\ x.pc \in {"loop", "hardware"} /\ has_hardware' => Titled("process-hardware", x.run)'
    BY <1>1, <1>3, <2>4 DEF Titled
  <2>9. QED
    BY <1>3, <2>3, <2>4, <2>6, <2>7, <2>8, SoundAfter
<1>9. QED
  BY <1>5, <1>6, <1>7, <1>8 DEF IInv
(* A receiver that starts has a run of its own, without rows.              *)
LEMMA StartKeeps ==
  ASSUME IInv, NEW p \in Processes, NEW receiver \in Receivers, NEW environment \in Environments,
         Start(p, receiver, environment)
  PROVE  IInv'
<1>1. PICK run, entry, next :
        /\ run = runs + 1
        /\ entry = [asked |-> receiver.asked,
                    flags |-> BuildReceiverMetricsFlags(receiver.config,
                                                        MetricsFlagsFromEnv(environment))]
        /\ next = [pc |-> "open network", run |-> run, created_at |-> clock,
                   packets |-> 0, context |-> MetricsSnapshot(0), hardware |-> HardwareSnapshot(0)]
  OBVIOUS
<1>2. /\ ~Running(p) /\ runs < MaxRuns /\ NoWrite
      /\ started' = Append(started, entry)
      /\ process' = [process EXCEPT ![p] = next]
      /\ lock' = lock /\ clock' = clock /\ set_back' = set_back
  BY <1>1 DEF Start
<1>3. /\ TypeOK /\ FilesSound /\ RunsUnique /\ ProcessesSound
      /\ runs \in Nat /\ clock \in 0..MaxTime /\ set_back \subseteq 1..runs
  BY DEF IInv, TypeOK, runs
<1>4. UNCHANGED <<has_hardware, files, writes, cuts, acked>>
  BY <1>2 DEF NoWrite
<1>5. run = runs + 1 /\ runs \in Nat /\ runs < MaxRuns /\ MaxRuns \in Nat
  BY <1>1, <1>2, <1>3, MetricsAssumptions
<1>6. /\ run \in Nat /\ run \in 1..MaxRuns /\ run <= MaxRuns /\ runs <= run /\ ~(run <= runs)
      /\ run \in 1..run
      /\ \A r \in 1..run : r \in 1..runs \/ r = run
      /\ \A r \in 1..runs : r \in 1..run /\ r # run
  BY <1>5
<1>7. PICK type : type = [asked: {r.asked : r \in Receivers}, flags: AllFlags]
  OBVIOUS
<1>8. entry \in type
  <2>1. receiver.asked \in {r.asked : r \in Receivers}
    OBVIOUS
  <2>2. BuildReceiverMetricsFlags(receiver.config, MetricsFlagsFromEnv(environment)) \in AllFlags
    BY DEF AllFlags
  <2>3. QED
    BY <1>1, <1>7, <2>1, <2>2
<1>9. /\ started' \in Seq(type) /\ runs' = run /\ run \in Nat /\ run \in 1..MaxRuns
      /\ started'[run] = entry
      /\ \A r \in 1..runs : started'[r] = started[r]
      /\ \A r \in 1..run : r \in 1..runs \/ r = run
      /\ \A r \in 1..runs : r \in 1..run /\ r # run
  <2>1. started \in Seq(type)
    BY <1>3, <1>7 DEF TypeOK
  <2>2. /\ started' \in Seq(type) /\ Len(started') = Len(started) + 1
        /\ started'[Len(started) + 1] = entry
        /\ \A r \in 1..Len(started) : started'[r] = started[r]
    BY <1>2, <1>8, <2>1
  <2>3. QED
    BY <1>1, <1>6, <2>2 DEF runs
<1>10. Onward
  BY <1>3, <1>4, <1>9, <1>6 DEF Onward
<1>11. next \in ProcessType
  <2>1. 0 \in 0..MaxCount
    BY MetricsAssumptions
  <2>2. MetricsSnapshot(0) \in SnapshotType /\ HardwareSnapshot(0) \in SnapshotType
    BY <1>3, <2>1 DEF SnapshotType, MetricsSnapshot, HardwareSnapshot
  <2>3. QED
    BY <1>1, <1>3, <1>9, <2>1, <2>2 DEF ProcessType
<1>12. /\ ProcessTypes' /\ RunsUnique' /\ Running(p)' /\ process'[p] = next
       /\ \A q \in Processes : q # p => process'[q] = process[q]
  <2>1. next.run = run
    BY <1>1
  <2>2. \A q \in Processes : q # p /\ Running(q) => process[q].run # next.run
    BY <1>3, <1>9, <2>1 DEF ProcessesSound, Sound
  <2>3. QED
    BY <1>2, <1>3, <1>11, <2>2, StepProcesses
<1>13. TypeOK'
  <2>1. runs' <= MaxRuns
    BY <1>9, <1>6
  <2>2. set_back \subseteq 1..run
    BY <1>3, <1>9
  <2>3. started' \in Seq([asked: {r.asked : r \in Receivers}, flags: AllFlags])
    BY <1>7, <1>9
  <2>4. /\ has_hardware' \in BOOLEAN /\ files' \in [Artifacts -> FileType]
        /\ clock' \in 0..MaxTime /\ writes' \in 0..MaxWrites
        /\ acked' \in [Artifacts -> SUBSET (1..writes')] /\ cuts' \in [Artifacts -> 0..writes']
    BY <1>2, <1>3, <1>4 DEF TypeOK
  <2>5. QED
    BY <1>2, <1>9, <1>12, <2>1, <2>2, <2>3, <2>4 DEF TypeOK, ProcessTypes, Running
<1>14. \A f \in Artifacts : Ledger(Texts(f), writes, runs, set_back)
  BY <1>3 DEF FilesSound
<1>15. FilesSound'
  <2>1. ASSUME NEW f \in Artifacts
        PROVE  Ledger(Texts(f), writes, run, set_back)
    <3>1. writes \in Nat /\ writes <= writes /\ runs <= run /\ set_back \subseteq set_back
      <4>1. writes \in Nat
        BY <1>14 DEF Ledger
      <4>2. QED
        BY <1>6, <4>1
    <3>2. QED
      BY <1>9, <1>14, <3>1, LedgerKept
  <2>2. QED
    BY <1>2, <1>3, <1>4, <1>9, <2>1 DEF FilesSound, Texts
<1>16. \A f \in Artifacts : RowsOf(f, run) = {}
  <2>1. SUFFICES ASSUME NEW f \in Artifacts, NEW v \in Texts(f), v.kind = "sample", v.run = run
                 PROVE  FALSE
    BY DEF RowsOf
  <2>2. run <= runs
    BY <1>14, <2>1 DEF Ledger
  <2>3. QED
    BY <1>6, <2>2
<1>17. PairTitled'
  BY <1>4 DEF IInv, PairTitled
<1>18. RowsTitled'
  <2>1. SUFFICES ASSUME NEW f \in Artifacts, NEW r \in 1..run, RowsOf(f, r) # {}
                 PROVE  Titled(f, r)'
    BY <1>4, <1>9 DEF RowsTitled, RowsOf, Texts
  <2>2. r \in 1..runs
    BY <1>9, <1>16, <2>1
  <2>3. Titled(f, r)
    BY <2>1, <2>2 DEF IInv, RowsTitled
  <2>4. QED
    BY <1>10, <2>2, <2>3, TitledKept
<1>19. StartedReceivers'
  <2>1. SUFFICES ASSUME NEW r \in 1..run
                 PROVE  \E x \in Receivers, e \in Environments :
                          started'[r] =
                            [asked |-> x.asked,
                             flags |-> BuildReceiverMetricsFlags(x.config, MetricsFlagsFromEnv(e))]
    BY <1>9 DEF StartedReceivers
  <2>2. CASE r = run
    BY <1>1, <1>9, <2>2
  <2>3. CASE r \in 1..runs
    BY <1>9, <2>3 DEF IInv, StartedReceivers
  <2>4. QED
    BY <1>9, <2>2, <2>3
<1>20. \A q \in Processes : q # p /\ Running(q) => Sound(q)'
  <2>1. \A f \in Artifacts : \A r \in 1..runs :
          RunRows(Contents(files'[f]), r) = RunRows(Texts(f), r)
    BY <1>2, NoRows
  <2>2. QED
    BY <1>2, <1>3, <1>10, <1>12, <2>1, OthersSound
<1>21. Sound(p)'
  <2>1. /\ next.run = run /\ next.pc = "open network" /\ next.packets = 0
        /\ next.context.count = 0 /\ next.context.captured_at = clock
        /\ next.hardware.count = 0 /\ next.hardware.captured_at = clock
    BY <1>1 DEF MetricsSnapshot, HardwareSnapshot
  <2>2. ASSUME NEW f \in Artifacts
        PROVE  Accounted(f, run, 0)'
    BY <1>4, <1>16 DEF Accounted, LastIs, RowsOf, Texts
  <2>3. next.run \in 1..runs'
    BY <1>9, <1>6, <2>1
  <2>4. /\ Accounted("mcrx-network", next.run, next.context.count)'
        /\ Accounted("process-hardware", next.run, next.hardware.count)'
    BY <2>1, <2>2, TwoArtifacts
  <2>5. clock <= clock
    BY <1>3, MetricsAssumptions
  <2>6. QED
    <3>1. process'[p] = next
      BY <1>12
    <3>2. next.context.count <= next.packets
      <4>1. 0 <= 0
        OBVIOUS
      <4>2. QED
        BY <2>1, <4>1
    <3>3. next.context.captured_at <= clock' /\ next.hardware.captured_at <= clock'
      BY <1>2, <2>1, <2>5
    <3>4. QED
      BY <2>1, <2>3, <2>4, <3>1, <3>2, <3>3, SoundAfter
<1>22. ProcessesSound'
  BY <1>12, <1>20, <1>21, ProcessesAfter
<1>23. QED
  BY <1>12, <1>13, <1>15, <1>17, <1>18, <1>19, <1>22 DEF IInv

(* At the start nothing is written, and no receiver runs.                  *)
LEMMA InitKeeps ==
  ASSUME Init
  PROVE  IInv
<1>1. /\ has_hardware \in BOOLEAN
      /\ files = [f \in Artifacts |-> EmptyFile] /\ lock = [f \in Artifacts |-> Free]
      /\ process = [p \in Processes |-> NotRunning]
      /\ clock = 0 /\ started = <<>> /\ writes = 0
      /\ acked = [f \in Artifacts |-> {}] /\ cuts = [f \in Artifacts |-> 0] /\ set_back = {}
  BY DEF Init
<1>2. /\ EmptyFile.lines = <<>> /\ EmptyFile.terminated = TRUE /\ Len(EmptyFile.lines) = 0
      /\ EmptyFile \in FileType /\ Contents(EmptyFile) = {}
  BY DEF EmptyFile, FileType, Contents
<1>3. runs = 0 /\ 1..runs = {} /\ 1..0 = {}
  BY <1>1 DEF runs
<1>4. \A p \in Processes : ~Running(p)
  BY <1>1 DEF Running, NotRunning
<1>5. TypeOK
  BY <1>1, <1>2, <1>3, MetricsAssumptions DEF TypeOK, NotRunning
<1>6. ASSUME NEW f \in Artifacts
      PROVE  /\ Shaped(files[f], f)
             /\ Damage(files[f], acked[f], cuts[f], writes)
             /\ Ledger(Texts(f), writes, runs, set_back)
  <2>1. files[f] = EmptyFile /\ acked[f] = {} /\ cuts[f] = 0 /\ Texts(f) = {}
    BY <1>1, <1>2 DEF Texts
  <2>2. Shaped(EmptyFile, f)
    BY <1>2 DEF Shaped
  <2>3. Damage(EmptyFile, {}, 0, 0)
    BY <1>2, FS_EmptySet DEF Damage, Unfinished
  <2>4. Ledger({}, 0, 0, {})
    BY DEF Ledger
  <2>5. QED
    BY <1>1, <1>3, <2>1, <2>2, <2>3, <2>4
<1>7. FilesSound
  BY <1>6 DEF FilesSound
<1>8. PairTitled /\ RowsTitled /\ StartedReceivers
  BY <1>1, <1>2, <1>3, TwoArtifacts DEF PairTitled, RowsTitled, StartedReceivers
<1>9. RunsUnique /\ ProcessesSound
  BY <1>4 DEF RunsUnique, ProcessesSound
<1>10. QED
  BY <1>5, <1>7, <1>8, <1>9 DEF IInv

(* Every step keeps the invariant.                                         *)
LEMMA NextKeeps ==
  ASSUME IInv, [Next]_vars
  PROVE  IInv'
<1>1. ASSUME NEW p \in Processes, NEW receiver \in Receivers, NEW environment \in Environments,
             Start(p, receiver, environment)
      PROVE  IInv'
  BY <1>1, StartKeeps
<1>2. ASSUME NEW p \in Processes, NEW f \in Artifacts, NEW cut \in Cuts, OpenWriter(p, f, cut)
      PROVE  IInv'
  BY <1>2, OpenWriterKeeps
<1>3. ASSUME NEW p \in Processes, ReceivePacket(p)
      PROVE  IInv'
  BY <1>3, ReceivePacketKeeps
<1>4. ASSUME NEW p \in Processes, NEW cut \in Cuts, NetworkSummary(p, cut)
      PROVE  IInv'
  BY <1>4, NetworkSummaryKeeps
<1>5. ASSUME NEW p \in Processes, NEW cpu \in 0..MaxCount, NEW cut \in Cuts,
             HardwareSummary(p, cpu, cut)
      PROVE  IInv'
  BY <1>5, HardwareSummaryKeeps
<1>6. ASSUME NEW p \in Processes, Stop(p)
      PROVE  IInv'
  BY <1>6, StopKeeps
<1>7. ASSUME NEW flags \in OtherFlags, NEW cut \in Cuts,
             NEW kind \in {"sample", "header", "scalar"}, AppendSampleRow(flags, kind, cut)
      PROVE  IInv'
  BY <1>7, AppendSampleRowKeeps
<1>8. ASSUME NEW flags \in OtherFlags, NEW cut \in Cuts, EnsureSingleHeader(flags, cut)
      PROVE  IInv'
  BY <1>8, EnsureSingleHeaderKeeps
<1>9. ASSUME NEW time \in 0..MaxTime, SetClock(time)
      PROVE  IInv'
  BY <1>9, SetClockKeeps
<1>10. CASE UNCHANGED vars
  <2>1. UNCHANGED <<has_hardware, files, lock, process, clock, started, writes, acked, cuts, set_back>>
    BY <1>10 DEF vars
  <2>2. TypeOK'
    BY <2>1 DEF IInv, TypeOK, Running, runs
  <2>3. FilesSound' /\ PairTitled' /\ StartedReceivers' /\ RunsUnique'
    BY <2>1 DEF IInv, FilesSound, PairTitled, StartedReceivers, RunsUnique, Running, Texts, runs
  <2>4. RowsTitled' /\ ProcessesSound'
    BY <2>1 DEF IInv, RowsTitled, ProcessesSound, Sound, Accounted, Titled, RowsOf, Texts,
                Running, runs
  <2>5. QED
    BY <2>2, <2>3, <2>4 DEF IInv
<1>11. QED
  BY <1>1, <1>2, <1>3, <1>4, <1>5, <1>6, <1>7, <1>8, <1>9, <1>10 DEF Next

(* The invariant holds in every behaviour.                                 *)
THEOREM InvariantAlways == Spec => []IInv
<1>1. Init => IInv
  BY InitKeeps
<1>2. IInv /\ [Next]_vars => IInv'
  BY NextKeeps
<1>3. QED
  BY <1>1, <1>2, PTL DEF Spec

(* Every variable of the logs and receivers has its type, and the process  *)
(* that holds the lock of an open file runs.                               *)
THEOREM TypeOKAlways == Spec => []TypeOK
<1>1. IInv => TypeOK
  BY DEF IInv
<1>2. QED
  BY <1>1, InvariantAlways, PTL

-----------------------------------------------------------------------------
(* What a reader of the logs finds. *)

(* A line that is JSON is the one text written to it.                      *)
LEMMA ReadableLine ==
  ASSUME FilesSound, NEW f \in Artifacts, NEW i \in Readable(f)
  PROVE  /\ i \in 1..Len(files[f].lines)
         /\ Line(f, i) \in Texts(f)
         /\ IF i = 1 THEN Line(f, i) \in HeaderType /\ Line(f, i).artifact_type = f
                     ELSE Line(f, i) \in RowType
<1>1. Shaped(files[f], f)
  BY DEF FilesSound
<1>2. files[f].lines \in Seq(Seq(TextType))
  BY <1>1 DEF Shaped, FileType
<1>3. i \in 1..Len(files[f].lines)
  BY <1>2 DEF Readable
<1>4. Line(f, i) = files[f].lines[i][1].value /\ 1 \in 1..Len(files[f].lines[i])
  BY DEF Readable, IsJson, Line, Value
<1>5. Line(f, i) \in Texts(f)
  BY <1>3, <1>4 DEF Texts, Contents
<1>6. IF i = 1 THEN Line(f, i) \in HeaderType /\ Line(f, i).artifact_type = f
               ELSE Line(f, i) \in RowType
  BY <1>1, <1>3, <1>4 DEF Shaped
<1>7. QED
  BY <1>3, <1>5, <1>6

(* The writers of validate_header_reader's promise, "exactly one header at *)
(* the top before samples": the first line a reader can parse as one is a  *)
(* header of its artifact, and every other is a sample.                    *)
THEOREM HeaderFirstAlways == Spec => []HeaderFirst
<1>1. IInv => HeaderFirst
  <2>1. SUFFICES ASSUME FilesSound, NEW f \in Artifacts, NEW i \in Readable(f)
                 PROVE  IF i = 1 THEN IsHeaderObject(Line(f, i)) /\ Line(f, i).artifact_type = f
                                 ELSE Line(f, i).kind = "sample"
    BY DEF IInv, HeaderFirst
  <2>2. QED
    BY <2>1, ReadableLine, Kinds DEF IsHeaderObject
<1>2. QED
  BY <1>1, InvariantAlways, PTL

(* write_json_line cut short by a crash or a full disk: every such write   *)
(* costs at most one acknowledged row, the one glued to what it left.      *)
THEOREM DamageBoundedAlways == Spec => []DamageBounded
<1>1. IInv => DamageBounded
  <2>1. SUFFICES ASSUME FilesSound, NEW f \in Artifacts
                 PROVE  Cardinality(acked[f] \ ReadableRows(files[f])) <= cuts[f]
    BY DEF IInv, DamageBounded
  <2>2. Damage(files[f], acked[f], cuts[f], writes)
    BY <2>1 DEF FilesSound
  <2>3. PICK lost : lost = acked[f] \ ReadableRows(files[f])
    OBVIOUS
  <2>4. IsFiniteSet(1..writes) /\ lost \subseteq 1..writes
    <3>1. writes \in Nat /\ acked[f] \subseteq 1..writes
      BY <2>2 DEF Damage
    <3>2. writes \in Int /\ 1 \in Int
      BY <3>1
    <3>3. QED
      BY <2>3, <3>1, <3>2, FS_Interval
  <2>5. Cardinality(lost) \in Nat
    BY <2>4, FS_Subset, FS_CardinalityType
  <2>6. /\ Cardinality(lost) + Unfinished(files[f]) <= cuts[f]
        /\ cuts[f] \in Nat /\ Unfinished(files[f]) \in {0, 1}
    BY <2>2, <2>3 DEF Damage, Unfinished
  <2>7. Cardinality(lost) <= cuts[f]
    BY <2>5, <2>6
  <2>8. QED
    BY <2>3, <2>7
<1>2. QED
  BY <1>1, InvariantAlways, PTL

(* OpenWriter opens the network log first: a receiver that died between    *)
(* the two logs, or was refused at the second, leaves no pair of headers   *)
(* that describe two configurations.                                       *)
THEOREM PairConsistentAlways == Spec => []PairConsistent
<1>1. IInv => PairConsistent
  <2>1. SUFFICES ASSUME FilesSound, PairTitled, \A f \in Artifacts : 1 \in Readable(f)
                 PROVE  Line("mcrx-network", 1).flags = Line("process-hardware", 1).flags
    BY DEF IInv, PairConsistent
  <2>2. files["process-hardware"].lines # <<>>
    <3>1. 1 \in 1..Len(files["process-hardware"].lines)
      BY <2>1, TwoArtifacts, ReadableLine
    <3>2. QED
      BY <3>1
  <2>3. QED
    BY <2>1, <2>2 DEF PairTitled, FirstValue, Line, Value
<1>2. QED
  BY <1>1, InvariantAlways, PTL

(* ensure_header_in_locked_file at a restart: a log whose writes were all  *)
(* completed accepts the header it shows, at whatever time it is written   *)
(* again, however many crashes lie between.                                *)
THEOREM RestartAcceptedAlways == Spec => []RestartAccepted
<1>1. IInv => RestartAccepted
  <2>1. SUFFICES ASSUME FilesSound, NEW f \in Artifacts, NEW now \in 0..MaxTime,
                        files[f].lines # <<>>, cuts[f] = 0
                 PROVE  EnsureHeader(files[f], HeaderJson(f, Line(f, 1).flags, now), TRUE)
                          = "present"
    BY DEF IInv, RestartAccepted
  <2>2. /\ Shaped(files[f], f)
        /\ \A i \in 1..Len(files[f].lines) : IsJson(files[f].lines[i])
    BY <2>1 DEF FilesSound, Damage
  <2>3. files[f].lines \in Seq(Seq(TextType)) /\ Len(files[f].lines) \in Nat
        /\ DOMAIN files[f].lines = 1..Len(files[f].lines)
    BY <2>2 DEF Shaped, FileType
  <2>4. /\ \A i \in 1..Len(files[f].lines) : i \in Readable(f)
        /\ 1 \in 1..Len(files[f].lines)
        /\ \A i \in 2..Len(files[f].lines) : i \in 1..Len(files[f].lines) /\ i # 1
    BY <2>1, <2>2, <2>3 DEF Readable
  <2>5. /\ IsHeaderObject(Line(f, 1)) /\ Line(f, 1).artifact_type = f
        /\ \A i \in 2..Len(files[f].lines) : ~RepeatedHeaderField(Line(f, i))
    BY <2>1, <2>4, ReadableLine, Kinds DEF IsHeaderObject, RepeatedHeaderField
  <2>6. HeaderReadable(files[f], TRUE)
    BY <2>2, <2>4, <2>5 DEF HeaderReadable, Line
  <2>7. HeadersAreCompatible(Value(files[f].lines[1]), HeaderJson(f, Line(f, 1).flags, now))
    BY <2>5 DEF HeadersAreCompatible, HeaderJson, Line
  <2>8. QED
    BY <2>1, <2>6, <2>7 DEF EnsureHeader
<1>2. QED
  BY <1>1, InvariantAlways, PTL

(* NetworkSummary and HardwareSummary: a baseline moves on with each row,  *)
(* so the rows of a run account for its counters without gap or overlap    *)
(* unless the clock was set back in the run.                               *)
THEOREM DeltasAddUpAlways == Spec => []DeltasAddUp
<1>1. IInv => DeltasAddUp
  <2>1. SUFFICES ASSUME FilesSound, NEW f \in Artifacts, NEW run \in 1..runs,
                        NEW row \in RowsOf(f, run)
                 PROVE  LET progress == row.total - TotalBefore(f, row) IN
                        /\ row.delta \in 0..progress /\ row.interval >= 0
                        /\ run \notin set_back => row.delta = progress
    BY DEF IInv, DeltasAddUp
  <2>2. PICK rows : rows = RunRows(Texts(f), run)
    OBVIOUS
  <2>3. row \in rows /\ row.run = run /\ row.kind = "sample" /\ row \in Texts(f)
    BY <2>2 DEF RowsOf, RunRows
  <2>4. run # 0
    BY DEF runs
  <2>5. Ledger(Texts(f), writes, runs, set_back)
    BY <2>1 DEF FilesSound
  <2>6. Accounts(rows, row, run \notin set_back)
    BY <2>2, <2>3, <2>4, <2>5 DEF Ledger
  <2>7. PICK before \in Nat :
          /\ LastIs({r \in rows : r.n < row.n}, before)
          /\ row.delta \in 0..(row.total - before) /\ row.interval >= 0
          /\ run \notin set_back => row.delta = row.total - before
    BY <2>6 DEF Accounts
  <2>8. PICK earlier : earlier = {r \in rows : r.n < row.n}
    OBVIOUS
  <2>9. /\ \A v \in earlier : v.n \in Nat
        /\ \A v, w \in earlier : v.n = w.n => v = w
    <3>1. /\ Texts(f) \subseteq HeaderType \cup RowType
          /\ \A v, w \in Texts(f) : v.kind = "sample" /\ w.kind = "sample" /\ v.n = w.n => v = w
      BY <2>5 DEF Ledger
    <3>2. \A v \in earlier : v \in Texts(f) /\ v.kind = "sample"
      BY <2>2, <2>8 DEF RunRows
    <3>3. \A v \in earlier : v \in RowType
      BY <3>1, <3>2, RowsTyped
    <3>4. QED
      BY <3>1, <3>2, <3>3, Kinds
  <2>10. LastTotal(earlier) = before
    BY <2>7, <2>8, <2>9, LastTotalIs
  <2>11. TotalBefore(f, row) = before
    BY <2>2, <2>3, <2>8, <2>10 DEF TotalBefore, RowsOf, RunRows
  <2>12. QED
    BY <2>7, <2>11
<1>2. QED
  BY <1>1, InvariantAlways, PTL

(* Runs with rows in one log were started with one configuration: each     *)
(* found, or wrote, the header of its own flags, which show all of its     *)
(* configuration.                                                          *)
LEMMA OneConfiguration ==
  ASSUME IInv, NEW f \in Artifacts, NEW r \in 1..runs, NEW s \in 1..runs,
         RowsOf(f, r) # {}, RowsOf(f, s) # {}
  PROVE  \E x, y \in Receivers :
           x.config = y.config /\ started[r].asked = x.asked /\ started[s].asked = y.asked
<1>1. Titled(f, r) /\ Titled(f, s)
  BY DEF IInv, RowsTitled
<1>2. started[r].flags = started[s].flags
  BY <1>1 DEF Titled
<1>3. PICK x \in Receivers, e \in Environments :
        started[r] = [asked |-> x.asked,
                      flags |-> BuildReceiverMetricsFlags(x.config, MetricsFlagsFromEnv(e))]
  BY DEF IInv, StartedReceivers
<1>4. PICK y \in Receivers, d \in Environments :
        started[s] = [asked |-> y.asked,
                      flags |-> BuildReceiverMetricsFlags(y.config, MetricsFlagsFromEnv(d))]
  BY DEF IInv, StartedReceivers
<1>5. /\ started[r].asked = x.asked /\ started[s].asked = y.asked
      /\ BuildReceiverMetricsFlags(x.config, MetricsFlagsFromEnv(e)) =
         BuildReceiverMetricsFlags(y.config, MetricsFlagsFromEnv(d))
  BY <1>2, <1>3, <1>4
<1>6. x.config = y.config
  BY <1>5, SameFlagsSameConfig
<1>7. QED
  BY <1>5, <1>6

(* build_receiver_metrics_flags and the refusal of a foreign header keep   *)
(* two receivers that were asked for different things out of one log,      *)
(* whatever flags their environments named.  That a configuration tells    *)
(* what was asked is ParserAssumption, about the command lines.            *)
THEOREM LogOfOneReceiverAlways == Spec => []LogOfOneReceiver
<1>1. IInv => LogOfOneReceiver
  BY OneConfiguration, ParserAssumption DEF LogOfOneReceiver
<1>2. QED
  BY <1>1, InvariantAlways, PTL
=============================================================================
