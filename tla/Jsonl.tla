------------------------------- MODULE Jsonl -------------------------------
(***************************************************************************)
(* src/jsonl.rs: a metrics file, what its readers make of its lines, and   *)
(* the header protocol every writer follows under the file's lock.         *)
(*                                                                         *)
(* A line is the sequence of the texts written to it.  write_json_line     *)
(* appends a text and its newline with one write_all, which a crash or a   *)
(* full disk may cut short: in the middle of the text, or after the text   *)
(* and before the newline.  The next text is then glued to what is there,  *)
(* and a line of more than one text, or of half a text, is not JSON.       *)
(***************************************************************************)
EXTENDS Sequences, Naturals, FiniteSets

(* A value is a header, a row of samples, or no object at all.  Of a       *)
(* header the model keeps what tells two of them apart.                    *)
HeaderJson(artifact_type, flags, created_at) ==
  [kind |-> "header", artifact_type |-> artifact_type, flags |-> flags,
   created_at |-> created_at]

IsHeaderObject(value)      == value.kind = "header"
RepeatedHeaderField(value) == value.kind = "header"

EmptyFile == [lines |-> <<>>, terminated |-> TRUE]

(* How much of a line reaches the file. *)
Cuts == {"none", "newline", "middle"}

Mutant_NewlineForgotten(file, value, cut) ==
  LET text == [value |-> value, whole |-> cut # "middle"]
      last == Len(file.lines)
  IN  [lines |-> IF file.terminated THEN Append(file.lines, <<text>>)
                 ELSE [file.lines EXCEPT ![last] = Append(@, text)],
       terminated |-> cut = "none" /\ IsHeaderObject(value)]

WriteJsonLine(file, value, cut) ==
  LET text == [value |-> value, whole |-> cut # "middle"]
      last == Len(file.lines)
  IN  [lines |-> IF file.terminated THEN Append(file.lines, <<text>>)
                 ELSE [file.lines EXCEPT ![last] = Append(@, text)],
       terminated |-> cut = "none"]

IsJson(line) == Len(line) = 1 /\ line[1].whole
Value(line)  == line[1].value

Mutant_AnyRow(row) == row.kind # "scalar"

ValidateSampleRow(row) == row.kind # "scalar" /\ ~RepeatedHeaderField(row)

Mutant_CreatedAtToo(existing, expected) == existing = expected

(* created_at may differ. *)
HeadersAreCompatible(existing, expected) ==
  /\ existing.artifact_type = expected.artifact_type
  /\ existing.flags = expected.flags

(* validate_header_reader: an error unless the first line is a header and, *)
(* when the samples are scanned, every other line is JSON that repeats no  *)
(* field of one.                                                           *)
HeaderReadable(file, scan_samples) ==
  file.lines # <<>> =>
    /\ IsJson(file.lines[1]) /\ IsHeaderObject(Value(file.lines[1]))
    /\ scan_samples => \A i \in 2..Len(file.lines) :
                          IsJson(file.lines[i]) /\ ~RepeatedHeaderField(Value(file.lines[i]))

(* ensure_header_in_locked_file: refused, nothing to do, or a header to    *)
(* write.                                                                  *)
Mutant_HeaderNotCompared(file, header, scan_samples) ==
  IF ~HeaderReadable(file, scan_samples) THEN "refused"
  ELSE IF file.lines = <<>> THEN "write"
  ELSE "present"

EnsureHeader(file, header, scan_samples) ==
  IF ~HeaderReadable(file, scan_samples) THEN "refused"
  ELSE IF file.lines = <<>> THEN "write"
  ELSE IF HeadersAreCompatible(Value(file.lines[1]), header) THEN "present"
  ELSE "refused"

=============================================================================
