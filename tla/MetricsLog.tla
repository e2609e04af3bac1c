----------------------------- MODULE MetricsLog -----------------------------
(***************************************************************************)
(* The metrics logs of src/bin/mcrx_recv.rs: receivers that sample         *)
(* their counters with the samplers of src/metrics.rs and append the       *)
(* rows to two JSONL files, one of network and one of process hardware     *)
(* metrics, while other programs append to the network log with            *)
(* append_jsonl_sample_row and ensure_single_header.                       *)
(*                                                                         *)
(* The files outlive the processes: a process may crash at any step, a     *)
(* write may be cut short, and a later process finds what is there.  The   *)
(* file lock is held while a file is open and freed by the kernel with it. *)
(* Snapshots are stamped with the wall clock, which may be set back.       *)
(***************************************************************************)
EXTENDS Jsonl, ReceiveArgs

CONSTANTS
  Processes,     \* receivers that may run at the same time
  CommandLines,  \* what receivers are started with
  Environments,  \* what MCRX_METRICS_FLAGS_JSON may hold
  OtherFlags,    \* the flags other programs put into their headers
  MaxRuns,       \* bound: receivers ever started
  MaxWrites,     \* bound: lines ever written
  MaxCount,      \* bound: counters
  MaxTime        \* bound: the wall clock

Artifacts == {"mcrx-network", "process-hardware"}
Free == "free"

ASSUME MetricsAssumptions ==
  /\ Free \notin Processes
  /\ MaxRuns \in Nat /\ MaxWrites \in Nat /\ MaxCount \in Nat /\ MaxTime \in Nat

VARIABLES
  has_hardware,  \* the platform has hardware counters (Linux and macOS)
  files,         \* the two files
  lock,          \* who holds the lock of each
  process,       \* the receivers
  clock,         \* the wall clock
  started,       \* the receivers started so far: what was asked of each, and its flags
  writes,        \* lines written so far
  acked,         \* rows whose write succeeded, of each file
  cuts,          \* writes cut short, of each file
  set_back       \* runs that have seen the clock set back

vars == <<has_hardware, files, lock, process, clock, started, writes, acked, cuts, set_back>>

NotRunning == [pc |-> "off"]
runs == Len(started)
Running(p) == process[p].pc # "off"

-----------------------------------------------------------------------------
(* The flags of a header. *)

NoFlags == [key \in {} |-> NoAddr]

(* metrics_flags_from_env: MCRX_METRICS_FLAGS_JSON is not set or blank, is *)
(* no JSON object, or names flags.  One that is no object is refused.      *)
NotSet        == [text |-> "blank", flags |-> NoFlags]
NotAnObject   == [text |-> "other", flags |-> NoFlags]
Object(flags) == [text |-> "object", flags |-> flags]
MetricsFlagsFromEnv(environment) == environment.flags

(* The text an interface is shown as: an index shows unless the interface  *)
(* is an IPv4 address.                                                     *)
InterfaceString(interface, interface_index) ==
  [address |-> interface, index |-> IF IsIpv4(interface) THEN NoIndex ELSE interface_index]

(* Flags with those of another object that they lack (entry, or_insert). *)
Extended(flags, more) ==
  [key \in DOMAIN flags \cup DOMAIN more |-> IF key \in DOMAIN flags THEN flags[key] ELSE more[key]]

(* The flags a receiver's configuration stands for. *)
OwnFlags(config) ==
  Extended([multicast_group     |-> config.group,
            multicast_port      |-> config.dst_port,
            multicast_interface |-> InterfaceString(config.interface, config.interface_index),
            join_mode           |-> IF config.source = NoAddr THEN "asm" ELSE "ssm"],
           IF config.source = NoAddr THEN NoFlags ELSE [source_addr |-> config.source])

Mutant_EnvironmentWins(config, environment) == Extended(environment, OwnFlags(config))

(* build_receiver_metrics_flags: what the environment names is added, and  *)
(* replaces nothing.                                                       *)
BuildReceiverMetricsFlags(config, environment) == Extended(OwnFlags(config), environment)

-----------------------------------------------------------------------------
(* Samplers. *)

(* What the context has counted, and what the operating system has for     *)
(* the process: one counter stands for all of each.                        *)
MetricsSnapshot(packets) == [count |-> packets, captured_at |-> clock]
HardwareSnapshot(cpu)    == [count |-> cpu, captured_at |-> clock]

(* delta_since of a context's snapshot and of a process's has an answer    *)
(* unless the clock or a counter went back.                                *)
HasDelta(current, earlier) ==
  /\ current.captured_at >= earlier.captured_at
  /\ current.count >= earlier.count
HasHardwareDelta(current, earlier) ==
  /\ current.captured_at >= earlier.captured_at
  /\ ~(current.count < earlier.count)

(* The rows written for a delta.  A hardware row does not show the total,  *)
(* which is kept here to say what the row is about.                        *)
NetworkRow(run, current, earlier) ==
  [kind |-> "sample", n |-> writes + 1, run |-> run, total |-> current.count,
   delta |-> current.count - earlier.count,
   interval |-> current.captured_at - earlier.captured_at]
HardwareRow(run, current, earlier) == NetworkRow(run, current, earlier)

Mutant_BaselineKept(current, earlier) == earlier

(* sample() of either sampler replaces the baseline, delta or no delta. *)
Sampled(current, earlier)         == current
HardwareSampled(current, earlier) == current

-----------------------------------------------------------------------------
(* Writing. *)

(* Appends the values, the last of them cut short or not. *)
Write(f, values, cut) ==
  LET n    == Len(values)
      last == values[n]
      file == IF n = 1 THEN files[f] ELSE WriteJsonLine(files[f], values[1], "none")
  IN
  /\ writes + n <= MaxWrites
  /\ writes' = writes + n
  /\ files' = [files EXCEPT ![f] = WriteJsonLine(file, last, cut)]
  /\ cuts' = [cuts EXCEPT ![f] = IF cut = "none" THEN @ ELSE @ + 1]
  /\ acked' = IF cut = "none" /\ last.kind = "sample"
              THEN [acked EXCEPT ![f] = @ \cup {last.n}]
              ELSE acked
  /\ UNCHANGED has_hardware

NoWrite == UNCHANGED <<has_hardware, files, writes, cuts, acked>>

(* run returns an error or the process dies: its files close. *)
Ends(p) ==
  /\ process' = [process EXCEPT ![p] = NotRunning]
  /\ lock' = [f \in Artifacts |-> IF lock[f] = p THEN Free ELSE lock[f]]

(* The receivers the command lines start: a line is read, and the          *)
(* configuration it gives is valid.                                        *)
Receivers ==
  {[asked |-> AsksFor(args), config |-> ParseReceiveCliArgs(args).config] :
     args \in {line \in CommandLines :
                LET parsed == ParseReceiveCliArgs(line)
                IN  parsed.valid /\ Validate(parsed.config)}}

(* Command lines the parser makes one configuration of ask for one thing.  *)
ASSUME ParserAssumption ==
  \A x, y \in Receivers : x.config = y.config => x.asked = y.asked

(* run up to the writers: the context has joined, both samplers have their *)
(* baseline.  A receiver that fails before has left nothing behind.        *)
Start(p, receiver, environment) ==
  /\ ~Running(p)
  /\ runs < MaxRuns
  /\ environment # NotAnObject
  /\ started' = Append(started,
       [asked |-> receiver.asked,
        flags |-> BuildReceiverMetricsFlags(receiver.config, MetricsFlagsFromEnv(environment))])
  /\ process' = [process EXCEPT ![p] =
       [pc |-> "open network", run |-> runs + 1, created_at |-> clock,
        packets |-> 0, context |-> MetricsSnapshot(0), hardware |-> HardwareSnapshot(0)]]
  /\ NoWrite
  /\ UNCHANGED <<lock, clock, set_back>>

Opening == [f \in Artifacts |-> IF f = "mcrx-network" THEN "open network" ELSE "open hardware"]
Opened  == [f \in Artifacts |-> IF f = "mcrx-network" /\ has_hardware THEN "open hardware"
                                ELSE "loop"]

(* MetricsJsonlWriter::open of the network log, then of the hardware log.  *)
(* A locked, unreadable or foreign file ends the program, and so does a    *)
(* header that cannot be written.  Once both are open the headers, and     *)
(* their time, are forgotten.                                              *)
OpenWriter(p, f, cut) ==
  LET header == HeaderJson(f, started[process[p].run].flags, process[p].created_at)
      found  == IF lock[f] # Free THEN "refused" ELSE EnsureHeader(files[f], header, TRUE)
      opens  == found = "present" \/ (found = "write" /\ cut = "none")
  IN
  /\ process[p].pc = Opening[f]
  /\ IF found = "write" THEN Write(f, <<header>>, cut) ELSE NoWrite /\ cut = "none"
  /\ IF opens
     THEN /\ process' = [process EXCEPT ![p] =
               [process[p] EXCEPT !.pc = Opened[f],
                                  !.created_at = IF Opened[f] = "loop" THEN 0 ELSE @]]
          /\ lock' = [lock EXCEPT ![f] = p]
     ELSE Ends(p)
  /\ UNCHANGED <<clock, started, set_back>>

(* try_recv_any returns a packet. *)
ReceivePacket(p) ==
  /\ process[p].pc = "loop"
  /\ process[p].packets < MaxCount
  /\ process' = [process EXCEPT ![p].packets = @ + 1]
  /\ NoWrite
  /\ UNCHANGED <<lock, clock, started, set_back>>

(* A row, if there is a delta; a write that fails ends the program. *)
WriteSummary(p, f, has_delta, row, next, cut) ==
  /\ IF has_delta THEN Write(f, <<row>>, cut) ELSE NoWrite /\ cut = "none"
  /\ IF cut = "none" THEN process' = [process EXCEPT ![p] = next] /\ UNCHANGED lock
                     ELSE Ends(p)
  /\ UNCHANGED <<clock, started, set_back>>

(* The deadline has passed: the context's counters, then the process's,    *)
(* which never fall.  The two snapshots are taken one after the other.     *)
NetworkSummary(p, cut) ==
  LET current == MetricsSnapshot(process[p].packets)
      earlier == process[p].context
  IN
  /\ process[p].pc = "loop"
  /\ WriteSummary(p, "mcrx-network", HasDelta(current, earlier),
                  NetworkRow(process[p].run, current, earlier),
                  [process[p] EXCEPT !.context = Sampled(current, earlier),
                                     !.pc = IF has_hardware THEN "hardware" ELSE "loop"], cut)

HardwareSummary(p, cpu, cut) ==
  LET current == HardwareSnapshot(cpu)
      earlier == process[p].hardware
  IN
  /\ process[p].pc = "hardware"
  /\ cpu >= earlier.count
  /\ WriteSummary(p, "process-hardware", HasHardwareDelta(current, earlier),
                  HardwareRow(process[p].run, current, earlier),
                  [process[p] EXCEPT !.hardware = HardwareSampled(current, earlier),
                                     !.pc = "loop"], cut)

(* try_recv_any or the capture of the hardware counters fails, or the      *)
(* process is killed.                                                      *)
Stop(p) ==
  /\ Running(p)
  /\ Ends(p)
  /\ NoWrite
  /\ UNCHANGED <<clock, started, set_back>>

-----------------------------------------------------------------------------
(* Other programs. *)

OtherRow(kind, flags) ==
  CASE kind = "sample" -> [kind |-> "sample", n |-> writes + 1, run |-> 0, total |-> 0,
                           delta |-> 0, interval |-> 0]
    [] kind = "header" -> HeaderJson("mcrx-network", flags, clock)
    [] kind = "scalar" -> [kind |-> "scalar"]

(* append_jsonl_sample_row looks at the first line only, and writes the    *)
(* header first when the file is empty.                                    *)
AppendSampleRow(flags, kind, cut) ==
  LET f      == "mcrx-network"
      header == HeaderJson(f, flags, clock)
      row    == OtherRow(kind, flags)
      found  == EnsureHeader(files[f], header, FALSE)
  IN
  /\ lock[f] = Free
  /\ ValidateSampleRow(row)
  /\ found # "refused"
  /\ Write(f, IF found = "write" THEN <<header, row>> ELSE <<row>>, cut)
  /\ UNCHANGED <<lock, process, clock, started, set_back>>

(* ensure_single_header; an append that fails in its first write, or dies  *)
(* after it, leaves the same.                                              *)
EnsureSingleHeader(flags, cut) ==
  LET f == "mcrx-network" IN
  /\ lock[f] = Free
  /\ EnsureHeader(files[f], HeaderJson(f, flags, clock), TRUE) = "write"
  /\ Write(f, <<HeaderJson(f, flags, clock)>>, cut)
  /\ UNCHANGED <<lock, process, clock, started, set_back>>

SetClock(time) ==
  /\ time # clock
  /\ clock' = time
  /\ set_back' = IF time < clock
                 THEN set_back \cup {process[p].run : p \in {q \in Processes : Running(q)}}
                 ELSE set_back
  /\ NoWrite
  /\ UNCHANGED <<lock, process, started>>

-----------------------------------------------------------------------------
Init ==
  /\ has_hardware \in BOOLEAN
  /\ files = [f \in Artifacts |-> EmptyFile]
  /\ lock = [f \in Artifacts |-> Free]
  /\ process = [p \in Processes |-> NotRunning]
  /\ clock = 0
  /\ started = <<>> /\ writes = 0
  /\ acked = [f \in Artifacts |-> {}]
  /\ cuts = [f \in Artifacts |-> 0]
  /\ set_back = {}

Next ==
  \/ \E p \in Processes :
       \/ \E receiver \in Receivers, environment \in Environments :
            Start(p, receiver, environment)
       \/ \E f \in Artifacts, cut \in Cuts : OpenWriter(p, f, cut)
       \/ ReceivePacket(p)
       \/ \E cut \in Cuts : NetworkSummary(p, cut)
       \/ \E cpu \in 0..MaxCount, cut \in Cuts : HardwareSummary(p, cpu, cut)
       \/ Stop(p)
  \/ \E flags \in OtherFlags, cut \in Cuts :
       \/ \E kind \in {"sample", "header", "scalar"} : AppendSampleRow(flags, kind, cut)
       \/ EnsureSingleHeader(flags, cut)
  \/ \E time \in 0..MaxTime : SetClock(time)

Spec == Init /\ [][Next]_vars

-----------------------------------------------------------------------------
(* Everything ever written to a file. *)
Contents(file) ==
  UNION {{file.lines[i][j].value : j \in 1..Len(file.lines[i])} : i \in 1..Len(file.lines)}
Texts(f) == Contents(files[f])

AllFlags ==
  OtherFlags \cup {BuildReceiverMetricsFlags(r.config, MetricsFlagsFromEnv(environment)) :
                     r \in Receivers, environment \in Environments}
HeaderType == [kind: {"header"}, artifact_type: Artifacts, flags: AllFlags, created_at: 0..MaxTime]
RowType == [kind: {"sample"}, n: 1..MaxWrites, run: 0..MaxRuns, total: 0..MaxCount,
            delta: 0..MaxCount, interval: 0..MaxTime]
TextType == [value: HeaderType \cup RowType, whole: BOOLEAN]
FileType == [lines: Seq(Seq(TextType)), terminated: BOOLEAN]
SnapshotType == [count: 0..MaxCount, captured_at: 0..MaxTime]
ProcessType ==
  [pc: {"open network", "open hardware", "loop", "hardware"}, run: 1..MaxRuns,
   created_at: 0..MaxTime, packets: 0..MaxCount, context: SnapshotType,
   hardware: SnapshotType]

(* Every variable has its type, and a lock is held by a process that runs. *)
TypeOK ==
  /\ has_hardware \in BOOLEAN
  /\ files \in [Artifacts -> FileType]
  /\ lock \in [Artifacts -> Processes \cup {Free}]
  /\ \A f \in Artifacts : lock[f] # Free => Running(lock[f])
  /\ process \in [Processes -> ProcessType \cup {NotRunning}]
  /\ clock \in 0..MaxTime /\ writes \in 0..MaxWrites
  /\ started \in Seq([asked: {r.asked : r \in Receivers}, flags: AllFlags]) /\ runs <= MaxRuns
  /\ acked \in [Artifacts -> SUBSET (1..writes)]
  /\ cuts \in [Artifacts -> 0..writes]
  /\ set_back \subseteq 1..runs

Readable(f) == {i \in DOMAIN files[f].lines : IsJson(files[f].lines[i])}
ReadableRow(line)  == IsJson(line) /\ Value(line).kind = "sample"
ReadableRows(file) ==
  {Value(file.lines[i]).n : i \in {j \in 1..Len(file.lines) : ReadableRow(file.lines[j])}}
Line(f, i)  == Value(files[f].lines[i])

(* "Exactly one header at the top before samples": whatever processes and  *)
(* programs have written, crashed over and been refused, a reader that     *)
(* skips damaged lines finds a header of the right artifact in the first   *)
(* line or nowhere, and samples nowhere else.                              *)
HeaderFirst ==
  \A f \in Artifacts : \A i \in Readable(f) :
    IF i = 1 THEN IsHeaderObject(Line(f, i)) /\ Line(f, i).artifact_type = f
             ELSE Line(f, i).kind = "sample"

(* A write that is cut short costs at most one row that was acknowledged:  *)
(* the one glued to it.  Every other acknowledged row can be read.         *)
DamageBounded ==
  \A f \in Artifacts : Cardinality(acked[f] \ ReadableRows(files[f])) <= cuts[f]

(* The two logs describe one receiver: their headers show the same flags,  *)
(* also when a receiver died between the two and another configuration     *)
(* was started on the same paths.                                          *)
PairConsistent ==
  (\A f \in Artifacts : 1 \in Readable(f)) =>
    Line("mcrx-network", 1).flags = Line("process-hardware", 1).flags

(* A receiver can be started again on its own logs at any later time,      *)
(* after whatever crash, unless a write was cut short.                     *)
RestartAccepted ==
  \A f \in Artifacts : files[f].lines # <<>> /\ cuts[f] = 0 =>
    \A now \in 0..MaxTime :
      EnsureHeader(files[f], HeaderJson(f, Line(f, 1).flags, now), TRUE) = "present"

RowsOf(f, run) == {v \in Texts(f) : v.kind = "sample" /\ v.run = run}
LastTotal(rows) ==
  IF rows = {} THEN 0 ELSE (CHOOSE r \in rows : \A q \in rows : q.n <= r.n).total
TotalBefore(f, row) == LastTotal({r \in RowsOf(f, row.run) : r.n < row.n})

(* The deltas of a run's rows add up to its counters: each row accounts    *)
(* for what was counted since the row before it, and misses some of it     *)
(* only when the clock was set back during the run.  No row shows a        *)
(* negative delta or interval, whatever the clock does.                    *)
DeltasAddUp ==
  \A f \in Artifacts : \A run \in 1..runs : \A row \in RowsOf(f, run) :
    LET progress == row.total - TotalBefore(f, row) IN
    /\ row.delta \in 0..progress /\ row.interval >= 0
    /\ run \notin set_back => row.delta = progress

(* A log is about one receiver: two runs that wrote rows into the same     *)
(* file were asked for the same group, port, source and interface,         *)
(* however their command lines spelled them and whatever flags the         *)
(* environment of each one named.                                          *)
LogOfOneReceiver ==
  \A f \in Artifacts : \A r, s \in 1..runs :
    RowsOf(f, r) # {} /\ RowsOf(f, s) # {} => started[r].asked = started[s].asked

=============================================================================
