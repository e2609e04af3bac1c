------------------------ MODULE AsyncioReadersProofs ------------------------
(***************************************************************************)
(* Proofs about AsyncioReaders: descriptors and timers against the state   *)
(* of readers and calls of recv, exact delivery, and the finality of       *)
(* close, for every number of readers and of concurrent calls of recv.     *)
(***************************************************************************)
EXTENDS AsyncioReaders, SubsequenceProofs, SequenceTheorems

ReaderStates  == {"none", "fd", "poll", "raised", "dropped", "closed"}
ReceiveStates == {"none", "call", "wait", "woken", "raised", "ended"}

(* What one reader and one call of recv own. *)
ReaderAccounted(r) ==
  /\ r \in fds <=> reader[r] \in {"fd", "raised"}
  /\ r \in registered <=> reader[r] = "fd"
  /\ r \in timers => IsOpen(r)

ReceiveAccounted(t) ==
  /\ t \in fds => receive[t] \in {"wait", "woken", "raised"}
  /\ t \in registered <=> t \in fds /\ receive[t] # "raised"

(* The two halves of the inductive invariant: who owns what, and what      *)
(* became of the datagrams.                                                *)
Handles ==
  /\ platform \in Platforms /\ loop_open \in BOOLEAN
  /\ subscription \in {"bound", "joined", "removed"}
  /\ reader \in [Readers -> ReaderStates]
  /\ receive \in [Receives -> ReceiveStates]
  /\ running = Idle \/ running \in [who: Readers, pc: {"drain", "callback"}]
  /\ fds \subseteq Owners /\ registered \subseteq fds /\ timers \subseteq Owners
  /\ \A r \in Readers : ReaderAccounted(r)
  /\ \A t \in Receives : ReceiveAccounted(t)

Handled == Seq(Owners \cup {"application"})

Traffic ==
  /\ queue \in Seq(DatagramType) /\ arrived \in Seq(DatagramType)
  /\ delivered \in Seq(DatagramType) /\ member \in BOOLEAN
  /\ served \in Handled /\ Len(served) = Len(delivered)
  /\ PacketsOnce

-----------------------------------------------------------------------------
(* Who owns what. *)

Running(r, pc) == [who |-> r, pc |-> pc]

(* The cases of recv_nowait, and of one turn of the drain. *)
LEMMA OutcomeCases ==
  /\ Outcome \in {"LookupError", "RuntimeError", "None", "packet"}
  /\ subscription = "removed" => Outcome = "LookupError"
  /\ Outcome \in {"None", "packet"} => subscription # "removed" /\ subscription # "bound"
  /\ Outcome = "packet" => ~(Leading >= FilterBudget \/ Leading = Len(queue))
BY DEF Outcome

(* One turn of the drain, by what recv_nowait says. *)
LEMMA DrainCases ==
  ASSUME NEW r, Drain(r)
  PROVE  /\ UNCHANGED <<platform, loop_open, subscription, receive>>
         /\ running = Running(r, "drain")
         /\ \/ ~IsOpen(r) /\ running' = Idle /\ UNCHANGED <<reader, owned, net>>
            \/ IsOpen(r) /\ running' = Idle /\ CloseHandle(r)
            \/ /\ IsOpen(r) /\ running' = Idle /\ TakesNothing /\ Outcome = "None"
               /\ timers' = IF reader[r] = "poll" THEN timers \cup {r} ELSE timers
               /\ UNCHANGED <<reader, fds, registered>>
            \/ /\ IsOpen(r) /\ running' = [running EXCEPT !.pc = "callback"] /\ Outcome = "packet"
               /\ TakesPacket(r) /\ UNCHANGED <<reader, owned>>
BY OutcomeCases DEF Drain, app, Running

(* Together they are what the property says of all of them. *)
LEMMA HandlesAccounted ==
  ASSUME Handles
  PROVE  DescriptorsAccounted
<1>1. fds \subseteq Readers \cup Receives /\ registered \subseteq fds
  BY DEF Handles, Owners
<1>2. Readers \cap Receives = {}
  BY AsyncioAssumptions
<1>3. ASSUME NEW x \in Readers
      PROVE  /\ x \in fds <=> reader[x] \in {"fd", "raised"}
             /\ x \in registered <=> x \in fds \ Lost
             /\ x \in timers => IsOpen(x)
  <2>1. ReaderAccounted(x) /\ x \notin Receives
    BY <1>2 DEF Handles
  <2>2. x \in Lost <=> reader[x] = "raised"
    BY <2>1 DEF Lost
  <2>3. QED
    BY <2>1, <2>2 DEF ReaderAccounted
<1>4. ASSUME NEW t \in Receives
      PROVE  /\ t \in fds => receive[t] \in {"wait", "woken", "raised"}
             /\ t \in registered <=> t \in fds \ Lost
  <2>1. ReceiveAccounted(t) /\ t \notin Readers
    BY <1>2 DEF Handles
  <2>2. t \in Lost <=> receive[t] = "raised"
    BY <2>1 DEF Lost
  <2>3. QED
    BY <2>1, <2>2 DEF ReceiveAccounted
<1>5. registered = fds \ Lost
  BY <1>1, <1>3, <1>4
<1>6. QED
  BY <1>1, <1>3, <1>4, <1>5 DEF DescriptorsAccounted

(* Steps that change no handle and no call of recv. *)
LEMMA HandlesKept ==
  ASSUME Handles, UNCHANGED <<reader, receive, fds, registered>>,
         platform' = platform, loop_open' \in BOOLEAN,
         subscription' \in {"bound", "joined", "removed"},
         running' = Idle \/ running' \in [who: Readers, pc: {"drain", "callback"}],
         timers' \subseteq Owners, \A r \in Readers : r \in timers' => IsOpen(r)
  PROVE  Handles'
<1>1. ASSUME NEW r \in Readers
      PROVE  ReaderAccounted(r)'
  BY DEF Handles, ReaderAccounted, IsOpen, Serving
<1>2. ASSUME NEW t \in Receives
      PROVE  ReceiveAccounted(t)'
  BY DEF Handles, ReceiveAccounted
<1>3. QED
  BY <1>1, <1>2 DEF Handles

(* Closing a handle gives back what it owns. *)
LEMMA HandlesClose ==
  ASSUME Handles, NEW r \in Readers, CloseHandle(r),
         running' = running \/ running' = Idle,
         UNCHANGED <<platform, loop_open, subscription, receive>>
  PROVE  Handles' /\ fds' \subseteq fds
<1>1. CASE ~IsOpen(r)
  <2>1. {r} \cap {o \in Readers : IsOpen(o)} = {}
    BY <1>1
  <2>2. fds' = fds /\ registered' = registered /\ timers' = timers
    BY <2>1 DEF CloseHandle, Drop
  <2>3. reader' = reader
    BY <1>1 DEF CloseHandle, Handles
  <2>4. \A x \in Readers : x \in timers' => IsOpen(x)
    BY <2>2 DEF Handles, ReaderAccounted
  <2>5. QED
    BY <2>2, <2>3, <2>4, HandlesKept DEF Handles
<1>2. CASE IsOpen(r)
  <2>1. {r} \cap {o \in Readers : IsOpen(o)} = {r}
    BY <1>2
  <2>2. fds' = fds \ {r} /\ registered' = registered \ {r} /\ timers' = timers \ {r}
    BY <2>1 DEF CloseHandle, Drop
  <2>3. reader' = [reader EXCEPT ![r] = "closed"]
    BY <1>2 DEF CloseHandle
  <2>4. /\ reader' \in [Readers -> ReaderStates] /\ reader'[r] = "closed"
        /\ \A x \in Readers \ {r} : reader'[x] = reader[x]
    BY <2>3 DEF Handles, ReaderStates
  <2>5. r \notin Receives
    BY AsyncioAssumptions
  <2>6. ASSUME NEW x \in Readers
        PROVE  ReaderAccounted(x)'
    <3>1. CASE x = r
      BY <2>2, <2>4, <3>1 DEF ReaderAccounted
    <3>2. CASE x # r
      BY <2>2, <2>4, <3>2 DEF Handles, ReaderAccounted, IsOpen, Serving
    <3>3. QED
      BY <3>1, <3>2
  <2>7. ASSUME NEW t \in Receives
        PROVE  ReceiveAccounted(t)'
    BY <2>2, <2>5 DEF Handles, ReceiveAccounted
  <2>8. QED
    BY <2>2, <2>4, <2>6, <2>7 DEF Handles
<1>3. QED
  BY <1>1, <1>2

(* A polling reader whose callback breaks out owns nothing any more. *)
LEMMA HandlesBreak ==
  ASSUME Handles, NEW r \in Readers, CallbackBreaksOut(r)
  PROVE  Handles' /\ UNCHANGED <<owned, net, subscription>>
<1>1. /\ UNCHANGED <<platform, loop_open, subscription, receive, fds, registered, timers, net>>
      /\ running' = Idle
  BY DEF CallbackBreaksOut, app, owned
<1>2. PICK state \in ReaderStates :
        /\ reader' = [reader EXCEPT ![r] = state]
        /\ state = reader[r] \/ (reader[r] = "poll" /\ state = "dropped")
  <2>1. reader[r] \in ReaderStates /\ "dropped" \in ReaderStates
    BY DEF Handles, ReaderStates
  <2>2. CASE reader[r] = "poll"
    BY <2>1, <2>2 DEF CallbackBreaksOut
  <2>3. CASE reader[r] # "poll"
    BY <2>1, <2>3 DEF CallbackBreaksOut
  <2>4. QED
    BY <2>2, <2>3
<1>3. /\ reader' \in [Readers -> ReaderStates] /\ reader'[r] = state
      /\ \A x \in Readers \ {r} : reader'[x] = reader[x]
  BY <1>2 DEF Handles
<1>4. ASSUME NEW x \in Readers
      PROVE  ReaderAccounted(x)'
  <2>1. reader'[x] = reader[x] \/ (reader[x] = "poll" /\ reader'[x] = "dropped")
    BY <1>2, <1>3
  <2>2. QED
    BY <1>1, <2>1 DEF Handles, ReaderAccounted, IsOpen, Serving
<1>5. ASSUME NEW t \in Receives
      PROVE  ReceiveAccounted(t)'
  BY <1>1 DEF Handles, ReceiveAccounted
<1>6. QED
  BY <1>1, <1>3, <1>4, <1>5 DEF Handles, owned

(* add_reader takes a descriptor only of a subscription that exists. *)
LEMMA HandlesAdd ==
  ASSUME Handles, NEW r \in Readers, NEW outcome \in Registrations, AddReader(r, outcome)
  PROVE  Handles' /\ UNCHANGED net /\ subscription' = subscription
         /\ (fds' # fds => subscription # "removed")
<1>1. /\ outcome = "none" \/ outcome = "raised" \/ outcome = "registered"
      /\ outcome = "none" \/ platform # "no fileno"
  <2>1. \/ outcome \in {"none"}
        \/ outcome \in (IF platform = "selector" THEN {"raised"} ELSE {})
        \/ outcome \in (IF platform = "selector" /\ loop_open THEN {"registered"} ELSE {})
    BY DEF Registrations
  <2>2. CASE platform = "selector"
    BY <2>1, <2>2
  <2>3. CASE platform # "selector"
    BY <2>1, <2>3
  <2>4. QED
    BY <2>2, <2>3
<1>2. /\ reader[r] = "none" /\ UNCHANGED net
      /\ UNCHANGED <<platform, loop_open, subscription, receive, running>>
      /\ platform # "no fileno" => subscription # "removed"
      /\ timers' = timers \/ timers' = timers \cup {r}
      /\ outcome = "raised" => timers' = timers
  BY DEF AddReader, app
<1>3. PICK state \in {"fd", "poll", "raised"} :
        /\ reader' = [reader EXCEPT ![r] = state]
        /\ fds' = IF state = "poll" THEN fds ELSE fds \cup {r}
        /\ registered' = IF state = "fd" THEN registered \cup {r} ELSE registered
        /\ state = "raised" => timers' = timers
        /\ state = "poll" \/ platform # "no fileno"
  <2>1. CASE outcome = "none"
    BY <1>2, <2>1 DEF AddReader
  <2>2. CASE outcome = "raised"
    BY <1>1, <1>2, <2>2 DEF AddReader
  <2>3. CASE outcome = "registered"
    BY <1>1, <1>2, <2>3 DEF AddReader
  <2>4. QED
    BY <1>1, <2>1, <2>2, <2>3
<1>4. r \notin Receives /\ r \in Owners
  BY AsyncioAssumptions DEF Owners
<1>5. /\ reader' \in [Readers -> ReaderStates] /\ reader'[r] = state
      /\ \A x \in Readers \ {r} : reader'[x] = reader[x]
  BY <1>3 DEF Handles, ReaderStates
<1>6. r \notin fds /\ r \notin registered /\ r \notin timers
  BY <1>2 DEF Handles, ReaderAccounted, IsOpen, Serving
<1>7. ASSUME NEW x \in Readers
      PROVE  ReaderAccounted(x)'
  <2>1. CASE x = r
    BY <1>2, <1>3, <1>5, <1>6, <2>1 DEF ReaderAccounted, IsOpen, Serving
  <2>2. CASE x # r
    <3>1. reader'[x] = reader[x] /\ ReaderAccounted(x)
      BY <1>5, <2>2 DEF Handles
    <3>2. IsOpen(x)' <=> IsOpen(x)
      BY <3>1 DEF IsOpen, Serving
    <3>3. /\ x \in fds' <=> x \in fds
          /\ x \in registered' <=> x \in registered
          /\ x \in timers' <=> x \in timers
      BY <1>2, <1>3, <2>2
    <3>4. QED
      BY <3>1, <3>2, <3>3 DEF ReaderAccounted
  <2>3. QED
    BY <2>1, <2>2
<1>8. ASSUME NEW t \in Receives
      PROVE  ReceiveAccounted(t)'
  <2>1. ReceiveAccounted(t) /\ t # r
    BY <1>4 DEF Handles
  <2>2. /\ t \in fds' <=> t \in fds
        /\ t \in registered' <=> t \in registered
    BY <1>3, <2>1
  <2>3. QED
    BY <1>2, <2>1, <2>2 DEF ReceiveAccounted
<1>9. registered' \subseteq fds' /\ fds' \subseteq Owners /\ timers' \subseteq Owners
  BY <1>2, <1>3, <1>4 DEF Handles
<1>10. fds' # fds => subscription # "removed"
  BY <1>2, <1>3
<1>11. QED
  BY <1>2, <1>5, <1>7, <1>8, <1>9, <1>10 DEF Handles

(* A call of recv moves on; it waits on nothing, or on what it owns now. *)
LEMMA HandlesReceive ==
  ASSUME Handles, NEW t \in Receives, NEW state \in ReceiveStates,
         receive' = [receive EXCEPT ![t] = state],
         UNCHANGED <<platform, loop_open, subscription, reader, running>>,
         fds' \ {t} = fds \ {t}, registered' \ {t} = registered \ {t},
         timers' \subseteq timers \cup {t},
         t \in fds' => state \in {"wait", "woken", "raised"},
         t \in registered' <=> t \in fds' /\ state # "raised"
  PROVE  Handles'
<1>1. t \notin Readers /\ t \in Owners
  BY AsyncioAssumptions DEF Owners
<1>2. /\ receive' \in [Receives -> ReceiveStates] /\ receive'[t] = state
      /\ \A x \in Receives \ {t} : receive'[x] = receive[x]
  BY DEF Handles
<1>3. \A x : x # t => /\ x \in fds' <=> x \in fds
                      /\ x \in registered' <=> x \in registered
                      /\ x \in timers' => x \in timers
  OBVIOUS
<1>4. ASSUME NEW x \in Readers
      PROVE  ReaderAccounted(x)'
  BY <1>1, <1>3 DEF Handles, ReaderAccounted, IsOpen, Serving
<1>5. ASSUME NEW x \in Receives
      PROVE  ReceiveAccounted(x)'
  BY <1>2, <1>3 DEF Handles, ReceiveAccounted
<1>6. registered' \subseteq fds' /\ fds' \subseteq Owners /\ timers' \subseteq Owners
  BY <1>1, <1>3 DEF Handles
<1>7. QED
  BY <1>2, <1>4, <1>5, <1>6 DEF Handles

(* The head of recv's loop, by what recv_nowait says. *)
LEMMA ReceiveCallCases ==
  ASSUME NEW t, NEW outcome \in Registrations, ReceiveCall(t, outcome)
  PROVE  /\ UNCHANGED <<platform, loop_open, subscription, reader, running>>
         /\ receive[t] = "call"
         /\ \/ receive' = [receive EXCEPT ![t] = "ended"] /\ UNCHANGED owned /\ UNCHANGED net
            \/ /\ receive' = [receive EXCEPT ![t] = "ended"] /\ UNCHANGED owned
               /\ TakesPacket(t) /\ Outcome = "packet"
            \/ /\ TakesNothing /\ Outcome = "None"
               /\ timers' \subseteq timers \cup {t}
               /\ \/ /\ receive' = [receive EXCEPT ![t] = "wait"] /\ UNCHANGED <<fds, registered>>
                  \/ /\ receive' = [receive EXCEPT ![t] = "wait"]
                     /\ fds' = fds \cup {t} /\ registered' = registered \cup {t}
                  \/ /\ receive' = [receive EXCEPT ![t] = "raised"]
                     /\ fds' = fds \cup {t} /\ registered' = registered
<1>1. outcome \in {"none", "raised", "registered"}
  BY DEF Registrations
<1>2. QED
  BY <1>1, OutcomeCases DEF ReceiveCall, app

(* Every step, by what it does to the handles and to the socket. *)
LEMMA HandlesStep ==
  ASSUME Handles, [Next]_vars
  PROVE  Handles'
<1> DEFINE Busy == running' = Idle \/ running' \in [who: Readers, pc: {"drain", "callback"}]
<1>0. /\ timers \subseteq Owners
      /\ \A r \in Readers : r \in timers => IsOpen(r)
      /\ \A t \in Receives : t \in fds => receive[t] \in {"wait", "woken", "raised"}
      /\ \A t \in Receives : t \in registered <=> t \in fds /\ receive[t] # "raised"
  BY DEF Handles, ReaderAccounted, ReceiveAccounted
<1>1. ASSUME UNCHANGED <<platform, reader, receive, owned>>, loop_open' \in BOOLEAN,
             subscription' \in {"bound", "joined", "removed"}, Busy
      PROVE  Handles'
  BY <1>0, <1>1, HandlesKept DEF owned
<1>2. ASSUME NEW r \in Readers, NEW pc \in {"drain", "callback"}, running' = Running(r, pc)
      PROVE  Busy
  BY <1>2 DEF Running
<1>3. ASSUME NEW r \in Readers, \E outcome \in Registrations : AddReader(r, outcome)
      PROVE  Handles'
  BY <1>3, HandlesAdd
<1>4. ASSUME NEW r \in Readers, Close(r) \/ DrainFails(r) \/ CallbackRaises(r)
      PROVE  Handles'
  <2>1. /\ CloseHandle(r) /\ (running' = running \/ running' = Idle)
        /\ UNCHANGED <<platform, loop_open, subscription, receive>>
    BY <1>4 DEF Close, DrainFails, CallbackRaises, app
  <2>2. QED
    BY <2>1, HandlesClose
<1>5. ASSUME NEW r \in Readers, NEW other \in Readers, CallbackCloses(r, other)
      PROVE  Handles'
  BY <1>5, HandlesClose DEF CallbackCloses, app
<1>6. ASSUME NEW r \in Readers, CheckLifetime(r)
      PROVE  Handles'
  <2>1. UNCHANGED <<platform, loop_open, subscription, receive, running>>
    BY <1>6 DEF CheckLifetime, app
  <2>2. CASE CloseHandle(r)
    BY <2>1, <2>2, HandlesClose
  <2>3. CASE UNCHANGED <<reader, owned, net>>
    BY <1>1, <2>1, <2>3 DEF Handles
  <2>4. QED
    BY <1>6, <2>2, <2>3 DEF CheckLifetime
<1>7. ASSUME NEW r \in Readers, PollFires(r)
      PROVE  Handles'
  <2>1. /\ UNCHANGED <<platform, loop_open, subscription, reader, receive, fds, registered>>
        /\ timers' = timers \ {r} /\ running' = Running(r, "drain")
    BY <1>7 DEF PollFires, app, Running
  <2>2. timers' \subseteq Owners /\ \A x \in Readers : x \in timers' => IsOpen(x)
    BY <1>0, <2>1
  <2>3. QED
    BY <1>2, <2>1, <2>2, HandlesKept DEF Handles
<1>8. ASSUME NEW r \in Readers, ReaderReady(r) \/ CallbackReturns(r)
      PROVE  Handles'
  <2>1. running' = Running(r, "drain")
    BY <1>8 DEF ReaderReady, CallbackReturns, Running
  <2>2. UNCHANGED <<platform, loop_open, subscription, reader, receive, owned>>
    BY <1>8 DEF ReaderReady, CallbackReturns, app
  <2>3. QED
    BY <1>1, <1>2, <2>1, <2>2 DEF Handles
<1>9. ASSUME NEW r \in Readers, Drain(r)
      PROVE  Handles'
  <2>1. UNCHANGED <<platform, loop_open, subscription, receive>> /\ running = Running(r, "drain")
    BY <1>9, DrainCases
  <2>2. CASE running' = Idle /\ UNCHANGED <<reader, owned, net>>
    BY <1>1, <2>1, <2>2 DEF Handles
  <2>3. CASE running' = Idle /\ CloseHandle(r)
    BY <2>1, <2>3, HandlesClose
  <2>4. CASE /\ IsOpen(r) /\ running' = Idle
             /\ timers' = IF reader[r] = "poll" THEN timers \cup {r} ELSE timers
             /\ UNCHANGED <<reader, fds, registered>>
    <3>1. timers' \subseteq Owners /\ \A x \in Readers : x \in timers' => IsOpen(x)
      BY <1>0, <2>4 DEF Owners
    <3>2. QED
      BY <2>1, <2>4, <3>1, HandlesKept DEF Handles
  <2>5. CASE running' = [running EXCEPT !.pc = "callback"] /\ UNCHANGED <<reader, owned>>
    <3>1. running' = Running(r, "callback")
      BY <2>1, <2>5 DEF Running
    <3>2. QED
      BY <1>1, <1>2, <2>1, <2>5, <3>1 DEF Handles
  <2>6. QED
    BY <1>9, <2>2, <2>3, <2>4, <2>5, DrainCases
<1>10. ASSUME NEW t \in Receives, StartReceive(t) \/ ReceiveReady(t) \/ ReceiveFails(t)
       PROVE  Handles'
  <2>1. /\ \/ /\ receive[t] \in {"none", "call"}
              /\ \E state \in {"call", "ended"} : receive' = [receive EXCEPT ![t] = state]
           \/ receive[t] = "wait" /\ receive' = [receive EXCEPT ![t] = "woken"]
        /\ UNCHANGED <<platform, loop_open, subscription, reader, running, fds, registered, timers>>
    BY <1>10 DEF StartReceive, ReceiveReady, ReceiveFails, app, owned
  <2>2. CASE /\ receive[t] \in {"none", "call"}
             /\ \E state \in {"call", "ended"} : receive' = [receive EXCEPT ![t] = state]
    <3>1. t \notin fds /\ t \notin registered
      BY <1>0, <2>2
    <3>2. QED
      BY <2>1, <2>2, <3>1, HandlesReceive DEF ReceiveStates
  <2>3. CASE receive[t] = "wait" /\ receive' = [receive EXCEPT ![t] = "woken"]
    <3>1. t \in registered <=> t \in fds
      BY <1>0, <2>3
    <3>2. QED
      BY <2>1, <2>3, <3>1, HandlesReceive DEF ReceiveStates
  <2>4. QED
    BY <2>1, <2>2, <2>3
<1>11. ASSUME NEW t \in Receives, ReceiveResumes(t) \/ CancelReceive(t)
       PROVE  Handles'
  <2>1. /\ \E state \in {"call", "ended"} : receive' = [receive EXCEPT ![t] = state]
        /\ fds' = fds \ {t} /\ registered' = registered \ {t} /\ timers' = timers \ {t}
        /\ UNCHANGED <<platform, loop_open, subscription, reader, running>>
    BY <1>11 DEF ReceiveResumes, CancelReceive, Drop, app
  <2>2. QED
    BY <1>0, <2>1, HandlesReceive DEF ReceiveStates
<1>12. ASSUME NEW t \in Receives, NEW outcome \in Registrations, ReceiveCall(t, outcome)
       PROVE  Handles'
  <2>1. /\ UNCHANGED <<platform, loop_open, subscription, reader, running>>
        /\ receive[t] = "call"
    BY <1>12, ReceiveCallCases
  <2>2. t \notin fds /\ t \notin registered
    BY <1>0, <2>1
  <2>3. CASE receive' = [receive EXCEPT ![t] = "ended"] /\ UNCHANGED owned
    BY <1>0, <2>1, <2>2, <2>3, HandlesReceive DEF ReceiveStates, owned
  <2>4. CASE /\ receive' = [receive EXCEPT ![t] = "wait"] /\ UNCHANGED <<fds, registered>>
             /\ timers' \subseteq timers \cup {t}
    BY <2>1, <2>2, <2>4, HandlesReceive DEF ReceiveStates
  <2>5. CASE /\ receive' = [receive EXCEPT ![t] = "wait"]
             /\ fds' = fds \cup {t} /\ registered' = registered \cup {t}
             /\ timers' \subseteq timers \cup {t}
    BY <2>1, <2>2, <2>5, HandlesReceive DEF ReceiveStates
  <2>6. CASE /\ receive' = [receive EXCEPT ![t] = "raised"]
             /\ fds' = fds \cup {t} /\ registered' = registered
             /\ timers' \subseteq timers \cup {t}
    BY <2>1, <2>2, <2>6, HandlesReceive DEF ReceiveStates
  <2>7. QED
    BY <1>12, <2>3, <2>4, <2>5, <2>6, ReceiveCallCases
<1>13. CASE Join \/ Leave \/ Remove \/ ReceiveDirectly \/ CloseLoop
  <2>1. /\ UNCHANGED <<platform, reader, receive, owned, running>> /\ loop_open' \in BOOLEAN
        /\ subscription' \in {"bound", "joined", "removed"}
    BY <1>13 DEF Join, Leave, Remove, ReceiveDirectly, CloseLoop, app, Handles
  <2>2. QED
    BY <1>1, <2>1 DEF Handles
<1>14. ASSUME NEW wanted, Arrive(wanted)
       PROVE  Handles'
  BY <1>1, <1>14 DEF Arrive, app, Handles
<1>15. CASE UNCHANGED vars
  BY <1>1, <1>15 DEF vars, app, Handles
<1>16. ASSUME NEW r \in Readers, CallbackBreaksOut(r)
       PROVE  Handles'
  BY <1>16, HandlesBreak
<1>17. QED
  BY <1>3, <1>4, <1>5, <1>6, <1>7, <1>8, <1>9, <1>10, <1>11, <1>12, <1>13, <1>14, <1>15, <1>16
  DEF Next, TimerFires, CallbackRuns, TaskRuns

-----------------------------------------------------------------------------
(* What became of the datagrams. *)

Mine(s) == {i \in DOMAIN s : s[i].wanted}

(* Datagrams, one by one. *)
LEMMA DatagramFacts ==
  ASSUME NEW s \in Seq(DatagramType)
  PROVE  \A i \in 1..Len(s) : s[i] \in DatagramType /\ s[i].wanted \in BOOLEAN
<1>1. \A d \in DatagramType : d.wanted \in BOOLEAN
  BY DEF DatagramType
<1>2. \A i \in 1..Len(s) : s[i] \in DatagramType
  OBVIOUS
<1>3. QED
  BY <1>1, <1>2

(* What is wanted of a sequence of datagrams are datagrams. *)
LEMMA WantedType ==
  ASSUME NEW s \in Seq(DatagramType)
  PROVE  Wanted(s) \in Seq(DatagramType) /\ Wanted(s) = Picked(s, Mine(s))
         /\ Mine(s) \in SUBSET DOMAIN s
<1>1. Mine(s) \in SUBSET DOMAIN s
  BY DEF Mine
<1>2. Wanted(s) = Picked(s, Mine(s))
  BY DEF Wanted, Mine
<1>3. QED
  BY <1>1, <1>2, PickedFacts

(* A datagram is appended: wanted, it comes last. *)
LEMMA WantedGrows ==
  ASSUME NEW s \in Seq(DatagramType), NEW d \in DatagramType
  PROVE  /\ d.wanted = TRUE => Wanted(Append(s, d)) = Append(Wanted(s), d)
         /\ d.wanted = FALSE => Wanted(Append(s, d)) = Wanted(s)
<1> DEFINE t == Append(s, d)
           K == Mine(s)
           L == K \cup {Len(s) + 1}
<1>1. /\ Len(s) \in Nat /\ DOMAIN s = 1..Len(s) /\ DOMAIN t = 1..(Len(s) + 1)
      /\ t[Len(s) + 1] = d /\ t \in Seq(DatagramType) /\ \A i \in DOMAIN s : t[i] = s[i]
  OBVIOUS
<1>2. Wanted(s) = Picked(s, K) /\ Wanted(t) = Picked(t, Mine(t)) /\ K \in SUBSET DOMAIN s
  BY <1>1, WantedType
<1>3. /\ d.wanted = TRUE => Mine(t) = L
      /\ d.wanted = FALSE => Mine(t) = K
  <2> HIDE DEF t
  <2>1. \A i : (i \in Mine(t)) <=> (i \in DOMAIN t /\ t[i].wanted)
    BY DEF Mine
  <2>2. \A i : (i \in K) <=> (i \in DOMAIN s /\ s[i].wanted)
    BY DEF Mine
  <2> HIDE DEF K
  <2>3. \A i : (i \in DOMAIN t) <=> (i \in DOMAIN s \/ i = Len(s) + 1)
    BY <1>1
  <2>4. Len(s) + 1 \notin DOMAIN s
    BY <1>1
  <2>5. \A i : (i \in Mine(t)) <=> (i \in K \/ (i = Len(s) + 1 /\ d.wanted))
    BY <1>1, <2>1, <2>2, <2>3, <2>4
  <2>6. QED
    BY <2>5
<1>4. Grows(DatagramType, s, K, d, L)
  BY <1>2 DEF Grows
<1> HIDE DEF K, L
<1>5. Picked(t, K) = Picked(s, K) /\ Picked(t, L) = Append(Picked(s, K), d)
  BY <1>4, PickedGrows
<1>6. QED
  BY <1>2, <1>3, <1>5

(* The datagrams before the first wanted one. *)
LEMMA LeadingFacts ==
  ASSUME queue \in Seq(DatagramType)
  PROVE  /\ Leading \in 0..Len(queue) /\ \A i \in 1..Leading : queue[i].wanted = FALSE
         /\ Leading < Len(queue) => queue[Leading + 1].wanted = TRUE
<1> DEFINE T == {n \in 0..Len(queue) : n < Len(queue) => queue[n + 1].wanted = TRUE}
<1>1. Len(queue) \in Nat
  OBVIOUS
<1>2. T \in SUBSET Nat /\ T # {}
  <2>1. Len(queue) \in T
    BY <1>1
  <2>2. QED
    BY <2>1
<1>3. \A i \in 1..Len(queue) : queue[i].wanted \in BOOLEAN
  BY DatagramFacts
<1> HIDE DEF T
<1>4. PICK n \in T : \A m \in T : n <= m
  BY <1>2, LeastNatural
<1>5. n \in 0..Len(queue) /\ (n < Len(queue) => queue[n + 1].wanted = TRUE)
  BY <1>4 DEF T
<1>6. ASSUME NEW i \in 1..n
      PROVE  queue[i].wanted = FALSE
  <2>1. i - 1 \in 0..Len(queue) /\ i - 1 < n /\ i - 1 < Len(queue) /\ (i - 1) + 1 = i
        /\ i \in 1..Len(queue)
    BY <1>1, <1>5
  <2>2. i - 1 \notin T
    BY <1>2, <1>4, <2>1
  <2>3. ~(queue[(i - 1) + 1].wanted = TRUE)
    BY <2>1, <2>2 DEF T
  <2>4. QED
    BY <1>3, <2>1, <2>3
<1>7. \A i \in 1..n : ~queue[i].wanted
  BY <1>6
<1>8. n < Len(queue) => queue[n + 1].wanted
  BY <1>5
<1>9. /\ Leading \in 0..Len(queue) /\ \A i \in 1..Leading : ~queue[i].wanted
      /\ Leading < Len(queue) => queue[Leading + 1].wanted
  BY <1>5, <1>7, <1>8, Zenon DEF Leading
<1>10. \A i \in 1..Leading : i \in 1..Len(queue)
  BY <1>1, <1>9
<1>11. Leading < Len(queue) => Leading + 1 \in 1..Len(queue)
  BY <1>1, <1>9
<1>12. QED
  BY <1>3, <1>9, <1>10, <1>11

(* The first n datagrams go, of which only the last may be wanted. *)
LEMMA WantedShrinks ==
  ASSUME NEW s \in Seq(DatagramType), NEW n \in 0..Len(s),
         \A i \in 1..(n - 1) : s[i].wanted = FALSE
  PROVE  LET rest == SubSeq(s, n + 1, Len(s)) IN
         /\ rest \in Seq(DatagramType)
         /\ n > 0 /\ s[n].wanted = TRUE => Wanted(s) = <<s[n]>> \o Wanted(rest)
         /\ (n > 0 => s[n].wanted = FALSE) => Wanted(s) = Wanted(rest)
<1> DEFINE rest == SubSeq(s, n + 1, Len(s))
           K == Mine(s)
           M == K \ {n}
           L == Mine(rest)
<1>1. /\ rest \in Seq(DatagramType) /\ Len(rest) = Len(s) - n /\ Len(s) \in Nat
      /\ \A i \in 1..(Len(s) - n) : rest[i] = s[i + n]
  BY SuffixFacts
<1> HIDE DEF rest
<1>2. /\ Wanted(s) = Picked(s, K) /\ Wanted(rest) = Picked(rest, L) /\ DOMAIN s = 1..Len(s)
      /\ K \in SUBSET DOMAIN s /\ L \in SUBSET DOMAIN rest /\ DOMAIN rest = 1..(Len(s) - n)
  BY <1>1, WantedType
<1>3. \A i : (i \in K) <=> (i \in DOMAIN s /\ s[i].wanted)
  BY DEF Mine
<1>4. \A i : (i \in L) <=> (i \in DOMAIN rest /\ rest[i].wanted)
  BY DEF Mine
<1>5. \A i \in 1..Len(s) : s[i].wanted \in BOOLEAN
  BY DatagramFacts
<1> HIDE DEF K, L
<1>6. \A k \in M : n < k
  <2>1. ASSUME NEW k \in M
        PROVE  n < k
    <3>1. k \in 1..Len(s) /\ k # n /\ s[k].wanted
      BY <1>2, <1>3
    <3>2. ~(k \in 1..(n - 1))
      BY <3>1
    <3>3. QED
      BY <1>1, <3>1, <3>2
  <2>2. QED
    BY <2>1
<1>7. Shifted(s, M, n, L)
  <2>1. n \in 0..Len(s) /\ L \in SUBSET Int
    BY <1>1, <1>2
  <2>2. ASSUME NEW l \in Int
        PROVE  (l \in L) <=> (l + n \in M)
    <3>1. CASE l \in 1..(Len(s) - n)
      <4>1. rest[l] = s[l + n] /\ l \in DOMAIN rest /\ l + n \in DOMAIN s /\ l + n # n
        BY <1>1, <1>2, <3>1
      <4>2. QED
        BY <1>3, <1>4, <4>1
    <3>2. CASE l \notin 1..(Len(s) - n)
      <4>1. l \notin L
        BY <1>2, <3>2
      <4>2. l + n \notin M
        <5>1. SUFFICES ASSUME l + n \in M PROVE FALSE
          OBVIOUS
        <5>2. l + n \in 1..Len(s) /\ n < l + n
          BY <1>2, <1>6, <5>1
        <5>3. QED
          BY <1>1, <3>2, <5>2
      <4>3. QED
        BY <4>1, <4>2
    <3>3. QED
      BY <3>1, <3>2
  <2>3. QED
    BY <1>6, <2>1, <2>2 DEF Shifted
<1>8. M \in SUBSET DOMAIN s
  BY <1>2
<1> HIDE DEF M
<1>9. Picked(SubSeq(s, n + 1, Len(s)), L) = Picked(s, M)
  BY <1>7, <1>8, PickedShrinks
<1>10. Picked(rest, L) = Picked(s, M)
  BY <1>9 DEF rest
<1>11. ASSUME n > 0, s[n].wanted = TRUE
       PROVE  Wanted(s) = <<s[n]>> \o Wanted(rest)
  <2>1. n \in K
    BY <1>1, <1>2, <1>3, <1>11
  <2>2. \A j \in K : n <= j
    BY <1>2, <1>6 DEF M
  <2>3. K \in SUBSET DOMAIN s
    BY <1>2
  <2>4. Picked(s, K) = <<s[n]>> \o Picked(s, K \ {n})
    BY <2>1, <2>2, <2>3, PickedFirst
  <2>5. QED
    BY <1>2, <1>10, <2>4 DEF M
<1>12. ASSUME n > 0 => s[n].wanted = FALSE
       PROVE  Wanted(s) = Wanted(rest)
  <2>1. n \notin K
    <3>1. CASE n = 0
      BY <1>2, <3>1
    <3>2. CASE n > 0
      BY <1>3, <1>12, <3>2
    <3>3. QED
      BY <3>1, <3>2
  <2>2. M = K
    BY <2>1 DEF M
  <2>3. QED
    BY <1>2, <1>10, <2>2
<1>13. QED
  BY <1>1, <1>11, <1>12 DEF rest

(* The socket stays as it is while it stays open, or goes. *)
LEMMA TrafficSocket ==
  ASSUME Traffic, SocketAfter(subscription', fds') \/ UNCHANGED net,
         Holds(subscription', fds') => Holds(subscription, fds)
  PROVE  Traffic' /\ served' = served
<1>1. UNCHANGED <<arrived, delivered, served>>
  BY DEF SocketAfter, net
<1>2. queue' = queue \/ (queue' = <<>> /\ ~Holds(subscription', fds'))
  BY DEF SocketAfter, net
<1>3. queue' \in Seq(DatagramType)
  <2>1. <<>> \in Seq(DatagramType) /\ queue \in Seq(DatagramType)
    BY DEF Traffic
  <2>2. QED
    BY <1>2, <2>1
<1>4. member' \in BOOLEAN
  <2>1. CASE SocketAfter(subscription', fds')
    BY <2>1 DEF SocketAfter
  <2>2. CASE UNCHANGED net
    BY <2>2 DEF Traffic, net
  <2>3. QED
    BY <2>1, <2>2
<1>5. PacketsOnce'
  BY <1>1, <1>2 DEF Traffic, PacketsOnce
<1>6. QED
  BY <1>1, <1>3, <1>4, <1>5 DEF Traffic

(* A join or leave touches no datagram. *)
LEMMA MemberChanges ==
  ASSUME Traffic, UNCHANGED <<queue, arrived, delivered, served, fds>>, member' \in BOOLEAN,
         subscription # "removed"
  PROVE  Traffic'
BY DEF Traffic, PacketsOnce, Holds

(* recv_nowait finds nothing: what it filters is not wanted. *)
LEMMA TrafficNothing ==
  ASSUME Traffic, TakesNothing, subscription # "removed"
  PROVE  Traffic'
<1> DEFINE n == IF Leading < FilterBudget THEN Leading ELSE FilterBudget
<1>1. queue \in Seq(DatagramType) /\ Len(queue) \in Nat
  BY DEF Traffic
<1>2. Leading \in 0..Len(queue) /\ \A i \in 1..Leading : queue[i].wanted = FALSE
  BY <1>1, LeadingFacts
<1>3. n \in 0..Len(queue) /\ n <= Leading
  BY <1>1, <1>2, AsyncioAssumptions
<1>4. queue' = SubSeq(queue, n + 1, Len(queue)) /\ UNCHANGED <<member, arrived, delivered, served>>
  BY DEF TakesNothing, Skip
<1> HIDE DEF n
<1>5. /\ \A i \in 1..(n - 1) : queue[i].wanted = FALSE
      /\ n > 0 => queue[n].wanted = FALSE
  BY <1>1, <1>2, <1>3
<1>6. queue' \in Seq(DatagramType) /\ Wanted(queue') = Wanted(queue)
  BY <1>1, <1>3, <1>4, <1>5, WantedShrinks
<1>7. PacketsOnce'
  BY <1>4, <1>6 DEF Traffic, PacketsOnce, Holds
<1>8. QED
  BY <1>4, <1>6, <1>7 DEF Traffic

(* recv_nowait returns the first wanted datagram, behind those it filters. *)
LEMMA TrafficPacket ==
  ASSUME Traffic, NEW who \in Owners \cup {"application"}, TakesPacket(who), Outcome = "packet"
  PROVE  Traffic' /\ served' \in Handled /\ Len(served') = Len(served) + 1
         /\ served'[Len(served')] = who
<1> DEFINE n == Leading + 1
           d == queue[n]
           rest == SubSeq(queue, n + 1, Len(queue))
<1>1. queue \in Seq(DatagramType) /\ Len(queue) \in Nat /\ delivered \in Seq(DatagramType)
      /\ subscription # "removed"
  BY OutcomeCases DEF Traffic
<1>2. /\ Leading \in 0..Len(queue) /\ \A i \in 1..Leading : queue[i].wanted = FALSE
      /\ Leading < Len(queue) => queue[Leading + 1].wanted = TRUE
  BY <1>1, LeadingFacts
<1>3. Leading # Len(queue)
  BY OutcomeCases
<1>4. /\ n \in 0..Len(queue) /\ n \in 1..Len(queue) /\ n > 0 /\ d.wanted = TRUE
      /\ \A i \in 1..(n - 1) : queue[i].wanted = FALSE
  BY <1>1, <1>2, <1>3
<1>5. /\ queue' = rest /\ delivered' = Append(delivered, d) /\ served' = Append(served, who)
      /\ UNCHANGED <<member, arrived>>
  BY DEF TakesPacket, Skip
<1>6. d \in DatagramType
  BY <1>1, <1>4
<1> HIDE DEF n, d
<1>7. rest \in Seq(DatagramType) /\ Wanted(queue) = <<queue[n]>> \o Wanted(rest)
  BY <1>1, <1>4, WantedShrinks DEF d
<1> HIDE DEF rest
<1>8. Wanted(rest) \in Seq(DatagramType) /\ <<d>> \in Seq(DatagramType)
  BY <1>6, <1>7, WantedType
<1>9. Append(delivered, d) = delivered \o <<d>>
  BY <1>1, <1>6, AppendIsConcat
<1>10. (delivered \o <<d>>) \o Wanted(rest) = delivered \o (<<d>> \o Wanted(rest))
  BY <1>1, <1>8, ConcatAssociative
<1>11. PacketsOnce'
  <2>1. delivered \o Wanted(queue) = Wanted(arrived)
    BY <1>1 DEF Traffic, PacketsOnce, Holds
  <2>2. delivered' \o Wanted(queue') = Wanted(arrived')
    BY <1>5, <1>7, <1>9, <1>10, <2>1 DEF d
  <2>3. QED
    BY <2>2 DEF PacketsOnce
<1>12. /\ served' \in Handled /\ Len(served') = Len(served) + 1 /\ served'[Len(served')] = who
       /\ delivered' \in Seq(DatagramType) /\ Len(delivered') = Len(delivered) + 1
  BY <1>1, <1>5, <1>6 DEF Traffic, Handled
<1>13. QED
  BY <1>5, <1>7, <1>11, <1>12 DEF Traffic

(* What arrives is queued in the socket. *)
LEMMA TrafficArrive ==
  ASSUME Traffic, NEW wanted \in BOOLEAN, Arrive(wanted)
  PROVE  Traffic'
<1> DEFINE d == [tag |-> Len(arrived) + 1, wanted |-> wanted]
<1>1. /\ queue \in Seq(DatagramType) /\ arrived \in Seq(DatagramType)
      /\ delivered \in Seq(DatagramType) /\ Len(arrived) \in Nat
  BY DEF Traffic
<1>2. d \in DatagramType /\ d.wanted = wanted
  <2>1. Len(arrived) + 1 \in 1..MaxArrivals
    BY <1>1, AsyncioAssumptions DEF Arrive
  <2>2. QED
    BY <2>1 DEF DatagramType
<1>3. /\ arrived' = Append(arrived, d)
      /\ queue' = Append(queue, arrived'[Len(arrived')])
      /\ UNCHANGED <<member, delivered, served, subscription, fds>>
  BY DEF Arrive, app, owned
<1> HIDE DEF d
<1>4. arrived'[Len(arrived')] = d /\ arrived' \in Seq(DatagramType)
  BY <1>1, <1>2, <1>3
<1>5. queue' = Append(queue, d) /\ queue' \in Seq(DatagramType)
  BY <1>1, <1>2, <1>3, <1>4
<1>6. PacketsOnce'
  <2>1. SUFFICES ASSUME Holds(subscription, fds)
                 PROVE  delivered \o Wanted(Append(queue, d)) = Wanted(Append(arrived, d))
    BY <1>3, <1>5 DEF PacketsOnce
  <2>2. delivered \o Wanted(queue) = Wanted(arrived)
    BY <2>1 DEF Traffic, PacketsOnce
  <2>3. CASE wanted = FALSE
    BY <1>1, <1>2, <2>2, <2>3, WantedGrows
  <2>4. CASE wanted = TRUE
    <3>1. /\ Wanted(Append(queue, d)) = Append(Wanted(queue), d)
          /\ Wanted(Append(arrived, d)) = Append(Wanted(arrived), d)
      BY <1>1, <1>2, <2>4, WantedGrows
    <3>2. Wanted(queue) \in Seq(DatagramType) /\ <<d>> \in Seq(DatagramType)
          /\ delivered \o Wanted(queue) \in Seq(DatagramType)
      BY <1>1, <1>2, WantedType
    <3>3. /\ Append(Wanted(queue), d) = Wanted(queue) \o <<d>>
          /\ Append(delivered \o Wanted(queue), d) = (delivered \o Wanted(queue)) \o <<d>>
      BY <1>2, <3>2, AppendIsConcat
    <3>4. (delivered \o Wanted(queue)) \o <<d>> = delivered \o (Wanted(queue) \o <<d>>)
      <4> DEFINE waiting == Wanted(queue)
                 last == <<d>>
      <4>1. /\ delivered \in Seq(DatagramType) /\ waiting \in Seq(DatagramType)
            /\ last \in Seq(DatagramType)
        BY <1>1, <3>2
      <4> HIDE DEF waiting, last
      <4>2. (delivered \o waiting) \o last = delivered \o (waiting \o last)
        BY <4>1, ConcatAssociative
      <4>3. QED
        BY <4>2 DEF waiting, last
    <3>5. QED
      BY <2>2, <3>1, <3>3, <3>4
  <2>5. QED
    BY <2>3, <2>4
<1>7. QED
  BY <1>3, <1>4, <1>5, <1>6 DEF Traffic

(* Whoever is handed a packet is open when that is a reader. *)
Served ==
  \/ served' = served
  \/ \E who \in Owners \cup {"application"} :
       /\ Len(served') = Len(served) + 1 /\ served'[Len(served')] = who
       /\ who \in Readers => IsOpen(who)

(* A packet handed over by any of the three ways there are. *)
LEMMA TrafficServed ==
  ASSUME Traffic, NEW who \in Owners \cup {"application"}, TakesPacket(who), Outcome = "packet",
         who \in Readers => IsOpen(who)
  PROVE  Traffic' /\ Served
<1>1. Traffic' /\ Len(served') = Len(served) + 1 /\ served'[Len(served')] = who
  BY TrafficPacket
<1>2. QED
  BY <1>1 DEF Served

(* A descriptor is closed, and with the last one the socket. *)
LEMMA TrafficDrop ==
  ASSUME Traffic, NEW S, Drop(S), SocketAfter(subscription, fds'), subscription' = subscription
  PROVE  Traffic' /\ Served
<1>1. fds' \subseteq fds
  BY DEF Drop
<1>2. Holds(subscription', fds') => Holds(subscription, fds)
  BY <1>1 DEF Holds
<1>3. SocketAfter(subscription', fds')
  OBVIOUS
<1>4. QED
  BY <1>2, <1>3, TrafficSocket DEF Served

(* Nothing happens to the datagrams and to what holds the socket. *)
LEMMA TrafficKept ==
  ASSUME Traffic, UNCHANGED net, fds' = fds, subscription' = subscription
  PROVE  Traffic' /\ Served
<1>1. Holds(subscription', fds') => Holds(subscription, fds)
  OBVIOUS
<1>2. QED
  BY <1>1, TrafficSocket DEF Served

(* Every step, by what it does to the socket and its datagrams. *)
LEMMA TrafficStep ==
  ASSUME Handles, Traffic, [Next]_vars
  PROVE  Traffic' /\ Served
<1> DEFINE Kept == Traffic' /\ Served
<1> HIDE DEF Kept
<1>0. ASSUME TakesNothing, subscription # "removed"
      PROVE  Kept
  <2>1. Traffic' /\ served' = served
    BY <1>0, TrafficNothing DEF TakesNothing
  <2>2. QED
    BY <2>1 DEF Served, Kept
<1>1. ASSUME NEW r, CloseHandle(r), subscription' = subscription
      PROVE  Kept
  BY <1>1, TrafficDrop DEF CloseHandle, Kept
<1>2. ASSUME UNCHANGED net, UNCHANGED owned, subscription' = subscription
      PROVE  Kept
  BY <1>2, TrafficKept DEF owned, Kept
<1>3. ASSUME NEW r \in Readers, NEW outcome \in Registrations, AddReader(r, outcome)
      PROVE  Kept
  <2>1. UNCHANGED net /\ subscription' = subscription /\ (fds' # fds => subscription # "removed")
    BY <1>3, HandlesAdd
  <2>2. Holds(subscription', fds') => Holds(subscription, fds)
    BY <2>1 DEF Holds
  <2>3. QED
    BY <2>1, <2>2, TrafficSocket DEF Served, Kept
<1>4. ASSUME NEW r \in Readers, Close(r) \/ DrainFails(r) \/ CallbackRaises(r)
      PROVE  Kept
  BY <1>1, <1>4 DEF Close, DrainFails, CallbackRaises, app
<1>5. ASSUME NEW r \in Readers, NEW other \in Readers, CallbackCloses(r, other)
      PROVE  Kept
  BY <1>1, <1>5 DEF CallbackCloses, app
<1>6. ASSUME NEW r \in Readers, CheckLifetime(r)
      PROVE  Kept
  <2>1. subscription' = subscription /\ (CloseHandle(r) \/ UNCHANGED <<reader, owned, net>>)
    BY <1>6 DEF CheckLifetime, app
  <2>2. QED
    BY <1>1, <1>2, <2>1
<1>7. ASSUME NEW r \in Readers, PollFires(r)
      PROVE  Kept
  <2>1. UNCHANGED net /\ fds' = fds /\ subscription' = subscription
    BY <1>7 DEF PollFires, app
  <2>2. QED
    BY <2>1, TrafficKept DEF Kept
<1>8. ASSUME NEW r \in Readers, ReaderReady(r) \/ CallbackReturns(r)
      PROVE  Kept
  BY <1>2, <1>8 DEF ReaderReady, CallbackReturns, app
<1>9. ASSUME NEW r \in Readers, Drain(r)
      PROVE  Kept
  <2>1. subscription' = subscription
    BY <1>9, DrainCases
  <2>2. CASE UNCHANGED <<reader, owned, net>>
    BY <1>2, <2>1, <2>2
  <2>3. CASE CloseHandle(r)
    BY <1>1, <2>1, <2>3
  <2>4. CASE TakesNothing /\ Outcome = "None"
    BY <1>0, <2>4, OutcomeCases
  <2>5. CASE IsOpen(r) /\ TakesPacket(r) /\ Outcome = "packet"
    <3>1. r \in Owners \cup {"application"}
      BY DEF Owners
    <3>2. QED
      BY <2>5, <3>1, TrafficServed DEF Kept
  <2>6. QED
    BY <1>9, <2>2, <2>3, <2>4, <2>5, DrainCases
<1>10. ASSUME NEW t \in Receives, StartReceive(t) \/ ReceiveReady(t) \/ ReceiveFails(t)
       PROVE  Kept
  BY <1>2, <1>10 DEF StartReceive, ReceiveReady, ReceiveFails, app
<1>11. ASSUME NEW t \in Receives, ReceiveResumes(t) \/ CancelReceive(t)
       PROVE  Kept
  <2>1. Drop({t}) /\ SocketAfter(subscription, fds') /\ subscription' = subscription
    BY <1>11 DEF ReceiveResumes, CancelReceive, app
  <2>2. QED
    BY <2>1, TrafficDrop DEF Kept
<1>12. ASSUME NEW t \in Receives, NEW outcome \in Registrations, ReceiveCall(t, outcome)
       PROVE  Kept
  <2>1. subscription' = subscription
    BY <1>12, ReceiveCallCases
  <2>2. CASE UNCHANGED owned /\ UNCHANGED net
    BY <1>2, <2>1, <2>2
  <2>3. CASE TakesPacket(t) /\ Outcome = "packet"
    <3>1. t \in Owners \cup {"application"} /\ t \notin Readers
      BY AsyncioAssumptions DEF Owners
    <3>2. QED
      BY <2>3, <3>1, TrafficServed DEF Kept
  <2>4. CASE TakesNothing /\ Outcome = "None"
    BY <1>0, <2>4, OutcomeCases
  <2>5. QED
    BY <1>12, <2>2, <2>3, <2>4, ReceiveCallCases
<1>13. ASSUME Join \/ Leave
       PROVE  Kept
  <2>1. /\ UNCHANGED <<queue, arrived, delivered, served, fds>> /\ member' \in BOOLEAN
        /\ subscription # "removed"
    BY <1>13 DEF Join, Leave, owned
  <2>2. QED
    BY <2>1, MemberChanges DEF Served, Kept
<1>14. ASSUME Remove
       PROVE  Kept
  <2>1. /\ subscription' = "removed" /\ subscription # "removed" /\ fds' = fds
        /\ SocketAfter("removed", fds)
    BY <1>14 DEF Remove, owned
  <2>2. SocketAfter(subscription', fds') /\ Holds(subscription, fds)
    BY <2>1 DEF Holds
  <2>3. QED
    BY <2>2, TrafficSocket DEF Served, Kept
<1>15. ASSUME ReceiveDirectly
       PROVE  Kept
  <2>1. /\ subscription # "removed"
        /\ (TakesPacket("application") /\ Outcome = "packet") \/ TakesNothing
    BY <1>15, OutcomeCases DEF ReceiveDirectly
  <2>2. CASE TakesPacket("application") /\ Outcome = "packet"
    <3>1. "application" \notin Readers
      BY AsyncioAssumptions
    <3>2. QED
      BY <2>2, <3>1, TrafficServed DEF Kept
  <2>3. QED
    BY <1>0, <2>1, <2>2
<1>16. ASSUME CloseLoop
       PROVE  Kept
  BY <1>2, <1>16 DEF CloseLoop
<1>17. ASSUME NEW wanted \in BOOLEAN, Arrive(wanted)
       PROVE  Kept
  <2>1. served' = served
    BY <1>17 DEF Arrive
  <2>2. QED
    BY <1>17, <2>1, TrafficArrive DEF Served, Kept
<1>18. ASSUME UNCHANGED vars
       PROVE  Kept
  BY <1>2, <1>18 DEF vars, app
<1>19. ASSUME NEW r \in Readers, CallbackBreaksOut(r)
       PROVE  Kept
  BY <1>2, <1>19, HandlesBreak
<1>20. Kept
  BY <1>3, <1>4, <1>5, <1>6, <1>7, <1>8, <1>9, <1>10, <1>11, <1>12, <1>13, <1>14, <1>15, <1>16,
     <1>17, <1>18, <1>19
  DEF Next, TimerFires, CallbackRuns, TaskRuns
<1>21. QED
  BY <1>20 DEF Kept

(* Nobody owns anything and nothing has arrived when the program starts. *)
LEMMA InvariantInit ==
  Init => Handles /\ Traffic
<1>1. SUFFICES ASSUME Init PROVE Handles /\ Traffic
  OBVIOUS
<1>2. Handles
  BY <1>1 DEF Init, Handles, ReaderAccounted, ReceiveAccounted, ReaderStates, ReceiveStates
<1>3. <<>> \in Seq(DatagramType) /\ <<>> \in Handled /\ Len(<<>>) = 0
  BY DEF Handled
<1>4. delivered \o Wanted(queue) = Wanted(arrived)
  <2>1. Wanted(<<>>) \in Seq(DatagramType)
    BY <1>3, WantedType
  <2>2. <<>> \o Wanted(<<>>) = Wanted(<<>>)
    BY <2>1
  <2>3. QED
    BY <1>1, <2>2 DEF Init
<1>5. QED
  BY <1>1, <1>2, <1>3, <1>4 DEF Init, Traffic, PacketsOnce

-----------------------------------------------------------------------------
(* The inductive invariant of add_reader, recv and the application: who    *)
(* owns a descriptor or a timer, and what became of every datagram.        *)
THEOREM InvariantAlways == Spec => [](Handles /\ Traffic)
<1>1. Init => Handles /\ Traffic
  BY InvariantInit
<1>2. Handles /\ Traffic /\ [Next]_vars => (Handles /\ Traffic)'
  BY HandlesStep, TrafficStep
<1>3. QED
  BY <1>1, <1>2, PTL DEF Spec

(* Every variable of the asyncio helpers always has its type. *)
THEOREM TypeOKAlways == Spec => []TypeOK
<1>1. Handles /\ Traffic => TypeOK
  BY DEF Handles, Traffic, TypeOK, ReaderStates, ReceiveStates, Handled
<1>2. QED
  BY <1>1, InvariantAlways, PTL

(* However many readers and calls of recv there are, a duplicate           *)
(* descriptor is open and registered exactly while its owner uses it, or   *)
(* open and lost because registering it raised, and a closed reader leaves *)
(* no timer behind.                                                        *)
THEOREM DescriptorsAccountedAlways == Spec => []DescriptorsAccounted
<1>1. Handles => DescriptorsAccounted
  BY HandlesAccounted
<1>2. QED
  BY <1>1, InvariantAlways, PTL

(* While the socket is open, the wanted datagrams that arrived are the     *)
(* packets handed over, once and in order, followed by what is still in    *)
(* the socket, whoever competes for them and however recv ends.            *)
THEOREM PacketsOnceAlways == Spec => []PacketsOnce
<1>1. Traffic => PacketsOnce
  BY DEF Traffic
<1>2. QED
  BY <1>1, InvariantAlways, PTL

(* No step hands a packet to a reader whose handle is closed. *)
LEMMA ClosedNotServed ==
  ASSUME Traffic, Served, NEW r \in Readers, reader[r] = "closed", Len(served') > Len(served)
  PROVE  served'[Len(served')] # r
<1>1. Len(served) \in Nat
  BY DEF Traffic, Handled
<1>2. served' # served
  BY <1>1
<1>3. ~IsOpen(r)
  BY DEF IsOpen, Serving
<1>4. QED
  BY <1>2, <1>3 DEF Served

(* close stops the drain before the callback is invoked again, also when   *)
(* the callback itself, or another reader's, closes the handle.            *)
THEOREM CloseIsFinalAlways == Spec => CloseIsFinal
<1> DEFINE A == \A r \in Readers :
              reader[r] = "closed" /\ Len(served') > Len(served) => served'[Len(served')] # r
<1>1. Handles /\ Traffic /\ [Next]_vars => A
  BY TrafficStep, ClosedNotServed
<1>2. Handles /\ Traffic /\ [Next]_vars => [A]_vars
  BY <1>1
<1>3. CloseIsFinal <=> [][A]_vars
  BY DEF CloseIsFinal
<1> HIDE DEF A
<1>4. QED
  BY <1>2, <1>3, InvariantAlways, PTL DEF Spec
=============================================================================
