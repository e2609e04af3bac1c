--------------------------- MODULE AsyncioReaders ---------------------------
(***************************************************************************)
(* The asyncio helpers (mcrx-core-py/python/mcrx_core/asyncio.py) on one   *)
(* subscription of the Python bindings (mcrx-core-py/src/lib.rs): readers  *)
(* of add_reader, calls of AsyncSubscription.recv, and the application,    *)
(* which runs between the event loop's callbacks and inside the packet     *)
(* callbacks.  Everything runs in the loop's thread.                       *)
(*                                                                         *)
(* A helper works on a duplicate of the socket's descriptor, so that the   *)
(* kernel's socket and its membership live on until the last duplicate is  *)
(* closed, also when the subscription is gone.  The selector is level      *)
(* triggered; unregistering a descriptor or cancelling a timer also takes  *)
(* back an event the loop has not run yet.                                 *)
(*                                                                         *)
(* Two errors of the host leave something behind.  Where loop.add_reader   *)
(* raises anything but AttributeError or NotImplementedError (a closed     *)
(* loop, the selector's OSError), it leaves add_reader or recv with the    *)
(* duplicate open and nobody to close it: "raised".  A BaseException that  *)
(* leaves the callback of a polling reader leaves its handle open without  *)
(* a timer: "dropped".                                                     *)
(***************************************************************************)
EXTENDS Naturals, Sequences, FiniteSets, Subsequences

CONSTANTS
  Readers,       \* readers the application may add
  Receives,      \* calls of recv it may make
  FilterBudget,  \* MAX_FILTERED_DATAGRAMS_PER_RECEIVE
  MaxArrivals    \* bound: datagrams that ever arrive

ASSUME AsyncioAssumptions ==
  /\ Readers \cap Receives = {} /\ "application" \notin Readers \cup Receives
  /\ FilterBudget \in Nat \ {0}
  /\ MaxArrivals \in Nat

Platforms == {"selector", "unsupported", "no fileno"}

VARIABLES
  platform,      \* what the loop and the subscription offer
  loop_open,     \* whether the event loop is open
  subscription,  \* "bound", "joined" or "removed"
  reader,        \* "none", "fd", "poll", "raised", "dropped" or "closed", for each reader
  receive,       \* where each call of recv is
  running,       \* the callback the loop is in, if any
  fds,           \* who has a duplicate descriptor open
  registered,    \* whose descriptor is registered with the selector
  timers,        \* who has a timer scheduled
  queue,         \* external: datagrams in the kernel's socket
  member,        \* external: whether that socket is a member of the group
  arrived,       \* external: datagrams that have arrived, in order
  delivered,     \* packets handed to the application, in order
  served         \* who was handed each of them

app   == <<platform, loop_open, subscription>>
owned == <<fds, registered, timers>>
net   == <<queue, member, arrived, delivered, served>>
vars  == <<app, reader, receive, running, owned, net>>

Idle == [who |-> "loop", pc |-> "idle"]
LoopIdle == loop_open /\ running = Idle
Owners == Readers \cup Receives
Serving(r) == reader[r] \in {"fd", "poll"}
IsOpen(r) == Serving(r) \/ reader[r] = "dropped"

(* What comes of duplicating the descriptor and registering it: "none"     *)
(* where either cannot be had.                                             *)
Registrations ==
  {"none"} \cup (IF platform = "selector" THEN {"raised"} ELSE {})
           \cup (IF platform = "selector" /\ loop_open THEN {"registered"} ELSE {})

(* The kernel's socket goes with its last descriptor. *)
Holds(sub, open) == sub # "removed" \/ open # {}

-----------------------------------------------------------------------------
(* Subscription.recv_nowait. *)

Wanted(s) == Picked(s, {i \in DOMAIN s : s[i].wanted})
Leading   == CHOOSE n \in 0..Len(queue) :
               /\ \A i \in 1..n : ~queue[i].wanted
               /\ n < Len(queue) => queue[n + 1].wanted

Outcome ==
  CASE subscription = "removed" -> "LookupError"
    [] subscription = "bound"   -> "RuntimeError"
    [] OTHER -> IF Leading >= FilterBudget \/ Leading = Len(queue) THEN "None" ELSE "packet"

Skip(n) == SubSeq(queue, n + 1, Len(queue))

TakesNothing ==
  /\ queue' = Skip(IF Leading < FilterBudget THEN Leading ELSE FilterBudget)
  /\ UNCHANGED <<member, arrived, delivered, served>>

TakesPacket(who) ==
  /\ queue' = Skip(Leading + 1)
  /\ delivered' = Append(delivered, queue[Leading + 1])
  /\ served' = Append(served, who)
  /\ UNCHANGED <<member, arrived>>

-----------------------------------------------------------------------------
(* Handles. *)

Drop(owners) ==
  /\ fds' = fds \ owners
  /\ registered' = registered \ owners
  /\ timers' = timers \ owners

(* What is left of the socket when descriptors or the subscription go. *)
SocketAfter(sub, open) ==
  /\ queue' = IF Holds(sub, open) THEN queue ELSE <<>>
  /\ member' = (member /\ Holds(sub, open))
  /\ UNCHANGED <<arrived, delivered, served>>

Mutant_FdKept(r) ==
  /\ reader' = [reader EXCEPT ![r] = "closed"]
  /\ UNCHANGED fds
  /\ registered' = registered \ {r}
  /\ timers' = timers \ {r}
  /\ UNCHANGED net

(* ReaderHandle.close, with the close_reader or close_timer it calls. *)
CloseHandle(r) ==
  /\ reader' = [reader EXCEPT ![r] = IF IsOpen(r) THEN "closed" ELSE @]
  /\ Drop({r} \cap {o \in Readers : IsOpen(o)})
  /\ SocketAfter(subscription, fds')

(* add_reader.  Where the descriptor cannot be had or registered a polling *)
(* timer takes its place; without a descriptor nobody asks whether the     *)
(* subscription still exists.  The loop given may be closed: then nothing  *)
(* is scheduled.                                                           *)
AddReader(r, registration) ==
  /\ running = Idle
  /\ reader[r] = "none"
  /\ platform # "no fileno" => subscription # "removed"
  /\ reader' = [reader EXCEPT ![r] = CASE registration = "registered" -> "fd"
                                       [] registration = "none" -> "poll"
                                       [] registration = "raised" -> "raised"]
  /\ fds' = IF registration = "none" THEN fds ELSE fds \cup {r}
  /\ registered' = IF registration = "registered" THEN registered \cup {r} ELSE registered
  /\ timers' = IF registration = "raised" \/ ~loop_open THEN timers ELSE timers \cup {r}
  /\ UNCHANGED <<app, receive, running, net>>

(* The handle may be closed at any time, also when the loop is closed. *)
Close(r) ==
  /\ running = Idle
  /\ IsOpen(r)
  /\ CloseHandle(r)
  /\ UNCHANGED <<app, receive, running>>

Mutant_NoLifetimeCheck(r) == FALSE /\ r \in timers /\ UNCHANGED vars

(* check_subscription_lifetime, which schedules itself again. *)
CheckLifetime(r) ==
  /\ LoopIdle
  /\ r \in timers /\ reader[r] = "fd"
  /\ IF subscription = "removed" THEN CloseHandle(r) ELSE UNCHANGED <<reader, owned, net>>
  /\ UNCHANGED <<app, receive, running>>

(* on_ready of a reader begins, or poll does. *)
ReaderReady(r) ==
  /\ LoopIdle
  /\ r \in registered /\ queue # <<>>
  /\ running' = [who |-> r, pc |-> "drain"]
  /\ UNCHANGED <<app, reader, receive, owned, net>>

PollFires(r) ==
  /\ LoopIdle
  /\ r \in timers /\ reader[r] = "poll"
  /\ timers' = timers \ {r}
  /\ running' = [who |-> r, pc |-> "drain"]
  /\ UNCHANGED <<app, reader, receive, fds, registered, net>>

Mutant_ClosedCheckedLate(r) ==
  /\ running = [who |-> r, pc |-> "drain"]
  /\ IF Outcome = "packet"
     THEN /\ TakesPacket(r) /\ running' = [running EXCEPT !.pc = "callback"]
          /\ UNCHANGED <<reader, owned>>
     ELSE /\ CloseHandle(r) /\ running' = Idle
  /\ UNCHANGED <<app, receive>>

Mutant_PollNotRescheduled(r) ==
  /\ running = [who |-> r, pc |-> "drain"]
  /\ CASE ~IsOpen(r) -> running' = Idle /\ UNCHANGED <<reader, owned, net>>
       [] IsOpen(r) /\ Outcome \in {"LookupError", "RuntimeError"} ->
            running' = Idle /\ CloseHandle(r)
       [] IsOpen(r) /\ Outcome = "None" -> running' = Idle /\ TakesNothing /\ UNCHANGED <<reader, owned>>
       [] IsOpen(r) /\ Outcome = "packet" ->
            /\ running' = [running EXCEPT !.pc = "callback"]
            /\ TakesPacket(r) /\ UNCHANGED <<reader, owned>>
  /\ UNCHANGED <<app, receive>>

(* One turn of the loop in on_ready or poll. *)
Drain(r) ==
  /\ running = [who |-> r, pc |-> "drain"]
  /\ CASE ~IsOpen(r) -> running' = Idle /\ UNCHANGED <<reader, owned, net>>
       [] IsOpen(r) /\ Outcome \in {"LookupError", "RuntimeError"} ->
            running' = Idle /\ CloseHandle(r)
       [] IsOpen(r) /\ Outcome = "None" ->
            /\ running' = Idle
            /\ TakesNothing
            /\ timers' = IF reader[r] = "poll" THEN timers \cup {r} ELSE timers
            /\ UNCHANGED <<reader, fds, registered>>
       [] IsOpen(r) /\ Outcome = "packet" ->
            /\ running' = [running EXCEPT !.pc = "callback"]
            /\ TakesPacket(r) /\ UNCHANGED <<reader, owned>>
  /\ UNCHANGED <<app, receive>>

(* recvmsg fails in recv_nowait: reported to the loop's exception handler. *)
DrainFails(r) ==
  /\ running = [who |-> r, pc |-> "drain"]
  /\ IsOpen(r) /\ subscription = "joined"
  /\ running' = Idle
  /\ CloseHandle(r)
  /\ UNCHANGED <<app, receive>>

(* The packet callback returns.  A coroutine it returns runs later. *)
CallbackReturns(r) ==
  /\ running = [who |-> r, pc |-> "callback"]
  /\ running' = [running EXCEPT !.pc = "drain"]
  /\ UNCHANGED <<app, reader, receive, owned, net>>

(* The callback raises: a LookupError of its own is taken for the          *)
(* subscription's and ends the reader silently, any other Exception is     *)
(* reported.                                                               *)
CallbackRaises(r) ==
  /\ running = [who |-> r, pc |-> "callback"]
  /\ running' = Idle
  /\ CloseHandle(r)
  /\ UNCHANGED <<app, receive>>

(* A BaseException passes both handlers: nothing is closed, and a polling  *)
(* reader is not scheduled again.                                          *)
CallbackBreaksOut(r) ==
  /\ running = [who |-> r, pc |-> "callback"]
  /\ running' = Idle
  /\ reader' = [reader EXCEPT ![r] = IF @ = "poll" THEN "dropped" ELSE @]
  /\ UNCHANGED <<app, receive, owned, net>>

(* Inside a callback any handle may be closed. *)
CallbackCloses(r, other) ==
  /\ running = [who |-> r, pc |-> "callback"]
  /\ IsOpen(other)
  /\ CloseHandle(other)
  /\ UNCHANGED <<app, receive, running>>

-----------------------------------------------------------------------------
(* _recv_async. *)

StartReceive(t) ==
  /\ LoopIdle
  /\ receive[t] = "none"
  /\ receive' = [receive EXCEPT ![t] = "call"]
  /\ UNCHANGED <<app, reader, running, owned, net>>

(* The head of the loop up to its next await. *)
ReceiveCall(t, registration) ==
  /\ LoopIdle
  /\ receive[t] = "call"
  /\ CASE Outcome \in {"LookupError", "RuntimeError"} ->
            receive' = [receive EXCEPT ![t] = "ended"] /\ UNCHANGED <<owned, net>>
       [] Outcome = "packet" ->
            receive' = [receive EXCEPT ![t] = "ended"] /\ TakesPacket(t) /\ UNCHANGED owned
       [] Outcome = "None" ->
            /\ receive' = [receive EXCEPT ![t] = IF registration = "raised" THEN "raised" ELSE "wait"]
            /\ TakesNothing
            /\ fds' = IF registration = "none" THEN fds ELSE fds \cup {t}
            /\ registered' = IF registration = "registered" THEN registered \cup {t} ELSE registered
            /\ timers' = IF registration = "raised" THEN timers ELSE timers \cup {t}
  /\ UNCHANGED <<app, reader, running>>

(* recvmsg fails in recv_nowait: the error ends the call. *)
ReceiveFails(t) ==
  /\ LoopIdle
  /\ receive[t] = "call" /\ subscription = "joined"
  /\ receive' = [receive EXCEPT ![t] = "ended"]
  /\ UNCHANGED <<app, reader, running, owned, net>>

(* on_ready sets the future; the task runs later. *)
ReceiveReady(t) ==
  /\ LoopIdle
  /\ t \in registered /\ queue # <<>>
  /\ receive[t] = "wait"
  /\ receive' = [receive EXCEPT ![t] = "woken"]
  /\ UNCHANGED <<app, reader, running, owned, net>>

(* The task goes on, woken or because wait_for or sleep has timed out. *)
ReceiveResumes(t) ==
  /\ LoopIdle
  /\ receive[t] = "woken" \/ (receive[t] = "wait" /\ t \in timers)
  /\ receive' = [receive EXCEPT ![t] = "call"]
  /\ Drop({t})
  /\ SocketAfter(subscription, fds')
  /\ UNCHANGED <<app, reader, running>>

Mutant_CancelledWithPacket(t) ==
  /\ LoopIdle
  /\ receive[t] \in {"wait", "woken"}
  /\ receive' = [receive EXCEPT ![t] = "ended"]
  /\ Drop({t})
  /\ queue' = IF queue # <<>> THEN Tail(queue) ELSE queue
  /\ UNCHANGED <<app, reader, running, member, arrived, delivered, served>>

(* The task is cancelled while it waits. *)
CancelReceive(t) ==
  /\ LoopIdle
  /\ receive[t] \in {"wait", "woken"}
  /\ receive' = [receive EXCEPT ![t] = "ended"]
  /\ Drop({t})
  /\ SocketAfter(subscription, fds')
  /\ UNCHANGED <<app, reader, running>>

-----------------------------------------------------------------------------
(* The application, between callbacks or inside one. *)

AppRuns == loop_open /\ running.pc # "drain"

Join ==
  /\ AppRuns
  /\ subscription = "bound"
  /\ subscription' = "joined"
  /\ member' = TRUE
  /\ UNCHANGED <<platform, loop_open, reader, receive, running, owned, queue, arrived, delivered,
                 served>>

Leave ==
  /\ AppRuns
  /\ subscription = "joined"
  /\ subscription' = "bound"
  /\ member' = FALSE
  /\ UNCHANGED <<platform, loop_open, reader, receive, running, owned, queue, arrived, delivered,
                 served>>

(* remove drops the subscription and its descriptor; it does not leave. *)
Remove ==
  /\ AppRuns
  /\ subscription # "removed"
  /\ subscription' = "removed"
  /\ SocketAfter("removed", fds)
  /\ UNCHANGED <<platform, loop_open, reader, receive, running, owned>>

(* recv_nowait, or recv_any_nowait of the context. *)
ReceiveDirectly ==
  /\ AppRuns
  /\ Outcome \in {"None", "packet"}
  /\ IF Outcome = "packet" THEN TakesPacket("application") ELSE TakesNothing
  /\ UNCHANGED <<app, reader, receive, running, owned>>

(* The loop is closed when its tasks have ended. *)
CloseLoop ==
  /\ LoopIdle
  /\ \A t \in Receives : receive[t] \in {"none", "ended", "raised"}
  /\ loop_open' = FALSE
  /\ UNCHANGED <<platform, subscription, reader, receive, running, owned, net>>

Arrive(wanted) ==
  /\ member
  /\ Len(arrived) < MaxArrivals
  /\ arrived' = Append(arrived, [tag |-> Len(arrived) + 1, wanted |-> wanted])
  /\ queue' = Append(queue, arrived'[Len(arrived')])
  /\ UNCHANGED <<app, reader, receive, running, owned, member, delivered, served>>

-----------------------------------------------------------------------------
Init ==
  /\ platform \in Platforms
  /\ loop_open = TRUE
  /\ subscription = "bound"
  /\ reader = [r \in Readers |-> "none"]
  /\ receive = [t \in Receives |-> "none"]
  /\ running = Idle
  /\ fds = {} /\ registered = {} /\ timers = {}
  /\ queue = <<>> /\ arrived = <<>> /\ delivered = <<>> /\ served = <<>>
  /\ member = FALSE

TimerFires(r)   == CheckLifetime(r) \/ PollFires(r)
CallbackRuns(r) == Drain(r) \/ CallbackReturns(r)
TaskRuns(t)     == ReceiveResumes(t) \/ \E outcome \in Registrations : ReceiveCall(t, outcome)

Next ==
  \/ \E r \in Readers :
       \/ \E outcome \in Registrations : AddReader(r, outcome)
       \/ Close(r)
       \/ TimerFires(r) \/ ReaderReady(r)
       \/ CallbackRuns(r) \/ DrainFails(r) \/ CallbackRaises(r) \/ CallbackBreaksOut(r)
       \/ \E other \in Readers : CallbackCloses(r, other)
  \/ \E t \in Receives :
       \/ StartReceive(t) \/ ReceiveReady(t) \/ TaskRuns(t)
       \/ ReceiveFails(t) \/ CancelReceive(t)
  \/ Join \/ Leave \/ Remove \/ ReceiveDirectly \/ CloseLoop
  \/ \E wanted \in BOOLEAN : Arrive(wanted)

(* The loop runs what is due, in order, and callbacks end: a timer, a      *)
(* ready descriptor or a task that is due again and again gets its turn.   *)
Fairness ==
  /\ \A r \in Readers : SF_vars(TimerFires(r)) /\ SF_vars(ReaderReady(r)) /\ WF_vars(CallbackRuns(r))
  /\ \A t \in Receives : SF_vars(TaskRuns(t))

Spec == Init /\ [][Next]_vars /\ Fairness

-----------------------------------------------------------------------------
DatagramType == [tag: 1..MaxArrivals, wanted: BOOLEAN]

(* Every variable has its type. *)
TypeOK ==
  /\ platform \in Platforms /\ loop_open \in BOOLEAN
  /\ subscription \in {"bound", "joined", "removed"}
  /\ reader \in [Readers -> {"none", "fd", "poll", "raised", "dropped", "closed"}]
  /\ receive \in [Receives -> {"none", "call", "wait", "woken", "raised", "ended"}]
  /\ running = Idle \/ running \in [who: Readers, pc: {"drain", "callback"}]
  /\ fds \subseteq Owners /\ registered \subseteq fds /\ timers \subseteq Owners
  /\ queue \in Seq(DatagramType) /\ arrived \in Seq(DatagramType)
  /\ delivered \in Seq(DatagramType) /\ member \in BOOLEAN
  /\ served \in Seq(Owners \cup {"application"}) /\ Len(served) = Len(delivered)

(* Whose registration raised after the descriptor was duplicated. *)
Lost == {r \in Readers : reader[r] = "raised"} \cup {t \in Receives : receive[t] = "raised"}

(* A duplicate is open, and registered, exactly for each reader that uses  *)
(* one and is not closed and for each recv that waits on one, through      *)
(* fallbacks, failed calls, cancellations, closes inside callbacks and a   *)
(* closed loop, and no timer is left behind by a reader that was closed.   *)
(* The one way to lose a duplicate is a registration that raises anything  *)
(* but AttributeError or NotImplementedError: it then stays open,          *)
(* unregistered, for good.                                                 *)
DescriptorsAccounted ==
  /\ fds \cap Readers = {r \in Readers : reader[r] \in {"fd", "raised"}}
  /\ fds \cap Receives \subseteq {t \in Receives : receive[t] \in {"wait", "woken", "raised"}}
  /\ registered = fds \ Lost
  /\ timers \cap Readers \subseteq {r \in Readers : IsOpen(r)}

(* Every wanted datagram reaches the application at most once and in       *)
(* order, and none is lost while the socket is open: a recv that times out *)
(* or is cancelled swallows nothing, and a reader that is closed in its    *)
(* callback leaves the rest in the socket.                                 *)
PacketsOnce ==
  Holds(subscription, fds) => delivered \o Wanted(queue) = Wanted(arrived)

(* "Stops the current drain before another callback is invoked": a closed  *)
(* reader's callback is never called again.                                *)
CloseIsFinal ==
  [][\A r \in Readers :
       reader[r] = "closed" /\ Len(served') > Len(served) => served'[Len(served')] # r]_vars

(* "Reader handles also close themselves when their subscription is        *)
(* removed", whether or not anything arrives: every reader that is served  *)
(* by the loop and every recv ends, and every duplicate is closed but the  *)
(* lost ones; with the last the kernel's socket goes too.                  *)
RemovalObserved ==
  subscription = "removed" ~>
    \/ ~loop_open
    \/ /\ fds \subseteq Lost
       /\ \A r \in Readers : ~Serving(r)
       /\ \A t \in Receives : receive[t] \in {"none", "ended", "raised"}

(* What arrives for a joined subscription with an open reader is read,     *)
(* unless the reader is closed or breaks out of its poll.                  *)
ReaderServes ==
  queue # <<>> /\ (\E r \in Readers : Serving(r)) ~>
    queue = <<>> \/ subscription # "joined" \/ ~loop_open \/ \A r \in Readers : ~Serving(r)

=============================================================================
