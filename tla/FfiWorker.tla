----------------------------- MODULE FfiWorker -----------------------------
(***************************************************************************)
(* The receive worker of the C bindings (mcrx-core-ffi/src/lib.rs): one    *)
(* background thread per mcrx_context_start, identified by its generation, *)
(* stopped by a shared atomic and a condition variable and joined through  *)
(* a handle kept under a mutex.  Application threads call start, stop,     *)
(* poll, free and the calls that change the context's subscription; packet *)
(* callbacks, on a worker or inside a poll, may do so as well.             *)
(*                                                                         *)
(* A step is one access to shared state.  A worker's id is its generation: *)
(* 64-bit generations are never reused.  The mutex around the handle is    *)
(* held from StartLock to StartReturns, idle_wait while a worker is        *)
(* "parking"; the context mutex is held only inside one step.  A start on  *)
(* a running worker returns without an effect and has no action.           *)
(***************************************************************************)
EXTENDS Integers, FiniteSets

CONSTANTS
  Apps,            \* application threads
  CallbackOps,     \* what packet callbacks call: a subset of Ops
  MaxGeneration,   \* bound: workers ever started
  MaxPackets,      \* bound: packets ever received
  MaxPoll          \* max_packets argument of mcrx_context_poll

Ops     == {"start", "stop", "free", "subscribe"}
Workers == 1..MaxGeneration
Procs   == Apps \cup Workers

ASSUME FfiAssumptions ==
  /\ MaxGeneration \in Nat /\ MaxPackets \in Nat /\ MaxPoll \in Nat
  /\ Apps \cap (Workers \cup {0}) = {}
  /\ CallbackOps \subseteq Ops

VARIABLES
  handle_alive,
  active,        \* active_worker_generation, 0 when stopped
  next,          \* next_worker_generation
  handle,        \* the JoinHandle in the worker mutex, 0 for None
  last_error,    \* whether an error is recorded
  loc,           \* where each thread is in its loop
  call,          \* where each thread is in an API call
  joining,       \* the worker each thread joins, 0 for none
  left,          \* packets the poll of each application thread may still take
  subscription,  \* "none", "bound" or "joined": a subscription of the context
  packets,       \* external: packets ready in its socket
  sent,          \* external: packets that have arrived
  detached,      \* history: workers that gave up their own handle
  freer          \* history: the thread that called mcrx_context_free, 0 for none

vars == <<handle_alive, active, next, handle, last_error, loc, call, joining, left,
          subscription, packets, sent, detached, freer>>
threads == <<loc, joining, left>>
world   == <<subscription, packets, sent>>
history == <<detached, freer>>

Init ==
  /\ handle_alive = TRUE
  /\ active = 0
  /\ next = 1
  /\ handle = 0
  /\ last_error = FALSE
  /\ loc = [p \in Procs |-> IF p \in Apps THEN "out" ELSE "unborn"]
  /\ call = [p \in Procs |-> "idle"]
  /\ joining = [p \in Procs |-> 0]
  /\ left = [p \in Apps |-> 0]
  /\ subscription = "none"
  /\ packets = 0
  /\ sent = 0
  /\ detached = {}
  /\ freer = 0

Goto(p, place) == loc' = [loc EXCEPT ![p] = place]
Call(p, place) == call' = [call EXCEPT ![p] = place]

(* A thread may call into a context that has not been freed: application   *)
(* threads between polls, any thread from inside a packet callback.        *)
MayCall(p, op) ==
  /\ handle_alive
  /\ call[p] = "idle"
  /\ loc[p] = "out" \/ (loc[p] = "callback" /\ op \in CallbackOps)

WorkerMutexFree == \A p \in Procs : call[p] \notin {"publish", "spawn", "clear"}
IdleMutexFree   == \A w \in Workers : loc[w] # "parking"

-----------------------------------------------------------------------------
(* mcrx_context_start, under the worker mutex: a finished worker's handle  *)
(* is joined and dropped, a running one makes the call return.             *)
StartLock(p) ==
  /\ MayCall(p, "start")
  /\ next <= MaxGeneration
  /\ WorkerMutexFree
  /\ handle # 0 => loc[handle] = "exited"
  /\ handle' = 0
  /\ Call(p, "publish")
  /\ UNCHANGED <<handle_alive, active, next, last_error, threads, world, history>>

StartPublish(p) ==
  /\ call[p] = "publish"
  /\ active' = next
  /\ next' = next + 1
  /\ Call(p, "spawn")
  /\ UNCHANGED <<handle_alive, handle, last_error, threads, world, history>>

StartSpawn(p) ==
  /\ call[p] = "spawn"
  /\ Goto(next - 1, "head")
  /\ handle' = next - 1
  /\ Call(p, "clear")
  /\ UNCHANGED <<handle_alive, active, next, last_error, joining, left, world, history>>

(* The error slot is cleared when the worker may already be running. *)
StartReturns(p) ==
  /\ call[p] = "clear"
  /\ last_error' = FALSE
  /\ Call(p, "idle")
  /\ UNCHANGED <<handle_alive, active, next, handle, threads, world, history>>

-----------------------------------------------------------------------------
(* stop_worker, called by mcrx_context_stop and mcrx_context_free: the     *)
(* generation is cleared and the condition variable notified before the    *)
(* worker mutex is taken.                                                  *)
StopStore(p) ==
  /\ MayCall(p, "stop")
  /\ active' = 0
  /\ Call(p, "notify")
  /\ UNCHANGED <<handle_alive, next, handle, last_error, threads, world, history>>

(* mcrx_context_free.  Its contract: no other thread is inside a call. *)
FreeStore(p) ==
  /\ MayCall(p, "free")
  /\ \A q \in Procs : call[q] = "idle"
  /\ handle_alive' = FALSE
  /\ active' = 0
  /\ freer' = p
  /\ Call(p, "notify")
  /\ UNCHANGED <<next, handle, last_error, threads, world, detached>>

(* Condvar::notify_all wakes the threads that are parked now. *)
NotifyAll(l) == [p \in Procs |-> IF l[p] = "parked" THEN "woken" ELSE l[p]]

StopNotify(p) ==
  /\ call[p] = "notify"
  /\ loc' = NotifyAll(loc)
  /\ Call(p, "take")
  /\ UNCHANGED <<handle_alive, active, next, handle, last_error, joining, left, world, history>>

(* mcrx_context_stop clears the error when stop_worker returns; a free has *)
(* nobody to report to.                                                    *)
StopReturns(p) == /\ Call(p, "idle")
                  /\ last_error' = (last_error /\ ~handle_alive)

Mutant_JoinsItself(p) ==
  /\ call[p] = "take"
  /\ WorkerMutexFree
  /\ handle' = 0
  /\ IF handle = 0 THEN StopReturns(p) /\ UNCHANGED joining
     ELSE /\ joining' = [joining EXCEPT ![p] = handle]
          /\ Call(p, "join")
          /\ UNCHANGED last_error
  /\ UNCHANGED <<handle_alive, active, next, loc, left, world, history>>

Mutant_HandleForgotten(p) ==
  /\ call[p] = "take"
  /\ WorkerMutexFree
  /\ handle' = 0
  /\ StopReturns(p)
  /\ UNCHANGED <<handle_alive, active, next, threads, world, history>>

(* The handle is taken under the mutex and joined outside it; a thread     *)
(* that finds its own handle detaches itself.                              *)
StopTake(p) ==
  /\ call[p] = "take"
  /\ WorkerMutexFree
  /\ handle' = 0
  /\ IF handle \in {0, p}
     THEN /\ StopReturns(p)
          /\ detached' = detached \cup ({handle} \ {0})
          /\ UNCHANGED joining
     ELSE /\ joining' = [joining EXCEPT ![p] = handle]
          /\ Call(p, "join")
          /\ UNCHANGED <<last_error, detached>>
  /\ UNCHANGED <<handle_alive, active, next, loc, left, world, freer>>

StopJoin(p) ==
  /\ call[p] = "join"
  /\ loc[joining[p]] = "exited"
  /\ joining' = [joining EXCEPT ![p] = 0]
  /\ StopReturns(p)
  /\ UNCHANGED <<handle_alive, active, next, handle, loc, left, world, history>>

-----------------------------------------------------------------------------
(* worker_loop. *)

WorkerUnchanged == <<handle_alive, next, handle, call, joining, left, subscription, sent, history>>

Mutant_AnyGenerationRuns(w) ==
  /\ loc[w] = "head"
  /\ Goto(w, IF active # 0 THEN "recv" ELSE "exited")
  /\ UNCHANGED <<WorkerUnchanged, active, last_error, packets>>

WorkerCheck(w) ==
  /\ loc[w] = "head"
  /\ Goto(w, IF active = w THEN "recv" ELSE "exited")
  /\ UNCHANGED <<WorkerUnchanged, active, last_error, packets>>

(* receive_one: a packet, nothing, or an error of a joined subscription.   *)
Ready == IF subscription = "joined" THEN packets ELSE 0

WorkerReceive(w) ==
  /\ loc[w] = "recv"
  /\ \/ Ready > 0 /\ packets' = packets - 1 /\ Goto(w, "callback")
     \/ Ready = 0 /\ Goto(w, "idle") /\ UNCHANGED packets
     \/ subscription = "joined" /\ Goto(w, "failed") /\ UNCHANGED packets
  /\ UNCHANGED <<WorkerUnchanged, active, last_error>>

CallbackReturns(w) ==
  /\ loc[w] = "callback"
  /\ call[w] = "idle"
  /\ Goto(w, "head")
  /\ UNCHANGED <<WorkerUnchanged, active, last_error, packets>>

(* wait_for_worker_wakeup: the predicate is read under idle_wait, then the *)
(* thread parks, which releases it.  A woken thread reads it again; one    *)
(* that timed out returns.                                                 *)
IdleCheck(w) ==
  /\ loc[w] \in {"idle", "woken"}
  /\ IdleMutexFree
  /\ Goto(w, IF active = w THEN "parking" ELSE "head")
  /\ UNCHANGED <<WorkerUnchanged, active, last_error, packets>>

Park(w) ==
  /\ loc[w] = "parking"
  /\ Goto(w, "parked")
  /\ UNCHANGED <<WorkerUnchanged, active, last_error, packets>>

SpuriousWakeup(w) ==
  /\ loc[w] = "parked"
  /\ Goto(w, "woken")
  /\ UNCHANGED <<WorkerUnchanged, active, last_error, packets>>

IdleTimeout(w) ==
  /\ loc[w] = "parked"
  /\ IdleMutexFree
  /\ Goto(w, "head")
  /\ UNCHANGED <<WorkerUnchanged, active, last_error, packets>>

(* stop_worker_generation_with_error: only the active worker's failure     *)
(* clears the generation and is recorded.                                  *)
Mutant_FailureStopsAny(w) ==
  /\ loc[w] = "failed"
  /\ active' = 0
  /\ Goto(w, "report")
  /\ UNCHANGED <<WorkerUnchanged, last_error, packets>>

WorkerFails(w) ==
  /\ loc[w] = "failed"
  /\ active' = IF active = w THEN 0 ELSE active
  /\ Goto(w, IF active = w THEN "report" ELSE "exited")
  /\ UNCHANGED <<WorkerUnchanged, last_error, packets>>

WorkerReports(w) ==
  /\ loc[w] = "report"
  /\ last_error' = TRUE
  /\ loc' = [NotifyAll(loc) EXCEPT ![w] = "exited"]
  /\ UNCHANGED <<WorkerUnchanged, active, packets>>

-----------------------------------------------------------------------------
(* mcrx_context_poll, in the calling thread. *)

PollUnchanged == <<handle_alive, active, next, handle, call, joining, subscription, sent, history>>

PollBegin(p) ==
  /\ handle_alive /\ call[p] = "idle" /\ loc[p] = "out"
  /\ Goto(p, "poll")
  /\ left' = [left EXCEPT ![p] = MaxPoll]
  /\ UNCHANGED <<PollUnchanged, last_error, packets>>

PollReceive(p) ==
  /\ loc[p] = "poll"
  /\ left[p] > 0
  /\ \/ Ready > 0 /\ packets' = packets - 1 /\ Goto(p, "callback") /\ UNCHANGED last_error
     \/ Ready = 0 /\ Goto(p, "out") /\ last_error' = FALSE /\ UNCHANGED packets
     \/ subscription = "joined" /\ Goto(p, "out") /\ last_error' = TRUE /\ UNCHANGED packets
  /\ UNCHANGED <<PollUnchanged, left>>

PollEnds(p) ==
  /\ loc[p] = "poll"
  /\ left[p] = 0
  /\ Goto(p, "out")
  /\ last_error' = FALSE
  /\ UNCHANGED <<PollUnchanged, left, packets>>

Mutant_PollIgnoresFree(p) ==
  /\ loc[p] = "callback"
  /\ call[p] = "idle"
  /\ left' = [left EXCEPT ![p] = @ - 1]
  /\ Goto(p, "poll")
  /\ UNCHANGED <<PollUnchanged, last_error, packets>>

(* After each callback the poll asks whether the context is still alive. *)
PollCallbackReturns(p) ==
  /\ loc[p] = "callback"
  /\ call[p] = "idle"
  /\ left' = [left EXCEPT ![p] = IF handle_alive THEN @ - 1 ELSE 0]
  /\ Goto(p, "poll")
  /\ UNCHANGED <<PollUnchanged, last_error, packets>>

-----------------------------------------------------------------------------
(* The calls on a subscription, each under the context mutex, which a      *)
(* receiving worker or poll holds for one receive only.                    *)

SetSubscription(p, state) ==
  /\ MayCall(p, "subscribe")
  /\ subscription' = state
  /\ last_error' = FALSE
  /\ UNCHANGED <<handle_alive, active, next, handle, threads, call, sent, history>>

AddSubscription(p) ==
  /\ subscription = "none"
  /\ SetSubscription(p, "bound")
  /\ UNCHANGED packets

JoinSubscription(p) ==
  /\ subscription = "bound"
  /\ SetSubscription(p, "joined")
  /\ UNCHANGED packets

(* What is queued stays in the socket and is not received. *)
LeaveSubscription(p) ==
  /\ subscription = "joined"
  /\ SetSubscription(p, "bound")
  /\ UNCHANGED packets

RemoveSubscription(p) ==
  /\ subscription # "none"
  /\ SetSubscription(p, "none")
  /\ packets' = 0

(* A refused argument or an error of the context is recorded and changes   *)
(* nothing else.                                                           *)
SubscriptionCallFails(p) ==
  /\ MayCall(p, "subscribe")
  /\ last_error' = TRUE
  /\ UNCHANGED <<handle_alive, active, next, handle, threads, call, world, history>>

PacketArrives ==
  /\ subscription = "joined"
  /\ sent < MaxPackets
  /\ sent' = sent + 1
  /\ packets' = packets + 1
  /\ UNCHANGED <<handle_alive, active, next, handle, last_error, threads, call, subscription,
                 history>>

(* The steps of a call that has begun. *)
Proceed(p) == \/ StartPublish(p) \/ StartSpawn(p) \/ StartReturns(p)
              \/ StopNotify(p) \/ StopTake(p) \/ StopJoin(p)

Begin(p) == StartLock(p) \/ StopStore(p) \/ FreeStore(p)

Subscribe(p) == \/ AddSubscription(p) \/ JoinSubscription(p) \/ LeaveSubscription(p)
                \/ RemoveSubscription(p) \/ SubscriptionCallFails(p)

Work(w) == \/ WorkerCheck(w) \/ WorkerReceive(w) \/ CallbackReturns(w)
           \/ IdleCheck(w) \/ Park(w) \/ WorkerFails(w) \/ WorkerReports(w)

Poll(p) == PollReceive(p) \/ PollEnds(p) \/ PollCallbackReturns(p)

Next ==
  \/ \E p \in Procs : Begin(p) \/ Proceed(p) \/ Subscribe(p)
  \/ \E w \in Workers : Work(w) \/ SpuriousWakeup(w) \/ IdleTimeout(w)
  \/ \E p \in Apps : PollBegin(p) \/ Poll(p)
  \/ PacketArrives

Spec == Init /\ [][Next]_vars

(* Every thread is scheduled; a contended idle_wait is granted in the end, *)
(* an idle wait has a fixed deadline however often it is woken, and a      *)
(* packet callback returns after finitely many calls of its own (these     *)
(* three are SF).  Nobody is obliged to call anything.                     *)
Fairness ==
  /\ \A p \in Procs : WF_vars(Proceed(p))
  /\ \A w \in Workers : /\ WF_vars(Work(w))
                       /\ SF_vars(IdleCheck(w)) /\ SF_vars(IdleTimeout(w))
                       /\ SF_vars(CallbackReturns(w))
  /\ \A p \in Apps : WF_vars(Poll(p)) /\ SF_vars(PollCallbackReturns(p))

FairSpec == Spec /\ Fairness

-----------------------------------------------------------------------------
WorkerPlaces == {"unborn", "head", "recv", "callback", "idle", "parking", "parked", "woken",
                 "failed", "report", "exited"}

(* Every variable has its type: generations stay within those handed out,  *)
(* a poll never has more than max_packets to go, every thread is somewhere *)
(* in worker_loop, mcrx_context_poll or a call.                            *)
TypeOK ==
  /\ handle_alive \in BOOLEAN
  /\ active \in 0..MaxGeneration
  /\ next \in 1..(MaxGeneration + 1)
  /\ handle \in 0..MaxGeneration
  /\ last_error \in BOOLEAN
  /\ loc \in [Procs -> WorkerPlaces \cup {"out", "poll"}]
  /\ call \in [Procs -> {"idle", "publish", "spawn", "clear", "notify", "take", "join"}]
  /\ joining \in [Procs -> 0..MaxGeneration]
  /\ left \in [Apps -> 0..MaxPoll]
  /\ subscription \in {"none", "bound", "joined"}
  /\ packets \in 0..MaxPackets
  /\ sent \in 0..MaxPackets
  /\ detached \subseteq Workers
  /\ freer \in Procs \cup {0}

Alive(w) == loc[w] \notin {"unborn", "exited"}

(* No worker is lost: a live one can be reached through the stored handle, *)
(* is being joined by a stop, or has detached itself from its own callback *)
(* and can no longer be the active one; a joined worker is never older     *)
(* than the worker that joins it, so workers cannot wait in a circle.      *)
WorkersAccountedFor ==
  /\ \A w \in Workers : Alive(w) => \/ handle = w
                                    \/ \E p \in Procs : joining[p] = w
                                    \/ w \in detached /\ active # w
  /\ \A w \in Workers : joining[w] # 0 => joining[w] > w

(* "generation tags ensure the replaced worker exits after that callback   *)
(* without consuming packets": a worker that stopped itself never reads    *)
(* the context again, whether or not a replacement is running.             *)
ReplacedWorkerIsDone == \A w \in detached : loc[w] # "recv"

(* "... or stopping its replacement": the active generation is only ended  *)
(* by a stop or free call, or by its own failure, and only replaced by a   *)
(* start.                                                                  *)
ReplacementUndisturbed ==
  [][active # 0 /\ active' # active =>
       \/ \E p \in Procs : call[p] # call'[p] /\ call'[p] \in {"notify", "spawn"}
       \/ loc[active] = "failed" /\ loc'[active] = "report"]_vars

(* Freeing a context ends delivery: the thread whose callback freed it     *)
(* gets no other packet, and once the call has returned no worker reads.   *)
FreeEndsDelivery ==
  freer # 0 /\ call[freer] = "idle" =>
    /\ \A w \in Workers : loc[w] # "recv"
    /\ freer \in Apps => left[freer] = 0 \/ loc[freer] # "poll"

(* Every call into the library returns: with one application thread and    *)
(* callbacks that at most free the context, no stop or free waits for a    *)
(* worker that has not been told to exit, and no worker waits for itself.  *)
CallsReturn == \A p \in Procs : call[p] # "idle" ~> call[p] = "idle"

(* "Stops the background polling thread, if one is running", and "calling  *)
(* stop or stop-then-start from inside a packet callback is supported":    *)
(* the application's stop returns whatever the callbacks do.               *)
StopCallReturns == \A p \in Apps : call[p] = "notify" ~> call[p] = "idle"

(* "The background worker can be stopped promptly even when configured     *)
(* with a long idle interval": a worker that is no longer the active one   *)
(* sleeps only while its wakeup is still to be sent.                       *)
StopIsPrompt ==
  \A w \in Workers : loc[w] = "parked" /\ active # w =>
    \/ \E p \in Procs : call[p] = "notify"
    \/ \E v \in Workers : loc[v] = "report"

=============================================================================
