-------------------------- MODULE FfiWorkerProofs --------------------------
(***************************************************************************)
(* Proofs about FfiWorker, for any number of application threads, workers, *)
(* packets and callbacks that make any of the calls: no worker is lost, a  *)
(* replaced worker is done, and freeing a context ends delivery.           *)
(***************************************************************************)
EXTENDS FfiWorker, TLAPS

(* The steps of start that hold the worker mutex, and those of stop_worker. *)
Starting == {"publish", "spawn", "clear"}
Stopping == {"notify", "take", "join"}

(* Threads are where their code can be: an application thread is outside,  *)
(* in a poll or in its callback, a worker in worker_loop, and only a       *)
(* callback or an application thread outside of a poll is inside a call.   *)
(* A poll in its callback has a packet to go, counting the one delivered.  *)
Placed ==
  /\ \A p \in Apps : loc[p] \in {"out", "poll", "callback"}
  /\ \A w \in Workers : loc[w] \in WorkerPlaces
  /\ \A p \in Procs : call[p] # "idle" => loc[p] \in {"out", "callback"}
  /\ \A p \in Procs : joining[p] # 0 <=> call[p] = "join"
  /\ \A p \in Apps : loc[p] = "callback" => left[p] > 0
  /\ packets <= sent

(* The worker mutex: one thread at a time is between StartLock and         *)
(* StartReturns, and until it spawns there is no handle.                   *)
MutexHeld ==
  /\ \A p, q \in Procs : call[p] \in Starting /\ call[q] \in Starting => p = q
  /\ \A p \in Procs : call[p] \in {"publish", "spawn"} => handle = 0
  /\ \A p \in Procs : call[p] = "publish" => next <= MaxGeneration
  /\ \A p \in Procs : call[p] = "spawn" => next > 1 /\ loc[next - 1] = "unborn"

(* Generations: the workers born are those below the next generation, the  *)
(* active one and the one with a stored handle can only be the latest.     *)
Generations ==
  /\ \A w \in Workers : w >= next => loc[w] = "unborn"
  /\ active # 0 => active = next - 1
  /\ handle # 0 => handle = next - 1 /\ loc[handle] # "unborn"

(* Who stops a worker from its own callback is no longer the active one,   *)
(* and neither is a worker that has given up its handle.                   *)
StoppedInactive ==
  /\ \A w \in Workers : call[w] \in Stopping => active # w
  /\ \A w \in detached : active # w /\ loc[w] # "unborn"

(* After mcrx_context_free only the thread that called it is inside a      *)
(* call, no generation is active again, and once it has taken the handle   *)
(* there is none.                                                          *)
Freed ==
  /\ freer # 0 <=> ~handle_alive
  /\ ~handle_alive =>
       /\ active = 0
       /\ \A p \in Procs : call[p] # "idle" => p = freer /\ call[p] \in Stopping
       /\ call[freer] \in {"join", "idle"} => handle = 0
       /\ freer \in Apps /\ loc[freer] = "poll" => left[freer] = 0

(* The inductive invariant. *)
WorkerInv ==
  /\ TypeOK
  /\ Placed
  /\ MutexHeld
  /\ Generations
  /\ StoppedInactive
  /\ WorkersAccountedFor
  /\ ReplacedWorkerIsDone
  /\ Freed

-----------------------------------------------------------------------------
(* mcrx_context_start. *)

(* mcrx_context_start takes the lock of the worker. *)
LEMMA StartLockPreserves ==
  ASSUME WorkerInv, NEW p \in Procs, StartLock(p)
  PROVE  WorkerInv'
<1> USE FfiAssumptions DEF WorkerInv, StartLock, MayCall, WorkerMutexFree, Call, threads, world,
                           history, Procs, Workers
<1>1. TypeOK'
  BY DEF TypeOK, Placed, WorkerPlaces
<1>2. Placed'
  BY DEF TypeOK, Placed, WorkerPlaces, Freed, Generations, MutexHeld
<1>3. MutexHeld'
  BY DEF TypeOK, Placed, MutexHeld, Generations, Starting
<1>4. Generations'
  BY DEF TypeOK, Placed, MutexHeld, Generations, Starting
<1>5. StoppedInactive'
  BY DEF TypeOK, Placed, MutexHeld, Generations, StoppedInactive, Stopping
<1>6. WorkersAccountedFor'
  BY DEF TypeOK, Placed, MutexHeld, Generations, StoppedInactive, WorkersAccountedFor, Alive,
           Stopping
<1>7. ReplacedWorkerIsDone'
  BY DEF TypeOK, Placed, StoppedInactive, ReplacedWorkerIsDone, Stopping
<1>8. Freed'
  BY DEF TypeOK, Placed, Freed, Stopping, Starting
<1>9. QED
  BY <1>1, <1>2, <1>3, <1>4, <1>5, <1>6, <1>7, <1>8

(* start publishes the generation of the new worker. *)
LEMMA StartPublishPreserves ==
  ASSUME WorkerInv, NEW p \in Procs, StartPublish(p)
  PROVE  WorkerInv'
<1> USE FfiAssumptions DEF WorkerInv, StartPublish, Call, threads, world, history, Procs, Workers
<1>1. TypeOK'
  BY DEF TypeOK, MutexHeld
<1>2. Placed'
  BY DEF TypeOK, Placed, WorkerPlaces, Freed, Generations, MutexHeld
<1>3. MutexHeld'
  BY DEF TypeOK, Placed, MutexHeld, Generations, Starting
<1>4. Generations'
  BY DEF TypeOK, Placed, MutexHeld, Generations, Starting
<1>5. StoppedInactive'
  BY DEF TypeOK, Placed, MutexHeld, Generations, StoppedInactive, Stopping
<1>6. WorkersAccountedFor'
  BY DEF TypeOK, Placed, MutexHeld, Generations, StoppedInactive, WorkersAccountedFor, Alive,
           Stopping
<1>7. ReplacedWorkerIsDone'
  BY DEF TypeOK, Placed, StoppedInactive, ReplacedWorkerIsDone, Stopping
<1>8. Freed'
  BY DEF TypeOK, Placed, Freed, Stopping, Starting
<1>9. QED
  BY <1>1, <1>2, <1>3, <1>4, <1>5, <1>6, <1>7, <1>8

(* start spawns the thread. *)
LEMMA StartSpawnPreserves ==
  ASSUME WorkerInv, NEW p \in Procs, StartSpawn(p)
  PROVE  WorkerInv'
<1> USE FfiAssumptions DEF WorkerInv, StartSpawn, Call, Goto, threads, world, history, Procs,
                           Workers
<1>1. TypeOK'
  BY DEF TypeOK, MutexHeld, WorkerPlaces
<1>2. Placed'
  BY DEF TypeOK, Placed, WorkerPlaces, Freed, Generations, MutexHeld
<1>3. MutexHeld'
  BY DEF TypeOK, Placed, MutexHeld, Generations, Starting
<1>4. Generations'
  BY DEF TypeOK, Placed, MutexHeld, Generations, Starting
<1>5. StoppedInactive'
  BY DEF TypeOK, Placed, MutexHeld, Generations, StoppedInactive, Stopping
<1>6. WorkersAccountedFor'
  BY DEF TypeOK, Placed, MutexHeld, Generations, StoppedInactive, WorkersAccountedFor, Alive,
           Stopping
<1>7. ReplacedWorkerIsDone'
  BY DEF TypeOK, Placed, StoppedInactive, ReplacedWorkerIsDone, Stopping
<1>8. Freed'
  BY DEF TypeOK, Placed, Freed, Stopping, Starting
<1>9. QED
  BY <1>1, <1>2, <1>3, <1>4, <1>5, <1>6, <1>7, <1>8

(* start returns. *)
LEMMA StartReturnsPreserves ==
  ASSUME WorkerInv, NEW p \in Procs, StartReturns(p)
  PROVE  WorkerInv'
<1> USE FfiAssumptions DEF WorkerInv, StartReturns, Call, threads, world, history, Procs, Workers
<1>1. TypeOK'
  BY DEF TypeOK, Placed, WorkerPlaces
<1>2. Placed'
  BY DEF TypeOK, Placed, WorkerPlaces, Freed, Generations, MutexHeld
<1>3. MutexHeld'
  BY DEF TypeOK, Placed, MutexHeld, Generations, Starting
<1>4. Generations'
  BY DEF TypeOK, Placed, MutexHeld, Generations, Starting
<1>5. StoppedInactive'
  BY DEF TypeOK, Placed, MutexHeld, Generations, StoppedInactive, Stopping
<1>6. WorkersAccountedFor'
  BY DEF TypeOK, Placed, MutexHeld, Generations, StoppedInactive, WorkersAccountedFor, Alive,
           Stopping
<1>7. ReplacedWorkerIsDone'
  BY DEF TypeOK, Placed, StoppedInactive, ReplacedWorkerIsDone, Stopping
<1>8. Freed'
  BY DEF TypeOK, Placed, Freed, Stopping, Starting
<1>9. QED
  BY <1>1, <1>2, <1>3, <1>4, <1>5, <1>6, <1>7, <1>8

-----------------------------------------------------------------------------
(* stop_worker, as mcrx_context_stop and mcrx_context_free call it. *)

(* stop clears the generation. *)
LEMMA StopStorePreserves ==
  ASSUME WorkerInv, NEW p \in Procs, StopStore(p)
  PROVE  WorkerInv'
<1> USE FfiAssumptions DEF WorkerInv, StopStore, MayCall, Call, threads, world, history, Procs,
                           Workers
<1>1. TypeOK'
  BY DEF TypeOK, Placed, WorkerPlaces
<1>2. Placed'
  BY DEF TypeOK, Placed, WorkerPlaces, Freed, Generations, MutexHeld
<1>3. MutexHeld'
  BY DEF TypeOK, Placed, MutexHeld, Generations, Starting
<1>4. Generations'
  BY DEF TypeOK, Placed, MutexHeld, Generations, Starting
<1>5. StoppedInactive'
  BY DEF TypeOK, Placed, MutexHeld, Generations, StoppedInactive, Stopping
<1>6. WorkersAccountedFor'
  BY DEF TypeOK, Placed, MutexHeld, Generations, StoppedInactive, WorkersAccountedFor, Alive,
           Stopping
<1>7. ReplacedWorkerIsDone'
  BY DEF TypeOK, Placed, StoppedInactive, ReplacedWorkerIsDone, Stopping
<1>8. Freed'
  BY DEF TypeOK, Placed, Freed, Stopping, Starting
<1>9. QED
  BY <1>1, <1>2, <1>3, <1>4, <1>5, <1>6, <1>7, <1>8

(* free clears the generation, as stop does, when nobody is inside a call. *)
LEMMA FreeStorePreserves ==
  ASSUME WorkerInv, NEW p \in Procs, FreeStore(p)
  PROVE  WorkerInv'
<1> USE FfiAssumptions DEF WorkerInv, FreeStore, MayCall, Call, threads, world, history, Procs,
                           Workers
<1>1. TypeOK'
  <2>1. handle_alive' \in BOOLEAN /\ last_error' \in BOOLEAN
    BY DEF TypeOK
  <2>2. QED
    BY <2>1 DEF TypeOK
<1>2. Placed'
  BY DEF TypeOK, Placed, WorkerPlaces, Freed, Generations, MutexHeld
<1>3. MutexHeld'
  BY DEF TypeOK, Placed, MutexHeld, Generations, Starting
<1>4. Generations'
  BY DEF TypeOK, Placed, MutexHeld, Generations, Starting
<1>5. StoppedInactive'
  BY DEF TypeOK, Placed, MutexHeld, Generations, StoppedInactive, Stopping
<1>6. WorkersAccountedFor'
  BY DEF TypeOK, Placed, MutexHeld, Generations, StoppedInactive, WorkersAccountedFor, Alive,
           Stopping
<1>7. ReplacedWorkerIsDone'
  BY DEF TypeOK, Placed, StoppedInactive, ReplacedWorkerIsDone, Stopping
<1>8. Freed'
  BY DEF TypeOK, Placed, Freed, Stopping, Starting
<1>9. QED
  BY <1>1, <1>2, <1>3, <1>4, <1>5, <1>6, <1>7, <1>8

(* stop wakes the worker. *)
LEMMA StopNotifyPreserves ==
  ASSUME WorkerInv, NEW p \in Procs, StopNotify(p)
  PROVE  WorkerInv'
<1> USE FfiAssumptions DEF WorkerInv, StopNotify, NotifyAll, Call, threads, world, history, Procs,
                           Workers
<1>1. TypeOK'
  BY DEF TypeOK, Placed, WorkerPlaces
<1>2. Placed'
  BY DEF TypeOK, Placed, WorkerPlaces, Freed, Generations, MutexHeld
<1>3. MutexHeld'
  BY DEF TypeOK, Placed, MutexHeld, Generations, Starting
<1>4. Generations'
  BY DEF TypeOK, Placed, MutexHeld, Generations, Starting
<1>5. StoppedInactive'
  BY DEF TypeOK, Placed, MutexHeld, Generations, StoppedInactive, Stopping
<1>6. WorkersAccountedFor'
  BY DEF TypeOK, Placed, MutexHeld, Generations, StoppedInactive, WorkersAccountedFor, Alive,
           Stopping
<1>7. ReplacedWorkerIsDone'
  BY DEF TypeOK, Placed, StoppedInactive, ReplacedWorkerIsDone, Stopping
<1>8. Freed'
  BY DEF TypeOK, Placed, Freed, Stopping, Starting
<1>9. QED
  BY <1>1, <1>2, <1>3, <1>4, <1>5, <1>6, <1>7, <1>8

(* stop takes the handle of the worker. *)
LEMMA StopTakePreserves ==
  ASSUME WorkerInv, NEW p \in Procs, StopTake(p)
  PROVE  WorkerInv'
<1> USE FfiAssumptions DEF WorkerInv, StopTake, WorkerMutexFree, StopReturns, Call, threads,
                           world, history, Procs, Workers
<1>0. \A w \in detached' : w \in detached \/ (w = p /\ w = handle /\ w # 0)
  OBVIOUS
<1>1. TypeOK'
  <2>1. handle_alive' \in BOOLEAN /\ last_error' \in BOOLEAN
    BY DEF TypeOK
  <2>2. ASSUME NEW w \in detached'
        PROVE  w \in Workers
    <3>1. CASE w \in detached
      BY <3>1 DEF TypeOK
    <3>2. CASE w = handle /\ w # 0
      BY <3>2 DEF TypeOK
    <3>3. QED
      BY <1>0, <3>1, <3>2
  <2>3. QED
    BY <2>1, <2>2 DEF TypeOK
<1>2. Placed'
  BY DEF TypeOK, Placed, WorkerPlaces, Freed, Generations, MutexHeld
<1>3. MutexHeld'
  BY DEF TypeOK, Placed, MutexHeld, Generations, Starting
<1>4. Generations'
  BY DEF TypeOK, Placed, MutexHeld, Generations, Starting
<1>5. StoppedInactive'
  <2>1. \A w \in Workers : call'[w] \in Stopping => call[w] \in Stopping
    BY DEF TypeOK, Stopping
  <2>2. handle = p /\ handle # 0 => p \in Workers
    BY DEF TypeOK
  <2>3. ASSUME NEW w \in detached'
        PROVE  active # w /\ loc[w] # "unborn"
    <3>1. CASE w \in detached
      BY <3>1 DEF StoppedInactive
    <3>2. CASE w = p /\ w = handle /\ w # 0
      BY <2>2, <3>2 DEF StoppedInactive, Generations, Stopping
    <3>3. QED
      BY <1>0, <3>1, <3>2
  <2>4. QED
    BY <2>1, <2>3 DEF TypeOK, StoppedInactive, Generations, Stopping
<1>6. WorkersAccountedFor'
  BY DEF TypeOK, Placed, MutexHeld, Generations, StoppedInactive, WorkersAccountedFor, Alive,
           Stopping
<1>7. ReplacedWorkerIsDone'
  <2>1. handle # 0 /\ handle = p => loc[handle] = "callback"
    BY DEF TypeOK, Placed, WorkerPlaces
  <2>2. QED
    BY <1>0, <2>1 DEF TypeOK, ReplacedWorkerIsDone
<1>8. Freed'
  BY DEF TypeOK, Placed, Freed, Stopping, Starting
<1>9. QED
  BY <1>1, <1>2, <1>3, <1>4, <1>5, <1>6, <1>7, <1>8

(* stop has joined the thread. *)
LEMMA StopJoinPreserves ==
  ASSUME WorkerInv, NEW p \in Procs, StopJoin(p)
  PROVE  WorkerInv'
<1> USE FfiAssumptions DEF WorkerInv, StopJoin, StopReturns, Call, threads, world, history, Procs,
                           Workers
<1>1. TypeOK'
  BY DEF TypeOK, Placed, WorkerPlaces
<1>2. Placed'
  BY DEF TypeOK, Placed, WorkerPlaces, Freed, Generations, MutexHeld
<1>3. MutexHeld'
  BY DEF TypeOK, Placed, MutexHeld, Generations, Starting
<1>4. Generations'
  BY DEF TypeOK, Placed, MutexHeld, Generations, Starting
<1>5. StoppedInactive'
  BY DEF TypeOK, Placed, MutexHeld, Generations, StoppedInactive, Stopping
<1>6. WorkersAccountedFor'
  BY DEF TypeOK, Placed, MutexHeld, Generations, StoppedInactive, WorkersAccountedFor, Alive,
           Stopping
<1>7. ReplacedWorkerIsDone'
  BY DEF TypeOK, Placed, StoppedInactive, ReplacedWorkerIsDone, Stopping
<1>8. Freed'
  BY DEF TypeOK, Placed, Freed, Stopping, Starting
<1>9. QED
  BY <1>1, <1>2, <1>3, <1>4, <1>5, <1>6, <1>7, <1>8

-----------------------------------------------------------------------------
(* worker_loop. *)

(* The worker compares the generation with its own. *)
LEMMA WorkerCheckPreserves ==
  ASSUME WorkerInv, NEW w \in Workers, WorkerCheck(w)
  PROVE  WorkerInv'
<1> USE FfiAssumptions DEF WorkerInv, WorkerCheck, Goto, WorkerUnchanged, threads, world, history,
                           Procs, Workers
<1>1. TypeOK'
  BY DEF TypeOK, Placed, WorkerPlaces
<1>2. Placed'
  BY DEF TypeOK, Placed, WorkerPlaces, Freed, Generations, MutexHeld
<1>3. MutexHeld'
  BY DEF TypeOK, Placed, MutexHeld, Generations, Starting
<1>4. Generations'
  BY DEF TypeOK, Placed, MutexHeld, Generations, Starting
<1>5. StoppedInactive'
  BY DEF TypeOK, Placed, MutexHeld, Generations, StoppedInactive, Stopping
<1>6. WorkersAccountedFor'
  BY DEF TypeOK, Placed, MutexHeld, Generations, StoppedInactive, WorkersAccountedFor, Alive,
           Stopping
<1>7. ReplacedWorkerIsDone'
  BY DEF TypeOK, Placed, StoppedInactive, ReplacedWorkerIsDone, Stopping
<1>8. Freed'
  BY DEF TypeOK, Placed, Freed, Stopping, Starting
<1>9. QED
  BY <1>1, <1>2, <1>3, <1>4, <1>5, <1>6, <1>7, <1>8

(* The worker takes a packet. *)
LEMMA WorkerReceivePreserves ==
  ASSUME WorkerInv, NEW w \in Workers, WorkerReceive(w)
  PROVE  WorkerInv'
<1> USE FfiAssumptions DEF WorkerInv, WorkerReceive, Goto, WorkerUnchanged, Ready, threads, world,
                           history, Procs, Workers
<1>1. TypeOK'
  BY DEF TypeOK, Placed, WorkerPlaces
<1>2. Placed'
  BY DEF TypeOK, Placed, WorkerPlaces, Freed, Generations, MutexHeld
<1>3. MutexHeld'
  BY DEF TypeOK, Placed, MutexHeld, Generations, Starting
<1>4. Generations'
  BY DEF TypeOK, Placed, MutexHeld, Generations, Starting
<1>5. StoppedInactive'
  BY DEF TypeOK, Placed, MutexHeld, Generations, StoppedInactive, Stopping
<1>6. WorkersAccountedFor'
  BY DEF TypeOK, Placed, MutexHeld, Generations, StoppedInactive, WorkersAccountedFor, Alive,
           Stopping
<1>7. ReplacedWorkerIsDone'
  BY DEF TypeOK, Placed, StoppedInactive, ReplacedWorkerIsDone, Stopping
<1>8. Freed'
  BY DEF TypeOK, Placed, Freed, Stopping, Starting
<1>9. QED
  BY <1>1, <1>2, <1>3, <1>4, <1>5, <1>6, <1>7, <1>8

(* The worker's callback returns. *)
LEMMA CallbackReturnsPreserves ==
  ASSUME WorkerInv, NEW w \in Workers, CallbackReturns(w)
  PROVE  WorkerInv'
<1> USE FfiAssumptions DEF WorkerInv, CallbackReturns, Goto, WorkerUnchanged, threads, world,
                           history, Procs, Workers
<1>1. TypeOK'
  BY DEF TypeOK, Placed, WorkerPlaces
<1>2. Placed'
  BY DEF TypeOK, Placed, WorkerPlaces, Freed, Generations, MutexHeld
<1>3. MutexHeld'
  BY DEF TypeOK, Placed, MutexHeld, Generations, Starting
<1>4. Generations'
  BY DEF TypeOK, Placed, MutexHeld, Generations, Starting
<1>5. StoppedInactive'
  BY DEF TypeOK, Placed, MutexHeld, Generations, StoppedInactive, Stopping
<1>6. WorkersAccountedFor'
  BY DEF TypeOK, Placed, MutexHeld, Generations, StoppedInactive, WorkersAccountedFor, Alive,
           Stopping
<1>7. ReplacedWorkerIsDone'
  BY DEF TypeOK, Placed, StoppedInactive, ReplacedWorkerIsDone, Stopping
<1>8. Freed'
  BY DEF TypeOK, Placed, Freed, Stopping, Starting
<1>9. QED
  BY <1>1, <1>2, <1>3, <1>4, <1>5, <1>6, <1>7, <1>8

(* The worker reads the generation once more before it waits. *)
LEMMA IdleCheckPreserves ==
  ASSUME WorkerInv, NEW w \in Workers, IdleCheck(w)
  PROVE  WorkerInv'
<1> USE FfiAssumptions DEF WorkerInv, IdleCheck, Goto, WorkerUnchanged, threads, world, history,
                           Procs, Workers
<1>1. TypeOK'
  BY DEF TypeOK, Placed, WorkerPlaces
<1>2. Placed'
  BY DEF TypeOK, Placed, WorkerPlaces, Freed, Generations, MutexHeld
<1>3. MutexHeld'
  BY DEF TypeOK, Placed, MutexHeld, Generations, Starting
<1>4. Generations'
  BY DEF TypeOK, Placed, MutexHeld, Generations, Starting
<1>5. StoppedInactive'
  BY DEF TypeOK, Placed, MutexHeld, Generations, StoppedInactive, Stopping
<1>6. WorkersAccountedFor'
  BY DEF TypeOK, Placed, MutexHeld, Generations, StoppedInactive, WorkersAccountedFor, Alive,
           Stopping
<1>7. ReplacedWorkerIsDone'
  BY DEF TypeOK, Placed, StoppedInactive, ReplacedWorkerIsDone, Stopping
<1>8. Freed'
  BY DEF TypeOK, Placed, Freed, Stopping, Starting
<1>9. QED
  BY <1>1, <1>2, <1>3, <1>4, <1>5, <1>6, <1>7, <1>8

(* The worker waits. *)
LEMMA ParkPreserves ==
  ASSUME WorkerInv, NEW w \in Workers, Park(w)
  PROVE  WorkerInv'
<1> USE FfiAssumptions DEF WorkerInv, Park, Goto, WorkerUnchanged, threads, world, history, Procs,
                           Workers
<1>1. TypeOK'
  BY DEF TypeOK, Placed, WorkerPlaces
<1>2. Placed'
  BY DEF TypeOK, Placed, WorkerPlaces, Freed, Generations, MutexHeld
<1>3. MutexHeld'
  BY DEF TypeOK, Placed, MutexHeld, Generations, Starting
<1>4. Generations'
  BY DEF TypeOK, Placed, MutexHeld, Generations, Starting
<1>5. StoppedInactive'
  BY DEF TypeOK, Placed, MutexHeld, Generations, StoppedInactive, Stopping
<1>6. WorkersAccountedFor'
  BY DEF TypeOK, Placed, MutexHeld, Generations, StoppedInactive, WorkersAccountedFor, Alive,
           Stopping
<1>7. ReplacedWorkerIsDone'
  BY DEF TypeOK, Placed, StoppedInactive, ReplacedWorkerIsDone, Stopping
<1>8. Freed'
  BY DEF TypeOK, Placed, Freed, Stopping, Starting
<1>9. QED
  BY <1>1, <1>2, <1>3, <1>4, <1>5, <1>6, <1>7, <1>8

(* A receive of the worker fails. *)
LEMMA WorkerFailsPreserves ==
  ASSUME WorkerInv, NEW w \in Workers, WorkerFails(w)
  PROVE  WorkerInv'
<1> USE FfiAssumptions DEF WorkerInv, WorkerFails, Goto, WorkerUnchanged, threads, world, history,
                           Procs, Workers
<1>1. TypeOK'
  BY DEF TypeOK, Placed, WorkerPlaces
<1>2. Placed'
  BY DEF TypeOK, Placed, WorkerPlaces, Freed, Generations, MutexHeld
<1>3. MutexHeld'
  BY DEF TypeOK, Placed, MutexHeld, Generations, Starting
<1>4. Generations'
  BY DEF TypeOK, Placed, MutexHeld, Generations, Starting
<1>5. StoppedInactive'
  BY DEF TypeOK, Placed, MutexHeld, Generations, StoppedInactive, Stopping
<1>6. WorkersAccountedFor'
  BY DEF TypeOK, Placed, MutexHeld, Generations, StoppedInactive, WorkersAccountedFor, Alive,
           Stopping
<1>7. ReplacedWorkerIsDone'
  BY DEF TypeOK, Placed, StoppedInactive, ReplacedWorkerIsDone, Stopping
<1>8. Freed'
  BY DEF TypeOK, Placed, Freed, Stopping, Starting
<1>9. QED
  BY <1>1, <1>2, <1>3, <1>4, <1>5, <1>6, <1>7, <1>8

(* The worker reports the failure. *)
LEMMA WorkerReportsPreserves ==
  ASSUME WorkerInv, NEW w \in Workers, WorkerReports(w)
  PROVE  WorkerInv'
<1> USE FfiAssumptions DEF WorkerInv, WorkerReports, NotifyAll, WorkerUnchanged, threads, world,
                           history, Procs, Workers
<1>1. TypeOK'
  BY DEF TypeOK, Placed, WorkerPlaces
<1>2. Placed'
  BY DEF TypeOK, Placed, WorkerPlaces, Freed, Generations, MutexHeld
<1>3. MutexHeld'
  BY DEF TypeOK, Placed, MutexHeld, Generations, Starting
<1>4. Generations'
  BY DEF TypeOK, Placed, MutexHeld, Generations, Starting
<1>5. StoppedInactive'
  BY DEF TypeOK, Placed, MutexHeld, Generations, StoppedInactive, Stopping
<1>6. WorkersAccountedFor'
  BY DEF TypeOK, Placed, MutexHeld, Generations, StoppedInactive, WorkersAccountedFor, Alive,
           Stopping
<1>7. ReplacedWorkerIsDone'
  BY DEF TypeOK, Placed, StoppedInactive, ReplacedWorkerIsDone, Stopping
<1>8. Freed'
  BY DEF TypeOK, Placed, Freed, Stopping, Starting
<1>9. QED
  BY <1>1, <1>2, <1>3, <1>4, <1>5, <1>6, <1>7, <1>8

(* The wait ends for no reason. *)
LEMMA SpuriousWakeupPreserves ==
  ASSUME WorkerInv, NEW w \in Workers, SpuriousWakeup(w)
  PROVE  WorkerInv'
<1> USE FfiAssumptions DEF WorkerInv, SpuriousWakeup, Goto, WorkerUnchanged, threads, world,
                           history, Procs, Workers
<1>1. TypeOK'
  BY DEF TypeOK, Placed, WorkerPlaces
<1>2. Placed'
  BY DEF TypeOK, Placed, WorkerPlaces, Freed, Generations, MutexHeld
<1>3. MutexHeld'
  BY DEF TypeOK, Placed, MutexHeld, Generations, Starting
<1>4. Generations'
  BY DEF TypeOK, Placed, MutexHeld, Generations, Starting
<1>5. StoppedInactive'
  BY DEF TypeOK, Placed, MutexHeld, Generations, StoppedInactive, Stopping
<1>6. WorkersAccountedFor'
  BY DEF TypeOK, Placed, MutexHeld, Generations, StoppedInactive, WorkersAccountedFor, Alive,
           Stopping
<1>7. ReplacedWorkerIsDone'
  BY DEF TypeOK, Placed, StoppedInactive, ReplacedWorkerIsDone, Stopping
<1>8. Freed'
  BY DEF TypeOK, Placed, Freed, Stopping, Starting
<1>9. QED
  BY <1>1, <1>2, <1>3, <1>4, <1>5, <1>6, <1>7, <1>8

(* The wait times out. *)
LEMMA IdleTimeoutPreserves ==
  ASSUME WorkerInv, NEW w \in Workers, IdleTimeout(w)
  PROVE  WorkerInv'
<1> USE FfiAssumptions DEF WorkerInv, IdleTimeout, Goto, WorkerUnchanged, threads, world, history,
                           Procs, Workers
<1>1. TypeOK'
  BY DEF TypeOK, Placed, WorkerPlaces
<1>2. Placed'
  BY DEF TypeOK, Placed, WorkerPlaces, Freed, Generations, MutexHeld
<1>3. MutexHeld'
  BY DEF TypeOK, Placed, MutexHeld, Generations, Starting
<1>4. Generations'
  BY DEF TypeOK, Placed, MutexHeld, Generations, Starting
<1>5. StoppedInactive'
  BY DEF TypeOK, Placed, MutexHeld, Generations, StoppedInactive, Stopping
<1>6. WorkersAccountedFor'
  BY DEF TypeOK, Placed, MutexHeld, Generations, StoppedInactive, WorkersAccountedFor, Alive,
           Stopping
<1>7. ReplacedWorkerIsDone'
  BY DEF TypeOK, Placed, StoppedInactive, ReplacedWorkerIsDone, Stopping
<1>8. Freed'
  BY DEF TypeOK, Placed, Freed, Stopping, Starting
<1>9. QED
  BY <1>1, <1>2, <1>3, <1>4, <1>5, <1>6, <1>7, <1>8

-----------------------------------------------------------------------------
(* mcrx_context_poll. *)

(* A poll of the application begins. *)
LEMMA PollBeginPreserves ==
  ASSUME WorkerInv, NEW p \in Apps, PollBegin(p)
  PROVE  WorkerInv'
<1> USE FfiAssumptions DEF WorkerInv, PollBegin, Goto, PollUnchanged, threads, world, history,
                           Procs, Workers
<1>1. TypeOK'
  BY DEF TypeOK, Placed, WorkerPlaces
<1>2. Placed'
  BY DEF TypeOK, Placed, WorkerPlaces, Freed, Generations, MutexHeld
<1>3. MutexHeld'
  BY DEF TypeOK, Placed, MutexHeld, Generations, Starting
<1>4. Generations'
  BY DEF TypeOK, Placed, MutexHeld, Generations, Starting
<1>5. StoppedInactive'
  BY DEF TypeOK, Placed, MutexHeld, Generations, StoppedInactive, Stopping
<1>6. WorkersAccountedFor'
  BY DEF TypeOK, Placed, MutexHeld, Generations, StoppedInactive, WorkersAccountedFor, Alive,
           Stopping
<1>7. ReplacedWorkerIsDone'
  BY DEF TypeOK, Placed, StoppedInactive, ReplacedWorkerIsDone, Stopping
<1>8. Freed'
  BY DEF TypeOK, Placed, Freed, Stopping, Starting
<1>9. QED
  BY <1>1, <1>2, <1>3, <1>4, <1>5, <1>6, <1>7, <1>8

(* A poll takes a packet. *)
LEMMA PollReceivePreserves ==
  ASSUME WorkerInv, NEW p \in Apps, PollReceive(p)
  PROVE  WorkerInv'
<1> USE FfiAssumptions DEF WorkerInv, PollReceive, Goto, PollUnchanged, Ready, threads, world,
                           history, Procs, Workers
<1>1. TypeOK'
  <2>1. handle_alive' \in BOOLEAN /\ last_error' \in BOOLEAN
    BY DEF TypeOK
  <2>2. packets' \in 0..MaxPackets
    BY DEF TypeOK
  <2>3. QED
    BY <2>1, <2>2 DEF TypeOK, WorkerPlaces
<1>2. Placed'
  BY DEF TypeOK, Placed, WorkerPlaces, Freed, Generations, MutexHeld
<1>3. MutexHeld'
  BY DEF TypeOK, Placed, MutexHeld, Generations, Starting
<1>4. Generations'
  BY DEF TypeOK, Placed, MutexHeld, Generations, Starting
<1>5. StoppedInactive'
  BY DEF TypeOK, Placed, MutexHeld, Generations, StoppedInactive, Stopping
<1>6. WorkersAccountedFor'
  BY DEF TypeOK, Placed, MutexHeld, Generations, StoppedInactive, WorkersAccountedFor, Alive,
           Stopping
<1>7. ReplacedWorkerIsDone'
  BY DEF TypeOK, Placed, StoppedInactive, ReplacedWorkerIsDone, Stopping
<1>8. Freed'
  BY DEF TypeOK, Placed, Freed, Stopping, Starting
<1>9. QED
  BY <1>1, <1>2, <1>3, <1>4, <1>5, <1>6, <1>7, <1>8

(* A poll ends. *)
LEMMA PollEndsPreserves ==
  ASSUME WorkerInv, NEW p \in Apps, PollEnds(p)
  PROVE  WorkerInv'
<1> USE FfiAssumptions DEF WorkerInv, PollEnds, Goto, PollUnchanged, threads, world, history,
                           Procs, Workers
<1>1. TypeOK'
  BY DEF TypeOK, Placed, WorkerPlaces
<1>2. Placed'
  BY DEF TypeOK, Placed, WorkerPlaces, Freed, Generations, MutexHeld
<1>3. MutexHeld'
  BY DEF TypeOK, Placed, MutexHeld, Generations, Starting
<1>4. Generations'
  BY DEF TypeOK, Placed, MutexHeld, Generations, Starting
<1>5. StoppedInactive'
  BY DEF TypeOK, Placed, MutexHeld, Generations, StoppedInactive, Stopping
<1>6. WorkersAccountedFor'
  BY DEF TypeOK, Placed, MutexHeld, Generations, StoppedInactive, WorkersAccountedFor, Alive,
           Stopping
<1>7. ReplacedWorkerIsDone'
  BY DEF TypeOK, Placed, StoppedInactive, ReplacedWorkerIsDone, Stopping
<1>8. Freed'
  BY DEF TypeOK, Placed, Freed, Stopping, Starting
<1>9. QED
  BY <1>1, <1>2, <1>3, <1>4, <1>5, <1>6, <1>7, <1>8

(* A poll's callback returns. *)
LEMMA PollCallbackReturnsPreserves ==
  ASSUME WorkerInv, NEW p \in Apps, PollCallbackReturns(p)
  PROVE  WorkerInv'
<1> USE FfiAssumptions DEF WorkerInv, PollCallbackReturns, Goto, PollUnchanged, threads, world,
                           history, Procs, Workers
<1>1. TypeOK'
  BY DEF TypeOK, Placed, WorkerPlaces
<1>2. Placed'
  BY DEF TypeOK, Placed, WorkerPlaces, Freed, Generations, MutexHeld
<1>3. MutexHeld'
  BY DEF TypeOK, Placed, MutexHeld, Generations, Starting
<1>4. Generations'
  BY DEF TypeOK, Placed, MutexHeld, Generations, Starting
<1>5. StoppedInactive'
  BY DEF TypeOK, Placed, MutexHeld, Generations, StoppedInactive, Stopping
<1>6. WorkersAccountedFor'
  BY DEF TypeOK, Placed, MutexHeld, Generations, StoppedInactive, WorkersAccountedFor, Alive,
           Stopping
<1>7. ReplacedWorkerIsDone'
  BY DEF TypeOK, Placed, StoppedInactive, ReplacedWorkerIsDone, Stopping
<1>8. Freed'
  BY DEF TypeOK, Placed, Freed, Stopping, Starting
<1>9. QED
  BY <1>1, <1>2, <1>3, <1>4, <1>5, <1>6, <1>7, <1>8

(* The calls on a subscription and arrivals only touch the context's       *)
(* subscription, the packets ready and the error slot.                     *)
LEMMA SubscribePreserves ==
  ASSUME WorkerInv, NEW p \in Procs, Subscribe(p)
  PROVE  WorkerInv'
<1> USE FfiAssumptions DEF WorkerInv, threads, world, history
<1>1. UNCHANGED <<handle_alive, active, next, handle, loc, call, joining, left, sent, detached,
                  freer>>
  BY DEF Subscribe, AddSubscription, JoinSubscription, LeaveSubscription, RemoveSubscription,
         SubscriptionCallFails, SetSubscription
<1>2. /\ subscription' \in {"none", "bound", "joined"}
      /\ last_error' \in BOOLEAN
      /\ packets' \in {packets, 0}
  BY DEF Subscribe, AddSubscription, JoinSubscription, LeaveSubscription, RemoveSubscription,
         SubscriptionCallFails, SetSubscription, TypeOK
<1>3. TypeOK'
  BY <1>1, <1>2 DEF TypeOK
<1>4. Placed'
  BY <1>1, <1>2 DEF Placed, TypeOK
<1>5. MutexHeld' /\ Generations' /\ StoppedInactive'
  BY <1>1 DEF MutexHeld, Generations, StoppedInactive
<1>6. WorkersAccountedFor' /\ ReplacedWorkerIsDone' /\ Freed'
  BY <1>1 DEF WorkersAccountedFor, Alive, ReplacedWorkerIsDone, Freed
<1>7. QED
  BY <1>3, <1>4, <1>5, <1>6

(* A packet arrives. *)
LEMMA PacketArrivesPreserves ==
  ASSUME WorkerInv, PacketArrives
  PROVE  WorkerInv'
<1> USE FfiAssumptions DEF WorkerInv, PacketArrives, threads, history
<1>1. TypeOK' /\ Placed'
  BY DEF TypeOK, Placed
<1>2. MutexHeld' /\ Generations' /\ StoppedInactive'
  BY DEF MutexHeld, Generations, StoppedInactive
<1>3. WorkersAccountedFor' /\ ReplacedWorkerIsDone' /\ Freed'
  BY DEF WorkersAccountedFor, Alive, ReplacedWorkerIsDone, Freed
<1>4. QED
  BY <1>1, <1>2, <1>3

-----------------------------------------------------------------------------
(* The inductive invariant holds when the context is created. *)
LEMMA InitWorkerInv == Init => WorkerInv
<1> SUFFICES ASSUME Init PROVE WorkerInv
  OBVIOUS
<1> USE FfiAssumptions DEF Init, Procs, Workers
<1>1. TypeOK
  <2>1. handle_alive \in BOOLEAN /\ last_error \in BOOLEAN
    OBVIOUS
  <2>2. QED
    BY <2>1 DEF TypeOK, WorkerPlaces
<1>2. Placed
  BY DEF Placed, WorkerPlaces
<1>3. MutexHeld /\ Generations /\ StoppedInactive
  BY DEF MutexHeld, Generations, StoppedInactive, Starting, Stopping
<1>4. WorkersAccountedFor /\ ReplacedWorkerIsDone
  BY DEF WorkersAccountedFor, Alive, ReplacedWorkerIsDone
<1>5. Freed
  BY DEF Freed
<1>6. QED
  BY <1>1, <1>2, <1>3, <1>4, <1>5 DEF WorkerInv

(* Every step preserves the inductive invariant. *)
LEMMA NextWorkerInv == WorkerInv /\ [Next]_vars => WorkerInv'
<1> SUFFICES ASSUME WorkerInv, [Next]_vars PROVE WorkerInv'
  OBVIOUS
<1>1. ASSUME NEW p \in Procs, Begin(p) \/ Proceed(p)
      PROVE  WorkerInv'
  BY <1>1, StartLockPreserves, StopStorePreserves, FreeStorePreserves, StartPublishPreserves,
     StartSpawnPreserves, StartReturnsPreserves, StopNotifyPreserves, StopTakePreserves,
     StopJoinPreserves
  DEF Begin, Proceed
<1>2. ASSUME NEW w \in Workers, Work(w) \/ SpuriousWakeup(w) \/ IdleTimeout(w)
      PROVE  WorkerInv'
  BY <1>2, WorkerCheckPreserves, WorkerReceivePreserves, CallbackReturnsPreserves,
     IdleCheckPreserves, ParkPreserves, WorkerFailsPreserves, WorkerReportsPreserves,
     SpuriousWakeupPreserves, IdleTimeoutPreserves
  DEF Work
<1>3. ASSUME NEW p \in Apps, PollBegin(p) \/ Poll(p)
      PROVE  WorkerInv'
  BY <1>3, PollBeginPreserves, PollReceivePreserves, PollEndsPreserves,
     PollCallbackReturnsPreserves
  DEF Poll
<1>4. CASE UNCHANGED vars
  BY <1>4 DEF vars, WorkerInv, TypeOK, Placed, MutexHeld, Generations, StoppedInactive,
              WorkersAccountedFor, Alive, ReplacedWorkerIsDone, Freed
<1>5. QED
  BY <1>1, <1>2, <1>3, <1>4, SubscribePreserves, PacketArrivesPreserves DEF Next

(* The conjunction of the parts is an invariant of the worker, the calls   *)
(* of start, stop, free and poll and the callbacks that make them.         *)
THEOREM WorkerInvariant == Spec => []WorkerInv
<1>1. QED
  BY InitWorkerInv, NextWorkerInv, PTL DEF Spec

(* Every thread is somewhere in worker_loop, mcrx_context_poll or a call,  *)
(* and every generation within those handed out.                           *)
THEOREM TypeOKAlways == Spec => []TypeOK
<1>1. WorkerInv => TypeOK
  BY DEF WorkerInv
<1>2. QED
  BY <1>1, WorkerInvariant, PTL

(* stop_worker loses no worker: a live one is reachable through the stored *)
(* handle, is being joined, or has detached itself and is not the active   *)
(* one; workers do not wait for one another in a circle.                   *)
THEOREM WorkersAccountedForAlways == Spec => []WorkersAccountedFor
<1>1. WorkerInv => WorkersAccountedFor
  BY DEF WorkerInv
<1>2. QED
  BY <1>1, WorkerInvariant, PTL

(* A worker replaced from its own callback never reads the context again. *)
THEOREM ReplacedWorkerIsDoneAlways == Spec => []ReplacedWorkerIsDone
<1>1. WorkerInv => ReplacedWorkerIsDone
  BY DEF WorkerInv
<1>2. QED
  BY <1>1, WorkerInvariant, PTL

(* When mcrx_context_free has returned no worker reads, and the poll whose *)
(* callback called it takes no further packet.                             *)
THEOREM FreeEndsDeliveryAlways == Spec => []FreeEndsDelivery
<1>1. WorkerInv => FreeEndsDelivery
  <2> SUFFICES ASSUME WorkerInv, freer # 0, call[freer] = "idle"
               PROVE  /\ \A w \in Workers : loc[w] # "recv"
                      /\ freer \in Apps => left[freer] = 0 \/ loc[freer] # "poll"
    BY DEF FreeEndsDelivery
  <2> USE DEF WorkerInv
  <2>1. handle = 0 /\ \A p \in Procs : joining[p] = 0
    BY DEF Freed, Placed
  <2>2. ASSUME NEW w \in Workers, loc[w] = "recv"
        PROVE  w \in detached
    BY <2>1, <2>2, FfiAssumptions DEF WorkersAccountedFor, Alive, Workers
  <2>3. \A w \in Workers : loc[w] # "recv"
    BY <2>2 DEF ReplacedWorkerIsDone
  <2>4. QED
    BY <2>3 DEF Freed
<1>2. QED
  BY <1>1, WorkerInvariant, PTL

(* Nothing but a stop, a free, the worker's own failure or a start changes *)
(* the active generation: a replaced worker cannot stop its replacement.   *)
THEOREM ReplacementUndisturbedAlways == Spec => ReplacementUndisturbed
<1>1. TypeOK /\ [Next]_vars =>
        [active # 0 /\ active' # active =>
          \/ \E p \in Procs : call[p] # call'[p] /\ call'[p] \in {"notify", "spawn"}
          \/ loc[active] = "failed" /\ loc'[active] = "report"]_vars
  <2> SUFFICES ASSUME TypeOK, Next, active # 0, active' # active
               PROVE  \/ \E p \in Procs : call[p] # call'[p] /\ call'[p] \in {"notify", "spawn"}
                      \/ loc[active] = "failed" /\ loc'[active] = "report"
    OBVIOUS
  <2>1. \/ \E p \in Procs : StartPublish(p) \/ StopStore(p) \/ FreeStore(p)
        \/ \E w \in Workers : WorkerFails(w)
    BY DEF Next, Begin, Proceed, Subscribe, Work, Poll, StartLock, StartSpawn, StartReturns,
           StopNotify, StopTake, StopJoin, WorkerCheck, WorkerReceive, CallbackReturns, IdleCheck,
           Park, WorkerReports, SpuriousWakeup, IdleTimeout, PollBegin, PollReceive, PollEnds,
           PollCallbackReturns, AddSubscription, JoinSubscription, LeaveSubscription,
           RemoveSubscription, SubscriptionCallFails, SetSubscription, PacketArrives, PollUnchanged
  <2>2. ASSUME NEW p \in Procs, StartPublish(p) \/ StopStore(p) \/ FreeStore(p)
        PROVE  call[p] # call'[p] /\ call'[p] \in {"notify", "spawn"}
    BY <2>2 DEF StartPublish, StopStore, FreeStore, MayCall, Call, TypeOK
  <2>3. ASSUME NEW w \in Workers, WorkerFails(w)
        PROVE  loc[active] = "failed" /\ loc'[active] = "report"
    BY <2>3 DEF WorkerFails, Goto, TypeOK, Procs
  <2>4. QED
    BY <2>1, <2>2, <2>3
<1>2. QED
  BY <1>1, TypeOKAlways, PTL DEF Spec, ReplacementUndisturbed
=============================================================================
