---------------------------- MODULE TokioAdapter ----------------------------
(***************************************************************************)
(* TokioSubscription (src/tokio_adapter.rs): an owned subscription behind  *)
(* tokio's AsyncFd, or behind a sleep-and-poll loop where there is none.   *)
(* AsyncFd is external and modelled from how the adapter uses it: the      *)
(* kernel reports an edge when a datagram arrives (and on registration     *)
(* when one is queued), the driver turns an edge into readiness and counts *)
(* it in a tick, and clear_ready forgets readiness only when no event came *)
(* after the guard was obtained.                                           *)
(*                                                                         *)
(* The receive path is Subscription::try_recv: a step is one recvmsg.      *)
(***************************************************************************)
EXTENDS Integers, Sequences

CONSTANTS
  Builds,        \* of "unix" (AsyncFd) and "other" (sleep-and-poll loop)
  FilterBudget,  \* MAX_FILTERED_DATAGRAMS_PER_RECEIVE
  MaxArrivals    \* bound: datagrams that ever arrive

ASSUME TokioAssumptions ==
  /\ Builds \subseteq {"unix", "other"}
  /\ FilterBudget \in Nat \ {0}
  /\ MaxArrivals \in Nat

VARIABLES
  build,     \* cfg(unix) or cfg(not(unix)), fixed when the crate is built
  wrapped,   \* whether the adapter owns the subscription
  task,      \* where the receive call is; "out" when there is none
  filtered,  \* datagrams try_recv has dropped
  guard,     \* the tick of the readiness guard
  ready,     \* external: the readiness AsyncFd has cached
  tick,      \* external: events AsyncFd has seen
  edge,      \* external: an edge the driver has not seen yet
  queue,     \* external: datagrams in the socket, "wanted" or "other"
  arrivals   \* external: datagrams that have arrived

vars == <<build, wrapped, task, filtered, guard, ready, tick, edge, queue, arrivals>>
driver == <<ready, tick, edge>>

AsyncFd == build = "unix"

Init ==
  /\ build \in Builds
  /\ wrapped = FALSE
  /\ task = "out"
  /\ filtered = 0
  /\ guard = 0
  /\ ready = FALSE
  /\ tick = 0
  /\ edge = FALSE
  /\ queue = <<>>
  /\ arrivals = 0

(* TokioSubscription::new registers the socket. *)
Wrap ==
  /\ ~wrapped
  /\ wrapped' = TRUE
  /\ ready' = FALSE
  /\ tick' = 0
  /\ edge' = (AsyncFd /\ queue # <<>>)
  /\ UNCHANGED <<build, task, filtered, guard, queue, arrivals>>

(* into_subscription, which needs the adapter itself: no call is running. *)
IntoSubscription ==
  /\ wrapped
  /\ task = "out"
  /\ wrapped' = FALSE
  /\ edge' = FALSE
  /\ UNCHANGED <<build, task, filtered, guard, ready, tick, queue, arrivals>>

(* recv and recv_with_metadata; the poll loop tries before it waits. *)
Recv ==
  /\ wrapped
  /\ task = "out"
  /\ task' = IF AsyncFd THEN "await" ELSE "try"
  /\ filtered' = 0
  /\ UNCHANGED <<build, wrapped, guard, driver, queue, arrivals>>

(* readable_mut().await, or the end of the sleep. *)
Readable ==
  /\ task = "await"
  /\ AsyncFd => ready
  /\ guard' = tick
  /\ filtered' = 0
  /\ task' = "try"
  /\ UNCHANGED <<build, wrapped, driver, queue, arrivals>>

(* The future is dropped at an await. *)
Cancel ==
  /\ task = "await"
  /\ task' = "out"
  /\ UNCHANGED <<build, wrapped, filtered, guard, driver, queue, arrivals>>

(* try_recv: the next datagram is returned or filtered. *)
Take ==
  /\ task = "try"
  /\ queue # <<>>
  /\ queue' = Tail(queue)
  /\ IF Head(queue) = "wanted" THEN task' = "out" /\ UNCHANGED filtered
     ELSE /\ filtered' = filtered + 1
          /\ task' = IF filtered + 1 >= FilterBudget THEN "none" ELSE "try"
  /\ UNCHANGED <<build, wrapped, guard, driver, arrivals>>

WouldBlock ==
  /\ task = "try"
  /\ queue = <<>>
  /\ task' = "none"
  /\ UNCHANGED <<build, wrapped, filtered, guard, driver, queue, arrivals>>

ReceiveFails ==
  /\ task = "try"
  /\ task' = "out"
  /\ UNCHANGED <<build, wrapped, filtered, guard, driver, queue, arrivals>>

Mutant_ForgetsNewEvents ==
  /\ task = "none"
  /\ ready' = FALSE
  /\ task' = "await"
  /\ UNCHANGED <<build, wrapped, filtered, guard, tick, edge, queue, arrivals>>

(* clear_ready, or the sleep: try_recv had no packet. *)
GotNone ==
  /\ task = "none"
  /\ ready' = (ready /\ AsyncFd /\ tick # guard)
  /\ task' = "await"
  /\ UNCHANGED <<build, wrapped, filtered, guard, tick, edge, queue, arrivals>>

-----------------------------------------------------------------------------
Driver ==
  /\ edge
  /\ edge' = FALSE
  /\ ready' = TRUE
  /\ tick' = tick + 1
  /\ UNCHANGED <<build, wrapped, task, filtered, guard, queue, arrivals>>

Arrive(d) ==
  /\ arrivals < MaxArrivals
  /\ arrivals' = arrivals + 1
  /\ queue' = Append(queue, d)
  /\ edge' = (wrapped /\ AsyncFd)
  /\ UNCHANGED <<build, wrapped, task, filtered, guard, ready, tick>>

Run == Readable \/ Take \/ WouldBlock \/ GotNone

Next == \/ Wrap \/ IntoSubscription \/ Recv \/ Cancel \/ ReceiveFails
        \/ Run \/ Driver \/ \E d \in {"wanted", "other"} : Arrive(d)

Spec == Init /\ [][Next]_vars

(* The runtime polls the task when it can run and turns its driver. *)
FairSpec == Spec /\ WF_vars(Run) /\ WF_vars(Driver)

-----------------------------------------------------------------------------
(* Every variable has its type; one try_recv drops no more datagrams than  *)
(* its filter budget, and goes on only below it.                           *)
TypeOK ==
  /\ build \in Builds
  /\ wrapped \in BOOLEAN
  /\ task \in {"out", "await", "try", "none"}
  /\ filtered \in 0..FilterBudget
  /\ task = "try" => filtered < FilterBudget
  /\ guard \in Nat /\ tick \in Nat
  /\ ready \in BOOLEAN /\ edge \in BOOLEAN
  /\ queue \in Seq({"wanted", "other"})
  /\ arrivals \in 0..MaxArrivals

HasPacket == \E k \in 1..Len(queue) : queue[k] = "wanted"

(* "Waits for the next packet and returns it": a receive call does not     *)
(* sleep for ever on a packet that is in its socket, whatever arrives      *)
(* between a would-block and the clearing of readiness, and however often  *)
(* calls are dropped or the subscription is moved out and in.              *)
RecvReturns == task # "out" /\ HasPacket ~> task = "out"
=============================================================================
