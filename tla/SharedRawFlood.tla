--------------------------- MODULE SharedRawFlood ---------------------------
(***************************************************************************)
(* SharedRawContext under traffic that never stops.  The arrivals of       *)
(* SharedRaw are counted and bounded; here a capture socket that has been  *)
(* read empty may fill again at once, for ever, so that what a receive     *)
(* call promises against a busy network can be stated as liveness.         *)
(***************************************************************************)
EXTENDS SharedRaw, TLC

CONSTANTS g1, s1, v4, v6, k1, k2

(* One any-source subscription per address family of one interface. *)
MCConfigs == {[group |-> g1, source |-> AnySource, selector |-> s] : s \in {v4, v6}}
MCResolutions == (v4 :> {k1}) @@ (v6 :> {k2})

Flood(key, parses) ==
  /\ key \in DOMAIN captures
  /\ queue[key] = <<>>
  /\ queue' = [queue EXCEPT ![key] = <<[tag |-> 0, group |-> g1, source |-> s1, parses |-> parses]>>]
  /\ UNCHANGED <<registry, sockets, next_capture_index, pending_packets, metrics, call, out,
                 arrivals>>

(* A caller that joins and then polls with try_recv_any for ever, while no *)
(* read fails and every datagram parses.                                   *)
PollNext ==
  \/ \E cfg \in Configs : AddSubscription(cfg)
  \/ \E id \in DOMAIN subscriptions : JoinSubscription(id)
  \/ TryRecvAny
  \/ VisitCapture \/ LeaveInnerLoop \/ WouldBlock \/ CaptureDatagram \/ FillReturns
  \/ \E key \in Keys : Flood(key, TRUE)

PollSpec == Init /\ [][PollNext]_vars /\ SF_vars(TryRecvAny) /\ WF_vars(Receive)

(* "Capture sockets are visited in round-robin order": a datagram waiting  *)
(* on one capture is read although another capture always has traffic.     *)
EveryCaptureServed == \A key \in Keys : queue[key] # <<>> ~> queue[key] = <<>>

=============================================================================
