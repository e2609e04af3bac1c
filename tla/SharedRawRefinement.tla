------------------------ MODULE SharedRawRefinement ------------------------
(***************************************************************************)
(* SharedRawContext, with its reference counts, its shared sockets and its *)
(* one pending queue, implements IndependentSubscriptions.                 *)
(***************************************************************************)
EXTENDS SharedRaw

(* A membership key is a group and a source. *)
PlaceAt(key, m)   == [key |-> key, group |-> m[1], source |-> m[2]]
PlaceOf(key, cfg) == PlaceAt(key, MembershipKey(cfg))

(* What the state of the context is to its subscribers. *)
Member      == [id \in DOMAIN subscriptions |->
                  [place      |-> PlaceOf(subscriptions[id].capture_key, subscriptions[id].config),
                   interfaces |-> Resolutions[subscriptions[id].config.selector],
                   joined     |-> IsJoined(id)]]
Inbox       == [id \in DOMAIN subscriptions |-> PendingFor(pending_packets, id)]
Memberships == UNION {{[place |-> PlaceAt(key, e.membership), interface |-> e.interface] :
                         e \in kernel[key]} : key \in Keys}
Handed      == {out[i].tag : i \in DOMAIN out}

Independent == INSTANCE IndependentSubscriptions WITH
  DatagramTags <- 1..MaxArrivals,
  next_id     <- next_subscription_id,
  member      <- Member,
  inbox       <- Inbox,
  memberships <- Memberships,
  handed      <- Handed

(* To its subscribers, a shared context captures as one socket each would: *)
(* nobody's join, leave, removal, failed call or full queue shows to       *)
(* another, every matching subscription gets every datagram read from its  *)
(* capture, and a datagram is handed over once, in order.  The host has    *)
(* one membership per place where somebody is joined, on the interface     *)
(* that the first to join there named then, and keeps it through the leave *)
(* or removal of any but the last; where nobody is joined it has none.     *)
SubscriptionsIndependent == Independent!Spec
=============================================================================
