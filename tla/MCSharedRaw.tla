---------------------------- MODULE MCSharedRaw ----------------------------
(* Small instances of SharedRaw.  Two selectors, one an interface address  *)
(* and one an interface index, may resolve to the same capture key, so     *)
(* that configurations naming the interface differently share a socket.    *)
EXTENDS SharedRawRefinement, TLC

CONSTANTS g1, s1, s2, addr, index, k1, k2

MCConfigs ==
  {[group |-> g1, source |-> AnySource, selector |-> addr],
   [group |-> g1, source |-> AnySource, selector |-> index],
   [group |-> g1, source |-> s1, selector |-> index]}

(* The index names k1 always; the address moves between interfaces. *)
MCResolutions == (addr :> {k1, k2}) @@ (index :> {k1})

=============================================================================
