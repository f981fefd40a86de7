------------------------------- MODULE MCLayer -------------------------------
(***************************************************************************)
(* A small instance of SemanticTraversabilityLayer: a wide and a narrow    *)
(* region that overlap, over a marked cell and one that may be unknown.    *)
(***************************************************************************)
EXTENDS SemanticTraversabilityLayer, TLC

CONSTANTS wide, narrow

MCRegion == {wide, narrow}
MCInside == wide :> {1} @@ narrow :> {2}
MCNear == wide :> {2} @@ narrow :> {}
MCFrameOf == wide :> "odom" @@ narrow :> "odom"
MCRegionCost == wide :> 0 @@ narrow :> 0
MCMessage == {<<wide, narrow>>, <<>>}
MCLowerCost == 1 :> {254} @@ 2 :> {254, 255}
MCValues ==
  [enabled |-> BOOLEAN, cost |-> {-1, 0}, threshold |-> {254, 255},
   clearUnknown |-> BOOLEAN, margin |-> {TRUE}]

MCInitial ==
  {[enabled |-> TRUE, cost |-> -1, threshold |-> 254, clearUnknown |-> FALSE, margin |-> TRUE]}

=============================================================================
