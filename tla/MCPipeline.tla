----------------------------- MODULE MCPipeline -----------------------------
(***************************************************************************)
(* A curtain detected at three places in a row: the outer two are too far  *)
(* apart to be one object, all three cover the cell door.  Two robot poses *)
(* far apart; nothing tells them apart, so they are symmetric.             *)
(***************************************************************************)
EXTENDS SemanticPipeline, TLC

CONSTANTS door, side, p1, p2, left, right, far, g1

MCCell == {door, side}
MCPose == {p1, p2}
MCSymmetry == Permutations(MCPose)
MCPosition == {left, right, far}
MCNear == (MCPosition \X MCPosition) \ {<<left, far>>, <<far, left>>}
MCCovers == [q \in MCPosition |-> [g \in {g1} |-> IF q = left THEN {door} ELSE {door, side}]]
MCRegion ==
  {[label |-> "curtain", traversable |-> TRUE, footprint |-> MCCovers[q]] : q \in MCPosition}
MCRawMap == {[geometry |-> g1, data |-> [c \in MCCell |-> v]] : v \in {0, 100}}
MCClose == {<<p, p>> : p \in MCPose}

=============================================================================
