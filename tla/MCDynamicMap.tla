---------------------------- MODULE MCDynamicMap ----------------------------
(***************************************************************************)
(* A small instance of the dynamic map updater: a corridor a, b with a     *)
(* wall behind it, two geometries (the second one shifted by a cell, plus  *)
(* a degenerate one), a person standing in a, a curtain hanging over a and *)
(* b, and three robot poses of which the outer two are far apart.          *)
(***************************************************************************)
EXTENDS DynamicMapHistory

CONSTANTS a, b, wall, p1, p2, p3, g1, g2, g0

MCCell == {a, b, wall}
MCPose == {p1, p2, p3}
MCClose == {<<p, p>> : p \in MCPose} \cup {<<p1, p2>>, <<p2, p1>>, <<p2, p3>>, <<p3, p2>>}

Grid(va, vb, vw) == [c \in MCCell |-> CASE c = a -> va [] c = b -> vb [] OTHER -> vw]
MCRawMap ==
  {[geometry |-> g1, data |-> d] :
     d \in {Grid(65, 100, 100), Grid(64, -1, 100)}}
  \cup {[geometry |-> g2, data |-> Grid(100, 100, 0)],
        [geometry |-> g0, data |-> Grid(100, -1, 0)]}

Prints(s1, s2) ==
  [g \in {g1, g2, g0} |-> CASE g = g1 -> s1 [] g = g2 -> s2 [] OTHER -> {}]
MCRegion ==
  {[label |-> "person", traversable |-> FALSE, footprint |-> Prints({a}, {b})],
   [label |-> "curtain", traversable |-> TRUE, footprint |-> Prints({a, b}, {b})]}

MCRay ==
  {[free |-> {}, end |-> a], [free |-> {a}, end |-> b], [free |-> {a, b}, end |-> wall]}

=============================================================================
