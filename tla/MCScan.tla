------------------------------- MODULE MCScan -------------------------------
(***************************************************************************)
(* A small instance of the updater with its geometry: five by four cells   *)
(* of four units; a scanner in the corner and one in the middle of a cell; *)
(* targets that give lines of all slopes, one in a scanner's own cell, one *)
(* out of range of the other scanner and one beside the map; polygons      *)
(* within the map, over its border, beside it, slanted, too small for a    *)
(* centre, and without an area.                                            *)
(***************************************************************************)
EXTENDS ScanProcessing

CONSTANTS p1, p2, g1

MCPose == {p1, p2}
MCClose == {<<p, p>> : p \in MCPose}
MCSensor == [p \in MCPose |-> IF p = p1 THEN <<1, 3>> ELSE <<14, 6>>]
MCTarget ==
  {<<19, 15>>, <<18, 5>>, <<7, 13>>, <<1, 14>>, <<11, 4>>, <<15, 5>>, <<3, -1>>, <<17, 11>>}

MCPolygon ==
  {<<<<5, 1>>, <<11, 1>>, <<11, 9>>, <<5, 9>>>>,
   <<<<13, -6>>, <<27, -5>>, <<25, 8>>, <<12, 7>>>>,
   <<<<-3, 1>>, <<-3, 11>>, <<-9, 6>>>>,
   <<<<1, 1>>, <<19, 13>>, <<3, 15>>>>,
   <<<<8, 8>>, <<9, 8>>, <<8, 9>>>>,
   <<<<5, 5>>, <<9, 9>>>>}

MCRawMap ==
  {[geometry |-> g1, data |-> [c \in GridCell |-> IF c \in free THEN 0 ELSE 100]] :
     free \in {{<<0, 0>>, <<1, 1>>}, {<<2, 2>>}}}

MCRegion == {RegionOf[polygon] : polygon \in Polygon}

(* What the theorem MasksAreGrownPolygons assumes of the polygons.              *)
ASSUME ConvexAssumption ==
  \A polygon \in Polygon : Len(polygon) > 2 =>
    ConvexPolygon(polygon) /\ \A c \in GridCell : ~OnBorder(Center(c), polygon)

=============================================================================
