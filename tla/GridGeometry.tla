---------------------------- MODULE GridGeometry ----------------------------
(***************************************************************************)
(* The plane geometry of the dynamic map updater: world points and cells   *)
(* of one grid, the cells of a region polygon, the steps of a ray.         *)
(*                                                                         *)
(* Lengths are whole numbers of a unit small enough that a cell is Scale   *)
(* units wide and its centre is a point; the comparisons of distances that *)
(* the code makes with square roots are made with squares.                 *)
(***************************************************************************)
EXTENDS Integers, Sequences, FiniteSets

CONSTANTS
  Width, Height,   \* of the grid, in cells
  Scale,           \* resolution
  OriginX, OriginY,
  Radius,          \* traversable_confidence_radius_m
  Margin,          \* ray_pass_through_margin_m
  RangeMin,        \* range_min and
  RangeMax         \* range_max of the scan

ASSUME GridAssumption ==
  /\ {Width, Height} \subseteq Nat \ {0}
  /\ {Radius, Margin, RangeMin, RangeMax} \subseteq Nat
  /\ {OriginX, OriginY} \subseteq Int
  /\ Scale \in Nat \ {0} /\ Scale % 2 = 0

GridCell == (0 .. Width - 1) \X (0 .. Height - 1)

Abs(n) == IF n < 0 THEN -n ELSE n
Least(S) == CHOOSE m \in S : \A n \in S : m <= n
Greatest(S) == CHOOSE m \in S : \A n \in S : m >= n

(* Division rounds down, as std::floor does.                               *)
WorldToCell(p) == <<(p[1] - OriginX) \div Scale, (p[2] - OriginY) \div Scale>>

OnGrid(p) == WorldToCell(p) \in GridCell

Center(c) == <<OriginX + c[1] * Scale + Scale \div 2, OriginY + c[2] * Scale + Scale \div 2>>

SquaredDistance(p, q) ==
  (p[1] - q[1]) * (p[1] - q[1]) + (p[2] - q[2]) * (p[2] - q[2])

-----------------------------------------------------------------------------
(* Polygons, as sequences of points.                                       *)

Clamp(n, last) == IF n < 0 THEN 0 ELSE IF n > last THEN last ELSE n

(* clampWorldToCellLocked: a point beside the grid counts as on its border.*)
ClampedCell(p) ==
  <<Clamp(WorldToCell(p)[1], Width - 1), Clamp(WorldToCell(p)[2], Height - 1)>>

(* The point is left of the edge, compared without the code's division.    *)
LeftOfEdge(p, a, b) ==
  LET rise == b[2] - a[2]
      run == (b[1] - a[1]) * (p[2] - a[2])
  IN  IF rise > 0 THEN (p[1] - a[1]) * rise < run ELSE (p[1] - a[1]) * rise > run

(* A point is inside if the ray to its right crosses an odd number of      *)
(* edges.                                                                  *)
InPolygon(p, polygon) ==
  LET Previous(i) == IF i = 1 THEN polygon[Len(polygon)] ELSE polygon[i - 1]
      crossed == {i \in 1 .. Len(polygon) :
                    /\ (polygon[i][2] > p[2]) # (Previous(i)[2] > p[2])
                    /\ LeftOfEdge(p, polygon[i], Previous(i))}
  IN  Len(polygon) >= 3 /\ Cardinality(crossed) % 2 = 1

NearVertex(p, polygon) ==
  Radius > 0 /\ \E i \in 1 .. Len(polygon) : SquaredDistance(p, polygon[i]) <= Radius * Radius

(* Mutant: the box is that of the polygon without the radius.              *)
BoxTight(polygon) ==
  LET at(k) == {polygon[i][k] : i \in 1 .. Len(polygon)}
      low == ClampedCell(<<Least(at(1)), Least(at(2))>>)
      high == ClampedCell(<<Greatest(at(1)), Greatest(at(2))>>)
  IN  (low[1] .. high[1]) \X (low[2] .. high[2])

(* The cells that are tested: the box around polygon and radius, clamped.  *)
Box(polygon) ==
  LET at(k) == {polygon[i][k] : i \in 1 .. Len(polygon)}
      low == ClampedCell(<<Least(at(1)) - Radius, Least(at(2)) - Radius>>)
      high == ClampedCell(<<Greatest(at(1)) + Radius, Greatest(at(2)) + Radius>>)
  IN  (low[1] .. high[1]) \X (low[2] .. high[2])

(* fillRegionCellsLocked, for a region whose frame could be transformed.   *)
RegionCells(polygon) ==
  IF Len(polygon) < 3 THEN {}
  ELSE {c \in Box(polygon) :
          InPolygon(Center(c), polygon) \/ NearVertex(Center(c), polygon)}

-----------------------------------------------------------------------------
(* Rays from a sensor to the point it measured.                            *)

InRange(from, to) ==
  SquaredDistance(from, to) \in RangeMin * RangeMin .. RangeMax * RangeMax

(* Mutant: the margin is not subtracted.                                   *)
PassedThroughAny(from, to, c) ==
  SquaredDistance(from, Center(c)) <= SquaredDistance(from, to)

(* The centre is not farther than the range without the margin, or than 0  *)
(* if the range is shorter than the margin.                                *)
PassedThrough(from, to, c) ==
  LET d2 == SquaredDistance(from, Center(c))
      r2 == SquaredDistance(from, to)
      m2 == Margin * Margin
  IN  \/ d2 = 0
      \/ /\ r2 >= m2 /\ r2 + m2 >= d2
         /\ (r2 + m2 - d2) * (r2 + m2 - d2) >= 4 * m2 * r2

(* raytraceCells: dx, dy (not positive), the direction of each step and    *)
(* the steps themselves.                                                   *)
LineX(start, end) == Abs(end[1] - start[1])
LineY(start, end) == -Abs(end[2] - start[2])
Towards(a, b) == IF a < b THEN 1 ELSE -1

(* Mutant: the error is not doubled.                                       *)
StepsXUndoubled(start, end, err) == err >= LineY(start, end)

StepsX(start, end, err) == 2 * err >= LineY(start, end)

StepsY(start, end, err) == 2 * err <= LineX(start, end)

NextCell(start, end, c, err) ==
  <<IF StepsX(start, end, err) THEN c[1] + Towards(start[1], end[1]) ELSE c[1],
    IF StepsY(start, end, err) THEN c[2] + Towards(start[2], end[2]) ELSE c[2]>>

NextError(start, end, err) ==
  err + (IF StepsX(start, end, err) THEN LineY(start, end) ELSE 0)
      + (IF StepsY(start, end, err) THEN LineX(start, end) ELSE 0)

=============================================================================
