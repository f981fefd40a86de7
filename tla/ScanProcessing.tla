--------------------------- MODULE ScanProcessing ---------------------------
(***************************************************************************)
(* The dynamic map updater with its geometry: regions are polygons that    *)
(* are filled into the masks, and a scan is processed ray by ray and cell  *)
(* by cell.  While a scan is processed the mutex is held, so that no other *)
(* handler runs and nothing is published; Atomic is the updater to which   *)
(* the whole scan is one step.                                             *)
(***************************************************************************)
EXTENDS GridGeometry, DynamicMapUpdater

CONSTANTS
  Sensor,          \* per robot pose: the position of the scanner
  Target,          \* points that a ray may measure
  Polygon,         \* polygons of regions, in the map frame
  MaxScans         \* bound: scans processed

ASSUME ScanAssumption ==
  /\ Cell = GridCell
  /\ Sensor \in [Pose -> Int \X Int]
  /\ Target \subseteq Int \X Int
  /\ Polygon \subseteq Seq(Int \X Int)
  /\ MaxScans \in Nat

VARIABLES
  phase,           \* "idle", "rays" between two rays, "line" along one
  robotPose,       \* robot_pose of this scan
  target,          \* endpoint_map of this ray
  cursor,          \* x0 and y0 in raytraceCells
  err,             \* err in raytraceCells
  scan,            \* history: the rays so far, with the cells they passed through
  before,          \* history: evidence when the scan began
  scans            \* scans processed

line == <<target, cursor, err>>
scanVars == <<vars, phase, robotPose, line, scan, before, scans>>

Start == WorldToCell(Sensor[robotPose])
End == WorldToCell(target)

(* The message that carries each polygon.                                  *)
RegionOf ==
  [polygon \in Polygon |->
     [label |-> "person", traversable |-> FALSE,
      footprint |-> [g \in Geometry |-> RegionCells(polygon)]]]

ASSUME RegionAssumption == \A polygon \in Polygon : RegionOf[polygon] \in Region

(* The variables of a scan between two scans.                              *)
NoScan(at, pose, point, cell, error, rays, grid) ==
  /\ at = "idle" /\ pose = NoPose
  /\ point = <<OriginX, OriginY>> /\ cell = <<0, 0>> /\ error = 0
  /\ rays = <<>> /\ grid = EmptyGrid

Idle == phase = "idle" /\ UNCHANGED <<phase, robotPose, line, scan, before, scans>>

ReceiveMap == Idle /\ \E map \in RawMap : LET known == Transformed(latestRegions) IN
  \E dynOk \in known, travOk \in known : OnRawMap(map, dynOk, travOk)

ReceiveRegion(polygon) ==
  Idle /\ OnSemanticRegions({RegionOf[polygon]}, {RegionOf[polygon]}, {}, NoPose)

(* Without a place for the scanner on the map nothing happens.             *)
BeginScan(pose) ==
  /\ phase = "idle" /\ scans < MaxScans
  /\ raw # NoMap /\ raw.geometry \notin Degenerate
  /\ OnGrid(Sensor[pose])
  /\ phase' = "rays" /\ robotPose' = pose
  /\ before' = evidence /\ scan' = <<>>
  /\ scans' = scans + 1
  /\ UNCHANGED <<vars, line>>

(* Mutant: the cell where the ray ends is not reset.                       *)
BeginRayOver(point) ==
  /\ phase = "rays" /\ Len(scan) < MaxRays
  /\ InRange(Sensor[robotPose], point) /\ OnGrid(point)
  /\ phase' = "line" /\ target' = point
  /\ cursor' = Start /\ err' = LineX(Start, End') + LineY(Start, End')
  /\ scan' = Append(scan, [free |-> {}, end |-> End'])
  /\ UNCHANGED <<vars, robotPose, before, scans>>

(* A ray out of range, or that ends beside the map, is skipped.            *)
BeginRay(point) ==
  /\ phase = "rays" /\ Len(scan) < MaxRays
  /\ InRange(Sensor[robotPose], point) /\ OnGrid(point)
  /\ phase' = "line" /\ target' = point
  /\ cursor' = Start /\ err' = LineX(Start, End') + LineY(Start, End')
  /\ scan' = Append(scan, [free |-> {}, end |-> End'])
  /\ evidence' = IF IsCandidateOccupied(raw, candidate, End')
                   THEN [evidence EXCEPT ![End'] = NoEvidence] ELSE evidence
  /\ UNCHANGED <<inputs, masks, travEvidence, published, robotPose, before, scans>>

VisitCell ==
  /\ phase = "line"
  /\ LET passed == PassedThrough(Sensor[robotPose], target, cursor) IN
     /\ evidence' = IF passed /\ IsCandidateOccupied(raw, candidate, cursor)
          THEN [evidence EXCEPT ![cursor] = AddEvidence(@, 1, robotPose, MinHits, MinPoses)]
          ELSE evidence
     /\ scan' = [scan EXCEPT ![Len(scan)].free = @ \cup {c \in {cursor} : passed}]
  /\ phase' = IF cursor = End THEN "rays" ELSE "line"
  /\ cursor' = IF cursor = End THEN cursor ELSE NextCell(Start, End, cursor, err)
  /\ err' = IF cursor = End THEN err ELSE NextError(Start, End, err)
  /\ UNCHANGED <<inputs, masks, travEvidence, published, robotPose, target, before, scans>>

EndScan ==
  /\ phase = "rays"
  /\ NoScan(phase', robotPose', target', cursor', err', scan', before')
  /\ UNCHANGED <<inputs, masks, grids, scans>>
  /\ PublishMaps

ScanInit ==
  /\ Init
  /\ NoScan(phase, robotPose, target, cursor, err, scan, before)
  /\ scans = 0

ScanNext ==
  \/ ReceiveMap
  \/ \E polygon \in Polygon : ReceiveRegion(polygon)
  \/ \E pose \in Pose : BeginScan(pose)
  \/ \E point \in Target : BeginRay(point)
  \/ VisitCell \/ EndScan

ScanSpec == ScanInit /\ [][ScanNext]_scanVars

-----------------------------------------------------------------------------
(* Between two handlers the evidence is what the last one left, and during *)
(* a scan what the scan found.                                             *)
Atomic == INSTANCE DynamicMapUpdater WITH
  evidence <- IF phase = "idle" THEN evidence ELSE before

(* The ray by ray processing of a scan (processScanRayLocked) is the       *)
(* single step that the updater's other properties are about: for every    *)
(* cell the hits after the last ray that ends there, whatever the order of *)
(* rays and cells, and no other step changes what the others see.          *)
ScanIsAtomic ==
  /\ Atomic!Init
  /\ [][ \/ \E map \in RawMap : \E dynOk, travOk \in Transformed(latestRegions) :
              Atomic!OnRawMap(map, dynOk, travOk)
         \/ \E polygon \in Polygon :
              Atomic!OnSemanticRegions({RegionOf[polygon]}, {RegionOf[polygon]}, {}, NoPose)
         \/ phase = "rays" /\ Atomic!OnScan(scan, robotPose) ]_(Atomic!vars)

(* Bresenham's error is the distance of the cursor from the line, and the  *)
(* cursor is a cell nearest to the line, between the two ends, from which  *)
(* the loop goes on until it is at the end.                                *)
CursorOnLine ==
  phase = "line" =>
    LET dx == LineX(Start, End)
        dy == -LineY(Start, End)
        i == Abs(cursor[1] - Start[1])
        j == Abs(cursor[2] - Start[2])
    IN  /\ err = dx * (j + 1) - dy * (i + 1)
        /\ cursor # End => StepsX(Start, End, err) \/ StepsY(Start, End, err)
        /\ i + Abs(End[1] - cursor[1]) = dx /\ j + Abs(End[2] - cursor[2]) = dy
        /\ 2 * Abs(dx * j - dy * i) <= IF dx > dy THEN dx ELSE dy

(* A ray is no evidence against the cell in which it ends, as long as the  *)
(* margin covers half the diagonal of a cell; a scanner in the middle of   *)
(* the very cell it measures is the exception.                             *)
EndpointNotCounted ==
  2 * Margin * Margin >= Scale * Scale =>
    \A i \in 1 .. Len(scan) : scan[i].end \in scan[i].free => scan[i].end = Start

(* A ray visits the cells nearest to its line, up to its end, and counts   *)
(* against none that an obstacle may have stopped it in.                   *)
RayInv == CursorOnLine /\ EndpointNotCounted

(* The side of the edge a, b that p is on, and the place of the next vertex.*)
Side(a, b, p) == (b[1] - a[1]) * (p[2] - a[2]) - (b[2] - a[2]) * (p[1] - a[1])
After(i, n) == (i % n) + 1

(* Whether the point is on the same side of every edge of a convex         *)
(* polygon.                                                                *)
WithinEdges(p, polygon) ==
  LET n == Len(polygon)
      side(i) == Side(polygon[i], polygon[After(i, n)], p)
  IN  (\A i \in 1 .. n : side(i) > 0) \/ (\A i \in 1 .. n : side(i) < 0)

(* On an edge, and on the same side of the others or on them.              *)
OnBorder(p, polygon) ==
  LET n == Len(polygon)
      side(i) == Side(polygon[i], polygon[After(i, n)], p)
  IN  /\ (\A i \in 1 .. n : side(i) >= 0) \/ (\A i \in 1 .. n : side(i) <= 0)
      /\ \E i \in 1 .. n : side(i) = 0

(* Going round, every vertex not on an edge is on the same side of it, as  *)
(* in the hulls that the projection node publishes.                        *)
Turns(polygon, o) ==
  \A i, k \in 1 .. Len(polygon) :
    k \notin {i, After(i, Len(polygon))} =>
      o * Side(polygon[i], polygon[After(i, Len(polygon))], polygon[k]) > 0

ConvexPolygon(polygon) == Turns(polygon, 1) \/ Turns(polygon, -1)

(* The cells whose centre lies within the polygon, and those whose centre   *)
(* is within the confidence radius of a vertex.                            *)
CellsWithin ==
  [polygon \in Polygon |->
     {c \in GridCell : Len(polygon) > 2 /\ WithinEdges(Center(c), polygon)}]
CellsGrown ==
  [polygon \in Polygon |->
     CellsWithin[polygon]
       \cup {c \in GridCell : Len(polygon) > 2 /\ NearVertex(Center(c), polygon)}]

OnlyRegion(polygon) ==
  raw # NoMap /\ latestRegions = {RegionOf[polygon]} /\ raw.geometry \notin Degenerate

(* What addRegionToMaskLocked puts into a mask, that of dynamic objects    *)
(* included: the polygon grown at its vertices by the confidence radius.   *)
(* Neither the box around the polygon, clamped to a map that may not hold  *)
(* it, nor the crossing rule adds a cell to these or loses one.            *)
MaskIsGrownPolygon ==
  \A polygon \in Polygon : OnlyRegion(polygon) => candidate = CellsGrown[polygon]

(* What DESIGN.md says of the mask of dynamic objects: each cell centre is *)
(* tested against the polygon, and only traversable regions are expanded   *)
(* by the confidence radius. The code grows every mask.                    *)
DynamicMaskIsPolygon ==
  \A polygon \in Polygon : OnlyRegion(polygon) => candidate = CellsWithin[polygon]

=============================================================================
