------------------------- MODULE DynamicMapUpdater -------------------------
(***************************************************************************)
(* The dynamic map updater node (semantic_nav/dynamic_mapping).            *)
(*                                                                         *)
(* The node receives the raw SLAM map, LiDAR scans and semantic regions,   *)
(* and publishes a cleaned map in which some occupied cells are overridden *)
(* to free.  A cell is overridden along one of two paths:                  *)
(*                                                                         *)
(*   - dynamic: the cell lies in a region with a dynamic label and enough  *)
(*     rays crossed it, from enough distinct robot poses;                  *)
(*   - traversable: the cell was confirmed by enough region messages, from *)
(*     enough distinct robot poses; this one is remembered.                *)
(*                                                                         *)
(* The three subscriptions run under one mutex (mutex_), so each handler   *)
(* is one action.  A handler that returns before touching the state is a   *)
(* stuttering step and has no action of its own.                           *)
(***************************************************************************)
EXTENDS Integers, FiniteSets, Sequences

CONSTANTS
  Cell,                  \* cell indices of the occupancy grid
  Geometry,              \* grid geometries the SLAM back end may publish
  Degenerate,            \* the geometries with no extent or no resolution
  OccupiedThreshold,     \* occupied_threshold
  Pose,                  \* robot positions in the map frame
  Close,                 \* pairs of positions nearer than min_pose_separation_m, which
                         \* has the same default for both kinds of evidence
  MinHits,               \* min_absence_hits
  MinPoses,              \* min_distinct_poses
  MinObservations,       \* min_traversable_observations
  MinObservationPoses,   \* min_traversable_distinct_poses
  HitCap,                \* bound: hits are counted up to HitCap
  DynamicLabels,         \* dynamic_labels, normalized
  TraversableLabels,     \* traversable_labels, normalized
  EnableTraversablePersistence,
  RawMap,                \* OccupancyGrid messages: geometry and cell values
  Region,                \* SemanticRegion messages: label, flag, footprint
  Ray,                   \* rays whose endpoint is on the map
  MaxRays,               \* bound: usable rays in one scan
  TransformsMayFail,     \* can the frame of a region be unknown to tf
  NoMap, NoRegions, NoPose

Value == -1 .. 100       \* int8 occupancy; -1 is unknown, 0 is free

(* A region's footprint is the set of cells its polygon rasterizes to in   *)
(* each geometry (empty for fewer than three vertices).  A ray's free      *)
(* cells are the Bresenham cells whose center lies at least                *)
(* ray_pass_through_margin_m before the endpoint.                          *)
MapMessage == [geometry : Geometry, data : [Cell -> Value]]
RegionMessage == [label : STRING, traversable : BOOLEAN,
                  footprint : [Geometry -> SUBSET Cell]]
RayMessage == [free : SUBSET Cell, end : Cell]

ASSUME ThresholdAssumption == OccupiedThreshold \in 0 .. 100
ASSUME GeometryAssumption == Degenerate \subseteq Geometry
(* min_pose_separation_m > 0, so that a pose is close to itself.           *)
ASSUME CloseAssumption ==
  /\ Close \subseteq Pose \X Pose
  /\ \A p \in Pose : <<p, p>> \in Close
  /\ \A p, q \in Pose : <<p, q>> \in Close => <<q, p>> \in Close
ASSUME CountAssumption ==
  /\ {MinHits, MinPoses, MinObservations, MinObservationPoses} \subseteq Nat
  /\ HitCap \in Nat
  /\ HitCap >= MinHits /\ HitCap >= MinObservations
  /\ MaxRays \in Nat
ASSUME PoseAssumption == NoPose \notin Pose /\ IsFiniteSet(Pose)
ASSUME MessageAssumption ==
  /\ RawMap \subseteq MapMessage
  /\ Region \subseteq RegionMessage
  /\ Ray \subseteq RayMessage
  /\ {EnableTraversablePersistence, TransformsMayFail} \subseteq BOOLEAN
  /\ NoMap \notin RawMap
  /\ \A regions \in SUBSET Region : regions # NoRegions

VARIABLES
  raw,             \* raw_map_ with its geometry_, or NoMap
  latestRegions,   \* latest_regions_, or NoRegions
  candidate,       \* candidate_cells_
  travCandidate,   \* traversable_candidate_cells_
  evidence,        \* evidence_
  travEvidence,    \* traversable_evidence_
  cleaned,         \* the map last published on output_map_topic
  clearedCells     \* cells marked in the last cleared_cells message

inputs == <<raw, latestRegions>>
masks == <<candidate, travCandidate>>
grids == <<evidence, travEvidence>>
published == <<cleaned, clearedCells>>
vars == <<inputs, masks, grids, published>>

-----------------------------------------------------------------------------
(* EvidenceGrid: the evidence of one cell.                                 *)

CellEvidence == [hits : 0 .. HitCap, poses : SUBSET Pose, cleared : BOOLEAN]

NoEvidence == [hits |-> 0, poses |-> {}, cleared |-> FALSE]

EmptyGrid == [c \in Cell |-> NoEvidence]

IsDistinctPose(e, pose) == \A p \in e.poses : <<p, pose>> \notin Close

CapHits(n) == IF n > HitCap THEN HitCap ELSE n

(* Mutant: a threshold that must be exceeded.                              *)
AddEvidenceStrict(e, n, pose, minHits, minPoses) ==
  LET hits == CapHits(e.hits + n)
      poses == IF IsDistinctPose(e, pose) THEN e.poses \cup {pose} ELSE e.poses
  IN  [hits |-> hits, poses |-> poses,
       cleared |-> hits >= minHits /\ Cardinality(poses) > minPoses]

(* addFreeSpaceEvidence called n times, n > 0, with the same pose.         *)
AddEvidence(e, n, pose, minHits, minPoses) ==
  LET hits == CapHits(e.hits + n)
      poses == IF IsDistinctPose(e, pose) THEN e.poses \cup {pose} ELSE e.poses
  IN  [hits |-> hits, poses |-> poses,
       cleared |-> hits >= minHits /\ Cardinality(poses) >= minPoses]

-----------------------------------------------------------------------------
(* Cells of a map message.                                                 *)

IsOccupied(map, c) == map.data[c] >= OccupiedThreshold

IsCandidateOccupied(map, mask, c) == c \in mask /\ IsOccupied(map, c)

(* publishMapsLocked: the raw map with the cleared cells overridden to 0.  *)
Overridden(map, mask, dyn, trav) ==
  {c \in Cell : \/ IsCandidateOccupied(map, mask, c) /\ dyn[c].cleared
                \/ IsOccupied(map, c) /\ trav[c].cleared}

PublishMaps ==
  /\ clearedCells' = Overridden(raw', candidate', evidence', travEvidence')
  /\ cleaned' = [c \in Cell |-> IF c \in clearedCells' THEN 0 ELSE raw'.data[c]]

-----------------------------------------------------------------------------
(* rebuildCandidateMaskLocked.  A region whose frame cannot be transformed *)
(* contributes no cell; the transform is looked up once per mask, so each  *)
(* mask has its own set of regions that could be transformed (dynOk and    *)
(* travOk in the handlers).                                                *)

UseTraversableRegion(r) ==
  /\ EnableTraversablePersistence
  /\ r.traversable
  /\ TraversableLabels = {} \/ r.label \in TraversableLabels

Footprints(regions, g) == UNION {r.footprint[g] : r \in regions}

DynamicMask(regions, g) ==
  Footprints({r \in regions : r.label \in DynamicLabels}, g)

TraversableMask(regions, g) ==
  Footprints({r \in regions : UseTraversableRegion(r)}, g)

ResetOutside(grid, keep) ==
  [c \in Cell |-> IF c \in keep THEN grid[c] ELSE NoEvidence]

ClearedIn(grid) == {c \in Cell : grid[c].cleared}

-----------------------------------------------------------------------------
(* onRawMap.  A new geometry forgets everything and rebuilds the masks     *)
(* from the stored regions; the same geometry forgets the evidence of the  *)
(* cells that are no longer occupied, and keeps the masks.                 *)

GeometryChanged(map) == raw = NoMap \/ (raw # NoMap /\ raw.geometry # map.geometry)

NewGeometry(map, dynOk, travOk) ==
  /\ raw' = map
  /\ evidence' = EmptyGrid
  /\ travEvidence' = EmptyGrid
  /\ IF latestRegions = NoRegions \/ map.geometry \in Degenerate
       THEN candidate' = {} /\ travCandidate' = {}
       ELSE /\ candidate' = DynamicMask(dynOk, map.geometry)
            /\ travCandidate' = TraversableMask(travOk, map.geometry)

(* Mutant: the same geometry keeps the evidence of cells no longer occupied.*)
SameGeometryKeeping(map) == raw' = map /\ UNCHANGED <<masks, grids>>

SameGeometry(map) ==
  /\ raw' = map
  /\ LET occupied == {c \in Cell : IsOccupied(map, c)}
     IN  /\ evidence' = ResetOutside(evidence, occupied)
         /\ travEvidence' = ResetOutside(travEvidence, occupied)
  /\ UNCHANGED masks

OnRawMap(map, dynOk, travOk) ==
  /\ IF GeometryChanged(map)
       THEN NewGeometry(map, dynOk, travOk)
       ELSE SameGeometry(map)
  /\ UNCHANGED latestRegions
  /\ PublishMaps

-----------------------------------------------------------------------------
(* onSemanticRegions: store the message, rebuild the masks, count one      *)
(* confirmation for every occupied traversable candidate, publish.         *)

(* Mutant: the result of the pose lookup is used unchecked.                *)
ConfirmUnlocated(grid, mask, pose) ==
  [c \in Cell |->
     IF EnableTraversablePersistence /\ IsCandidateOccupied(raw, mask, c)
     THEN AddEvidence(grid[c], 1, pose, MinObservations, MinObservationPoses)
     ELSE grid[c]]

ConfirmTraversable(grid, mask, pose) ==
  [c \in Cell |->
     IF /\ EnableTraversablePersistence
        /\ pose # NoPose
        /\ IsCandidateOccupied(raw, mask, c)
     THEN AddEvidence(grid[c], 1, pose, MinObservations, MinObservationPoses)
     ELSE grid[c]]

RebuildMasks(dynOk, travOk) ==
  IF raw.geometry \in Degenerate
    THEN UNCHANGED <<masks, evidence>>
    ELSE /\ candidate' = DynamicMask(dynOk, raw.geometry)
         /\ travCandidate' = TraversableMask(travOk, raw.geometry)
         /\ evidence' = ResetOutside(evidence, candidate')

(* Mutant: confirmed cells are forgotten with the rest.                    *)
KeptInMask ==
  IF raw.geometry \in Degenerate
    THEN travEvidence
    ELSE ResetOutside(travEvidence, travCandidate')

(* Traversable evidence kept by the rebuild: a confirmed cell stays.       *)
KeptTraversable ==
  IF raw.geometry \in Degenerate
    THEN travEvidence
    ELSE ResetOutside(travEvidence, travCandidate' \cup ClearedIn(travEvidence))

OnSemanticRegions(regions, dynOk, travOk, pose) ==
  /\ latestRegions' = regions
  /\ UNCHANGED raw
  /\ IF raw = NoMap
       THEN UNCHANGED <<masks, grids, published>>
       ELSE /\ RebuildMasks(dynOk, travOk)
            /\ travEvidence' =
                 ConfirmTraversable(KeptTraversable, travCandidate', pose)
            /\ PublishMaps

-----------------------------------------------------------------------------
(* onScan.  The rays are processed in order: a ray first resets the        *)
(* candidate occupied cell it ends on, then counts a hit on the candidate  *)
(* occupied cells it crosses.  All rays of a scan share the robot pose.    *)

EndsOn(scan, c) == \E i \in DOMAIN scan : scan[i].end = c

(* The rays that cross c after the last ray that ends on c.                *)
Crossings(scan, c) ==
  {i \in DOMAIN scan : /\ c \in scan[i].free
                       /\ \A j \in DOMAIN scan : scan[j].end = c => j <= i}

(* Mutant: the ray endpoint does not reset the evidence.                   *)
ScanCellThrough(e, scan, c, pose) ==
  LET n == Cardinality(Crossings(scan, c))
  IN  IF n = 0 THEN e ELSE AddEvidence(e, n, pose, MinHits, MinPoses)

ScanCell(e, scan, c, pose) ==
  LET start == IF EndsOn(scan, c) THEN NoEvidence ELSE e
      n == Cardinality(Crossings(scan, c))
  IN  IF n = 0 THEN start ELSE AddEvidence(start, n, pose, MinHits, MinPoses)

OnScan(scan, pose) ==
  /\ raw # NoMap
  /\ raw.geometry \notin Degenerate
  /\ evidence' = [c \in Cell |->
                    IF IsCandidateOccupied(raw, candidate, c)
                      THEN ScanCell(evidence[c], scan, c, pose)
                      ELSE evidence[c]]
  /\ UNCHANGED <<inputs, masks, travEvidence>>
  /\ PublishMaps

-----------------------------------------------------------------------------
(* The sets of regions whose frame the buffer may be able to transform.    *)
Transformed(regions) ==
  IF regions = NoRegions THEN {{}}
  ELSE IF TransformsMayFail THEN SUBSET regions ELSE {regions}

Scans == UNION {[1 .. n -> Ray] : n \in 1 .. MaxRays}

Init ==
  /\ raw = NoMap
  /\ latestRegions = NoRegions
  /\ candidate = {} /\ travCandidate = {}
  /\ evidence = EmptyGrid /\ travEvidence = EmptyGrid
  /\ cleaned = NoMap
  /\ clearedCells = {}

Next ==
  \/ \E map \in RawMap : \E dynOk, travOk \in Transformed(latestRegions) :
       OnRawMap(map, dynOk, travOk)
  \/ \E regions \in SUBSET Region, pose \in Pose \cup {NoPose} :
       \E dynOk, travOk \in Transformed(regions) :
         OnSemanticRegions(regions, dynOk, travOk, pose)
  \/ \E scan \in Scans, pose \in Pose : OnScan(scan, pose)

Spec == Init /\ [][Next]_vars

=============================================================================
