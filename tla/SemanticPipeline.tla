-------------------------- MODULE SemanticPipeline --------------------------
(***************************************************************************)
(* From the detector to the cleaned map: the projection node publishes its *)
(* regions on a topic of depth 1, and the dynamic map updater counts every *)
(* message it receives as an observation from the pose the robot has at    *)
(* that moment.  Until the SLAM back end is localized no frame of a region *)
(* and no robot pose can be transformed into the map frame.                *)
(*                                                                         *)
(* LiDAR scans are left to DynamicMapUpdater: no label here is dynamic, so *)
(* a scan only publishes the maps again.                                   *)
(***************************************************************************)
EXTENDS DynamicMapUpdater, ProjectionHistory

CONSTANTS
  Covers,          \* footprint of a region at a position, per geometry
  NoMessage

ASSUME CoversAssumption ==
  /\ \A regions \in SUBSET Region : regions # NoMessage
  /\ \A l \in Label, p \in Position :
       [label |-> l, traversable |-> TRUE, footprint |-> Covers[p]] \in Region

VARIABLES
  regionsTopic,    \* the message the updater has not taken yet, or NoMessage
  robot,           \* pose of the robot
  localized,       \* does tf connect target_frame and the map frame
  traced           \* history: places at which a label was confirmed, or seen near one

world == <<robot, localized>>
history == <<traced, runs, lastSeen>>
pipelineVars == <<vars, projectionVars, regionsTopic, world, history>>

(* The message as the updater gets it; every label here is traversable.    *)
Message(regions) ==
  {[label |-> r.label, traversable |-> TRUE, footprint |-> Covers[r.at]] : r \in regions}

Known(regions) == IF localized /\ regions # NoRegions THEN regions ELSE {}

PipelineInit ==
  /\ Init
  /\ HistoryInit
  /\ regionsTopic = NoMessage
  /\ robot \in Pose /\ localized = FALSE
  /\ traced = {}

(* A place is traced by the last of RequiredHits sightings in a run, or by *)
(* a sighting near a traced place.                                         *)
Trace(l, p) ==
  traced' =
    IF \/ RequiredHits \in runs'[l][p]
       \/ \E q \in Position : SameObject(p, q) /\ <<l, q>> \in traced
      THEN traced \cup {<<l, p>>} ELSE traced

Detect(l, p) ==
  /\ OnDetection(l, p) /\ Saw(l, p)
  /\ regionsTopic' = Message(publishedRegions')
  /\ Trace(l, p)
  /\ UNCHANGED <<vars, world>>

Republish ==
  /\ PublishTimer
  /\ regionsTopic' = Message(publishedRegions')
  /\ UNCHANGED <<vars, world, history>>

ClockTicks ==
  /\ TimePasses /\ Aged
  /\ UNCHANGED <<vars, regionsTopic, world, traced>>

TakeRegions ==
  /\ regionsTopic # NoMessage
  /\ OnSemanticRegions(regionsTopic, Known(regionsTopic), Known(regionsTopic),
                       IF localized THEN robot ELSE NoPose)
  /\ regionsTopic' = NoMessage
  /\ UNCHANGED <<projectionVars, world, history>>

TakeMap(map) ==
  /\ OnRawMap(map, Known(latestRegions), Known(latestRegions))
  /\ UNCHANGED <<projectionVars, regionsTopic, world, history>>

Move ==
  /\ robot' \in Pose
  /\ UNCHANGED <<vars, projectionVars, regionsTopic, localized, history>>

Localize ==
  /\ ~localized /\ localized' = TRUE
  /\ UNCHANGED <<vars, projectionVars, regionsTopic, robot, history>>

NoDetection ==
  \/ Republish \/ ClockTicks \/ TakeRegions
  \/ \E map \in RawMap : TakeMap(map)
  \/ Move \/ Localize

PipelineNext == (\E l \in Label, p \in Position : Detect(l, p)) \/ NoDetection

PipelineSpec == PipelineInit /\ [][PipelineNext]_pipelineVars

-----------------------------------------------------------------------------
(* Each variable of the pipeline has its type.                             *)
PipelineTypeOK ==
  /\ ProjectionTypeOK
  /\ regionsTopic = NoMessage \/ regionsTopic \in SUBSET Region
  /\ robot \in Pose /\ localized \in BOOLEAN
  /\ traced \subseteq Label \X Position
  /\ clearedCells \subseteq Cell

(* A cell is published free only if it was covered by a detection that     *)
(* RequiredHits sightings in a run confirmed, or that lay within the match *)
(* distance of such a one, or of one near that, and so on.  A detection    *)
(* away from them opens nothing, however often the node republishes and    *)
(* wherever the robot goes.  One within the match distance of a held       *)
(* region replaces it at once, and opens cells that nothing else covered.  *)
OpenedWhereConfirmed ==
  \A c \in clearedCells :
    \E l \in Label, p \in Position : <<l, p>> \in traced /\ c \in Covers[p][raw.geometry]

=============
