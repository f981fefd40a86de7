--------------------------- MODULE MCPipelinePoses ---------------------------
(***************************************************************************)
(* The small instance of the pipeline with one more history variable: from *)
(* which robot poses the detector has seen what.                           *)
(***************************************************************************)
EXTENDS MCPipeline

VARIABLE detected   \* detections processed, with the pose they came from

PosesInit == PipelineInit /\ detected = {}

PosesNext ==
  \/ \E l \in Label, p \in Position :
       /\ Detect(l, p)
       /\ detected' = detected \cup {[label |-> l, at |-> p, from |-> robot]}
  \/ NoDetection /\ UNCHANGED detected

PosesSpec == PosesInit /\ [][PosesNext]_<<pipelineVars, detected>>

SawIn(c, g) == {d \in detected : c \in Covers[d.at][g]}

(* A cell is opened only if the detector saw it from as many distinct      *)
(* robot poses as the updater requires.                                    *)
ObservedFromDistinctPoses ==
  \A c \in clearedCells :
    \E apart \in SUBSET {d.from : d \in SawIn(c, raw.geometry)} :
      /\ Cardinality(apart) >= MinObservationPoses
      /\ \A p, q \in apart : p # q => <<p, q>> \notin Close

=============================================================================
