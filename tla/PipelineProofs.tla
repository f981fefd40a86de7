---------------------------- MODULE PipelineProofs ----------------------------
(***************************************************************************)
(* The pipeline from the detector to the cleaned map, for any labels,      *)
(* places, grids and limits.                                               *)
(***************************************************************************)
EXTENDS SemanticPipeline, ProjectionProofs

(* The label was confirmed at the place, or seen near such a place.        *)
Traced(l, p) == <<l, p>> \in traced

(* Each region of a message is at a traced place.                          *)
TracedMessage(regions) ==
  \A r \in regions : \E l \in Label, p \in Position :
    r.footprint = Covers[p] /\ Traced(l, p)

(* Some traced place covers the cell.                                      *)
CoveredIn(c, g) ==
  \E l \in Label, p \in Position : Traced(l, p) /\ c \in Covers[p][g]
TracedCell(c) == CoveredIn(c, raw.geometry)

PipelineTypes ==
  /\ raw \in RawMap \cup {NoMap}
  /\ latestRegions = NoRegions \/ latestRegions \in SUBSET Region
  /\ PipelineTypeOK

(* The node holds and publishes regions only at traced places.             *)
PromotedInv ==
  /\ \A l \in Label : regionCache[l] # NoRegion => Traced(l, regionCache[l].at)
  /\ \A r \in publishedRegions : Traced(r.label, r.at)

MessagesInv ==
  /\ regionsTopic # NoMessage => TracedMessage(regionsTopic)
  /\ latestRegions # NoRegions => TracedMessage(latestRegions)

(* No cell is a candidate, has evidence or is cleared without a detection, *)
(* and without scans there is no dynamic evidence.                         *)
CellsInv ==
  /\ raw = NoMap => travCandidate = {} /\ clearedCells = {}
  /\ \A c \in travCandidate : TracedCell(c)
  /\ \A c \in Cell : travEvidence[c].cleared => TracedCell(c)
  /\ \A c \in Cell : ~evidence[c].cleared
  /\ \A c \in clearedCells : TracedCell(c)

PipelineInv ==
  ProjectionInv /\ PipelineTypes /\ PromotedInv /\ MessagesInv /\ CellsInv

-----------------------------------------------------------------------------
(* The pipeline runs the projection node as its own specification does.    *)
LEMMA PipelineIsHistory ==
  ASSUME [PipelineNext]_pipelineVars
  PROVE  [HistoryNext]_historyVars
<1>1. CASE \E l \in Label, p \in Position : Detect(l, p)
  BY <1>1 DEF Detect, HistoryNext
<1>2. CASE Republish
  BY <1>2 DEF Republish, HistoryNext, history
<1>3. CASE ClockTicks
  BY <1>3 DEF ClockTicks, HistoryNext
<1>4. CASE \/ TakeRegions \/ Move \/ Localize \/ UNCHANGED pipelineVars
           \/ \E map \in RawMap : TakeMap(map)
  BY <1>4 DEF TakeRegions, TakeMap, Move, Localize, pipelineVars, historyVars, history
<1> QED BY <1>1, <1>2, <1>3, <1>4 DEF PipelineNext, NoDetection

(* What the node promises it promises in the pipeline.                     *)
THEOREM PipelineKeepsPromises ==
  PipelineSpec => HistorySpec /\ NewRegionConfirmed /\ DropOutTolerated /\ PublishedFresh
<1>1. PipelineInit => HistoryInit
  BY DEF PipelineInit
<1>2. [PipelineNext]_pipelineVars => [HistoryNext]_historyVars
  BY PipelineIsHistory
<1>3. PipelineSpec => HistorySpec
  BY <1>1, <1>2, PTL DEF PipelineSpec, HistorySpec
<1> QED BY <1>3, NewRegionsAreConfirmed, DropOutsAreTolerated, TimerPublishesFresh

-----------------------------------------------------------------------------
LEMMA PipelineInitInv == PipelineInit => PipelineInv
<1> SUFFICES ASSUME PipelineInit PROVE PipelineInv
  OBVIOUS
<1> USE LimitAssumption DEF PipelineInit, Init, HistoryInit, ProjectionInit
<1>1. ProjectionInv
  BY HistoryInitInv
<1>2. PipelineTypes
  <2>1. traced \subseteq Label \X Position /\ clearedCells \subseteq Cell
    OBVIOUS
  <2> QED BY <1>1, <2>1 DEF PipelineTypes, PipelineTypeOK, ProjectionInv
<1>3. PromotedInv /\ MessagesInv
  BY DEF PromotedInv, MessagesInv
<1>4. CellsInv
  BY DEF CellsInv, EmptyGrid, NoEvidence
<1> QED BY <1>1, <1>2, <1>3, <1>4 DEF PipelineInv

(* What was traced stays so.                                               *)
LEMMA TracedStays ==
  ASSUME UNCHANGED traced \/ \E l \in Label, p \in Position : Detect(l, p)
  PROVE  /\ traced \subseteq traced'
         /\ \A l \in Label, p \in Position : Traced(l, p) => Traced(l, p)'
         /\ \A regions : TracedMessage(regions) => TracedMessage(regions)'
<1>1. traced \subseteq traced'
  BY DEF Detect, Trace
<1> QED BY <1>1 DEF TracedMessage, Traced

(* So are the cells of a map that does not change.                         *)
LEMMA CellsStay ==
  ASSUME PipelineInv, UNCHANGED vars,
         UNCHANGED traced \/ \E l \in Label, p \in Position : Detect(l, p)
  PROVE  CellsInv'
<1>1. UNCHANGED <<raw, travCandidate, evidence, travEvidence, clearedCells>>
  BY DEF vars, inputs, masks, grids, published
<1>2. ASSUME NEW c, TracedCell(c) PROVE TracedCell(c)'
  BY <1>1, <1>2, TracedStays DEF TracedCell, CoveredIn, Traced
<1> QED BY <1>1, <1>2 DEF PipelineInv, CellsInv

(* A message is well typed and has the footprints of its regions.          *)
LEMMA MessageFacts ==
  ASSUME NEW regions \in SUBSET SemanticRegion
  PROVE  /\ Message(regions) \in SUBSET Region
         /\ \A m \in Message(regions) : \E r \in regions :
              r.label \in Label /\ r.at \in Position /\ m.footprint = Covers[r.at]
<1>1. ASSUME NEW r \in regions
      PROVE  r.label \in Label /\ r.at \in Position
  BY DEF SemanticRegion
<1> QED BY <1>1, CoversAssumption DEF Message

LEMMA DetectStep ==
  ASSUME PipelineInv, HoldTime # 0, NEW l \in Label, NEW p \in Position, Detect(l, p)
  PROVE  PipelineInv'
<1> USE LimitAssumption
<1>1. ProjectionInv'
  BY PipelineIsHistory, HistoryStep DEF PipelineInv, PipelineNext, NoDetection
<1>3. /\ \A k \in Label, q \in Position : Traced(k, q) => Traced(k, q)'
      /\ \A regions : TracedMessage(regions) => TracedMessage(regions)'
  BY TracedStays
<1>4. traced' \subseteq Label \X Position
  BY DEF Detect, Trace, PipelineInv, PipelineTypes, PipelineTypeOK
<1>5. PublishRegions(PendingAfter(l, p), CacheAfter(l, p)) /\ Saw(l, p) /\ ProjectionInv
  BY DEF Detect, OnDetection, PipelineInv
<1>6. /\ pendingRegions \in [Label -> CachedRegion \cup {NoRegion}]
      /\ regionCache \in [Label -> CachedRegion \cup {NoRegion}]
  BY DEF PipelineInv, ProjectionInv, ProjectionTypeOK
<1>7. /\ Counted(l, p) \in CachedRegion /\ Counted(l, p).at = p
      /\ Counted(l, p).hits \in runs'[l][p]
  BY <1>5, CountedRuns
<1>9. ASSUME NEW k \in Label, regionCache'[k] # NoRegion
      PROVE  Traced(k, regionCache[k].at)'
  <2>1. regionCache'[k] = CacheAfter(l, p)[k] /\ regionCache'[k] \in CachedRegion
    BY <1>1, <1>5, <1>9, MemoryAfter, UnexpiredKeeps
       DEF PublishRegions, ProjectionInv, ProjectionTypeOK
  <2>2. CASE regionCache'[k] = regionCache[k]
    BY <1>3, <1>9, <2>1, <2>2 DEF PipelineInv, PromotedInv, CachedRegion
  <2>3. CASE k = l /\ OfHeldRegion(l, p) /\ regionCache'[k] = Sighted(p, RequiredHits)
    <3>1. /\ regionCache[l] \in CachedRegion /\ SameObject(p, regionCache[l].at)
          /\ Traced(l, regionCache[l].at)
      BY <1>6, <2>3 DEF PipelineInv, PromotedInv, OfHeldRegion
    <3>2. <<l, p>> \in traced'
      BY <3>1 DEF Detect, Trace, Traced, CachedRegion
    <3> QED BY <2>3, <3>2 DEF Traced, Sighted
  <2>4. CASE k = l /\ Confirmed(l, p) /\ regionCache'[k] = Counted(l, p)
    <3>1. Counted(l, p).hits = RequiredHits
      BY <1>7, <2>4 DEF Confirmed, CachedRegion
    <3>2. <<l, p>> \in traced'
      BY <1>7, <3>1 DEF Detect, Trace
    <3> QED BY <1>7, <2>4, <3>2 DEF Traced
  <2> QED BY <1>6, <2>1, <2>2, <2>3, <2>4 DEF CacheAfter
<1>10. ASSUME NEW r \in publishedRegions'
       PROVE  Traced(r.label, r.at)'
  <2>1. PICK k \in Label :
          regionCache'[k] # NoRegion /\ r = [label |-> k, at |-> regionCache'[k].at]
    BY <1>5 DEF PublishRegions
  <2> QED BY <1>9, <2>1
<1>11. PromotedInv'
  BY <1>9, <1>10 DEF PromotedInv
<1>12. regionsTopic' \in SUBSET Region /\ TracedMessage(regionsTopic)'
  <2>1. publishedRegions' \in SUBSET SemanticRegion
    BY <1>1 DEF ProjectionInv, ProjectionTypeOK
  <2>2. regionsTopic' = Message(publishedRegions')
    BY DEF Detect
  <2> QED BY <1>10, <2>1, <2>2, MessageFacts DEF TracedMessage
<1>13. UNCHANGED <<raw, latestRegions, clearedCells, robot, localized>>
  BY DEF Detect, vars, inputs, published, world
<1>14. PipelineTypes'
  BY <1>1, <1>4, <1>12, <1>13
     DEF PipelineInv, PipelineTypes, PipelineTypeOK, ProjectionInv
<1>15. MessagesInv'
  <2>1. latestRegions' # NoRegions => TracedMessage(latestRegions)'
    BY <1>3, <1>13 DEF PipelineInv, MessagesInv
  <2> QED BY <1>12, <2>1 DEF MessagesInv
<1>16. CellsInv'
  BY CellsStay DEF Detect
<1> QED BY <1>1, <1>11, <1>14, <1>15, <1>16 DEF PipelineInv

(* A timer message repeats what is held.                                   *)
LEMMA RepublishStep ==
  ASSUME PipelineInv, Republish
  PROVE  PipelineInv'
<1>1. ProjectionInv'
  BY PipelineIsHistory, HistoryStep DEF PipelineInv, PipelineNext, NoDetection
<1>2. PublishRegions(pendingRegions, regionCache)
  BY DEF Republish, PublishTimer
<1>3. UNCHANGED <<traced, vars, robot, localized>>
  BY DEF Republish, history, world
<1>4. UNCHANGED <<raw, latestRegions, clearedCells>>
  BY <1>3 DEF vars, inputs, published
<1>5. /\ \A l \in Label, p \in Position : Traced(l, p) => Traced(l, p)'
      /\ \A regions : TracedMessage(regions) => TracedMessage(regions)'
  BY <1>3 DEF Traced, TracedMessage
<1>6. /\ pendingRegions \in [Label -> CachedRegion \cup {NoRegion}]
      /\ regionCache \in [Label -> CachedRegion \cup {NoRegion}]
  BY DEF PipelineInv, ProjectionInv, ProjectionTypeOK
<1>8. ASSUME NEW l \in Label, regionCache'[l] # NoRegion
      PROVE  Traced(l, regionCache[l].at)'
  <2>1. regionCache'[l] = regionCache[l] /\ regionCache[l] \in CachedRegion
    BY <1>2, <1>6, <1>8, UnexpiredKeeps DEF PublishRegions
  <2> QED BY <1>3, <1>8, <2>1 DEF Traced, PipelineInv, PromotedInv
<1>9. ASSUME NEW r \in publishedRegions'
      PROVE  Traced(r.label, r.at)'
  <2>1. PICK l \in Label :
          regionCache'[l] # NoRegion /\ r = [label |-> l, at |-> regionCache'[l].at]
    BY <1>2 DEF PublishRegions
  <2> QED BY <1>8, <2>1
<1>10. PromotedInv'
  BY <1>8, <1>9 DEF PromotedInv
<1>11. regionsTopic' \in SUBSET Region /\ TracedMessage(regionsTopic)'
  <2>1. publishedRegions' \in SUBSET SemanticRegion
    BY <1>1 DEF ProjectionInv, ProjectionTypeOK
  <2>2. regionsTopic' = Message(publishedRegions')
    BY DEF Republish
  <2> QED BY <1>9, <2>1, <2>2, MessageFacts DEF TracedMessage
<1>12. PipelineTypes'
  BY <1>1, <1>3, <1>4, <1>11 DEF PipelineInv, PipelineTypes, PipelineTypeOK, ProjectionInv
<1>13. MessagesInv'
  <2>1. latestRegions' # NoRegions => TracedMessage(latestRegions)'
    BY <1>4, <1>5 DEF PipelineInv, MessagesInv
  <2> QED BY <1>11, <2>1 DEF MessagesInv
<1>14. CellsInv'
  BY <1>3, CellsStay
<1> QED BY <1>1, <1>10, <1>12, <1>13, <1>14 DEF PipelineInv

(* Time changes no more than ages.                                         *)
LEMMA ClockStep ==
  ASSUME PipelineInv, ClockTicks
  PROVE  PipelineInv'
<1>1. ProjectionInv'
  BY PipelineIsHistory, HistoryStep DEF PipelineInv, PipelineNext, NoDetection
<1>2. UNCHANGED <<traced, vars, robot, localized, regionsTopic, publishedRegions>>
  BY DEF ClockTicks, world, TimePasses
<1>3. UNCHANGED <<raw, latestRegions, clearedCells>>
  BY <1>2 DEF vars, inputs, published
<1>4. /\ pendingRegions \in [Label -> CachedRegion \cup {NoRegion}]
      /\ regionCache \in [Label -> CachedRegion \cup {NoRegion}]
  BY DEF PipelineInv, ProjectionInv, ProjectionTypeOK
<1>5. pendingRegions' = Older(pendingRegions) /\ regionCache' = Older(regionCache)
  BY DEF ClockTicks, TimePasses
<1>7. ASSUME NEW l \in Label, regionCache'[l] # NoRegion
      PROVE  Traced(l, regionCache[l].at)'
  BY <1>2, <1>4, <1>5, <1>7, OlderAges DEF PipelineInv, PromotedInv, Traced
<1>8. PromotedInv'
  BY <1>2, <1>7 DEF PromotedInv, PipelineInv, Traced
<1>9. PipelineTypes' /\ MessagesInv'
  BY <1>1, <1>2, <1>3 DEF PipelineInv, PipelineTypes, PipelineTypeOK, ProjectionInv, MessagesInv,
                          TracedMessage, Traced
<1>10. CellsInv'
  BY <1>2, CellsStay
<1> QED BY <1>1, <1>8, <1>9, <1>10 DEF PipelineInv

LEMMA WorldStep ==
  ASSUME PipelineInv, Move \/ Localize \/ UNCHANGED pipelineVars
  PROVE  PipelineInv'
<1>1. ProjectionInv'
  BY PipelineIsHistory, HistoryStep DEF PipelineInv, PipelineNext, NoDetection
<1>2. UNCHANGED <<traced, vars, regionsTopic, projectionVars>>
  BY DEF Move, Localize, pipelineVars, history
<1>3. UNCHANGED <<raw, latestRegions, clearedCells, pendingRegions, regionCache, publishedRegions>>
  BY <1>2 DEF vars, inputs, published, projectionVars
<1>4. robot' \in Pose /\ localized' \in BOOLEAN
  BY DEF Move, Localize, pipelineVars, world, PipelineInv, PipelineTypes, PipelineTypeOK
<1>5. PipelineTypes'
  BY <1>1, <1>2, <1>3, <1>4
     DEF PipelineInv, PipelineTypes, PipelineTypeOK, ProjectionInv
<1>6. PromotedInv' /\ MessagesInv'
  BY <1>2, <1>3 DEF PipelineInv, PromotedInv, MessagesInv, TracedMessage, Traced
<1>7. CellsInv'
  BY <1>2, CellsStay
<1> QED BY <1>1, <1>5, <1>6, <1>7 DEF PipelineInv

-----------------------------------------------------------------------------
(* The updater in the pipeline.                                            *)

(* A cell of a traversable mask is covered by a traced place.              *)
LEMMA MaskTraced ==
  ASSUME NEW regions, TracedMessage(regions), NEW g, NEW c \in TraversableMask(regions, g)
  PROVE  CoveredIn(c, g)
<1>1. PICK r \in regions : c \in r.footprint[g]
  BY DEF TraversableMask, Footprints
<1> QED BY <1>1 DEF TracedMessage, CoveredIn

(* Only a confirmed traversable cell is cleared.                           *)
LEMMA PublishedCells ==
  ASSUME PublishMaps, \A c \in Cell : ~evidence'[c].cleared
  PROVE  /\ clearedCells' \subseteq Cell
         /\ \A c \in clearedCells' : travEvidence'[c].cleared
BY DEF PublishMaps, Overridden, IsCandidateOccupied

(* A step of the updater leaves the node and the history alone.            *)
LEMMA UpdaterFrame ==
  ASSUME PipelineInv, UNCHANGED <<projectionVars, world, history>>
  PROVE  /\ ProjectionInv' /\ PromotedInv'
         /\ UNCHANGED <<traced, robot, localized>>
         /\ \A regions : TracedMessage(regions) => TracedMessage(regions)'
<1>1. UNCHANGED historyVars /\ UNCHANGED <<traced, robot, localized>>
  BY DEF history, historyVars, world
<1>2. ProjectionInv'
  BY <1>1, HistoryStep DEF PipelineInv
<1> QED BY <1>1, <1>2 DEF projectionVars, PipelineInv, PromotedInv, TracedMessage, Traced

LEMMA TakeRegionsStep ==
  ASSUME PipelineInv, TakeRegions
  PROVE  PipelineInv'
<1> DEFINE ok == Known(regionsTopic)
           pose == IF localized THEN robot ELSE NoPose
<1>1. ProjectionInv' /\ PromotedInv' /\ UNCHANGED <<traced, robot, localized>>
  BY UpdaterFrame DEF TakeRegions
<1>2. /\ regionsTopic \in SUBSET Region /\ TracedMessage(regionsTopic)
      /\ OnSemanticRegions(regionsTopic, ok, ok, pose)
  BY DEF TakeRegions, PipelineInv, PipelineTypes, PipelineTypeOK, MessagesInv
<1>3. /\ latestRegions' = regionsTopic /\ raw' = raw /\ regionsTopic' = NoMessage
  BY <1>2 DEF TakeRegions, OnSemanticRegions
<1>4. MessagesInv'
  BY <1>1, <1>2, <1>3 DEF MessagesInv, TracedMessage, Traced
<1>5. ASSUME NEW c, TracedCell(c) PROVE TracedCell(c)'
  BY <1>1, <1>3, <1>5 DEF TracedCell, CoveredIn, Traced
<1>6. CellsInv' /\ clearedCells' \subseteq Cell
  <2>1. CASE raw = NoMap
    <3>1. UNCHANGED <<travCandidate, evidence, travEvidence, clearedCells>>
      BY <1>2, <2>1 DEF OnSemanticRegions, masks, grids, published
    <3> QED
      BY <1>3, <1>5, <3>1 DEF PipelineInv, CellsInv, PipelineTypes, PipelineTypeOK
  <2>2. CASE raw # NoMap
    <3>1. /\ RebuildMasks(ok, ok) /\ PublishMaps
          /\ travEvidence' = ConfirmTraversable(KeptTraversable, travCandidate', pose)
      BY <1>2, <2>2 DEF OnSemanticRegions
    <3>2. ASSUME NEW c \in travCandidate' PROVE TracedCell(c)
      <4>1. CASE raw.geometry \in Degenerate
        BY <3>1, <3>2, <4>1 DEF RebuildMasks, masks, PipelineInv, CellsInv
      <4>2. CASE raw.geometry \notin Degenerate
        <5>1. TracedMessage(ok) /\ travCandidate' = TraversableMask(ok, raw.geometry)
          BY <1>2, <3>1, <4>2 DEF RebuildMasks, Known, TracedMessage
        <5> QED BY <3>2, <5>1, MaskTraced DEF TracedCell, PipelineInv
      <4> QED BY <4>1, <4>2
    <3>3. \A c \in Cell : ~evidence'[c].cleared
      BY <3>1 DEF RebuildMasks, ResetOutside, NoEvidence, PipelineInv, CellsInv
    <3>4. ASSUME NEW c \in Cell, travEvidence'[c].cleared PROVE TracedCell(c)
      <4>1. CASE c \in travCandidate'
        BY <3>2, <4>1
      <4>2. CASE c \notin travCandidate'
        <5>1. travEvidence'[c] = KeptTraversable[c]
          BY <3>1, <4>2 DEF ConfirmTraversable, IsCandidateOccupied
        <5>2. travEvidence[c].cleared
          BY <3>4, <5>1 DEF KeptTraversable, ResetOutside, NoEvidence
        <5> QED BY <5>2 DEF PipelineInv, CellsInv
      <4> QED BY <4>1, <4>2
    <3>5. clearedCells' \subseteq Cell /\ \A c \in clearedCells' : travEvidence'[c].cleared
      BY <3>1, <3>3, PublishedCells
    <3> QED BY <1>3, <1>5, <2>2, <3>2, <3>3, <3>4, <3>5 DEF CellsInv
  <2> QED BY <2>1, <2>2
<1>7. PipelineTypes'
  BY <1>1, <1>2, <1>3, <1>6
     DEF PipelineInv, PipelineTypes, PipelineTypeOK, ProjectionInv
<1> QED BY <1>1, <1>4, <1>6, <1>7 DEF PipelineInv

LEMMA TakeMapStep ==
  ASSUME PipelineInv, NEW map \in RawMap, TakeMap(map)
  PROVE  PipelineInv'
<1> DEFINE ok == Known(latestRegions)
<1>1. ProjectionInv' /\ PromotedInv' /\ UNCHANGED <<traced, robot, localized>>
  BY UpdaterFrame DEF TakeMap
<1>2. OnRawMap(map, ok, ok) /\ UNCHANGED regionsTopic
  BY DEF TakeMap
<1>3. raw' = map /\ raw' # NoMap /\ UNCHANGED latestRegions /\ PublishMaps
  BY <1>2, MessageAssumption DEF OnRawMap, NewGeometry, SameGeometry
<1>4. MessagesInv'
  BY <1>1, <1>2, <1>3 DEF PipelineInv, MessagesInv, TracedMessage, Traced
<1>5. /\ \A c \in travCandidate' : TracedCell(c)'
      /\ \A c \in Cell : travEvidence'[c].cleared => TracedCell(c)'
      /\ \A c \in Cell : ~evidence'[c].cleared
  <2>1. CASE GeometryChanged(map)
    <3>1. NewGeometry(map, ok, ok)
      BY <1>2, <2>1 DEF OnRawMap
    <3>2. ASSUME NEW c \in travCandidate' PROVE TracedCell(c)'
      <4>1. /\ latestRegions # NoRegions /\ map.geometry \notin Degenerate
            /\ travCandidate' = TraversableMask(ok, map.geometry)
        BY <3>1, <3>2 DEF NewGeometry
      <4>2. TracedMessage(ok)
        BY <4>1 DEF Known, TracedMessage, PipelineInv, MessagesInv
      <4>3. CoveredIn(c, map.geometry)
        BY <3>2, <4>1, <4>2, MaskTraced DEF PipelineInv
      <4> QED BY <1>1, <1>3, <4>3 DEF TracedCell, CoveredIn, Traced
    <3> QED BY <3>1, <3>2 DEF NewGeometry, EmptyGrid, NoEvidence
  <2>2. CASE ~GeometryChanged(map)
    <3>1. SameGeometry(map) /\ raw # NoMap /\ raw.geometry = map.geometry
      BY <1>2, <2>2 DEF OnRawMap, GeometryChanged
    <3>2. ASSUME NEW c, TracedCell(c) PROVE TracedCell(c)'
      BY <1>1, <1>3, <3>1, <3>2 DEF TracedCell, CoveredIn, Traced
    <3> QED
      BY <3>1, <3>2
         DEF SameGeometry, masks, ResetOutside, NoEvidence, PipelineInv, CellsInv
  <2> QED BY <2>1, <2>2
<1>6. CellsInv' /\ clearedCells' \subseteq Cell
  BY <1>3, <1>5, PublishedCells DEF CellsInv
<1>7. PipelineTypes'
  BY <1>1, <1>2, <1>3, <1>6
     DEF PipelineInv, PipelineTypes, PipelineTypeOK, ProjectionInv
<1> QED BY <1>1, <1>4, <1>6, <1>7 DEF PipelineInv

LEMMA PipelineStep ==
  ASSUME PipelineInv, HoldTime # 0, [PipelineNext]_pipelineVars
  PROVE  PipelineInv'
BY DetectStep, RepublishStep, ClockStep, WorldStep, TakeRegionsStep, TakeMapStep
   DEF PipelineNext, NoDetection, NoDetection

(* The inductive invariant of the pipeline.  HoldTime = 0 switches the     *)
(* memory of the node, and with it every confirmation, off.                *)
THEOREM PipelineInvariant ==
  ASSUME HoldTime # 0
  PROVE  PipelineSpec => []PipelineInv
BY PipelineInitInv, PipelineStep, PTL DEF PipelineSpec

(* Only cells at confirmed places, or within the match distance of them    *)
(* step by step, are opened, for every grid and limit.                     *)
THEOREM CellsOpenWhereConfirmed ==
  ASSUME HoldTime # 0
  PROVE  PipelineSpec => []OpenedWhereConfirmed
<1>1. PipelineInv => OpenedWhereConfirmed
  BY DEF PipelineInv, CellsInv, TracedCell, CoveredIn, Traced, OpenedWhereConfirmed
<1> QED BY <1>1, PipelineInvariant, PTL

-----------------------------------------------------------------------------
(* What does not depend on the memory of the node: the types, and that the *)
(* updater runs as its own specification says.                             *)
LEMMA TypesStep ==
  ASSUME ProjectionInv', PipelineTypes, [PipelineNext]_pipelineVars
  PROVE  PipelineTypes'
<1> USE DEF PipelineTypes, PipelineTypeOK
<1>1. ProjectionTypeOK'
  BY DEF ProjectionInv
<1>2. regionsTopic' = NoMessage \/ regionsTopic' \in SUBSET Region
  <2>1. regionsTopic' \in {NoMessage, regionsTopic, Message(publishedRegions')}
    BY DEF PipelineNext, NoDetection, Detect, Republish, ClockTicks, TakeRegions, TakeMap,
           Move, Localize,
           pipelineVars
  <2>2. Message(publishedRegions') \in SUBSET Region
    BY <1>1, MessageFacts DEF ProjectionTypeOK
  <2> QED BY <2>1, <2>2
<1>3. robot' \in Pose /\ localized' \in BOOLEAN
  BY DEF PipelineNext, NoDetection, Detect, Republish, ClockTicks, TakeRegions, TakeMap, Move,
         Localize,
         pipelineVars, world
<1>4. traced' \subseteq Label \X Position
  <2>1. ASSUME NEW l \in Label, NEW p \in Position, Detect(l, p)
        PROVE  traced' \subseteq Label \X Position
    BY <2>1 DEF Detect, Trace
  <2>2. CASE UNCHANGED traced
    BY <2>2
  <2> QED BY <2>1, <2>2 DEF PipelineNext, NoDetection, Republish, ClockTicks, TakeRegions,
                            TakeMap, Move,
                            Localize, pipelineVars, history
<1>5. /\ raw' \in RawMap \cup {NoMap}
      /\ latestRegions' = NoRegions \/ latestRegions' \in SUBSET Region
      /\ clearedCells' \subseteq Cell
  <2>1. CASE UNCHANGED vars
    BY <2>1 DEF vars, inputs, published
  <2>2. CASE TakeRegions
    BY <2>2 DEF TakeRegions, OnSemanticRegions, PublishMaps, Overridden, published
  <2>3. ASSUME NEW map \in RawMap, TakeMap(map)
        PROVE  /\ raw' = map /\ latestRegions' = latestRegions
               /\ clearedCells' \subseteq Cell
    BY <2>3 DEF TakeMap, OnRawMap, NewGeometry, SameGeometry, PublishMaps, Overridden
  <2> QED BY <2>1, <2>2, <2>3
          DEF PipelineNext, NoDetection, Detect, Republish, ClockTicks, Move, Localize, pipelineVars
<1> QED BY <1>1, <1>2, <1>3, <1>4, <1>5

LEMMA PipelineTyped == PipelineSpec => []PipelineTypes
<1>1. PipelineInit => PipelineTypes
  BY PipelineInitInv DEF PipelineInv
<1>2. PipelineSpec => []ProjectionInv
  BY PipelineKeepsPromises, ProjectionInvariant, PTL
<1> QED BY <1>1, <1>2, TypesStep, PTL DEF PipelineSpec

(* Every variable of the pipeline keeps its type.                          *)
THEOREM PipelineTypesHold == PipelineSpec => []PipelineTypeOK
<1>1. PipelineTypes => PipelineTypeOK
  BY DEF PipelineTypes
<1> QED BY <1>1, PipelineTyped, PTL

LEMMA KnownTransformed ==
  ASSUME TransformsMayFail = TRUE, NEW regions
  PROVE  Known(regions) \in Transformed(regions)
BY DEF Known, Transformed

LEMMA PipelineIsUpdater ==
  ASSUME TransformsMayFail = TRUE, PipelineTypes, [PipelineNext]_pipelineVars
  PROVE  [Next]_vars
<1>1. CASE UNCHANGED vars
  BY <1>1
<1>2. CASE TakeRegions
  <2>1. regionsTopic \in SUBSET Region
    BY <1>2 DEF TakeRegions, PipelineTypes, PipelineTypeOK
  <2>2. (IF localized THEN robot ELSE NoPose) \in Pose \cup {NoPose}
    BY DEF PipelineTypes, PipelineTypeOK
  <2>3. Known(regionsTopic) \in Transformed(regionsTopic)
    BY KnownTransformed
  <2> QED BY <1>2, <2>1, <2>2, <2>3 DEF TakeRegions, Next
<1>3. ASSUME NEW map \in RawMap, TakeMap(map) PROVE Next
  <2>1. Known(latestRegions) \in Transformed(latestRegions)
    BY KnownTransformed
  <2> QED BY <1>3, <2>1 DEF TakeMap, Next
<1> QED BY <1>1, <1>2, <1>3
        DEF PipelineNext, NoDetection, Detect, Republish, ClockTicks, Move, Localize, pipelineVars

(* Whatever the projection node publishes, when it does and where the      *)
(* robot is, the updater takes only steps of its own specification, in     *)
(* which the frames of regions may be unknown.                             *)
THEOREM PipelineRunsUpdater ==
  ASSUME TransformsMayFail = TRUE
  PROVE  PipelineSpec => Spec
<1>1. PipelineTypes /\ [PipelineNext]_pipelineVars => [Next]_vars
  BY PipelineIsUpdater
<1>2. PipelineInit => Init
  BY DEF PipelineInit
<1> QED BY <1>1, <1>2, PipelineTyped, PTL DEF PipelineSpec, Spec

=============================================================================
