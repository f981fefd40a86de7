-------------------------- MODULE DynamicMapProofs --------------------------
(***************************************************************************)
(* What the history module checks on a small corridor, proved for every    *)
(* grid, every set of messages and every threshold.                        *)
(***************************************************************************)
EXTENDS DynamicMapHistory, FiniteSetTheorems, TLAPS

(* A capped counter stays in range and capping is monotone.                *)
LEMMA CapHitsFacts ==
  ASSUME NEW m \in Nat, NEW n \in Nat
  PROVE  /\ CapHits(m) \in 0 .. HitCap
         /\ m <= n => CapHits(m) <= CapHits(n)
         /\ n >= MinHits => CapHits(n) >= MinHits
         /\ n >= MinObservations => CapHits(n) >= MinObservations
BY CountAssumption DEF CapHits

LEMMA NoEvidenceFacts ==
  ASSUME NEW s \in Sightings, NEW h \in Nat, NEW p \in Nat
  PROVE  NoEvidence \in CellEvidence /\ Sound(NoEvidence, s, h, p)
BY CountAssumption
   DEF NoEvidence, CellEvidence, Sound, FarApart, Sightings

(* Adding evidence from a pose to a cell that was seen from that pose at   *)
(* least as often keeps the evidence well typed and sound.                 *)
LEMMA AddEvidenceSound ==
  ASSUME NEW e \in CellEvidence, NEW s \in Sightings,
         NEW n \in Nat, NEW pose \in Pose, NEW h \in Nat, NEW p \in Nat,
         Sound(e, s, h, p)
  PROVE  /\ AddEvidence(e, n, pose, h, p) \in CellEvidence
         /\ Seen(s, n, pose) \in Sightings
         /\ Sound(AddEvidence(e, n, pose, h, p), Seen(s, n, pose), h, p)
<1> DEFINE a == AddEvidence(e, n, pose, h, p)
           t == Seen(s, n, pose)
           poses == IF IsDistinctPose(e, pose) THEN e.poses \cup {pose} ELSE e.poses
<1>1. /\ e.hits \in 0 .. HitCap /\ e.poses \subseteq Pose
      /\ s.count \in 0 .. HitCap /\ s.from \subseteq Pose
      /\ e.hits <= s.count /\ e.poses \subseteq s.from /\ FarApart(e.poses)
  BY DEF CellEvidence, Sightings, Sound
<1>2. /\ a = [hits |-> CapHits(e.hits + n), poses |-> poses,
              cleared |-> CapHits(e.hits + n) >= h /\ Cardinality(poses) >= p]
      /\ t = [count |-> CapHits(s.count + n), from |-> s.from \cup {pose}]
  BY DEF AddEvidence, Seen
<1>3. /\ CapHits(e.hits + n) \in 0 .. HitCap
      /\ CapHits(s.count + n) \in 0 .. HitCap
      /\ CapHits(e.hits + n) <= CapHits(s.count + n)
  BY <1>1, CapHitsFacts, CountAssumption
<1>4. poses \subseteq s.from \cup {pose} /\ poses \subseteq Pose
  BY <1>1
<1>5. FarApart(poses)
  BY <1>1, CloseAssumption DEF FarApart, IsDistinctPose
<1>6. a \in CellEvidence /\ t \in Sightings
  BY <1>1, <1>2, <1>3, <1>4 DEF CellEvidence, Sightings
<1>7. Sound(a, t, h, p)
  <2> HIDE DEF a, t, poses
  <2>1. /\ a.hits = CapHits(e.hits + n) /\ a.poses = poses
        /\ a.cleared = (CapHits(e.hits + n) >= h /\ Cardinality(poses) >= p)
        /\ t.count = CapHits(s.count + n) /\ t.from = s.from \cup {pose}
    BY <1>2
  <2> QED BY <2>1, <1>3, <1>4, <1>5 DEF Sound
<1> QED BY <1>6, <1>7

(* Seeing a cell again keeps its evidence sound.                           *)
LEMMA SeenMore ==
  ASSUME NEW e \in CellEvidence, NEW s \in Sightings,
         NEW n \in Nat, NEW pose \in Pose, NEW h \in Nat, NEW p \in Nat,
         Sound(e, s, h, p)
  PROVE  Seen(s, n, pose) \in Sightings /\ Sound(e, Seen(s, n, pose), h, p)
<1>1. CapHits(s.count + n) \in 0 .. HitCap /\ s.count <= CapHits(s.count + n)
  BY CountAssumption DEF CapHits, Sightings
<1> QED BY <1>1, CountAssumption DEF Seen, Sightings, Sound, CellEvidence

(* A scan is a finite sequence, so the rays crossing a cell can be counted.*)
LEMMA CrossingsFinite ==
  ASSUME NEW scan \in Scans, NEW c \in Cell
  PROVE  /\ IsFiniteSet(Crossings(scan, c))
         /\ Cardinality(Crossings(scan, c)) \in Nat
<1>1. PICK n \in 1 .. MaxRays : scan \in [1 .. n -> Ray]
  BY DEF Scans
<1>2. IsFiniteSet(1 .. n)
  BY FS_Interval, CountAssumption
<1>3. Crossings(scan, c) \subseteq 1 .. n
  BY <1>1 DEF Crossings
<1> QED BY <1>2, <1>3, FS_Subset, FS_CardinalityType

(* The node and the history agree on which rays of a scan cross a cell     *)
(* and on whether the scan contradicts it.                                 *)
LEMMA CrossingsAreSeen ==
  ASSUME NEW scan \in Scans, NEW c \in Cell
  PROVE  Crossings(scan, c) =
           {i \in DOMAIN scan :
              /\ c \in scan[i].free
              /\ ~ \E j \in DOMAIN scan : j > i /\ scan[j].end = c}
<1>1. PICK n \in 1 .. MaxRays : scan \in [1 .. n -> Ray]
  BY DEF Scans
<1>2. \A i, j \in DOMAIN scan : j <= i <=> ~ (j > i)
  BY <1>1, CountAssumption
<1> QED BY <1>2 DEF Crossings

(* A region set that passed the transforms only proposes what the message  *)
(* proposes.                                                               *)
LEMMA MasksInsideProposals ==
  ASSUME NEW regions, NEW ok \in SUBSET regions, NEW g,
         regions \subseteq Region, g \in Geometry
  PROVE  /\ DynamicMask(ok, g) = ProposedDynamic(ok, g)
         /\ DynamicMask(ok, g) \subseteq Cell
         /\ DynamicMask(ok, g) \subseteq ProposedDynamic(regions, g)
         /\ TraversableMask(ok, g) \subseteq Cell
         /\ TraversableMask(ok, g) \subseteq ProposedTraversable(regions, g)
<1>1. \A r \in Region : r.footprint[g] \subseteq Cell
  BY MessageAssumption DEF RegionMessage
<1> QED
  BY <1>1 DEF DynamicMask, TraversableMask, Footprints, UseTraversableRegion,
              ProposedDynamic, ProposedTraversable

LEMMA TransformedSubset ==
  ASSUME NEW regions, NEW ok \in Transformed(regions),
         regions = NoRegions \/ regions \in SUBSET Region
  PROVE  IF regions = NoRegions THEN ok = {} ELSE ok \in SUBSET regions
BY DEF Transformed

LEMMA PublishFacts ==
  ASSUME raw' \in RawMap, PublishMaps
  PROVE  /\ PublishedCurrent'
         /\ clearedCells' \in SUBSET Cell
         /\ cleaned' \in [Cell -> Value]
<1>1. raw'.data \in [Cell -> Value]
  BY MessageAssumption DEF MapMessage
<1>2. clearedCells' \in SUBSET Cell
  BY DEF PublishMaps, Overridden
<1>3. cleaned' \in [Cell -> Value]
  BY <1>1 DEF PublishMaps, Value
<1> QED BY <1>2, <1>3 DEF PublishMaps, PublishedCurrent

LEMMA InitUpdaterInv == HInit => UpdaterInv
<1> SUFFICES ASSUME HInit PROVE UpdaterInv
  OBVIOUS
<1>1. NoSighting \in Sightings
  BY CountAssumption DEF NoSighting, Sightings
<1>2. \A s \in Sightings, h, p \in Nat :
        NoEvidence \in CellEvidence /\ Sound(NoEvidence, s, h, p)
  BY NoEvidenceFacts
<1>3. TypeOK
  BY <1>1, <1>2, CountAssumption DEF TypeOK, HInit, Init, EmptyGrid
<1>4. EvidenceSound
  BY <1>1, <1>2, CountAssumption DEF EvidenceSound, HInit, Init, EmptyGrid
<1>5. EvidencePlaced /\ DegenerateUnmasked /\ MasksProposed /\ PublishedCurrent
  BY DEF EvidencePlaced, DegenerateUnmasked, MasksProposed, PublishedCurrent,
         HInit, Init, EmptyGrid
<1> QED BY <1>3, <1>4, <1>5 DEF UpdaterInv

(* Forgetting a cell's evidence is sound whatever is kept of its history.  *)
LEMMA ResetSound ==
  ASSUME NEW grid \in [Cell -> CellEvidence], NEW seen \in [Cell -> Sightings],
         NEW keep, NEW h \in Nat, NEW p \in Nat,
         NEW seenAfter \in [Cell -> Sightings],
         \A c \in Cell : Sound(grid[c], seen[c], h, p),
         \A c \in Cell : c \in keep => seenAfter[c] = seen[c]
  PROVE  /\ ResetOutside(grid, keep) \in [Cell -> CellEvidence]
         /\ \A c \in Cell : Sound(ResetOutside(grid, keep)[c], seenAfter[c], h, p)
<1>1. \A s \in Sightings : NoEvidence \in CellEvidence /\ Sound(NoEvidence, s, h, p)
  BY NoEvidenceFacts
<1>2. ResetOutside(grid, keep) \in [Cell -> CellEvidence]
  BY <1>1 DEF ResetOutside
<1>3. ASSUME NEW c \in Cell
      PROVE  Sound(ResetOutside(grid, keep)[c], seenAfter[c], h, p)
  <2>1. CASE c \in keep
    BY <2>1 DEF ResetOutside
  <2>2. CASE c \notin keep
    BY <2>2, <1>1 DEF ResetOutside
  <2> QED BY <2>1, <2>2
<1> QED BY <1>2, <1>3

LEMMA RawMapStep ==
  ASSUME UpdaterInv,
         NEW map \in RawMap,
         NEW dynOk \in Transformed(latestRegions),
         NEW travOk \in Transformed(latestRegions),
         OnRawMap(map, dynOk, travOk), SeenMap(map, dynOk)
  PROVE  UpdaterInv'
<1> USE DEF UpdaterInv
<1> DEFINE keep == {c \in Cell : /\ raw # NoMap /\ raw.geometry = map.geometry
                                  /\ map.data[c] >= OccupiedThreshold}
<1>1. /\ raw' = map /\ latestRegions' = latestRegions /\ PublishMaps
      /\ raw' # NoMap /\ raw'.geometry \in Geometry
  BY MessageAssumption DEF OnRawMap, NewGeometry, SameGeometry, MapMessage
<1>2. PublishedCurrent' /\ clearedCells' \in SUBSET Cell /\ cleaned' \in [Cell -> Value]
  BY <1>1, PublishFacts
<1>3. NoSighting \in Sightings
  BY CountAssumption DEF NoSighting, Sightings
<1>4. /\ passed' \in [Cell -> Sightings]
      /\ confirmed' \in [Cell -> Sightings]
      /\ \A c \in keep : passed'[c] = passed[c] /\ confirmed'[c] = confirmed[c]
  BY <1>3 DEF SeenMap, TypeOK
<1>5. \A s \in Sightings, h, p \in Nat :
        NoEvidence \in CellEvidence /\ Sound(NoEvidence, s, h, p)
  BY NoEvidenceFacts
<1>6. CASE GeometryChanged(map)
  <2>1. evidence' = EmptyGrid /\ travEvidence' = EmptyGrid
    BY <1>6 DEF OnRawMap, NewGeometry
  <2>2. IF latestRegions = NoRegions
          THEN known' = {} /\ candidate' = {} /\ travCandidate' = {}
          ELSE /\ candidate' \in SUBSET Cell /\ travCandidate' \in SUBSET Cell
               /\ known' \in SUBSET Region /\ known' \subseteq latestRegions
               /\ candidate' = ProposedDynamic(known', map.geometry)
               /\ travCandidate' \subseteq ProposedTraversable(latestRegions, map.geometry)
               /\ map.geometry \in Degenerate => candidate' = {} /\ travCandidate' = {}
    <3>0. known' = IF map.geometry \in Degenerate THEN {} ELSE dynOk
      BY <1>6 DEF SeenMap, GeometryChanged
    <3>1. CASE latestRegions = NoRegions \/ map.geometry \in Degenerate
      <4>1. candidate' = {} /\ travCandidate' = {}
        BY <3>1, <1>6 DEF OnRawMap, NewGeometry
      <4>2. known' = {}
        BY <3>0, <3>1, TransformedSubset DEF TypeOK
      <4> QED BY <4>1, <4>2 DEF ProposedDynamic
    <3>2. CASE ~ (latestRegions = NoRegions \/ map.geometry \in Degenerate)
      <4>1. dynOk \in SUBSET latestRegions /\ travOk \in SUBSET latestRegions
        BY <3>2, TransformedSubset DEF TypeOK
      <4>2. /\ candidate' = DynamicMask(dynOk, map.geometry)
            /\ travCandidate' = TraversableMask(travOk, map.geometry)
        BY <3>2, <1>6 DEF OnRawMap, NewGeometry
      <4>3. known' = dynOk /\ latestRegions \subseteq Region
        BY <3>0, <3>2 DEF TypeOK
      <4> QED BY <3>2, <4>1, <4>2, <4>3, <1>1, MasksInsideProposals
    <3> QED BY <3>1, <3>2
  <2>3. TypeOK'
    BY <2>1, <2>2, <1>1, <1>2, <1>4, <1>5, CountAssumption DEF TypeOK, EmptyGrid
  <2>4. EvidenceSound'
    BY <2>1, <1>4, <1>5, CountAssumption DEF EvidenceSound, EmptyGrid
  <2>5. EvidencePlaced'
    BY <2>1 DEF EvidencePlaced, EmptyGrid
  <2>6. MasksProposed'
    BY <2>2, <1>1 DEF MasksProposed, ProposedDynamic, ProposedTraversable
  <2>7. DegenerateUnmasked'
    BY <2>2, <1>1 DEF DegenerateUnmasked
  <2> QED BY <2>3, <2>4, <2>5, <2>6, <2>7, <1>2
<1>7. CASE ~ GeometryChanged(map)
  <2> DEFINE occupied == {c \in Cell : IsOccupied(map, c)}
  <2>1. /\ raw # NoMap /\ raw.geometry = map.geometry
        /\ evidence' = ResetOutside(evidence, occupied)
        /\ travEvidence' = ResetOutside(travEvidence, occupied)
        /\ candidate' = candidate /\ travCandidate' = travCandidate /\ known' = known
    BY <1>7 DEF OnRawMap, SameGeometry, GeometryChanged, masks, SeenMap
  <2>2. occupied = keep
    BY <2>1 DEF IsOccupied
  <2>3. /\ evidence' \in [Cell -> CellEvidence]
        /\ \A c \in Cell : Sound(evidence'[c], passed'[c], MinHits, MinPoses)
    <3> HIDE DEF keep, occupied
    <3> QED BY <2>1, <2>2, <1>4, ResetSound, CountAssumption DEF TypeOK, EvidenceSound
  <2>4. /\ travEvidence' \in [Cell -> CellEvidence]
        /\ \A c \in Cell :
             Sound(travEvidence'[c], confirmed'[c], MinObservations, MinObservationPoses)
    <3> HIDE DEF keep, occupied
    <3> QED BY <2>1, <2>2, <1>4, ResetSound, CountAssumption DEF TypeOK, EvidenceSound
  <2>5. TypeOK' /\ EvidenceSound'
    BY <2>1, <2>3, <2>4, <1>1, <1>2, <1>4 DEF TypeOK, EvidenceSound
  <2>6. EvidencePlaced'
    BY <2>1, <1>1 DEF EvidencePlaced, ResetOutside, IsCandidateOccupied, IsOccupied
  <2>7. MasksProposed'
    BY <2>1, <1>1 DEF MasksProposed, ProposedDynamic, ProposedTraversable
  <2>8. DegenerateUnmasked'
    BY <2>1, <1>1 DEF DegenerateUnmasked
  <2> QED BY <2>5, <2>6, <2>7, <2>8, <1>2
<1> QED BY <1>6, <1>7

LEMMA RegionsStep ==
  ASSUME UpdaterInv,
         NEW regions \in SUBSET Region,
         NEW pose \in Pose \cup {NoPose},
         NEW dynOk \in Transformed(regions),
         NEW travOk \in Transformed(regions),
         OnSemanticRegions(regions, dynOk, travOk, pose),
         SeenRegions(regions, dynOk, pose)
  PROVE  UpdaterInv'
<1> USE DEF UpdaterInv
<1>1. raw' = raw /\ latestRegions' = regions /\ regions # NoRegions
  BY MessageAssumption DEF OnSemanticRegions
<1>2. CASE raw = NoMap
  <2>1. UNCHANGED <<candidate, travCandidate, evidence, travEvidence,
                    cleaned, clearedCells, known, passed, confirmed>>
    BY <1>2 DEF OnSemanticRegions, SeenRegions, masks, grids, published
  <2> QED
    BY <2>1, <1>1, <1>2 DEF TypeOK, EvidenceSound, EvidencePlaced, MasksProposed,
                            DegenerateUnmasked, PublishedCurrent
<1>3. CASE raw # NoMap
  <2>1. /\ raw \in RawMap /\ raw.geometry \in Geometry
        /\ RebuildMasks(dynOk, travOk)
        /\ travEvidence' = ConfirmTraversable(KeptTraversable, travCandidate', pose)
        /\ PublishMaps
    BY <1>3, MessageAssumption DEF OnSemanticRegions, TypeOK, MapMessage
  <2>2. PublishedCurrent' /\ clearedCells' \in SUBSET Cell /\ cleaned' \in [Cell -> Value]
    BY <2>1, <1>1, PublishFacts
  <2>3. dynOk \in SUBSET regions /\ travOk \in SUBSET regions
    BY <1>1, TransformedSubset
  <2>4. /\ candidate' \subseteq Cell /\ travCandidate' \subseteq Cell
        /\ known' \subseteq regions
        /\ candidate' = ProposedDynamic(known', raw.geometry)
        /\ travCandidate' \subseteq ProposedTraversable(regions, raw.geometry)
        /\ \/ evidence' = ResetOutside(evidence, candidate')
           \/ /\ candidate' = {} /\ travCandidate' = {}
              /\ evidence' = EmptyGrid
    <3>1. CASE raw.geometry \in Degenerate
      <4>1. UNCHANGED <<candidate, travCandidate, evidence>>
        BY <3>1, <2>1 DEF RebuildMasks, masks
      <4>2. candidate = {} /\ travCandidate = {}
        BY <1>3, <3>1 DEF DegenerateUnmasked
      <4>3. known' = {}
        BY <1>3, <3>1 DEF SeenRegions
      <4> QED BY <4>1, <4>2, <4>3
              DEF EvidencePlaced, IsCandidateOccupied, EmptyGrid, TypeOK, ProposedDynamic
    <3>2. CASE raw.geometry \notin Degenerate
      <4>1. /\ candidate' = DynamicMask(dynOk, raw.geometry)
            /\ travCandidate' = TraversableMask(travOk, raw.geometry)
            /\ evidence' = ResetOutside(evidence, candidate')
        BY <3>2, <2>1 DEF RebuildMasks
      <4>2. known' = dynOk
        BY <1>3, <3>2 DEF SeenRegions
      <4> QED BY <4>1, <4>2, <2>1, <2>3, MasksInsideProposals
    <3> QED BY <3>1, <3>2
  <2>5. /\ passed' = [c \in Cell |-> IF c \in ProposedDynamic(known', raw.geometry)
                                     THEN passed[c] ELSE NoSighting]
        /\ NoSighting \in Sightings
    BY <1>3, CountAssumption DEF SeenRegions, NoSighting, Sightings
  <2>6. passed' \in [Cell -> Sightings]
    BY <2>5 DEF TypeOK
  <2>7. /\ evidence' \in [Cell -> CellEvidence]
        /\ \A c \in Cell : Sound(evidence'[c], passed'[c], MinHits, MinPoses)
    <3>1. CASE evidence' = EmptyGrid
      BY <3>1, <2>6, NoEvidenceFacts, CountAssumption DEF EmptyGrid
    <3>2. CASE evidence' = ResetOutside(evidence, candidate')
      <4>1. \A c \in Cell : c \in candidate' => passed'[c] = passed[c]
        BY <2>4, <2>5
      <4> QED BY <3>2, <4>1, <2>6, ResetSound, CountAssumption DEF TypeOK, EvidenceSound
    <3> QED BY <3>1, <3>2, <2>4
  <2> DEFINE counted(c) == /\ EnableTraversablePersistence
                           /\ pose # NoPose
                           /\ IsCandidateOccupied(raw, travCandidate', c)
             keptGrid == KeptTraversable
             add(c) == AddEvidence(keptGrid[c], 1, pose, MinObservations, MinObservationPoses)
  <2>8. /\ keptGrid \in [Cell -> CellEvidence]
        /\ \A c \in Cell :
             Sound(keptGrid[c], confirmed[c], MinObservations, MinObservationPoses)
    BY ResetSound, CountAssumption DEF KeptTraversable, TypeOK, EvidenceSound
  <2>9. /\ confirmed' \in [Cell -> Sightings]
        /\ \A c \in Cell : Sound(keptGrid[c], confirmed'[c], MinObservations,
                                 MinObservationPoses)
        /\ \A c \in Cell : counted(c) =>
             pose \in Pose /\ confirmed'[c] = Seen(confirmed[c], 1, pose)
    <3> DEFINE saw(c) == /\ pose # NoPose
                         /\ raw.data[c] >= OccupiedThreshold
                         /\ c \in ProposedTraversable(regions, raw.geometry)
    <3>1. confirmed' = [c \in Cell |-> IF saw(c) THEN Seen(confirmed[c], 1, pose)
                                                ELSE confirmed[c]]
      BY <1>3 DEF SeenRegions
    <3>2. \A c \in Cell : saw(c) => pose \in Pose
      OBVIOUS
    <3>3. \A c \in Cell : counted(c) => saw(c)
      BY <2>4 DEF IsCandidateOccupied, IsOccupied
    <3> HIDE DEF saw, counted, keptGrid
    <3>4. ASSUME NEW c \in Cell
          PROVE  /\ confirmed'[c] \in Sightings
                 /\ Sound(keptGrid[c], confirmed'[c], MinObservations,
                          MinObservationPoses)
      <4>1. CASE saw(c)
        BY <4>1, <3>1, <3>2, <2>8, SeenMore, CountAssumption DEF TypeOK
      <4>2. CASE ~ saw(c)
        BY <4>2, <3>1, <2>8 DEF TypeOK
      <4> QED BY <4>1, <4>2
    <3> QED BY <3>1, <3>2, <3>3, <3>4
  <2>10. /\ travEvidence' \in [Cell -> CellEvidence]
         /\ \A c \in Cell : Sound(travEvidence'[c], confirmed'[c], MinObservations,
                                   MinObservationPoses)
    <3>1. travEvidence' = [c \in Cell |-> IF counted(c) THEN add(c) ELSE keptGrid[c]]
      BY <2>1 DEF ConfirmTraversable
    <3> HIDE DEF counted, keptGrid
    <3>2. ASSUME NEW c \in Cell
          PROVE  /\ travEvidence'[c] \in CellEvidence
                 /\ Sound(travEvidence'[c], confirmed'[c], MinObservations,
                          MinObservationPoses)
      <4>1. CASE counted(c)
        <5>1. /\ pose \in Pose /\ keptGrid[c] \in CellEvidence
              /\ Sound(keptGrid[c], confirmed[c], MinObservations, MinObservationPoses)
              /\ confirmed[c] \in Sightings
              /\ confirmed'[c] = Seen(confirmed[c], 1, pose)
          BY <4>1, <2>8, <2>9 DEF TypeOK
        <5>2. travEvidence'[c] =
                AddEvidence(keptGrid[c], 1, pose, MinObservations, MinObservationPoses)
          BY <4>1, <3>1
        <5> QED BY <5>1, <5>2, AddEvidenceSound, CountAssumption
      <4>2. CASE ~ counted(c)
        BY <4>2, <3>1, <2>8, <2>9
      <4> QED BY <4>1, <4>2
    <3> QED BY <3>1, <3>2
  <2>11. EvidencePlaced'
    <3>1. ASSUME NEW c \in Cell, evidence'[c] # NoEvidence
          PROVE  IsCandidateOccupied(raw, candidate', c)
      BY <3>1, <2>4 DEF EvidencePlaced, ResetOutside, EmptyGrid, IsCandidateOccupied
    <3>2. ASSUME NEW c \in Cell, travEvidence'[c] # NoEvidence
          PROVE  IsOccupied(raw, c)
      BY <3>2, <2>1 DEF EvidencePlaced, KeptTraversable, ConfirmTraversable, ResetOutside,
                        IsCandidateOccupied
    <3> QED BY <3>1, <3>2, <1>1, <1>3
            DEF EvidencePlaced, IsCandidateOccupied, IsOccupied
  <2>12. MasksProposed' /\ DegenerateUnmasked'
    <3>1. MasksProposed'
      BY <2>4, <1>1, <1>3 DEF MasksProposed, ProposedDynamic, ProposedTraversable
    <3>2. DegenerateUnmasked'
      BY <2>1, <1>1 DEF DegenerateUnmasked, RebuildMasks, masks
    <3> QED BY <3>1, <3>2
  <2> QED
    BY <2>2, <2>4, <2>6, <2>7, <2>9, <2>10, <2>11, <2>12, <1>1 DEF TypeOK, EvidenceSound
<1> QED BY <1>2, <1>3

LEMMA ScanStep ==
  ASSUME UpdaterInv,
         NEW scan \in Scans, NEW pose \in Pose,
         OnScan(scan, pose), SeenScan(scan, pose)
  PROVE  UpdaterInv'
<1> USE DEF UpdaterInv
<1> DEFINE live(c) == IsCandidateOccupied(raw, candidate, c)
           seen(c) == /\ c \in ProposedDynamic(known, raw.geometry)
                      /\ raw.data[c] >= OccupiedThreshold
           n(c) == Cardinality(Crossings(scan, c))
           before(c) == IF EndsOn(scan, c) THEN NoSighting ELSE passed[c]
           start(c) == IF EndsOn(scan, c) THEN NoEvidence ELSE evidence[c]
<1>1. /\ raw # NoMap /\ raw \in RawMap
      /\ UNCHANGED <<raw, latestRegions, candidate, travCandidate, travEvidence,
                     known, confirmed>>
      /\ PublishMaps
  BY DEF OnScan, SeenScan, inputs, masks, TypeOK
<1>2. PublishedCurrent' /\ clearedCells' \in SUBSET Cell /\ cleaned' \in [Cell -> Value]
  BY <1>1, PublishFacts
<1>3. evidence' = [c \in Cell |-> IF live(c) THEN ScanCell(evidence[c], scan, c, pose)
                                            ELSE evidence[c]]
  BY DEF OnScan
<1>4. passed' = [c \in Cell |-> IF Crossings(scan, c) # {} /\ seen(c)
                                 THEN Seen(before(c), n(c), pose) ELSE before(c)]
  BY CrossingsAreSeen DEF SeenScan, EndsOn
<1>5. \A c \in Cell : live(c) => seen(c)
  BY <1>1 DEF MasksProposed, IsCandidateOccupied, IsOccupied
<1>6. \A c \in Cell : ~ live(c) => evidence[c] = NoEvidence
  BY DEF EvidencePlaced
<1>7. NoSighting \in Sightings
  BY CountAssumption DEF NoSighting, Sightings
<1>8. \A c \in Cell : n(c) \in Nat /\ (n(c) = 0 <=> Crossings(scan, c) = {})
  <2>1. \A c \in Cell : IsFiniteSet(Crossings(scan, c))
    BY CrossingsFinite
  <2> QED BY <2>1, FS_CardinalityType, FS_EmptySet
<1>9. ASSUME NEW c \in Cell
      PROVE  /\ start(c) \in CellEvidence /\ before(c) \in Sightings
             /\ Sound(start(c), before(c), MinHits, MinPoses)
  BY <1>7, NoEvidenceFacts, CountAssumption DEF TypeOK, EvidenceSound
<1>10. ASSUME NEW c \in Cell
       PROVE  /\ evidence'[c] \in CellEvidence /\ passed'[c] \in Sightings
              /\ Sound(evidence'[c], passed'[c], MinHits, MinPoses)
  <2>1. /\ start(c) \in CellEvidence /\ before(c) \in Sightings
        /\ Sound(start(c), before(c), MinHits, MinPoses)
        /\ n(c) \in Nat
    BY <1>8, <1>9
  <2> DEFINE e == start(c)  s == before(c)  k == n(c)
  <2>2. /\ e \in CellEvidence /\ s \in Sightings /\ k \in Nat
        /\ Sound(e, s, MinHits, MinPoses)
    BY <2>1
  <2>3. CASE Crossings(scan, c) # {} /\ live(c)
    <3>1. evidence'[c] = AddEvidence(e, k, pose, MinHits, MinPoses)
      BY <2>3, <1>3, <1>8 DEF ScanCell
    <3>2. passed'[c] = Seen(s, k, pose)
      BY <2>3, <1>4, <1>5
    <3> HIDE DEF e, s, k
    <3> QED BY <3>1, <3>2, <2>2, AddEvidenceSound, CountAssumption
  <2>4. CASE Crossings(scan, c) # {} /\ ~ live(c)
    <3>1. evidence'[c] = NoEvidence
      BY <2>4, <1>3, <1>6
    <3>2. passed'[c] \in Sightings
      <4>1. CASE seen(c)
        BY <4>1, <2>1, <2>4, <1>4, SeenMore, CountAssumption
      <4>2. CASE ~ seen(c)
        BY <4>2, <2>1, <1>4
      <4> QED BY <4>1, <4>2
    <3> QED BY <3>1, <3>2, NoEvidenceFacts, CountAssumption
  <2>5. CASE Crossings(scan, c) = {}
    <3>1. passed'[c] = s
      BY <2>5, <1>4
    <3>2. evidence'[c] = e \/ evidence'[c] = NoEvidence
      BY <2>5, <1>3, <1>6, <1>8 DEF ScanCell
    <3> HIDE DEF e, s, k
    <3>3. NoEvidence \in CellEvidence /\ Sound(NoEvidence, s, MinHits, MinPoses)
      BY <2>2, NoEvidenceFacts, CountAssumption
    <3> QED BY <3>1, <3>2, <3>3, <2>2
  <2> QED BY <2>3, <2>4, <2>5
<1>11. TypeOK' /\ EvidenceSound'
  BY <1>1, <1>2, <1>3, <1>4, <1>10 DEF TypeOK, EvidenceSound
<1>12. EvidencePlaced'
  BY <1>1, <1>3 DEF EvidencePlaced, IsCandidateOccupied, IsOccupied
<1>13. DegenerateUnmasked' /\ MasksProposed'
  BY <1>1 DEF DegenerateUnmasked, MasksProposed, ProposedDynamic, ProposedTraversable
<1> QED BY <1>2, <1>11, <1>12, <1>13

(* The invariant holds in every state of the updater.                      *)
THEOREM UpdaterInvariant == HSpec => []UpdaterInv
<1>1. UpdaterInv /\ [HNext]_hvars => UpdaterInv'
  <2> SUFFICES ASSUME UpdaterInv, [HNext]_hvars
               PROVE  UpdaterInv'
    OBVIOUS
  <2>1. ASSUME NEW map \in RawMap,
               NEW dynOk \in Transformed(latestRegions),
               NEW travOk \in Transformed(latestRegions),
               OnRawMap(map, dynOk, travOk), SeenMap(map, dynOk)
        PROVE  UpdaterInv'
    BY <2>1, RawMapStep
  <2>2. ASSUME NEW regions \in SUBSET Region, NEW pose \in Pose \cup {NoPose},
               NEW dynOk \in Transformed(regions),
               NEW travOk \in Transformed(regions),
               OnSemanticRegions(regions, dynOk, travOk, pose),
               SeenRegions(regions, dynOk, pose)
        PROVE  UpdaterInv'
    BY <2>2, RegionsStep
  <2>3. ASSUME NEW scan \in Scans, NEW pose \in Pose,
               OnScan(scan, pose), SeenScan(scan, pose)
        PROVE  UpdaterInv'
    BY <2>3, ScanStep
  <2>4. CASE UNCHANGED hvars
    BY <2>4 DEF hvars, vars, inputs, masks, grids, published, UpdaterInv, TypeOK,
                EvidenceSound, EvidencePlaced, DegenerateUnmasked, MasksProposed,
                PublishedCurrent, ProposedDynamic, ProposedTraversable
  <2> QED BY <2>1, <2>2, <2>3, <2>4 DEF HNext
<1> QED BY InitUpdaterInv, <1>1, PTL DEF HSpec

(* Every cell published free in place of an occupied one was witnessed to  *)
(* be passable, for every grid, threshold and sequence of messages.        *)
THEOREM FreeCellsAreWitnessed == HSpec => []FreeCellsWitnessed
<1>1. UpdaterInv => FreeCellsWitnessed
  <2> SUFFICES ASSUME UpdaterInv, raw # NoMap, NEW c \in Cell,
                      cleaned[c] # raw.data[c]
               PROVE  /\ raw.data[c] >= OccupiedThreshold
                      /\ cleaned[c] = 0
                      /\ \/ /\ latestRegions # NoRegions
                            /\ c \in ProposedDynamic(latestRegions, raw.geometry)
                            /\ Witnesses(passed[c], MinHits, MinPoses)
                         \/ Witnesses(confirmed[c], MinObservations, MinObservationPoses)
    BY DEF FreeCellsWitnessed
  <2>1. /\ c \in Overridden(raw, candidate, evidence, travEvidence)
        /\ cleaned[c] = 0
    BY DEF UpdaterInv, PublishedCurrent
  <2>2. ASSUME NEW e \in CellEvidence, NEW s \in Sightings, NEW h \in Nat, NEW p \in Nat,
               Sound(e, s, h, p), e.cleared
        PROVE  Witnesses(s, h, p)
    <3>1. s.count >= h /\ e.poses \in SUBSET s.from
      BY <2>2 DEF Sound, CellEvidence, Sightings
    <3> QED BY <2>2, <3>1 DEF Sound, FarApart, Witnesses
  <2>3. CASE IsCandidateOccupied(raw, candidate, c) /\ evidence[c].cleared
    <3>1. /\ raw.data[c] >= OccupiedThreshold
          /\ latestRegions # NoRegions
          /\ c \in ProposedDynamic(latestRegions, raw.geometry)
      BY <2>3 DEF UpdaterInv, MasksProposed, IsCandidateOccupied, IsOccupied, ProposedDynamic
    <3>2. Witnesses(passed[c], MinHits, MinPoses)
      BY <2>2, <2>3, CountAssumption DEF UpdaterInv, TypeOK, EvidenceSound
    <3> QED BY <3>1, <3>2, <2>1
  <2>4. CASE IsOccupied(raw, c) /\ travEvidence[c].cleared
    <3>1. Witnesses(confirmed[c], MinObservations, MinObservationPoses)
      BY <2>2, <2>4, CountAssumption DEF UpdaterInv, TypeOK, EvidenceSound
    <3> QED BY <3>1, <2>1, <2>4 DEF IsOccupied
  <2> QED BY <2>1, <2>3, <2>4 DEF Overridden
<1> QED BY <1>1, UpdaterInvariant, PTL

(* More evidence never un-clears a confirmed cell.                         *)
LEMMA ConfirmedStays ==
  ASSUME NEW e \in CellEvidence, NEW s \in Sightings, NEW pose \in Pose,
         Sound(e, s, MinObservations, MinObservationPoses), e.cleared
  PROVE  AddEvidence(e, 1, pose, MinObservations, MinObservationPoses).cleared
<1> DEFINE poses == IF IsDistinctPose(e, pose) THEN e.poses \cup {pose} ELSE e.poses
<1>1. /\ e.hits \in Nat /\ e.hits >= MinObservations /\ e.poses \subseteq Pose
      /\ Cardinality(e.poses) >= MinObservationPoses
  BY CountAssumption DEF Sound, CellEvidence
<1>2. CapHits(e.hits + 1) >= MinObservations
  BY <1>1, CapHitsFacts, CountAssumption
<1>3. Cardinality(poses) >= MinObservationPoses
  <2>1. IsFiniteSet(poses) /\ e.poses \subseteq poses
    BY <1>1, PoseAssumption, FS_Subset
  <2>2. Cardinality(e.poses) <= Cardinality(poses)
        /\ Cardinality(e.poses) \in Nat /\ Cardinality(poses) \in Nat
    <3> HIDE DEF poses
    <3> QED BY <2>1, FS_Subset, FS_CardinalityType
  <2> QED BY <1>1, <2>2, CountAssumption
<1> QED BY <1>2, <1>3 DEF AddEvidence

(* A confirmed traversable cell survives every step that keeps it occupied *)
(* in a raw map of the same geometry.                                      *)
THEOREM ConfirmedCellsAreKept == HSpec => ConfirmedCellsPersist
<1> DEFINE Kept(c) == /\ raw # NoMap
                      /\ travEvidence[c].cleared
                      /\ raw'.geometry = raw.geometry
                      /\ raw'.data[c] >= OccupiedThreshold
                      => cleaned'[c] = 0 /\ travEvidence'[c].cleared
<1>1. UpdaterInv /\ UpdaterInv' /\ [HNext]_hvars => [\A c \in Cell : Kept(c)]_hvars
  <2> SUFFICES ASSUME UpdaterInv, UpdaterInv', HNext, NEW c \in Cell,
                      raw # NoMap, travEvidence[c].cleared,
                      raw'.geometry = raw.geometry,
                      raw'.data[c] >= OccupiedThreshold
               PROVE  cleaned'[c] = 0 /\ travEvidence'[c].cleared
    OBVIOUS
  <2>1. ASSUME travEvidence'[c].cleared, raw' # NoMap PROVE cleaned'[c] = 0
    BY <2>1 DEF UpdaterInv, PublishedCurrent, Overridden, IsOccupied
  <2>2. ASSUME NEW map \in RawMap,
               NEW dynOk \in Transformed(latestRegions),
               NEW travOk \in Transformed(latestRegions),
               OnRawMap(map, dynOk, travOk)
        PROVE  travEvidence'[c].cleared /\ raw' # NoMap
    <3>1. raw' = map /\ ~ GeometryChanged(map)
      BY <2>2 DEF OnRawMap, NewGeometry, SameGeometry, GeometryChanged
    <3>2. travEvidence' = ResetOutside(travEvidence, {d \in Cell : IsOccupied(map, d)})
      BY <2>2, <3>1 DEF OnRawMap, SameGeometry
    <3> QED BY <3>1, <3>2, MessageAssumption DEF ResetOutside, IsOccupied
  <2>3. ASSUME NEW regions \in SUBSET Region, NEW pose \in Pose \cup {NoPose},
               NEW dynOk \in Transformed(regions),
               NEW travOk \in Transformed(regions),
               OnSemanticRegions(regions, dynOk, travOk, pose)
        PROVE  travEvidence'[c].cleared /\ raw' # NoMap
    <3> DEFINE add == AddEvidence(travEvidence[c], 1, pose, MinObservations,
                                  MinObservationPoses)
    <3>1. /\ raw' = raw
          /\ travEvidence' = ConfirmTraversable(KeptTraversable, travCandidate', pose)
      BY <2>3 DEF OnSemanticRegions
    <3>2. KeptTraversable[c] = travEvidence[c]
      BY DEF KeptTraversable, ResetOutside, ClearedIn
    <3>3. travEvidence'[c] = travEvidence[c] \/ (pose \in Pose /\ travEvidence'[c] = add)
      BY <3>1, <3>2 DEF ConfirmTraversable
    <3>4. pose \in Pose => add.cleared
      <4>1. /\ travEvidence[c] \in CellEvidence /\ confirmed[c] \in Sightings
            /\ Sound(travEvidence[c], confirmed[c], MinObservations, MinObservationPoses)
        BY DEF UpdaterInv, TypeOK, EvidenceSound
      <4> QED BY <4>1, ConfirmedStays
    <3> QED BY <3>1, <3>3, <3>4
  <2>4. ASSUME NEW scan \in Scans, NEW pose \in Pose, OnScan(scan, pose)
        PROVE  travEvidence'[c].cleared /\ raw' # NoMap
    BY <2>4 DEF OnScan, inputs
  <2> QED BY <2>1, <2>2, <2>3, <2>4 DEF HNext
<1> QED BY <1>1, UpdaterInvariant, PTL DEF HSpec, ConfirmedCellsPersist

-----------------------------------------------------------------------------
(* The converse: what was seen often enough is not lost.                   *)

(* The evidence counts every crossing, keeps a complete selection of the   *)
(* poses, and is cleared once it meets both thresholds.                    *)
Exact(e, s) ==
  /\ e.hits = s.count
  /\ \A p \in s.from \ e.poses : \E q \in e.poses : <<p, q>> \in Close
  /\ e # NoEvidence /\ e.hits >= MinHits /\ Cardinality(e.poses) >= MinPoses => e.cleared

EvidenceExact == \A c \in Cell : Exact(evidence[c], passed[c])

LEMMA NoEvidenceExact == Exact(NoEvidence, NoSighting)
BY DEF Exact, NoEvidence, NoSighting

LEMMA AddEvidenceExact ==
  ASSUME NEW e \in CellEvidence, NEW s \in Sightings, NEW n \in Nat, NEW pose \in Pose,
         Exact(e, s)
  PROVE  Exact(AddEvidence(e, n, pose, MinHits, MinPoses), Seen(s, n, pose))
<1> DEFINE a == AddEvidence(e, n, pose, MinHits, MinPoses)
           t == Seen(s, n, pose)
           poses == IF IsDistinctPose(e, pose) THEN e.poses \cup {pose} ELSE e.poses
<1>1. /\ a.hits = CapHits(e.hits + n) /\ a.poses = poses
      /\ a.cleared = (CapHits(e.hits + n) >= MinHits /\ Cardinality(poses) >= MinPoses)
  BY DEF AddEvidence
<1>2. t.count = CapHits(s.count + n) /\ t.from = s.from \cup {pose}
  BY DEF Seen
<1>3. e.poses \subseteq poses /\ e.poses \subseteq Pose
  BY DEF CellEvidence
<1>4. pose \in poses \/ \E q \in poses : <<pose, q>> \in Close
  BY <1>3, CloseAssumption DEF IsDistinctPose
<1>5. \A p \in t.from \ a.poses : \E q \in a.poses : <<p, q>> \in Close
  <2> HIDE DEF a, t, poses
  <2> QED BY <1>1, <1>2, <1>3, <1>4 DEF Exact
<1>6. a.hits = t.count
  <2> HIDE DEF a, t, poses
  <2> QED BY <1>1, <1>2 DEF Exact
<1>7. a.hits >= MinHits /\ Cardinality(a.poses) >= MinPoses => a.cleared
  <2> HIDE DEF a, t, poses
  <2> QED BY <1>1
<1> QED BY <1>5, <1>6, <1>7 DEF Exact

LEMMA ExactStep ==
  ASSUME UpdaterInv, UpdaterInv', EvidenceExact, [HNext]_hvars
  PROVE  EvidenceExact'
<1>1. ASSUME NEW map \in RawMap,
             NEW dynOk \in Transformed(latestRegions),
             NEW travOk \in Transformed(latestRegions),
             OnRawMap(map, dynOk, travOk), SeenMap(map, dynOk)
      PROVE  EvidenceExact'
  <2>1. CASE GeometryChanged(map)
    <3>1. evidence' = EmptyGrid
      BY <1>1, <2>1 DEF OnRawMap, NewGeometry
    <3>2. passed' = [c \in Cell |-> NoSighting]
      BY <1>1, <2>1 DEF SeenMap, GeometryChanged
    <3> QED BY <3>1, <3>2, NoEvidenceExact DEF EvidenceExact, EmptyGrid
  <2>2. CASE ~ GeometryChanged(map)
    <3>1. evidence' = ResetOutside(evidence, {c \in Cell : IsOccupied(map, c)})
      BY <1>1, <2>2 DEF OnRawMap, SameGeometry
    <3>2. passed' = [c \in Cell |-> IF IsOccupied(map, c) THEN passed[c] ELSE NoSighting]
      BY <1>1, <2>2 DEF SeenMap, GeometryChanged, IsOccupied
    <3> QED BY <3>1, <3>2, NoEvidenceExact DEF EvidenceExact, ResetOutside
  <2> QED BY <2>1, <2>2
<1>2. ASSUME NEW regions \in SUBSET Region, NEW pose \in Pose \cup {NoPose},
             NEW dynOk \in Transformed(regions),
             NEW travOk \in Transformed(regions),
             OnSemanticRegions(regions, dynOk, travOk, pose),
             SeenRegions(regions, dynOk, pose)
      PROVE  EvidenceExact'
  <2>1. CASE raw = NoMap
    <3>1. UNCHANGED <<evidence, passed>>
      BY <1>2, <2>1 DEF OnSemanticRegions, SeenRegions, grids
    <3> QED BY <3>1 DEF EvidenceExact
  <2>2. CASE raw # NoMap
    <3>1. raw' = raw /\ latestRegions' = regions /\ regions # NoRegions
      BY <1>2, MessageAssumption DEF OnSemanticRegions
    <3>2. candidate' = ProposedDynamic(known', raw.geometry)
      BY <2>2, <3>1 DEF UpdaterInv, MasksProposed, ProposedDynamic
    <3>3. passed' = [c \in Cell |-> IF c \in candidate' THEN passed[c] ELSE NoSighting]
      BY <1>2, <2>2, <3>2 DEF SeenRegions
    <3>4. evidence' = ResetOutside(evidence, candidate')
      <4>1. CASE raw.geometry \in Degenerate
        <5>1. UNCHANGED <<candidate, evidence>> /\ candidate = {}
          BY <1>2, <2>2, <4>1
             DEF OnSemanticRegions, RebuildMasks, masks, UpdaterInv, DegenerateUnmasked
        <5>2. \A c \in Cell : evidence[c] = NoEvidence
          BY <5>1 DEF UpdaterInv, EvidencePlaced, IsCandidateOccupied
        <5> QED BY <5>1, <5>2 DEF ResetOutside, UpdaterInv, TypeOK
      <4>2. CASE raw.geometry \notin Degenerate
        BY <1>2, <2>2, <4>2 DEF OnSemanticRegions, RebuildMasks
      <4> QED BY <4>1, <4>2
    <3> QED BY <3>3, <3>4, NoEvidenceExact DEF EvidenceExact, ResetOutside
  <2> QED BY <2>1, <2>2
<1>3. ASSUME NEW scan \in Scans, NEW pose \in Pose,
             OnScan(scan, pose), SeenScan(scan, pose)
      PROVE  EvidenceExact'
  <2> DEFINE live(c) == IsCandidateOccupied(raw, candidate, c)
             n(c) == Cardinality(Crossings(scan, c))
             before(c) == IF EndsOn(scan, c) THEN NoSighting ELSE passed[c]
             start(c) == IF EndsOn(scan, c) THEN NoEvidence ELSE evidence[c]
  <2>1. evidence' = [c \in Cell |-> IF live(c) THEN ScanCell(evidence[c], scan, c, pose)
                                              ELSE evidence[c]]
    BY <1>3 DEF OnScan
  <2>2. candidate = ProposedDynamic(known, raw.geometry)
    BY <1>3 DEF OnScan, UpdaterInv, MasksProposed, ProposedDynamic
  <2>3. passed' = [c \in Cell |-> IF Crossings(scan, c) # {} /\ live(c)
                                   THEN Seen(before(c), n(c), pose) ELSE before(c)]
    BY <1>3, <2>2, CrossingsAreSeen DEF SeenScan, EndsOn, IsCandidateOccupied, IsOccupied
  <2>4. \A c \in Cell : n(c) \in Nat /\ (n(c) = 0 <=> Crossings(scan, c) = {})
    <3>1. \A c \in Cell : IsFiniteSet(Crossings(scan, c))
      BY CrossingsFinite
    <3> QED BY <3>1, FS_CardinalityType, FS_EmptySet
  <2>5. ASSUME NEW c \in Cell PROVE Exact(evidence'[c], passed'[c])
    <3> DEFINE e == start(c)  s == before(c)  k == n(c)
    <3>1. e \in CellEvidence /\ s \in Sightings /\ k \in Nat
      BY <2>4, CountAssumption
         DEF UpdaterInv, TypeOK, NoEvidence, NoSighting, CellEvidence, Sightings
    <3>2. Exact(e, s)
      BY NoEvidenceExact DEF EvidenceExact
    <3>3. ~ live(c) => evidence'[c] = e
      BY <2>1 DEF UpdaterInv, EvidencePlaced
    <3>4. live(c) => evidence'[c] = IF k = 0 THEN e
                                    ELSE AddEvidence(e, k, pose, MinHits, MinPoses)
      BY <2>1 DEF ScanCell
    <3>5. passed'[c] = IF k # 0 /\ live(c) THEN Seen(s, k, pose) ELSE s
      BY <2>3, <2>4
    <3> HIDE DEF e, s, k, live
    <3> QED BY <3>1, <3>2, <3>3, <3>4, <3>5, AddEvidenceExact
  <2> QED BY <2>5 DEF EvidenceExact
<1>4. CASE UNCHANGED hvars
  BY <1>4 DEF hvars, vars, grids, EvidenceExact
<1> QED BY <1>1, <1>2, <1>3, <1>4 DEF HNext

(* A cell of a known dynamic region that enough rays crossed, from poses   *)
(* of which every complete selection is large enough, is published free.   *)
(* With both thresholds 0 the node would clear a cell only at its first    *)
(* crossing, while no crossing at all would meet them.                     *)
THEOREM WitnessedCellsAreFree ==
  ASSUME MinHits > 0 \/ MinPoses > 0
  PROVE  HSpec => []WitnessedCellsFree
<1>1. HInit => EvidenceExact
  BY NoEvidenceExact DEF HInit, Init, EvidenceExact, EmptyGrid
<1>2. UpdaterInv /\ UpdaterInv' /\ EvidenceExact /\ [HNext]_hvars => EvidenceExact'
  BY ExactStep
<1>3. UpdaterInv /\ EvidenceExact => WitnessedCellsFree
  <2> SUFFICES ASSUME UpdaterInv, EvidenceExact, raw # NoMap,
                      NEW c \in ProposedDynamic(known, raw.geometry),
                      raw.data[c] >= OccupiedThreshold,
                      passed[c].count >= MinHits,
                      \A far \in CompleteSelections(passed[c].from) :
                        Cardinality(far) >= MinPoses
               PROVE  cleaned[c] = 0
    BY DEF WitnessedCellsFree
  <2> DEFINE e == evidence[c]  s == passed[c]
  <2>1. c \in Cell /\ IsCandidateOccupied(raw, candidate, c)
    BY DEF ProposedDynamic, UpdaterInv, MasksProposed, IsCandidateOccupied, IsOccupied
  <2>2. Exact(e, s) /\ Sound(e, s, MinHits, MinPoses)
    BY <2>1 DEF EvidenceExact, UpdaterInv, EvidenceSound
  <2>3. e.poses \in CompleteSelections(s.from)
    BY <2>2 DEF Exact, Sound, FarApart, CompleteSelections
  <2>4. e.hits >= MinHits /\ Cardinality(e.poses) >= MinPoses
    BY <2>2, <2>3 DEF Exact
  <2>5. e # NoEvidence
    <3>1. NoEvidence.hits = 0 /\ Cardinality(NoEvidence.poses) = 0
      BY FS_EmptySet DEF NoEvidence
    <3> QED BY <2>4, <3>1, CountAssumption
  <2>6. e.cleared
    BY <2>2, <2>4, <2>5 DEF Exact
  <2> QED BY <2>1, <2>6 DEF UpdaterInv, PublishedCurrent, Overridden
<1> QED BY <1>1, <1>2, <1>3, UpdaterInvariant, PTL DEF HSpec

(* Each variable of the node and of its history keeps its type.            *)
THEOREM UpdaterTypesHold == HSpec => []TypeOK
<1>1. UpdaterInv => TypeOK
  BY DEF UpdaterInv
<1> QED BY <1>1, UpdaterInvariant, PTL

=============================================================================
