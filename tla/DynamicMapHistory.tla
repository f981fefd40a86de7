------------------------- MODULE DynamicMapHistory -------------------------
(***************************************************************************)
(* The dynamic map updater with history variables that record what the     *)
(* robot has really seen of each cell.  They are updated from the inputs   *)
(* of each step alone, never from the node's masks or evidence grids, and  *)
(* no step depends on them.                                                *)
(***************************************************************************)
EXTENDS DynamicMapUpdater

VARIABLES
  known,      \* regions of the last message that could be placed on the map
  passed,     \* rays that crossed the cell since it was last contradicted
  confirmed   \* region messages that proposed the cell as traversable

hvars == <<vars, known, passed, confirmed>>

Sightings == [count : 0 .. HitCap, from : SUBSET Pose]
NoSighting == [count |-> 0, from |-> {}]
Seen(s, n, pose) == [count |-> CapHits(s.count + n), from |-> s.from \cup {pose}]

(* Cells that a message proposes in geometry g, were every transform known.*)
ProposedDynamic(regions, g) ==
  {c \in Cell : \E r \in regions : r.label \in DynamicLabels /\ c \in r.footprint[g]}

ProposedTraversable(regions, g) ==
  {c \in Cell : \E r \in regions : /\ r.traversable /\ c \in r.footprint[g]
                                   /\ \/ TraversableLabels = {}
                                      \/ r.label \in TraversableLabels}

HInit ==
  /\ Init
  /\ known = {}
  /\ passed = [c \in Cell |-> NoSighting]
  /\ confirmed = [c \in Cell |-> NoSighting]

(* A map of another geometry, or in which the cell is not occupied, is the *)
(* end of what is known of the cell.                                       *)
SeenMap(map, dynOk) ==
  LET keep == {c \in Cell : /\ raw # NoMap /\ raw.geometry = map.geometry
                            /\ map.data[c] >= OccupiedThreshold}
  IN  /\ passed' = [c \in Cell |-> IF c \in keep THEN passed[c] ELSE NoSighting]
      /\ confirmed' =
           [c \in Cell |-> IF c \in keep THEN confirmed[c] ELSE NoSighting]
      /\ known' = IF raw # NoMap /\ raw.geometry = map.geometry THEN known
                  ELSE IF map.geometry \in Degenerate THEN {} ELSE dynOk

SeenRegions(regions, dynOk, pose) ==
  IF raw = NoMap
    THEN UNCHANGED <<known, passed, confirmed>>
    ELSE /\ known' = IF raw.geometry \in Degenerate THEN {} ELSE dynOk
         /\ passed' =
              [c \in Cell |-> IF c \in ProposedDynamic(known', raw.geometry)
                                THEN passed[c] ELSE NoSighting]
         /\ confirmed' =
              [c \in Cell |->
                 IF /\ pose # NoPose
                    /\ raw.data[c] >= OccupiedThreshold
                    /\ c \in ProposedTraversable(regions, raw.geometry)
                   THEN Seen(confirmed[c], 1, pose)
                   ELSE confirmed[c]]

(* Only rays through a cell that is occupied in the map and in a known     *)
(* region count; a ray that ends on the cell contradicts them.             *)
SeenScan(scan, pose) ==
  /\ passed' =
       [c \in Cell |->
          LET hitLast == \E i \in DOMAIN scan : scan[i].end = c
              through == {i \in DOMAIN scan :
                            /\ c \in scan[i].free
                            /\ ~ \E j \in DOMAIN scan : j > i /\ scan[j].end = c}
              before == IF hitLast THEN NoSighting ELSE passed[c]
          IN  IF /\ through # {}
                 /\ c \in ProposedDynamic(known, raw.geometry)
                 /\ raw.data[c] >= OccupiedThreshold
                THEN Seen(before, Cardinality(through), pose)
                ELSE before]
  /\ UNCHANGED <<known, confirmed>>

HNext ==
  \/ \E map \in RawMap : \E dynOk, travOk \in Transformed(latestRegions) :
       OnRawMap(map, dynOk, travOk) /\ SeenMap(map, dynOk)
  \/ \E regions \in SUBSET Region, pose \in Pose \cup {NoPose} :
       \E dynOk, travOk \in Transformed(regions) :
         /\ OnSemanticRegions(regions, dynOk, travOk, pose)
         /\ SeenRegions(regions, dynOk, pose)
  \/ \E scan \in Scans, pose \in Pose : OnScan(scan, pose) /\ SeenScan(scan, pose)

HSpec == HInit /\ [][HNext]_hvars

-----------------------------------------------------------------------------
(* Each variable has its type.                                             *)
TypeOK ==
  /\ raw \in RawMap \cup {NoMap}
  /\ latestRegions = NoRegions \/ latestRegions \in SUBSET Region
  /\ candidate \in SUBSET Cell /\ travCandidate \in SUBSET Cell
  /\ evidence \in [Cell -> CellEvidence]
  /\ travEvidence \in [Cell -> CellEvidence]
  /\ cleaned = NoMap \/ cleaned \in [Cell -> Value]
  /\ clearedCells \in SUBSET Cell
  /\ known \in SUBSET Region
  /\ passed \in [Cell -> Sightings]
  /\ confirmed \in [Cell -> Sightings]

(* Enough sightings, from enough poses that are pairwise far apart.        *)
Witnesses(s, minHits, minPoses) ==
  /\ s.count >= minHits
  /\ \E far \in SUBSET s.from :
       /\ Cardinality(far) >= minPoses
       /\ \A p, q \in far : p # q => <<p, q>> \notin Close

(* A published cell differs from the raw map only if the raw map has it    *)
(* occupied, it is published free, and either enough rays crossed it from  *)
(* enough distinct poses since anything last contradicted that (a ray      *)
(* ending on it, a region message that does not propose it, a raw map in   *)
(* which it is not occupied, a new geometry), or enough region messages    *)
(* confirmed it as traversable from enough distinct poses.                 *)
FreeCellsWitnessed ==
  raw # NoMap =>
    \A c \in Cell :
      cleaned[c] # raw.data[c] =>
        /\ raw.data[c] >= OccupiedThreshold
        /\ cleaned[c] = 0
        /\ \/ /\ latestRegions # NoRegions
              /\ c \in ProposedDynamic(latestRegions, raw.geometry)
              /\ Witnesses(passed[c], MinHits, MinPoses)
           \/ Witnesses(confirmed[c], MinObservations, MinObservationPoses)

(* The parts of the inductive invariant behind FreeCellsWitnessed.         *)
FarApart(poses) == \A p, q \in poses : p # q => <<p, q>> \notin Close

Sound(e, s, minHits, minPoses) ==
  /\ e.hits <= s.count
  /\ e.poses \subseteq s.from
  /\ FarApart(e.poses)
  /\ e.cleared => e.hits >= minHits /\ Cardinality(e.poses) >= minPoses

EvidenceSound ==
  \A c \in Cell :
    /\ Sound(evidence[c], passed[c], MinHits, MinPoses)
    /\ Sound(travEvidence[c], confirmed[c], MinObservations, MinObservationPoses)

EvidencePlaced ==
  \A c \in Cell :
    /\ evidence[c] # NoEvidence =>
         raw # NoMap /\ IsCandidateOccupied(raw, candidate, c)
    /\ travEvidence[c] # NoEvidence => raw # NoMap /\ IsOccupied(raw, c)

DegenerateUnmasked ==
  raw # NoMap /\ raw.geometry \in Degenerate => candidate = {} /\ travCandidate = {}

MasksProposed ==
  IF raw = NoMap \/ latestRegions = NoRegions
    THEN known = {} /\ candidate = {} /\ travCandidate = {}
    ELSE /\ known \subseteq latestRegions
         /\ candidate = ProposedDynamic(known, raw.geometry)
         /\ travCandidate \subseteq ProposedTraversable(latestRegions, raw.geometry)

PublishedCurrent ==
  raw # NoMap =>
    /\ clearedCells = Overridden(raw, candidate, evidence, travEvidence)
    /\ cleaned = [c \in Cell |-> IF c \in clearedCells THEN 0 ELSE raw.data[c]]

(* The bookkeeping is sound.  The evidence of a cell never exceeds what    *)
(* was seen of it, its poses are far apart, a cleared cell meets both      *)
(* thresholds; evidence lives only on occupied cells, dynamic evidence     *)
(* only inside the mask, and the masks only where the last message         *)
(* proposes cells; the published map is that of the current state.  This   *)
(* is what makes FreeCellsWitnessed inductive.                             *)
UpdaterInv ==
  /\ TypeOK
  /\ EvidenceSound
  /\ EvidencePlaced
  /\ DegenerateUnmasked
  /\ MasksProposed
  /\ PublishedCurrent

(* The converse: a cell of a known dynamic region that enough rays crossed *)
(* is published free, provided the poses of the crossings allow no         *)
(* selection of far-apart poses that is complete and still too small.  The *)
(* node keeps poses greedily in order of arrival, so any complete          *)
(* selection may be the one it holds.                                      *)
CompleteSelections(from) ==
  {far \in SUBSET from :
     /\ \A p, q \in far : p # q => <<p, q>> \notin Close
     /\ \A p \in from \ far : \E q \in far : <<p, q>> \in Close}

WitnessedCellsFree ==
  raw # NoMap =>
    \A c \in ProposedDynamic(known, raw.geometry) :
      /\ raw.data[c] >= OccupiedThreshold
      /\ passed[c].count >= MinHits
      /\ \A far \in CompleteSelections(passed[c].from) :
           Cardinality(far) >= MinPoses
      => cleaned[c] = 0

(* Confirmation is remembered: a cell confirmed as traversable is still    *)
(* published free after any step that keeps it occupied in a raw map of    *)
(* the same geometry, whatever regions and scans say of it.                *)
ConfirmedCellsPersist ==
  [][ \A c \in Cell :
        /\ raw # NoMap
        /\ travEvidence[c].cleared
        /\ raw'.geometry = raw.geometry
        /\ raw'.data[c] >= OccupiedThreshold
        => cleaned'[c] = 0 /\ travEvidence'[c].cleared ]_hvars

=============================================================================
