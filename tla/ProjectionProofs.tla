--------------------------- MODULE ProjectionProofs ---------------------------
(***************************************************************************)
(* The region memory of the projection node, for any labels, places, match *)
(* relation and limits.                                                    *)
(***************************************************************************)
EXTENDS ProjectionHistory, TLAPS

(* What the memory holds, as a message.                                    *)
HeldIn(cache) == {[label |-> l, at |-> cache[l].at] : l \in {x \in Label : cache[x] # NoRegion}}

HistoryTypeOK ==
  /\ runs \in [Label -> [Position -> SUBSET (1 .. RequiredHits)]]
  /\ lastSeen \in [Label -> [Position -> 0 .. MaxAge]]

(* A run of n sightings has a run of n - 1 sightings at its end.           *)
RunsInv == \A l \in Label, p \in Position : \A n \in runs[l][p] : n = 1 \/ n - 1 \in runs[l][p]

(* A pending region that is not expired counts the sightings of a run that *)
(* may still go on.                                                        *)
PendingInv ==
  \A l \in Label :
    LET region == pendingRegions[l] IN
    region # NoRegion =>
      /\ region.hits < RequiredHits
      /\ lastSeen[l][region.at] <= region.age
      /\ ~Expired(region, PendingTtl) => region.hits \in runs[l][region.at]

(* A held region is as old as the last sighting at its place.              *)
HeldInv ==
  \A l \in Label : regionCache[l] # NoRegion => regionCache[l].age = lastSeen[l][regionCache[l].at]

(* What is published is what is held; without a memory nothing is held.    *)
PublishedInv ==
  IF HoldTime # 0 THEN publishedRegions = HeldIn(regionCache)
  ELSE \A l \in Label : pendingRegions[l] = NoRegion /\ regionCache[l] = NoRegion

MemoryInv == RunsInv /\ PendingInv /\ HeldInv /\ PublishedInv

ProjectionInv == ProjectionTypeOK /\ HistoryTypeOK /\ MemoryInv

-----------------------------------------------------------------------------
(* Dropping the expired regions of a memory keeps the others as they are.  *)
LEMMA UnexpiredKeeps ==
  ASSUME NEW memory \in [Label -> CachedRegion \cup {NoRegion}], NEW limit
  PROVE  /\ Unexpired(memory, limit) \in [Label -> CachedRegion \cup {NoRegion}]
         /\ \A l \in Label :
              \/ Unexpired(memory, limit)[l] = memory[l]
              \/ /\ Unexpired(memory, limit)[l] = NoRegion
                 /\ memory[l] # NoRegion /\ Expired(memory[l], limit)
BY DEF Unexpired

(* What is held is a message.                                              *)
LEMMA HeldType ==
  ASSUME NEW cache \in [Label -> CachedRegion \cup {NoRegion}]
  PROVE  HeldIn(cache) \in SUBSET SemanticRegion
<1>1. ASSUME NEW l \in Label, cache[l] # NoRegion
      PROVE  [label |-> l, at |-> cache[l].at] \in SemanticRegion
  <2>1. cache[l] \in CachedRegion
    BY <1>1
  <2> QED BY <2>1 DEF CachedRegion, SemanticRegion
<1> QED BY <1>1 DEF HeldIn

(* The types and the invariant of the memory after a publication follow    *)
(* from those of the memory it starts from.                                *)
LEMMA PublishStep ==
  ASSUME NEW pending \in [Label -> CachedRegion \cup {NoRegion}],
         NEW cache \in [Label -> CachedRegion \cup {NoRegion}],
         HoldTime # 0, PublishRegions(pending, cache),
         \A l \in Label : pending[l] # NoRegion =>
           /\ pending[l].hits < RequiredHits
           /\ lastSeen'[l][pending[l].at] <= pending[l].age
           /\ ~Expired(pending[l], PendingTtl) => pending[l].hits \in runs'[l][pending[l].at],
         \A l \in Label : cache[l] # NoRegion => cache[l].age = lastSeen'[l][cache[l].at]
  PROVE  ProjectionTypeOK' /\ PendingInv' /\ HeldInv' /\ PublishedInv'
<1> USE UnexpiredKeeps DEF PublishRegions
<1>1. /\ pendingRegions' \in [Label -> CachedRegion \cup {NoRegion}]
      /\ regionCache' \in [Label -> CachedRegion \cup {NoRegion}]
  OBVIOUS
<1>2. publishedRegions' = HeldIn(regionCache')
  BY DEF HeldIn
<1>3. publishedRegions' \in SUBSET SemanticRegion
  BY <1>1, <1>2, HeldType
<1>4. PendingInv'
  BY DEF PendingInv
<1>5. HeldInv'
  BY DEF HeldInv
<1> QED BY <1>1, <1>2, <1>3, <1>4, <1>5 DEF ProjectionTypeOK, PublishedInv

(* A counted detection is a sighting that continues a run.                 *)
LEMMA CountedRuns ==
  ASSUME ProjectionInv, NEW l \in Label, NEW p \in Position, Saw(l, p)
  PROVE  /\ Counted(l, p) \in CachedRegion
         /\ Counted(l, p).at = p /\ Counted(l, p).age = 0
         /\ Counted(l, p).hits \in runs'[l][p]
<1> DEFINE region == pendingRegions[l]
<1> USE LimitAssumption
<1>1. runs'[l][p] = RunsThrough(l, p)
  BY DEF Saw, ProjectionInv, HistoryTypeOK
<1>2. CASE Counted(l, p) = Sighted(p, 1)
  BY <1>1, <1>2 DEF Sighted, CachedRegion, RunsThrough
<1>3. CASE /\ region # NoRegion /\ SameObject(p, region.at) /\ ~Expired(region, PendingTtl)
           /\ Counted(l, p) = Sighted(p, region.hits + 1)
  <2>1. region \in CachedRegion /\ region.hits < RequiredHits
    BY <1>3 DEF ProjectionInv, ProjectionTypeOK, MemoryInv, PendingInv
  <2>2. region.hits \in runs[l][region.at] /\ region.at \in Position
    BY <1>3, <2>1 DEF ProjectionInv, MemoryInv, PendingInv, CachedRegion
  <2>3. region.hits + 1 \in 1 .. RequiredHits /\ (region.hits + 1) - 1 = region.hits
    BY <2>1 DEF CachedRegion
  <2>4. region.hits + 1 \in RunsThrough(l, p)
    BY <1>3, <2>2, <2>3 DEF RunsThrough, SameObject
  <2> QED BY <1>1, <1>3, <2>3, <2>4 DEF Sighted, CachedRegion
<1> QED BY <1>2, <1>3 DEF Counted

(* A sighting leaves a run of n - 1 sightings within each run of n.        *)
LEMMA SawRuns ==
  ASSUME ProjectionInv, NEW l \in Label, NEW p \in Position, Saw(l, p)
  PROVE  HistoryTypeOK' /\ RunsInv'
<1> USE LimitAssumption DEF ProjectionInv, HistoryTypeOK
<1>1. /\ runs' = [runs EXCEPT ![l][p] = RunsThrough(l, p)]
      /\ RunsThrough(l, p) \subseteq 1 .. RequiredHits
  BY DEF Saw, RunsThrough
<1>2. lastSeen' \in [Label -> [Position -> 0 .. MaxAge]]
  BY DEF Saw
<1>3. HistoryTypeOK'
  BY <1>1, <1>2
<1>4. ASSUME NEW n \in RunsThrough(l, p), n # 1
      PROVE  n - 1 \in RunsThrough(l, p)
  <2>1. PICK q \in Position : <<p, q>> \in Near /\ n - 1 \in runs[l][q]
    BY <1>4 DEF RunsThrough
  <2>2. n - 1 = 1 \/ (n - 1) - 1 \in runs[l][q]
    BY <2>1 DEF MemoryInv, RunsInv
  <2>3. n - 1 \in 1 .. RequiredHits
    BY <2>1
  <2> QED BY <2>1, <2>2, <2>3 DEF RunsThrough
<1>5. RunsInv'
  BY <1>1, <1>4 DEF MemoryInv, RunsInv
<1> QED BY <1>3, <1>5

(* The memory after a detection, before anything expires.                  *)
LEMMA MemoryAfter ==
  ASSUME ProjectionInv, NEW l \in Label, NEW p \in Position, Saw(l, p)
  PROVE  /\ PendingAfter(l, p) \in [Label -> CachedRegion \cup {NoRegion}]
         /\ CacheAfter(l, p) \in [Label -> CachedRegion \cup {NoRegion}]
         /\ \A k \in Label :
              LET region == PendingAfter(l, p)[k] IN
              region # NoRegion =>
                /\ region.hits < RequiredHits
                /\ lastSeen'[k][region.at] <= region.age
                /\ ~Expired(region, PendingTtl) => region.hits \in runs'[k][region.at]
         /\ \A k \in Label :
              LET region == CacheAfter(l, p)[k] IN
              region # NoRegion => region.age = lastSeen'[k][region.at]
<1> USE LimitAssumption, NearAssumption, NoRegionAssumption
<1>1. /\ pendingRegions \in [Label -> CachedRegion \cup {NoRegion}]
      /\ regionCache \in [Label -> CachedRegion \cup {NoRegion}]
      /\ lastSeen \in [Label -> [Position -> 0 .. MaxAge]]
      /\ runs \in [Label -> [Position -> SUBSET (1 .. RequiredHits)]]
  BY DEF ProjectionInv, ProjectionTypeOK, HistoryTypeOK
<1>2. Sighted(p, RequiredHits) \in CachedRegion
  BY DEF Sighted, CachedRegion
<1>3. /\ Counted(l, p) \in CachedRegion /\ Counted(l, p).at = p /\ Counted(l, p).age = 0
      /\ Counted(l, p).hits \in runs'[l][p]
  BY CountedRuns
<1>4. /\ lastSeen'[l][p] = 0
      /\ \A k \in Label, q \in Position : k # l \/ q # p => lastSeen'[k][q] = lastSeen[k][q]
      /\ \A k \in Label, q \in Position : k # l \/ q # p => runs'[k][q] = runs[k][q]
      /\ runs'[l][p] = RunsThrough(l, p)
  BY <1>1 DEF Saw
<1>5. /\ PendingAfter(l, p) \in [Label -> CachedRegion \cup {NoRegion}]
      /\ CacheAfter(l, p) \in [Label -> CachedRegion \cup {NoRegion}]
  BY <1>1, <1>2, <1>3 DEF PendingAfter, CacheAfter
<1>6. ASSUME NEW k \in Label, PendingAfter(l, p)[k] # NoRegion
      PROVE  /\ PendingAfter(l, p)[k].hits < RequiredHits
             /\ lastSeen'[k][PendingAfter(l, p)[k].at] <= PendingAfter(l, p)[k].age
             /\ ~Expired(PendingAfter(l, p)[k], PendingTtl)
                  => PendingAfter(l, p)[k].hits \in runs'[k][PendingAfter(l, p)[k].at]
  <2>1. CASE k = l /\ ~OfHeldRegion(l, p)
    BY <1>1, <1>3, <1>4, <1>6, <2>1 DEF PendingAfter, Confirmed, CachedRegion
  <2>2. CASE k # l \/ OfHeldRegion(l, p)
    <3>1. PendingAfter(l, p)[k] = pendingRegions[k]
      BY <1>1, <2>2 DEF PendingAfter
    <3>2. /\ pendingRegions[k] \in CachedRegion
          /\ pendingRegions[k].hits < RequiredHits
          /\ lastSeen[k][pendingRegions[k].at] <= pendingRegions[k].age
          /\ ~Expired(pendingRegions[k], PendingTtl)
               => pendingRegions[k].hits \in runs[k][pendingRegions[k].at]
      BY <1>1, <1>6, <3>1 DEF ProjectionInv, MemoryInv, PendingInv
    <3>3. CASE k # l \/ pendingRegions[k].at # p
      BY <1>1, <1>4, <3>1, <3>2, <3>3 DEF CachedRegion
    <3>4. CASE k = l /\ pendingRegions[k].at = p
      <4>1. 0 <= pendingRegions[l].age /\ pendingRegions[l].hits \in 1 .. RequiredHits
        BY <3>2, <3>4 DEF CachedRegion
      <4>2. ASSUME ~Expired(pendingRegions[l], PendingTtl)
            PROVE  pendingRegions[l].hits \in runs'[l][p]
        <5>1. pendingRegions[l].hits = 1 \/ pendingRegions[l].hits - 1 \in runs[l][p]
          BY <3>2, <3>4, <4>2 DEF ProjectionInv, MemoryInv, RunsInv
        <5> QED BY <1>4, <4>1, <5>1 DEF RunsThrough
      <4> QED BY <1>4, <3>1, <3>2, <3>4, <4>1, <4>2
    <3> QED BY <3>3, <3>4
  <2> QED BY <2>1, <2>2
<1>7. ASSUME NEW k \in Label, CacheAfter(l, p)[k] # NoRegion
      PROVE  CacheAfter(l, p)[k].age = lastSeen'[k][CacheAfter(l, p)[k].at]
  <2>1. CASE k = l /\ OfHeldRegion(l, p)
    BY <1>1, <1>4, <2>1 DEF CacheAfter, Sighted
  <2>2. CASE k = l /\ ~OfHeldRegion(l, p) /\ Confirmed(l, p)
    BY <1>1, <1>3, <1>4, <2>2 DEF CacheAfter
  <2>3. CASE k # l \/ (~OfHeldRegion(l, p) /\ ~Confirmed(l, p))
    <3>1. CacheAfter(l, p)[k] = regionCache[k]
      BY <1>1, <2>3 DEF CacheAfter
    <3>2. regionCache[k] \in CachedRegion
      BY <1>1, <1>7, <3>1
    <3>3. k # l \/ regionCache[k].at # p
      BY <1>7, <2>3, <3>1 DEF OfHeldRegion, SameObject
    <3> QED
      BY <1>4, <1>7, <3>1, <3>2, <3>3 DEF ProjectionInv, MemoryInv, HeldInv, CachedRegion
  <2> QED BY <2>1, <2>2, <2>3
<1> QED BY <1>5, <1>6, <1>7

LEMMA DetectionStep ==
  ASSUME ProjectionInv, NEW l \in Label, NEW p \in Position, OnDetection(l, p), Saw(l, p)
  PROVE  ProjectionInv'
<1>1. HistoryTypeOK' /\ RunsInv'
  BY SawRuns
<1>2. CASE HoldTime # 0
  <2>1. PublishRegions(PendingAfter(l, p), CacheAfter(l, p))
    BY <1>2 DEF OnDetection
  <2>2. ProjectionTypeOK' /\ PendingInv' /\ HeldInv' /\ PublishedInv'
    BY <1>2, <2>1, MemoryAfter, PublishStep
  <2> QED BY <1>1, <2>2 DEF ProjectionInv, MemoryInv
<1>3. CASE HoldTime = 0
  <2>1. publishedRegions' \in SUBSET SemanticRegion
    BY <1>3 DEF OnDetection, SemanticRegion
  <2>2. ProjectionTypeOK'
    BY <1>3, <2>1 DEF OnDetection, ProjectionInv, ProjectionTypeOK
  <2>3. PendingInv' /\ HeldInv' /\ PublishedInv'
    BY <1>3 DEF OnDetection, ProjectionInv, MemoryInv, PendingInv, HeldInv, PublishedInv
  <2> QED BY <1>1, <2>2, <2>3 DEF ProjectionInv, MemoryInv
<1> QED BY <1>2, <1>3

LEMMA TimerStep ==
  ASSUME ProjectionInv, PublishTimer, UNCHANGED <<runs, lastSeen>>
  PROVE  ProjectionInv'
<1>1. PublishRegions(pendingRegions, regionCache) /\ HoldTime # 0
  BY DEF PublishTimer
<1>2. ProjectionTypeOK' /\ PendingInv' /\ HeldInv' /\ PublishedInv'
  BY <1>1, PublishStep DEF ProjectionInv, ProjectionTypeOK, MemoryInv, PendingInv, HeldInv
<1> QED BY <1>2 DEF ProjectionInv, HistoryTypeOK, MemoryInv, RunsInv

(* A unit of time ages every region, up to MaxAge, and changes no other.   *)
LEMMA OlderAges ==
  ASSUME NEW memory \in [Label -> CachedRegion \cup {NoRegion}], NEW l \in Label
  PROVE  \/ memory[l] = NoRegion /\ Older(memory)[l] = NoRegion
         \/ /\ memory[l] # NoRegion /\ Older(memory)[l] \in CachedRegion
            /\ Older(memory)[l].at = memory[l].at /\ Older(memory)[l].hits = memory[l].hits
            /\ Older(memory)[l].age = IF memory[l].age < MaxAge THEN memory[l].age + 1 ELSE MaxAge
<1> USE LimitAssumption
<1>1. CASE memory[l] = NoRegion
  BY <1>1 DEF Older
<1>2. CASE memory[l] # NoRegion
  <2>1. memory[l] \in CachedRegion /\ memory[l].age \in 0 .. MaxAge
    BY <1>2 DEF CachedRegion
  <2>2. CASE memory[l].age < MaxAge
    <3>1. Older(memory)[l] = [memory[l] EXCEPT !.age = memory[l].age + 1]
      BY <1>2, <2>2 DEF Older
    <3>2. memory[l].age + 1 \in 0 .. MaxAge
      BY <2>1, <2>2
    <3> QED BY <1>2, <2>1, <2>2, <3>1, <3>2 DEF CachedRegion
  <2>3. CASE ~(memory[l].age < MaxAge)
    <3>1. Older(memory)[l] = memory[l]
      BY <2>3 DEF Older
    <3>2. memory[l].age = MaxAge
      BY <2>1, <2>3
    <3> QED BY <1>2, <2>1, <2>3, <3>1, <3>2
  <2> QED BY <2>2, <2>3
<1> QED BY <1>1, <1>2

LEMMA TimeStep ==
  ASSUME ProjectionInv, TimePasses, Aged
  PROVE  ProjectionInv'
<1> USE LimitAssumption, NoRegionAssumption DEF TimePasses, Aged
<1>1. /\ pendingRegions \in [Label -> CachedRegion \cup {NoRegion}]
      /\ regionCache \in [Label -> CachedRegion \cup {NoRegion}]
      /\ lastSeen \in [Label -> [Position -> 0 .. MaxAge]]
      /\ runs \in [Label -> [Position -> SUBSET (1 .. RequiredHits)]]
  BY DEF ProjectionInv, ProjectionTypeOK, HistoryTypeOK
<1>2. ASSUME NEW memory \in [Label -> CachedRegion \cup {NoRegion}]
      PROVE  Older(memory) \in [Label -> CachedRegion \cup {NoRegion}]
  BY <1>2, OlderAges DEF Older
<1>3. ProjectionTypeOK'
  BY <1>1, <1>2 DEF ProjectionInv, ProjectionTypeOK
<1>4. HistoryTypeOK' /\ RunsInv'
  BY <1>1 DEF HistoryTypeOK, ProjectionInv, MemoryInv, RunsInv
<1>5. PendingInv'
  <2> SUFFICES ASSUME NEW l \in Label, pendingRegions'[l] # NoRegion
               PROVE  /\ pendingRegions'[l].hits < RequiredHits
                      /\ lastSeen'[l][pendingRegions'[l].at] <= pendingRegions'[l].age
                      /\ ~Expired(pendingRegions'[l], PendingTtl)
                           => pendingRegions'[l].hits \in runs'[l][pendingRegions'[l].at]
    BY DEF PendingInv
  <2> DEFINE old == pendingRegions[l]
             new == pendingRegions'[l]
  <2>1. /\ old \in CachedRegion /\ new \in CachedRegion /\ new.at = old.at /\ new.hits = old.hits
        /\ new.age = IF old.age < MaxAge THEN old.age + 1 ELSE MaxAge
        /\ old # NoRegion
    BY <1>1, OlderAges
  <2>2. /\ old.hits < RequiredHits
        /\ lastSeen[l][old.at] <= old.age
        /\ ~Expired(old, PendingTtl) => old.hits \in runs[l][old.at]
    BY <2>1 DEF ProjectionInv, MemoryInv, PendingInv
  <2>3. old.at \in Position /\ old.age \in 0 .. MaxAge /\ lastSeen[l][old.at] \in 0 .. MaxAge
    BY <1>1, <2>1 DEF CachedRegion
  <2>4. lastSeen'[l][old.at] <= new.age
    BY <2>1, <2>2, <2>3
  <2>5. ASSUME ~Expired(new, PendingTtl)
        PROVE  new.hits \in runs'[l][new.at]
    <3>1. ~Expired(old, PendingTtl) /\ (PendingTtl >= 0 => lastSeen'[l][old.at] <= PendingTtl)
      BY <2>1, <2>3, <2>4, <2>5 DEF Expired
    <3> QED BY <2>1, <2>2, <2>3, <3>1
  <2> QED BY <2>1, <2>2, <2>4, <2>5
<1>6. HeldInv'
  <2> SUFFICES ASSUME NEW l \in Label, regionCache'[l] # NoRegion
               PROVE  regionCache'[l].age = lastSeen'[l][regionCache'[l].at]
    BY DEF HeldInv
  <2>1. /\ regionCache[l] # NoRegion /\ regionCache'[l].at = regionCache[l].at
        /\ regionCache'[l].age =
             IF regionCache[l].age < MaxAge THEN regionCache[l].age + 1 ELSE MaxAge
    BY <1>1, OlderAges
  <2>2. regionCache[l].at \in Position /\ regionCache[l].age = lastSeen[l][regionCache[l].at]
    BY <1>1, <2>1 DEF ProjectionInv, MemoryInv, HeldInv, CachedRegion
  <2> QED BY <2>1, <2>2
<1>7. PublishedInv'
  <2>1. \A l \in Label : regionCache'[l] = NoRegion <=> regionCache[l] = NoRegion
    BY <1>1, OlderAges
  <2>2. \A l \in Label : regionCache[l] # NoRegion => regionCache'[l].at = regionCache[l].at
    BY <1>1, OlderAges
  <2>3. HeldIn(regionCache') = HeldIn(regionCache)
    BY <2>1, <2>2 DEF HeldIn
  <2>4. \A l \in Label : pendingRegions[l] = NoRegion => pendingRegions'[l] = NoRegion
    BY <1>1, OlderAges
  <2> QED BY <2>1, <2>3, <2>4 DEF ProjectionInv, MemoryInv, PublishedInv
<1> QED BY <1>3, <1>4, <1>5, <1>6, <1>7 DEF ProjectionInv, MemoryInv

LEMMA HistoryStep ==
  ASSUME ProjectionInv, [HistoryNext]_historyVars
  PROVE  ProjectionInv'
<1>1. CASE UNCHANGED historyVars
  BY <1>1 DEF historyVars, projectionVars, ProjectionInv, ProjectionTypeOK, HistoryTypeOK,
              MemoryInv, RunsInv, PendingInv, HeldInv, PublishedInv
<1> QED BY <1>1, DetectionStep, TimerStep, TimeStep DEF HistoryNext

LEMMA HistoryInitInv == HistoryInit => ProjectionInv
BY LimitAssumption
   DEF HistoryInit, ProjectionInit, ProjectionInv, ProjectionTypeOK, HistoryTypeOK, MemoryInv,
       RunsInv, PendingInv, HeldInv, PublishedInv, HeldIn

(* The inductive invariant of the region memory.                           *)
THEOREM ProjectionInvariant == HistorySpec => []ProjectionInv
BY HistoryInitInv, HistoryStep, PTL DEF HistorySpec

-----------------------------------------------------------------------------
(* The properties of the steps.                                            *)

(* The labels of what is held.                                             *)
LEMMA HeldLabels ==
  ASSUME NEW cache, NEW l \in Label
  PROVE  l \in Labels(HeldIn(cache)) <=> cache[l] # NoRegion
<1>1. ASSUME cache[l] # NoRegion PROVE l \in Labels(HeldIn(cache))
  <2>1. [label |-> l, at |-> cache[l].at] \in HeldIn(cache)
    BY <1>1 DEF HeldIn
  <2>2. [label |-> l, at |-> cache[l].at].label = l
    OBVIOUS
  <2> QED BY <2>1, <2>2 DEF Labels
<1>2. ASSUME l \in Labels(HeldIn(cache)) PROVE cache[l] # NoRegion
  <2>1. PICK k \in Label : cache[k] # NoRegion /\ [label |-> k, at |-> cache[k].at].label = l
    BY <1>2 DEF Labels, HeldIn
  <2> QED BY <2>1
<1> QED BY <1>1, <1>2

LEMMA NewRegionStep ==
  ASSUME ProjectionInv, HoldTime # 0, [HistoryNext]_historyVars,
         NEW r \in publishedRegions', r.label \notin Labels(publishedRegions)
  PROVE  RequiredHits \in runs'[r.label][r.at]
<1> USE LimitAssumption
<1>1. ProjectionInv'
  BY HistoryStep
<1>2. PICK l \in Label : regionCache'[l] # NoRegion /\ r = [label |-> l, at |-> regionCache'[l].at]
  BY <1>1 DEF ProjectionInv, MemoryInv, PublishedInv, HeldIn
<1>3. regionCache[l] = NoRegion
  BY <1>2, HeldLabels DEF ProjectionInv, MemoryInv, PublishedInv
<1>4. regionCache \in [Label -> CachedRegion \cup {NoRegion}]
  BY DEF ProjectionInv, ProjectionTypeOK
<1>5. ASSUME NEW k \in Label, NEW p \in Position, OnDetection(k, p), Saw(k, p)
      PROVE  RequiredHits \in runs'[l][regionCache'[l].at]
  <2>1. PublishRegions(PendingAfter(k, p), CacheAfter(k, p))
    BY <1>5 DEF OnDetection
  <2>2. regionCache'[l] = CacheAfter(k, p)[l]
    BY <1>2, <1>5, <2>1, MemoryAfter, UnexpiredKeeps DEF PublishRegions
  <2>3. k = l /\ Confirmed(l, p) /\ CacheAfter(k, p)[l] = Counted(l, p)
    BY <1>2, <1>3, <1>4, <2>2 DEF CacheAfter, OfHeldRegion
  <2>4. /\ Counted(l, p).hits = RequiredHits /\ Counted(l, p).at = p
        /\ Counted(l, p).hits \in runs'[l][p]
    BY <1>5, <2>3, CountedRuns DEF Confirmed, CachedRegion
  <2> QED BY <2>2, <2>3, <2>4
<1>6. ASSUME PublishTimer \/ TimePasses \/ UNCHANGED historyVars
      PROVE  FALSE
  BY <1>2, <1>3, <1>4, <1>6, UnexpiredKeeps
     DEF PublishTimer, PublishRegions, TimePasses, Older, historyVars, projectionVars
<1> QED BY <1>2, <1>5, <1>6 DEF HistoryNext

LEMMA DropOutStep ==
  ASSUME ProjectionInv, HoldTime # 0, [HistoryNext]_historyVars,
         NEW r \in publishedRegions, HoldTime < 0 \/ lastSeen'[r.label][r.at] <= HoldTime
  PROVE  r.label \in Labels(publishedRegions')
<1> USE LimitAssumption
<1>1. ProjectionInv'
  BY HistoryStep
<1>2. PICK l \in Label : regionCache[l] # NoRegion /\ r = [label |-> l, at |-> regionCache[l].at]
  BY DEF ProjectionInv, MemoryInv, PublishedInv, HeldIn
<1>3. SUFFICES regionCache'[l] # NoRegion
  <2>1. publishedRegions' = HeldIn(regionCache')
    BY <1>1 DEF ProjectionInv, MemoryInv, PublishedInv
  <2> QED BY <1>2, <2>1, HeldLabels
<1>4. regionCache \in [Label -> CachedRegion \cup {NoRegion}]
  BY DEF ProjectionInv, ProjectionTypeOK
<1>5. ASSUME NEW k \in Label, NEW p \in Position, OnDetection(k, p), Saw(k, p)
      PROVE  regionCache'[l] # NoRegion
  <2>1. PublishRegions(PendingAfter(k, p), CacheAfter(k, p))
    BY <1>5 DEF OnDetection
  <2>2. CacheAfter(k, p) \in [Label -> CachedRegion \cup {NoRegion}]
    BY <1>5, MemoryAfter
  <2>3. CASE k = l /\ (OfHeldRegion(l, p) \/ Confirmed(l, p))
    <3>1. CacheAfter(k, p)[l] \in CachedRegion /\ CacheAfter(k, p)[l].age = 0
      BY <1>4, <1>5, <2>3, CountedRuns DEF CacheAfter, Sighted, CachedRegion
    <3>2. ~Expired(CacheAfter(k, p)[l], HoldTime)
      BY <3>1 DEF Expired
    <3> QED BY <2>1, <2>2, <3>1, <3>2, NoRegionAssumption, UnexpiredKeeps DEF PublishRegions
  <2>4. CASE ~(k = l /\ (OfHeldRegion(l, p) \/ Confirmed(l, p)))
    <3>1. CacheAfter(k, p)[l] = regionCache[l]
      BY <1>4, <2>4 DEF CacheAfter
    <3>2. regionCache[l].age = lastSeen'[l][regionCache[l].at]
      BY <1>2, <1>5, <3>1, MemoryAfter
    <3>3. regionCache[l].age \in Int /\ r.label = l /\ r.at = regionCache[l].at
      BY <1>2, <1>4 DEF CachedRegion
    <3>4. ~Expired(CacheAfter(k, p)[l], HoldTime)
      BY <3>1, <3>2, <3>3 DEF Expired
    <3> QED BY <1>2, <2>1, <2>2, <3>1, <3>4, UnexpiredKeeps DEF PublishRegions
  <2> QED BY <2>3, <2>4
<1>6. CASE PublishTimer /\ UNCHANGED <<runs, lastSeen>>
  <2>1. regionCache[l].age \in Int /\ r.label = l /\ r.at = regionCache[l].at
    BY <1>2, <1>4 DEF CachedRegion
  <2>2. regionCache[l].age = lastSeen'[l][regionCache[l].at]
    BY <1>2, <1>6 DEF ProjectionInv, MemoryInv, HeldInv
  <2>3. ~Expired(regionCache[l], HoldTime)
    BY <2>1, <2>2 DEF Expired
  <2> QED BY <1>2, <1>4, <1>6, <2>3, UnexpiredKeeps DEF PublishTimer, PublishRegions
<1>7. CASE TimePasses
  <2>1. publishedRegions' = publishedRegions
    BY <1>7 DEF TimePasses
  <2>2. l \in Labels(publishedRegions)
    BY <1>2, HeldLabels DEF ProjectionInv, MemoryInv, PublishedInv
  <2> QED BY <1>1, <2>1, <2>2, HeldLabels DEF ProjectionInv, MemoryInv, PublishedInv
<1>8. CASE UNCHANGED historyVars
  BY <1>2, <1>8 DEF historyVars, projectionVars
<1> QED BY <1>5, <1>6, <1>7, <1>8 DEF HistoryNext

LEMMA FreshStep ==
  ASSUME ProjectionInv, [HistoryNext]_historyVars, PublishTimer, HoldTime >= 0,
         NEW r \in publishedRegions'
  PROVE  lastSeen'[r.label][r.at] <= HoldTime
<1>1. ProjectionInv' /\ HoldTime # 0
  BY HistoryStep DEF PublishTimer
<1>2. PICK l \in Label : regionCache'[l] # NoRegion /\ r = [label |-> l, at |-> regionCache'[l].at]
  BY <1>1 DEF ProjectionInv, MemoryInv, PublishedInv, HeldIn
<1>3. regionCache' = Unexpired(regionCache, HoldTime)
  BY DEF PublishTimer, PublishRegions
<1>4. regionCache'[l] \in CachedRegion /\ ~Expired(regionCache'[l], HoldTime)
  BY <1>1, <1>2, <1>3 DEF Unexpired, ProjectionInv, ProjectionTypeOK
<1>5. regionCache'[l].age = lastSeen'[l][regionCache'[l].at]
  BY <1>1, <1>2 DEF ProjectionInv, MemoryInv, HeldInv
<1> QED BY <1>2, <1>4, <1>5, LimitAssumption DEF Expired, CachedRegion

(* A label is published only with the last of RequiredHits sightings in a  *)
(* run, whatever the limits: no false positive of one frame is published.  *)
THEOREM NewRegionsAreConfirmed == HistorySpec => NewRegionConfirmed
<1>1. ProjectionInv /\ [HistoryNext]_historyVars =>
        [HoldTime # 0 =>
           \A r \in publishedRegions' :
             r.label \notin Labels(publishedRegions)
               => RequiredHits \in runs'[r.label][r.at]]_historyVars
  BY NewRegionStep
<1> QED BY <1>1, ProjectionInvariant, PTL DEF HistorySpec, NewRegionConfirmed

(* A label stays published while its place was seen within the hold time.  *)
THEOREM DropOutsAreTolerated == HistorySpec => DropOutTolerated
<1>1. ProjectionInv /\ [HistoryNext]_historyVars =>
        [HoldTime # 0 =>
           \A r \in publishedRegions :
             HoldTime < 0 \/ lastSeen'[r.label][r.at] <= HoldTime
               => r.label \in Labels(publishedRegions')]_historyVars
  BY DropOutStep
<1> QED BY <1>1, ProjectionInvariant, PTL DEF HistorySpec, DropOutTolerated

(* The timer publishes nothing that was not seen within the hold time.     *)
THEOREM TimerPublishesFresh == HistorySpec => PublishedFresh
<1>1. ProjectionInv /\ [HistoryNext]_historyVars =>
        [PublishTimer /\ HoldTime >= 0 =>
           \A r \in publishedRegions' : lastSeen'[r.label][r.at] <= HoldTime]_historyVars
  BY FreshStep
<1> QED BY <1>1, ProjectionInvariant, PTL DEF HistorySpec, PublishedFresh

=============================================================================
