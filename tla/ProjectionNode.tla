--------------------------- MODULE ProjectionNode ---------------------------
(***************************************************************************)
(* The semantic projection node (semantic_nav/semantic_traversability).    *)
(*                                                                         *)
(* A detection that could be projected to the ground gives a region: a     *)
(* label and a footprint, here the position of its centroid.  The node     *)
(* remembers one pending and one held region per label, promotes a pending *)
(* region after enough consistent detections, and publishes all held       *)
(* regions on every detection and on a timer.  A detection that cannot be  *)
(* projected (no depth image, no transform, too few points) returns before *)
(* it touches the memory and has no action.                                *)
(*                                                                         *)
(* Instead of stamps the memory has ages, in the unit of the two limits.   *)
(***************************************************************************)
EXTENDS Integers

CONSTANTS
  Label,            \* labels of the detector
  Position,         \* centroids of footprints
  Near,             \* pairs of centroids within region_match_distance_m
  RequiredHits,     \* max(1, region_confirmation_hits)
  PendingTtl,       \* pending_region_ttl_sec, negative: no limit
  HoldTime,         \* region_hold_sec, negative: no limit, 0: no memory
  MaxAge,           \* bound: ages are counted up to MaxAge
  NoRegion

ASSUME NearAssumption ==
  /\ Near \subseteq Position \X Position
  /\ \A p \in Position : <<p, p>> \in Near
  /\ \A p, q \in Position : <<p, q>> \in Near => <<q, p>> \in Near
ASSUME LimitAssumption ==
  /\ RequiredHits \in Nat \ {0}
  /\ {PendingTtl, HoldTime} \subseteq Int
  /\ MaxAge \in Nat /\ MaxAge > PendingTtl /\ MaxAge > HoldTime

CachedRegion == [at : Position, hits : 1 .. RequiredHits, age : 0 .. MaxAge]
SemanticRegion == [label : Label, at : Position]

ASSUME NoRegionAssumption == NoRegion \notin CachedRegion

VARIABLES
  pendingRegions,   \* pending_regions_
  regionCache,      \* region_cache_
  publishedRegions  \* the last message on regions_topic, which is latched

projectionVars == <<pendingRegions, regionCache, publishedRegions>>

ProjectionInit ==
  /\ pendingRegions = [l \in Label |-> NoRegion]
  /\ regionCache = [l \in Label |-> NoRegion]
  /\ publishedRegions = {}

-----------------------------------------------------------------------------
SameObject(p, q) == <<p, q>> \in Near

Expired(region, limit) == limit >= 0 /\ region.age > limit

Unexpired(memory, limit) ==
  [l \in Label |->
     IF memory[l] # NoRegion /\ Expired(memory[l], limit) THEN NoRegion ELSE memory[l]]

(* Mutant: the hold time of confirmed regions is that of pending ones.     *)
PublishWithTtl(pending, cache) ==
  /\ pendingRegions' = Unexpired(pending, PendingTtl)
  /\ regionCache' = Unexpired(cache, PendingTtl)
  /\ publishedRegions' =
       {[label |-> l, at |-> regionCache'[l].at] :
          l \in {x \in Label : regionCache'[x] # NoRegion}}

(* Mutant: held regions are not expired.                                   *)
PublishAll(pending, cache) ==
  /\ pendingRegions' = Unexpired(pending, PendingTtl)
  /\ regionCache' = cache
  /\ publishedRegions' =
       {[label |-> l, at |-> regionCache'[l].at] :
          l \in {x \in Label : regionCache'[x] # NoRegion}}

(* publishRegions: drop what has expired, publish the held regions.        *)
PublishRegions(pending, cache) ==
  /\ pendingRegions' = Unexpired(pending, PendingTtl)
  /\ regionCache' = Unexpired(cache, HoldTime)
  /\ publishedRegions' =
       {[label |-> l, at |-> regionCache'[l].at] :
          l \in {x \in Label : regionCache'[x] # NoRegion}}

-----------------------------------------------------------------------------
(* updateRegionMemory.                                                     *)

(* Mutant: a detection of the label elsewhere replaces its held region.    *)
OfHeldLabel(l, p) == regionCache[l] # NoRegion

(* The detection is of the held region, which it replaces.  Nobody reads   *)
(* the hits of a held region.                                              *)
OfHeldRegion(l, p) == regionCache[l] # NoRegion /\ SameObject(p, regionCache[l].at)

Sighted(p, hits) == [at |-> p, hits |-> hits, age |-> 0]

(* Mutant: a detection elsewhere, or late, counts as well.                 *)
CountedAnywhere(l, p) ==
  IF pendingRegions[l] = NoRegion
    THEN Sighted(p, 1)
    ELSE Sighted(p, pendingRegions[l].hits + 1)

(* The pending region after the detection: a detection elsewhere, or after *)
(* the time limit, begins a new count.                                     *)
Counted(l, p) ==
  IF \/ pendingRegions[l] = NoRegion
     \/ ~SameObject(p, pendingRegions[l].at)
     \/ Expired(pendingRegions[l], PendingTtl)
    THEN Sighted(p, 1)
    ELSE Sighted(p, pendingRegions[l].hits + 1)

(* Mutants: off by one in the number of confirmations, both ways.          *)
ConfirmedLate(l, p) == Counted(l, p).hits > RequiredHits

ConfirmedEarly(l, p) == Counted(l, p).hits + 1 >= RequiredHits

Confirmed(l, p) == Counted(l, p).hits >= RequiredHits

PendingAfter(l, p) ==
  IF OfHeldRegion(l, p) THEN pendingRegions
  ELSE [pendingRegions EXCEPT ![l] =
          IF Confirmed(l, p) THEN NoRegion ELSE Counted(l, p)]

CacheAfter(l, p) ==
  IF OfHeldRegion(l, p) THEN [regionCache EXCEPT ![l] = Sighted(p, RequiredHits)]
  ELSE IF Confirmed(l, p) THEN [regionCache EXCEPT ![l] = Counted(l, p)]
  ELSE regionCache

OnDetection(l, p) ==
  IF HoldTime = 0
    THEN /\ publishedRegions' = {[label |-> l, at |-> p]}
         /\ UNCHANGED <<pendingRegions, regionCache>>
    ELSE PublishRegions(PendingAfter(l, p), CacheAfter(l, p))

(* publish_timer_ exists only with a memory.                               *)
PublishTimer == HoldTime # 0 /\ PublishRegions(pendingRegions, regionCache)

Older(memory) ==
  [l \in Label |->
     IF memory[l] # NoRegion /\ memory[l].age < MaxAge
       THEN [memory[l] EXCEPT !.age = @ + 1] ELSE memory[l]]

(* One unit of time passes.                                                *)
TimePasses ==
  /\ pendingRegions' = Older(pendingRegions)
  /\ regionCache' = Older(regionCache)
  /\ UNCHANGED publishedRegions

ProjectionNext ==
  \/ \E l \in Label, p \in Position : OnDetection(l, p)
  \/ PublishTimer
  \/ TimePasses

ProjectionSpec == ProjectionInit /\ [][ProjectionNext]_projectionVars

ProjectionTypeOK ==
  /\ pendingRegions \in [Label -> CachedRegion \cup {NoRegion}]
  /\ regionCache \in [Label -> CachedRegion \cup {NoRegion}]
  /\ publishedRegions \in SUBSET SemanticRegion

=============================================================================
