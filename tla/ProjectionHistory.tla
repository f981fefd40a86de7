-------------------------- MODULE ProjectionHistory --------------------------
(***************************************************************************)
(* The projection node with two history variables that record, per label   *)
(* and place, what the detector has reported.  A run is a sequence of      *)
(* sightings, each near the one before and no later than PendingTtl after  *)
(* it: it may drift, so its ends need not be near each other.              *)
(***************************************************************************)
EXTENDS ProjectionNode

VARIABLES
  runs,       \* lengths, up to RequiredHits, of the runs that ended with the last
              \* sighting at the place and that a sighting may still continue
  lastSeen    \* time since the last sighting at the place, up to MaxAge

historyVars == <<projectionVars, runs, lastSeen>>

HistoryInit ==
  /\ ProjectionInit
  /\ runs = [l \in Label |-> [p \in Position |-> {}]]
  /\ lastSeen = [l \in Label |-> [p \in Position |-> MaxAge]]

(* The runs that a sighting at p continues or begins.                      *)
RunsThrough(l, p) ==
  {n \in 1 .. RequiredHits :
     n = 1 \/ \E q \in Position : <<p, q>> \in Near /\ n - 1 \in runs[l][q]}

Saw(l, p) ==
  /\ runs' = [runs EXCEPT ![l][p] = RunsThrough(l, p)]
  /\ lastSeen' = [lastSeen EXCEPT ![l][p] = 0]

Aged ==
  /\ lastSeen' = [l \in Label |-> [p \in Position |->
       IF lastSeen[l][p] < MaxAge THEN lastSeen[l][p] + 1 ELSE MaxAge]]
  /\ runs' = [l \in Label |-> [p \in Position |->
       IF PendingTtl >= 0 /\ lastSeen'[l][p] > PendingTtl THEN {} ELSE runs[l][p]]]

HistoryNext ==
  \/ \E l \in Label, p \in Position : OnDetection(l, p) /\ Saw(l, p)
  \/ PublishTimer /\ UNCHANGED <<runs, lastSeen>>
  \/ TimePasses /\ Aged

HistorySpec == HistoryInit /\ [][HistoryNext]_historyVars

-----------------------------------------------------------------------------
(* With HoldTime = 0 the node has no memory: it publishes what it detects. *)

Labels(regions) == {r.label : r \in regions}

(* A label that was not published is published only with the last of       *)
(* RequiredHits sightings in a run: a false positive of one frame is never *)
(* published.                                                              *)
NewRegionConfirmed ==
  [][ HoldTime # 0 =>
        \A r \in publishedRegions' :
          r.label \notin Labels(publishedRegions)
            => RequiredHits \in runs'[r.label][r.at] ]_historyVars

(* A detector drop-out shorter than the hold time does not take a label    *)
(* off the published regions.                                              *)
DropOutTolerated ==
  [][ HoldTime # 0 =>
        \A r \in publishedRegions :
          HoldTime < 0 \/ lastSeen'[r.label][r.at] <= HoldTime
            => r.label \in Labels(publishedRegions') ]_historyVars

(* What the timer publishes was seen at its place no longer than the hold  *)
(* time ago.                                                               *)
PublishedFresh ==
  [][ PublishTimer /\ HoldTime >= 0 =>
        \A r \in publishedRegions' : lastSeen'[r.label][r.at] <= HoldTime ]_historyVars

=============================================================================
