---------------------- MODULE SemanticTraversabilityLayer ----------------------
(***************************************************************************)
(* The costmap layer that lowers the cost of cells inside the published    *)
(* traversable regions, within the update cycle of its layered costmap:    *)
(* every layer extends the window, the master grid is reset inside it, and *)
(* every layer writes into it.  The cycle runs in a thread of its own; the *)
(* regions and the parameters come in callbacks of the node's executor,    *)
(* the regions under a mutex, the parameters without: the callback writes  *)
(* them one by one, and the cycle reads each where it needs it, so that    *)
(* what it does to a cell may follow from a mix of old and new values.     *)
(*                                                                         *)
(* The grid is a row of cells.  A region is the set of cells whose centre  *)
(* lies inside its polygon and the set of those within clear_margin_m of   *)
(* an edge; regions that are not traversable or have no area do not occur. *)
(* The layers below are external: the costs they give and their bounds.    *)
(***************************************************************************)
EXTENDS Integers, Sequences

NO_INFORMATION == 255
FREE_SPACE == 0

CONSTANTS
  Width,          \* cells of the grid
  Region,
  Inside, Near,   \* cells of each region, and within the margin of its edges
  FrameOf,        \* frame of each region's polygon
  RegionCost,     \* the cost field of each region
  Message,        \* sequences of regions that may be published
  Values,         \* values that each parameter may have
  LowerCost,      \* costs that the layers below may give to each cell
  Initial,        \* parameters the layer may start with
  MaxChanges,     \* bound on the writes to the parameters
  MaxResets       \* bound on the times the costmap is cleared

Cell == 1 .. Width
Frame == {FrameOf[r] : r \in Region}
Cost == 0 .. 255

(* The parameters of the layer.                                            *)
Settings ==
  [enabled : Values.enabled, cost : Values.cost, threshold : Values.threshold,
   clearUnknown : Values.clearUnknown, margin : Values.margin]

ASSUME LayerAssumption ==
  /\ Width \in Nat \ {0} /\ MaxResets \in Nat /\ MaxChanges \in Nat
  /\ Inside \in [Region -> SUBSET Cell] /\ Near \in [Region -> SUBSET Cell]
  /\ RegionCost \in [Region -> 0 .. 254]
  /\ Message \subseteq Seq(Region)
  /\ Values \in [enabled : SUBSET BOOLEAN, cost : SUBSET (-1 .. 254), threshold : SUBSET Cost,
                 clearUnknown : SUBSET BOOLEAN, margin : SUBSET BOOLEAN]
  /\ Initial \subseteq Settings
  /\ LowerCost \in [Cell -> SUBSET Cost]

(* The parameters that updateCosts reads again for each cell.              *)
PerCell == {"threshold", "clearUnknown", "margin"}
Parameter == PerCell \cup {"enabled", "cost"}

VARIABLES
  published,      \* the message latched on the topic
  arrived,        \* it has not been taken by the callback yet
  latest,         \* latest_regions_, empty also for the null pointer
  settings,       \* the parameters of the layer
  had,            \* history: values of these since updateCosts began
  changes,
  tf,             \* frames that can be transformed to the costmap's
  lower,          \* what the layers below have for each cell
  phase,          \* where the cycle stands
  window,         \* cells between min_i, min_j and max_i, max_j
  queue,          \* regions not transformed yet, of the snapshot taken
  regions,        \* regions transformed and not written yet, with their costs
  todo,           \* cells of the first of them that were not looked at yet
  master,         \* the master grid
  base,           \* history: what the layers below wrote to it last
  resets

topic == <<published, arrived>>
cycle == <<phase, window, queue, regions, todo>>
grid == <<master, base>>
params == <<settings, had, changes>>
layerVars == <<topic, latest, params, tf, lower, cycle, grid, resets>>

LayerInit ==
  /\ published = <<>> /\ arrived = FALSE /\ latest = <<>>
  /\ settings \in Initial /\ had = [p \in PerCell |-> {settings[p]}] /\ changes = 0
  /\ tf \in SUBSET Frame
  /\ lower \in [Cell -> Cost] /\ \A c \in Cell : lower[c] \in LowerCost[c]
  /\ phase = "idle" /\ window = {} /\ queue = <<>> /\ regions = <<>> /\ todo = {}
  /\ master = [c \in Cell |-> FREE_SPACE] /\ base = master /\ resets = 0

-----------------------------------------------------------------------------
Covers(r, margin) == Inside[r] \cup IF margin THEN Near[r] ELSE {}

(* The box around a set of cells.                                          *)
Box(S) == {c \in Cell : \E a, b \in S : a <= c /\ c <= b}

(* updateBounds begins, with the bounds of the layers below, which may be  *)
(* any.  A message that comes after enabled_ was read and before the       *)
(* snapshot might have come before both.                                   *)
UpdateBounds ==
  /\ phase = "idle"
  /\ \E a, b \in Cell : window' = a .. b
  /\ queue' = IF settings.enabled THEN latest ELSE <<>>
  /\ phase' = "bounding"
  /\ UNCHANGED <<topic, latest, params, tf, lower, regions, todo, grid, resets>>

(* Mutant: the window is not extended.                                     *)
NoBoundRegion ==
  /\ phase = "bounding" /\ queue # <<>>
  /\ queue' = Tail(queue)
  /\ UNCHANGED <<topic, latest, params, tf, lower, phase, window, regions, todo, grid, resets>>

(* transformRegions, one region, called by updateBounds; the region is left *)
(* out if its frame cannot be transformed.  The margin is read for each     *)
(* side: if it changes in between, the window is one that the layers below *)
(* might have asked for as well.                                           *)
BoundRegion ==
  /\ phase = "bounding" /\ queue # <<>>
  /\ queue' = Tail(queue)
  /\ window' = IF FrameOf[Head(queue)] \in tf
                 THEN Box(window \cup Covers(Head(queue), settings.margin)) ELSE window
  /\ UNCHANGED <<topic, latest, params, tf, lower, phase, regions, todo, grid, resets>>

(* The master grid is reset inside the window, the layers below write to   *)
(* it, and updateCosts takes its own snapshot.                             *)
UpdateCosts ==
  /\ phase = "bounding" /\ queue = <<>>
  /\ master' = [c \in Cell |-> IF c \in window THEN lower[c] ELSE master[c]]
  /\ base' = [c \in Cell |-> IF c \in window THEN lower[c] ELSE base[c]]
  /\ queue' = IF settings.enabled THEN latest ELSE <<>>
  /\ phase' = IF window = {} THEN "idle" ELSE "costing"
  /\ had' = [p \in PerCell |-> {settings[p]}]
  /\ UNCHANGED <<topic, latest, settings, changes, tf, lower, window, regions, todo, resets>>

(* transformRegions, one region, called by updateCosts.                    *)
TransformRegion ==
  /\ phase = "costing" /\ queue # <<>>
  /\ LET r == Head(queue)
         known == FrameOf[r] \in tf
     IN  IF known /\ settings.cost >= 0
           THEN phase' = "pricing" /\ UNCHANGED <<queue, regions>>
           ELSE /\ queue' = Tail(queue)
                /\ regions' = IF known THEN Append(regions, [region |-> r, cost |-> RegionCost[r]])
                              ELSE regions
                /\ UNCHANGED phase
  /\ UNCHANGED <<topic, latest, params, tf, lower, window, todo, grid, resets>>

(* Mutant: the cost parameter is written as it is.                         *)
TakeCostRaw ==
  /\ phase = "pricing" /\ phase' = "costing"
  /\ queue' = Tail(queue)
  /\ regions' = Append(regions, [region |-> Head(queue), cost |-> settings.cost])
  /\ UNCHANGED <<topic, latest, params, tf, lower, window, todo, grid, resets>>

(* The parameter is read once more, and may be negative by now.            *)
TakeCost ==
  /\ phase = "pricing" /\ phase' = "costing"
  /\ queue' = Tail(queue)
  /\ regions' = Append(regions, [region |-> Head(queue),
                                 cost |-> IF settings.cost < 0 THEN 0 ELSE settings.cost])
  /\ UNCHANGED <<topic, latest, params, tf, lower, window, todo, grid, resets>>

(* Mutant: the box is not clamped to the window.                           *)
BeginRegionUnclamped ==
  /\ phase = "costing" /\ queue = <<>>
  /\ todo' = IF regions = <<>> THEN {}
             ELSE Box(Covers(Head(regions).region, settings.margin))
  /\ phase' = IF regions = <<>> THEN "idle" ELSE "writing"
  /\ UNCHANGED <<topic, latest, params, tf, lower, window, queue, regions, grid, resets>>

(* What remains of the cycle once all regions of the snapshot are known:   *)
(* write the first region into the cells of its box inside the window.     *)
(* The margin is read for each side, and again for each cell.              *)
BeginRegion ==
  /\ phase = "costing" /\ queue = <<>>
  /\ todo' = IF regions = <<>> THEN {}
             ELSE Box(Covers(Head(regions).region, settings.margin)) \cap window
  /\ phase' = IF regions = <<>> THEN "idle" ELSE "writing"
  /\ UNCHANGED <<topic, latest, params, tf, lower, window, queue, regions, grid, resets>>

(* The cells are looked at from left to right: leave one as it is.         *)
Current(c) == c \in todo /\ \A d \in todo : c <= d

Leave(c) == phase' = "writing" /\ todo' = todo \ {c}

(* Mutant: the threshold alone protects a cell.                            *)
CheckUnknownNot(c) ==
  /\ phase = "writing" /\ Current(c)
  /\ phase' = "known" /\ UNCHANGED todo
  /\ UNCHANGED <<topic, latest, params, tf, lower, window, queue, regions, grid, resets>>

(* clear_unknown_ is read,                                                 *)
CheckUnknown(c) ==
  /\ phase = "writing" /\ Current(c)
  /\ IF master[c] = NO_INFORMATION /\ ~settings.clearUnknown
       THEN Leave(c)
       ELSE phase' = "known" /\ UNCHANGED todo
  /\ UNCHANGED <<topic, latest, params, tf, lower, window, queue, regions, grid, resets>>

(* then override_threshold_,                                               *)
CheckThreshold(c) ==
  /\ phase = "known" /\ Current(c)
  /\ IF master[c] < settings.threshold
       THEN Leave(c)
       ELSE phase' = "marked" /\ UNCHANGED todo
  /\ UNCHANGED <<topic, latest, params, tf, lower, window, queue, regions, grid, resets>>

(* then clear_margin_m_.                                                   *)
WriteCell(c) ==
  /\ phase = "marked" /\ Current(c)
  /\ Leave(c)
  /\ LET r == Head(regions)
     IN  master' = IF c \in Covers(r.region, settings.margin)
                     THEN [master EXCEPT ![c] = r.cost] ELSE master
  /\ UNCHANGED <<topic, latest, params, tf, lower, window, queue, regions, base, resets>>

EndRegion ==
  /\ phase = "writing" /\ todo = {}
  /\ regions' = Tail(regions)
  /\ phase' = "costing"
  /\ UNCHANGED <<topic, latest, params, tf, lower, window, queue, todo, grid, resets>>

-----------------------------------------------------------------------------
(* The callbacks, and the rest of the system.                              *)

(* Mutant: only the first message is kept.                                 *)
RegionsCallbackOnce ==
  /\ arrived /\ arrived' = FALSE
  /\ latest' = IF latest = <<>> THEN published ELSE latest
  /\ UNCHANGED <<published, params, tf, lower, cycle, grid, resets>>

RegionsCallback ==
  /\ arrived /\ arrived' = FALSE
  /\ latest' = published
  /\ UNCHANGED <<published, params, tf, lower, cycle, grid, resets>>

(* One write of the parameter callback.                                    *)
SetParameter(p) ==
  /\ changes < MaxChanges /\ changes' = changes + 1
  /\ \E v \in Values[p] \ {settings[p]} :
       /\ settings' = [settings EXCEPT ![p] = v]
       /\ had' = IF p \notin PerCell THEN had
                 ELSE IF phase \in {"idle", "bounding"} THEN [had EXCEPT ![p] = {v}]
                 ELSE [had EXCEPT ![p] = @ \cup {v}]
  /\ UNCHANGED <<topic, latest, tf, lower, cycle, grid, resets>>

(* A publisher of regions, which also repeats its last message.            *)
Publish(m) ==
  /\ published' = m /\ arrived' = TRUE
  /\ UNCHANGED <<latest, params, tf, lower, cycle, grid, resets>>

TransformsChange ==
  /\ tf' \in SUBSET Frame
  /\ UNCHANGED <<topic, latest, params, lower, cycle, grid, resets>>

LowerLayersChange(c) ==
  /\ \E v \in LowerCost[c] \ {lower[c]} : lower' = [lower EXCEPT ![c] = v]
  /\ UNCHANGED <<topic, latest, params, tf, cycle, grid, resets>>

(* The costmap is cleared between two cycles: all layers are reset, and    *)
(* reset() forgets the regions.                                            *)
Reset ==
  /\ phase = "idle" /\ resets < MaxResets
  /\ latest' = <<>>
  /\ master' = [c \in Cell |-> FREE_SPACE] /\ base' = master'
  /\ resets' = resets + 1
  /\ UNCHANGED <<topic, params, tf, lower, cycle>>

UpdateMap ==
  \/ UpdateBounds \/ BoundRegion \/ UpdateCosts
  \/ TransformRegion \/ TakeCost \/ BeginRegion \/ EndRegion
  \/ \E c \in Cell : CheckUnknown(c) \/ CheckThreshold(c) \/ WriteCell(c)

LayerNext ==
  \/ UpdateMap \/ RegionsCallback \/ TransformsChange \/ Reset
  \/ \E p \in Parameter : SetParameter(p)
  \/ \E m \in Message : Publish(m)
  \/ \E c \in Cell : LowerLayersChange(c)

LayerSpec == LayerInit /\ [][LayerNext]_layerVars

(* The costmap is updated and the node spun again and again, and the       *)
(* publisher repeats its message: projection_node does on a timer.         *)
LayerFairSpec ==
  /\ LayerSpec
  /\ WF_layerVars(UpdateMap) /\ WF_layerVars(RegionsCallback) /\ WF_layerVars(Publish(published))

-----------------------------------------------------------------------------
Written == [region : Region, cost : 0 .. 254]

TypeOK ==
  /\ published \in Message \cup {<<>>} /\ arrived \in BOOLEAN
  /\ latest \in Message \cup {<<>>} /\ settings \in Settings /\ tf \subseteq Frame
  /\ DOMAIN had = PerCell /\ \A p \in PerCell : settings[p] \in had[p] /\ had[p] \subseteq Values[p]
  /\ \A c \in Cell : lower[c] \in LowerCost[c] /\ {master[c], base[c]} \subseteq Cost
  /\ window \subseteq Cell /\ todo \subseteq Cell
  /\ phase \in {"idle", "bounding", "costing", "pricing", "writing", "known", "marked"}
  /\ queue \in Seq(Region) /\ regions \in Seq(Written)
  /\ changes \in 0 .. MaxChanges /\ resets \in 0 .. MaxResets

(* Whatever arrives during a cycle, what it has changed of the costs below *)
(* it is explained by values that the parameters had while it ran: a cell  *)
(* was marked by one of the thresholds, lies in a region by one of the     *)
(* margins, and was not unknown unless clear_unknown was on at some point. *)
(* The callback may change the parameters between two reads, so the three  *)
(* values need never have been in force together; a value that was given   *)
(* up before the cycle decides nothing.                                    *)
LoweredByCurrentValues ==
  phase \notin {"idle", "bounding"} =>
    \A c \in window : master[c] # base[c] =>
      /\ \E t \in had.threshold : base[c] >= t
      /\ base[c] = NO_INFORMATION => TRUE \in had.clearUnknown
      /\ \E m \in had.margin, r \in Region : c \in Covers(r, m)

(* The cycle never changes the master grid outside its window, although    *)
(* updateBounds and updateCosts may see different regions.                 *)
OnlyWindowWritten ==
  [][ UpdateMap => \A c \in Cell : c \notin window => master'[c] = master[c] ]_layerVars

Shown(r, c) ==
  /\ \E i \in 1 .. Len(published) : published[i] = r
  /\ settings.enabled /\ FrameOf[r] \in tf /\ c \in Covers(r, settings.margin)

(* A cell inside a region that stays published is in the end never left    *)
(* marked by a cycle, even if the costmap was cleared in between, and if   *)
(* earlier cycles decided it by a mix of old and new parameters.           *)
PublishedRegionCleared ==
  \A r \in Region, c \in Cell, t \in Values.threshold :
    <>[](Shown(r, c) /\ settings.threshold = t) =>
      <>[](phase = "idle" => master[c] < t \/ master[c] = NO_INFORMATION)

Gone(c) == \A i \in 1 .. Len(published) : c \notin Covers(published[i], TRUE)

(* A cell that no region covers any more gets back the cost the layers     *)
(* below give it, if these go on to refresh it.                            *)
GoneRegionRestored ==
  \A c \in Cell :
    <>[]Gone(c) /\ []<>(phase = "costing" /\ c \in window) => <>[](master[c] = base[c])

=============================================================================
