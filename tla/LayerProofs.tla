---------------------------- MODULE LayerProofs ----------------------------
(***************************************************************************)
(* The costmap layer for every grid, set of regions and set of parameter   *)
(* values: what a cycle may write, whatever arrives while it runs.         *)
(***************************************************************************)
EXTENDS SemanticTraversabilityLayer, TLAPS

(* The types, with the grids as functions.                                 *)
LayerTypes ==
  /\ TypeOK
  /\ lower \in [Cell -> Cost] /\ master \in [Cell -> Cost] /\ base \in [Cell -> Cost]
  /\ had = [p \in PerCell |-> had[p]]

(* A cycle looks at cells only while it writes a region, and only inside   *)
(* its window.                                                             *)
CycleInv ==
  /\ IF phase \in {"writing", "known", "marked"} THEN regions # <<>> ELSE todo = {}
  /\ todo \subseteq window
  /\ phase \in {"idle", "bounding"} => regions = <<>>
  /\ phase = "pricing" => queue # <<>>

(* What the checks of the cell under way have found, by values that the    *)
(* parameters had when they were read.                                     *)
CheckInv ==
  \A c \in todo : Current(c) =>
    /\ phase \in {"known", "marked"} /\ master[c] = NO_INFORMATION => TRUE \in had.clearUnknown
    /\ phase = "marked" => \E t \in had.threshold : master[c] >= t

LayerInv == LayerTypes /\ CycleInv /\ CheckInv /\ LoweredByCurrentValues

-----------------------------------------------------------------------------
(* What the pure helpers return.                                           *)

LEMMA BoxInGrid == \A S : Box(S) \subseteq Cell
BY DEF Box

LEMMA IntervalInGrid ==
  ASSUME NEW a \in Cell, NEW b \in Cell
  PROVE  a .. b \subseteq Cell
<1>1. Width \in Nat
  BY LayerAssumption
<1> QED BY <1>1 DEF Cell

LEMMA CostsAreNumbers == Cost \subseteq Int
BY DEF Cost

(* Writing one cell of a grid.                                             *)
LEMMA GridUpdate ==
  ASSUME NEW f \in [Cell -> Cost], NEW c \in Cell, NEW v \in Cost
  PROVE  /\ [f EXCEPT ![c] = v] \in [Cell -> Cost]
         /\ \A d \in Cell : d # c => [f EXCEPT ![c] = v][d] = f[d]
OBVIOUS

LEMMA SettingsTypes ==
  ASSUME NEW s \in Settings
  PROVE  /\ s.enabled \in BOOLEAN /\ s.margin \in BOOLEAN /\ s.clearUnknown \in BOOLEAN
         /\ s.cost \in -1 .. 254 /\ s.threshold \in Cost
BY LayerAssumption DEF Settings

(* A non-empty sequence has a head and a tail of its elements.             *)
LEMMA HeadAndTail ==
  ASSUME NEW S, NEW q \in Seq(S), q # <<>>
  PROVE  Head(q) \in S /\ Tail(q) \in Seq(S)
OBVIOUS

LEMMA Sequences ==
  ASSUME NEW S
  PROVE  <<>> \in Seq(S) /\ \A q \in Seq(S), e \in S : Append(q, e) \in Seq(S)
OBVIOUS

(* The regions known to the layer, in the order of the message.            *)
LEMMA LatestIsSequence ==
  ASSUME LayerInv
  PROVE  latest \in Seq(Region) /\ queue \in Seq(Region) /\ regions \in Seq(Written)
<1>1. Message \subseteq Seq(Region)
  BY LayerAssumption
<1>2. latest \in Message \cup {<<>>} /\ queue \in Seq(Region) /\ regions \in Seq(Written)
  BY DEF LayerInv, LayerTypes, TypeOK
<1> QED BY <1>1, <1>2, Sequences

(* The next region of the snapshot is left out or goes on.                 *)
LEMMA QueueStep ==
  ASSUME LayerInv, queue' \in {queue, latest, <<>>} \/ (queue # <<>> /\ queue' = Tail(queue))
  PROVE  queue' \in Seq(Region)
<1>1. latest \in Seq(Region) /\ queue \in Seq(Region)
  BY LatestIsSequence
<1>2. queue # <<>> => Tail(queue) \in Seq(Region)
  BY <1>1, HeadAndTail
<1>3. <<>> \in Seq(Region)
  BY Sequences
<1> QED BY <1>1, <1>2, <1>3

-----------------------------------------------------------------------------
(* The parameters and what has been recorded of them have their types.     *)
LEMMA ParametersTyped ==
  ASSUME LayerInv
  PROVE  /\ settings \in Settings
         /\ \A p \in PerCell : settings[p] \in had[p] /\ had[p] \subseteq Values[p]
         /\ had = [p \in PerCell |-> had[p]]
         /\ {settings.threshold} \subseteq had.threshold
         /\ {settings.clearUnknown} \subseteq had.clearUnknown
         /\ {settings.margin} \subseteq had.margin
BY DEF LayerInv, LayerTypes, TypeOK, PerCell

LEMMA BoundsStep ==
  ASSUME LayerInv, UpdateBounds \/ BoundRegion
  PROVE  LayerInv'
<1> USE LayerAssumption DEF LayerInv, LayerTypes, TypeOK, CycleInv
<1>1. /\ UNCHANGED <<topic, latest, params, tf, lower, regions, todo, grid, resets>>
      /\ phase' = "bounding" /\ phase \in {"idle", "bounding"}
  BY DEF UpdateBounds, BoundRegion
<1>2. window' \subseteq Cell
  <2>1. CASE UpdateBounds
    <3>1. PICK a, b \in Cell : window' = a .. b
      BY <2>1 DEF UpdateBounds
    <3> QED BY <3>1, IntervalInGrid
  <2>2. CASE BoundRegion
    BY <2>2, BoxInGrid DEF BoundRegion
  <2> QED BY <2>1, <2>2
<1>3. queue' \in Seq(Region)
  <2>1. queue' \in {latest, <<>>} \/ (queue # <<>> /\ queue' = Tail(queue))
    BY DEF UpdateBounds, BoundRegion
  <2> QED BY <2>1, QueueStep
<1>4. CheckInv' /\ LoweredByCurrentValues'
  BY <1>1 DEF CheckInv, LoweredByCurrentValues
<1> QED BY <1>1, <1>2, <1>3, <1>4 DEF topic, params, grid

LEMMA CostsStep ==
  ASSUME LayerInv, UpdateCosts
  PROVE  LayerInv'
<1> USE LayerAssumption DEF LayerInv, LayerTypes, TypeOK, CycleInv
<1>1. /\ UNCHANGED <<topic, latest, settings, changes, tf, lower, window, regions, todo, resets>>
      /\ phase' \in {"idle", "costing"} /\ phase = "bounding"
      /\ queue' = IF settings.enabled THEN latest ELSE <<>>
      /\ had' = [p \in PerCell |-> {settings[p]}]
  BY DEF UpdateCosts
<1>2. /\ master' \in [Cell -> Cost] /\ base' \in [Cell -> Cost]
      /\ \A c \in Cell : IF c \in window THEN master'[c] = base'[c]
                         ELSE master'[c] = master[c] /\ base'[c] = base[c]
  BY DEF UpdateCosts
<1>3. queue' \in Seq(Region)
  <2>1. queue' \in {latest, <<>>}
    BY <1>1
  <2> QED BY <2>1, QueueStep
<1>4. /\ had' = [p \in PerCell |-> had'[p]]
      /\ \A p \in PerCell : settings'[p] \in had'[p] /\ had'[p] \subseteq Values[p]
  BY <1>1, ParametersTyped
<1>5. LoweredByCurrentValues' /\ CheckInv'
  BY <1>1, <1>2 DEF LoweredByCurrentValues, CheckInv
<1> QED BY <1>1, <1>2, <1>3, <1>4, <1>5 DEF topic

LEMMA TransformStep ==
  ASSUME LayerInv, TransformRegion \/ TakeCost
  PROVE  LayerInv'
<1> USE LayerAssumption DEF LayerInv, LayerTypes, TypeOK, CycleInv
<1> DEFINE entry(v) == [region |-> Head(queue), cost |-> v]
<1>1. /\ UNCHANGED <<topic, latest, params, tf, lower, window, todo, grid, resets>>
      /\ phase \in {"costing", "pricing"} /\ phase' \in {"costing", "pricing"} /\ queue # <<>>
  BY DEF TransformRegion, TakeCost
<1>2. /\ Head(queue) \in Region /\ Tail(queue) \in Seq(Region) /\ queue \in Seq(Region)
      /\ regions \in Seq(Written)
  BY <1>1, HeadAndTail, LatestIsSequence
<1>3. PICK v \in 0 .. 254 :
        \/ phase' = "pricing" /\ queue' = queue /\ regions' = regions
        \/ /\ phase' = "costing" /\ queue' = Tail(queue)
           /\ regions' \in {regions, Append(regions, entry(v))}
  <2>1. CASE TransformRegion
    <3>1. RegionCost[Head(queue)] \in 0 .. 254
      BY <1>2
    <3> QED BY <2>1, <3>1 DEF TransformRegion
  <2>2. CASE TakeCost
    <3>1. (IF settings.cost < 0 THEN 0 ELSE settings.cost) \in 0 .. 254
      BY ParametersTyped, SettingsTypes
    <3> QED BY <2>2, <3>1 DEF TakeCost
  <2> QED BY <2>1, <2>2
<1>4. entry(v) \in Written
  BY <1>2 DEF Written
<1>5. Append(regions, entry(v)) \in Seq(Written)
  BY <1>2, <1>4, Sequences
<1>6. CheckInv'
  BY <1>1 DEF CheckInv
<1>7. LoweredByCurrentValues'
  BY <1>1 DEF LoweredByCurrentValues, grid, params
<1>8. queue' \in Seq(Region) /\ regions' \in Seq(Written)
  BY <1>2, <1>3, <1>5
<1>9. CycleInv'
  BY <1>1, <1>3
<1>10. LayerTypes'
  BY <1>1, <1>8 DEF topic, params, grid
<1> QED BY <1>6, <1>7, <1>9, <1>10

LEMMA RegionStep ==
  ASSUME LayerInv, BeginRegion \/ EndRegion
  PROVE  LayerInv'
<1> USE LayerAssumption DEF LayerInv, LayerTypes, TypeOK, CycleInv
<1>1. /\ UNCHANGED <<topic, latest, params, tf, lower, window, queue, grid, resets>>
      /\ phase \in {"costing", "writing"}
  BY DEF BeginRegion, EndRegion
<1>2. regions' \in Seq(Written)
  <2>1. regions' = regions \/ (regions # <<>> /\ regions' = Tail(regions))
    BY DEF BeginRegion, EndRegion
  <2>2. regions \in Seq(Written)
    BY LatestIsSequence
  <2>3. regions # <<>> => Tail(regions) \in Seq(Written)
    BY <2>2, HeadAndTail
  <2> QED BY <2>1, <2>2, <2>3
<1>3. /\ todo' \subseteq Cell /\ todo' \subseteq window
      /\ phase' \in {"idle", "costing", "writing"}
      /\ IF phase' = "writing" THEN regions' # <<>> ELSE todo' = {}
      /\ phase' = "idle" => regions' = <<>>
  <2>1. CASE BeginRegion
    BY <2>1 DEF BeginRegion
  <2>2. CASE EndRegion
    BY <2>2 DEF EndRegion
  <2> QED BY <2>1, <2>2
<1>4. CheckInv'
  BY <1>3 DEF CheckInv
<1>5. LoweredByCurrentValues'
  BY <1>1 DEF LoweredByCurrentValues, grid, params
<1> QED BY <1>1, <1>2, <1>3, <1>4, <1>5 DEF topic, params, grid

(* Each check of a cell adds what it has found by the value it has read.   *)
LEMMA CheckStep ==
  ASSUME LayerInv, NEW c \in Cell, CheckUnknown(c) \/ CheckThreshold(c)
  PROVE  LayerInv'
<1> USE LayerAssumption DEF LayerInv, LayerTypes, TypeOK, CycleInv
<1>1. /\ UNCHANGED <<topic, latest, params, tf, lower, window, queue, regions, grid, resets>>
      /\ phase \in {"writing", "known"} /\ phase' \in {"writing", "known", "marked"}
      /\ todo' \subseteq todo /\ Current(c)
      /\ phase' # "writing" => todo' = todo
  BY DEF CheckUnknown, CheckThreshold, Leave
<1>2. CheckInv'
  <2>1. ASSUME NEW d \in todo', Current(d)', phase' # "writing"
        PROVE  d = c /\ Current(d)
    BY <1>1, <2>1 DEF Current, Cell
  <2>2. phase' # "writing" /\ master[c] = NO_INFORMATION => TRUE \in had.clearUnknown
    <3>1. CASE CheckUnknown(c)
      BY <3>1, ParametersTyped, SettingsTypes DEF CheckUnknown, Leave
    <3>2. CASE CheckThreshold(c)
      BY <3>2 DEF CheckThreshold, CheckInv, Current, Leave
    <3> QED BY <3>1, <3>2
  <2>3. phase' = "marked" => \E t \in had.threshold : master[c] >= t
    <3>1. settings.threshold \in Int /\ master[c] \in Int
      <4>1. settings.threshold \in Cost
        BY ParametersTyped, SettingsTypes
      <4>2. master[c] \in Cost
        OBVIOUS
      <4> QED BY <4>1, <4>2, CostsAreNumbers
    <3>2. phase' = "marked" => ~(master[c] < settings.threshold)
      BY DEF CheckUnknown, CheckThreshold, Leave
    <3>3. phase' = "marked" => master[c] >= settings.threshold
      BY <3>1, <3>2
    <3>4. settings.threshold \in had.threshold
      BY ParametersTyped
    <3> QED BY <3>3, <3>4
  <2> QED BY <1>1, <2>1, <2>2, <2>3 DEF CheckInv, grid, params
<1>3. LoweredByCurrentValues'
  BY <1>1 DEF LoweredByCurrentValues, grid, params
<1> QED BY <1>1, <1>2, <1>3 DEF topic, params, grid

(* The cell that is written lies in the window; what its new cost is.      *)
LEMMA WrittenCell ==
  ASSUME LayerInv, NEW c \in Cell, WriteCell(c)
  PROVE  /\ c \in window /\ todo' = todo \ {c} /\ phase' = "writing"
         /\ \E v \in Cost, r \in Region :
              \/ master' = master
              \/ master' = [master EXCEPT ![c] = v] /\ c \in Covers(r, settings.margin)
<1> USE DEF LayerInv, LayerTypes, TypeOK, CycleInv
<1>1. c \in todo /\ phase = "marked" /\ todo' = todo \ {c} /\ phase' = "writing"
  BY DEF WriteCell, Current, Leave
<1>2. regions # <<>> /\ regions \in Seq(Written)
  BY <1>1, LatestIsSequence
<1>3. Head(regions) \in Written
  BY <1>2, HeadAndTail
<1>4. Head(regions).region \in Region /\ Head(regions).cost \in Cost
  BY <1>3 DEF Written, Cost
<1> QED BY <1>1, <1>4 DEF WriteCell

LEMMA WriteStep ==
  ASSUME LayerInv, NEW c \in Cell, WriteCell(c)
  PROVE  LayerInv'
<1> USE LayerAssumption DEF LayerInv, LayerTypes, TypeOK, CycleInv
<1>1. UNCHANGED <<topic, latest, params, tf, lower, window, queue, regions, base, resets>>
      /\ phase = "marked" /\ c \in todo /\ Current(c)
  BY DEF WriteCell, Current
<1>2. /\ c \in window /\ todo' = todo \ {c} /\ phase' = "writing"
  BY WrittenCell
<1>3. PICK v \in Cost, r \in Region :
        \/ master' = master
        \/ master' = [master EXCEPT ![c] = v] /\ c \in Covers(r, settings.margin)
  BY WrittenCell
<1>6. master \in [Cell -> Cost]
  OBVIOUS
<1>7. master' \in [Cell -> Cost] /\ \A d \in Cell : d # c => master'[d] = master[d]
  BY <1>3, <1>6, GridUpdate
<1>4. CheckInv'
  BY <1>2 DEF CheckInv
<1>5. LoweredByCurrentValues'
  <2>1. ASSUME master'[c] # base[c], master[c] = base[c]
        PROVE  /\ \E t \in had.threshold : base[c] >= t
               /\ base[c] = NO_INFORMATION => TRUE \in had.clearUnknown
               /\ \E m \in had.margin, q \in Region : c \in Covers(q, m)
    <3>1. \E q \in Region : c \in Covers(q, settings.margin)
      BY <1>3, <2>1
    <3>2. settings.margin \in had.margin
      BY ParametersTyped
    <3> QED BY <1>1, <2>1, <3>1, <3>2 DEF CheckInv
  <2>2. had' = had /\ base' = base /\ window' = window
    BY <1>1 DEF params
  <2>3. \A d \in window : master[d] # base[d] =>
          /\ \E t \in had.threshold : base[d] >= t
          /\ base[d] = NO_INFORMATION => TRUE \in had.clearUnknown
          /\ \E m \in had.margin, q \in Region : d \in Covers(q, m)
    BY <1>1 DEF LoweredByCurrentValues
  <2>4. \A d \in window : master'[d] # base[d] =>
          /\ \E t \in had.threshold : base[d] >= t
          /\ base[d] = NO_INFORMATION => TRUE \in had.clearUnknown
          /\ \E m \in had.margin, q \in Region : d \in Covers(q, m)
    <3>1. ASSUME NEW d \in window, d = c, master'[d] # base[d]
          PROVE  /\ \E t \in had.threshold : base[d] >= t
                 /\ base[d] = NO_INFORMATION => TRUE \in had.clearUnknown
                 /\ \E m \in had.margin, q \in Region : d \in Covers(q, m)
      BY <2>1, <2>3, <3>1
    <3>2. ASSUME NEW d \in window, d # c PROVE master'[d] = master[d]
      <4>1. window \subseteq Cell
        OBVIOUS
      <4> QED BY <1>7, <3>2, <4>1
    <3> QED BY <2>3, <3>1, <3>2
  <2> QED BY <2>2, <2>4 DEF LoweredByCurrentValues
<1> QED BY <1>1, <1>2, <1>4, <1>5, <1>7 DEF topic, params

(* What has been recorded of the parameters after one of them was written. *)
LEMMA ValuesRecorded ==
  ASSUME NEW p \in PerCell, NEW v \in Values[p],
         had = [q \in PerCell |-> had[q]],
         \A q \in PerCell : settings[q] \in had[q],
         \A q \in PerCell : had[q] \subseteq Values[q],
         \A q \in PerCell : settings'[q] = IF q = p THEN v ELSE settings[q],
         had' \in {[had EXCEPT ![p] = {v}], [had EXCEPT ![p] = had[p] \cup {v}]}
  PROVE  /\ had' = [q \in PerCell |-> had'[q]]
         /\ \A q \in PerCell : settings'[q] \in had'[q] /\ had'[q] \subseteq Values[q]
         /\ had' = [had EXCEPT ![p] = had[p] \cup {v}] => \A q \in PerCell : had[q] \subseteq had'[q]
<1>1. \A q \in PerCell : had'[q] = IF q = p THEN had'[p] ELSE had[q]
  OBVIOUS
<1>2. had'[p] = {v} \/ had'[p] = had[p] \cup {v}
  OBVIOUS
<1>3. had'[p] \subseteq Values[p] /\ v \in had'[p]
  BY <1>2
<1>4. had' = [q \in PerCell |-> had'[q]]
  OBVIOUS
<1>5. had' = [had EXCEPT ![p] = had[p] \cup {v}] => \A q \in PerCell : had[q] \subseteq had'[q]
  OBVIOUS
<1>6. ASSUME NEW q \in PerCell PROVE settings'[q] \in had'[q] /\ had'[q] \subseteq Values[q]
  BY <1>1, <1>3
<1> QED BY <1>4, <1>5, <1>6

(* A write of the parameter callback: what had been recorded stays so while *)
(* a cycle runs.                                                           *)
LEMMA ParameterStep ==
  ASSUME LayerInv, NEW p \in Parameter, SetParameter(p)
  PROVE  LayerInv'
<1> USE LayerAssumption DEF LayerInv, LayerTypes, TypeOK, CycleInv
<1>1. /\ UNCHANGED <<topic, latest, tf, lower, cycle, grid, resets>>
      /\ changes' \in 0 .. MaxChanges
  BY DEF SetParameter
<1>2. PICK v \in Values[p] :
        /\ settings' = [settings EXCEPT ![p] = v]
        /\ had' = IF p \notin PerCell THEN had
                  ELSE IF phase \in {"idle", "bounding"} THEN [had EXCEPT ![p] = {v}]
                  ELSE [had EXCEPT ![p] = @ \cup {v}]
  BY DEF SetParameter
<1>3. settings' \in Settings
  BY <1>2 DEF Settings, Parameter, PerCell
<1>4. /\ had' = [q \in PerCell |-> had'[q]]
      /\ \A q \in PerCell : settings'[q] \in had'[q] /\ had'[q] \subseteq Values[q]
      /\ phase \notin {"idle", "bounding"} => \A q \in PerCell : had[q] \subseteq had'[q]
  <2>1. \A q \in PerCell : settings'[q] = IF q = p THEN v ELSE settings[q]
    BY <1>2, ParametersTyped DEF PerCell, Settings
  <2>2. /\ had = [q \in PerCell |-> had[q]]
        /\ \A q \in PerCell : settings[q] \in had[q]
        /\ \A q \in PerCell : had[q] \subseteq Values[q]
    BY ParametersTyped
  <2>3. CASE p \notin PerCell
    BY <1>2, <2>1, <2>2, <2>3
  <2>4. CASE p \in PerCell
    <3>1. had' \in {[had EXCEPT ![p] = {v}], [had EXCEPT ![p] = had[p] \cup {v}]}
      BY <1>2, <2>4
    <3>2. phase \notin {"idle", "bounding"} => had' = [had EXCEPT ![p] = had[p] \cup {v}]
      BY <1>2, <2>4
    <3>3. v \in Values[p]
      BY <1>2
    <3> HIDE DEF LayerInv, LayerTypes, TypeOK, CycleInv
    <3> QED BY <2>1, <2>2, <2>4, <3>1, <3>2, <3>3, ValuesRecorded
  <2> QED BY <2>3, <2>4
<1>5. CheckInv' /\ LoweredByCurrentValues'
  <2>1. phase \notin {"idle", "bounding"} =>
          /\ had.threshold \subseteq had'.threshold
          /\ had.clearUnknown \subseteq had'.clearUnknown
          /\ had.margin \subseteq had'.margin
    BY <1>4 DEF PerCell
  <2> QED BY <1>1, <2>1 DEF CheckInv, LoweredByCurrentValues, Current, cycle, grid
<1> QED BY <1>1, <1>3, <1>4, <1>5 DEF topic, cycle, grid

(* The other callbacks and nodes and the layers below.                     *)
LEMMA OutsideStep ==
  ASSUME LayerInv,
         \/ RegionsCallback \/ TransformsChange
         \/ \E m \in Message : Publish(m)
         \/ \E c \in Cell : LowerLayersChange(c)
         \/ UNCHANGED layerVars
  PROVE  LayerInv'
<1> USE LayerAssumption DEF LayerInv, LayerTypes, TypeOK, topic, cycle, grid, params
<1>1. UNCHANGED <<cycle, grid, params, resets>>
  BY DEF RegionsCallback, TransformsChange, Publish, LowerLayersChange, layerVars
<1>2. /\ published' \in Message \cup {<<>>} /\ arrived' \in BOOLEAN
      /\ latest' \in Message \cup {<<>>} /\ tf' \subseteq Frame
  BY DEF RegionsCallback, TransformsChange, Publish, LowerLayersChange, layerVars
<1>3. lower' \in [Cell -> Cost] /\ \A c \in Cell : lower'[c] \in LowerCost[c]
  <2>1. CASE \E c \in Cell : LowerLayersChange(c)
    <3>1. PICK c \in Cell, v \in Cost :
            v \in LowerCost[c] /\ lower' = [lower EXCEPT ![c] = v]
      BY <2>1 DEF LowerLayersChange
    <3> QED BY <3>1
  <2>2. CASE UNCHANGED lower
    BY <2>2
  <2> QED
    BY <2>1, <2>2 DEF RegionsCallback, TransformsChange, Publish, layerVars
<1>4. CheckInv' /\ LoweredByCurrentValues'
  BY <1>1 DEF CheckInv, LoweredByCurrentValues, Current
<1> QED BY <1>1, <1>2, <1>3, <1>4 DEF CycleInv

LEMMA ResetStep ==
  ASSUME LayerInv, Reset
  PROVE  LayerInv'
<1> USE LayerAssumption DEF LayerInv, LayerTypes, TypeOK, topic, cycle, params
<1>1. FREE_SPACE \in Cost
  BY DEF FREE_SPACE, Cost
<1>2. master' = base' /\ master' \in [Cell -> Cost]
  BY <1>1 DEF Reset
<1>3. resets' \in 0 .. MaxResets
  BY DEF Reset
<1>4. CheckInv' /\ LoweredByCurrentValues'
  BY DEF Reset, CheckInv, LoweredByCurrentValues, CycleInv
<1> QED BY <1>2, <1>3, <1>4 DEF Reset, CycleInv

LEMMA LayerStep == LayerInv /\ [LayerNext]_layerVars => LayerInv'
BY BoundsStep, CostsStep, TransformStep, RegionStep, CheckStep, WriteStep, ParameterStep,
   OutsideStep, ResetStep
   DEF LayerNext, UpdateMap

LEMMA LayerStart == LayerInit => LayerInv
<1> SUFFICES ASSUME LayerInit PROVE LayerInv
  OBVIOUS
<1> USE LayerAssumption DEF LayerInit
<1>1. FREE_SPACE \in Cost
  BY DEF FREE_SPACE, Cost
<1>2. master \in [Cell -> Cost] /\ base = master
  BY <1>1
<1>3. <<>> \in Seq(Region) /\ <<>> \in Seq(Written) /\ resets \in 0 .. MaxResets
      /\ changes \in 0 .. MaxChanges
  OBVIOUS
<1>4. /\ settings \in Settings /\ had = [p \in PerCell |-> had[p]]
      /\ \A p \in PerCell : settings[p] \in had[p] /\ had[p] \subseteq Values[p]
  BY DEF PerCell, Settings
<1>5. lower \in [Cell -> Cost] /\ master \in [Cell -> Cost] /\ base \in [Cell -> Cost]
  BY <1>2
<1>6. TypeOK
  BY <1>3, <1>4, <1>5 DEF TypeOK
<1> QED BY <1>4, <1>5, <1>6 DEF LayerInv, LayerTypes, CycleInv, CheckInv, LoweredByCurrentValues

(* The inductive invariant of the layer.                                   *)
THEOREM LayerInvariant == LayerSpec => []LayerInv
BY LayerStart, LayerStep, PTL DEF LayerSpec

(* Each variable keeps its type: in particular, a cost that the layer      *)
(* writes is never -1 and never NO_INFORMATION.                            *)
THEOREM LayerTypesHold == LayerSpec => []TypeOK
<1>1. LayerInv => TypeOK
  BY DEF LayerInv, LayerTypes
<1> QED BY <1>1, LayerInvariant, PTL

(* Whatever arrives between two steps of a cycle, what it lowers was       *)
(* marked, lies in a region and was not unknown by values that the three   *)
(* parameters had while it ran, although it reads them one by one.         *)
THEOREM CycleUsesCurrentValues == LayerSpec => []LoweredByCurrentValues
<1>1. LayerInv => LoweredByCurrentValues
  BY DEF LayerInv
<1> QED BY <1>1, LayerInvariant, PTL

(* A cycle writes only inside the window it announced, even if the regions *)
(* that updateCosts finds are not those that updateBounds has seen.        *)
THEOREM LayerWritesInWindow == LayerSpec => OnlyWindowWritten
<1>1. ASSUME LayerInv, UpdateMap, NEW c \in Cell, c \notin window
      PROVE  master'[c] = master[c]
  <2>1. ASSUME NEW d \in Cell, WriteCell(d) PROVE master'[c] = master[c]
    BY <1>1, <2>1, WrittenCell DEF LayerInv, LayerTypes
  <2>2. CASE UpdateCosts
    BY <1>1, <2>2 DEF UpdateCosts
  <2>3. CASE UpdateBounds \/ BoundRegion \/ TransformRegion \/ TakeCost \/ BeginRegion \/ EndRegion
    BY <2>3 DEF UpdateBounds, BoundRegion, TransformRegion, TakeCost, BeginRegion, EndRegion, grid
  <2>4. ASSUME NEW d \in Cell, CheckUnknown(d) \/ CheckThreshold(d) PROVE master'[c] = master[c]
    BY <2>4 DEF CheckUnknown, CheckThreshold, grid
  <2> QED BY <1>1, <2>1, <2>2, <2>3, <2>4 DEF UpdateMap
<1>2. LayerInv /\ [LayerNext]_layerVars =>
        [UpdateMap => \A c \in Cell : c \notin window => master'[c] = master[c]]_layerVars
  BY <1>1
<1> QED BY <1>2, LayerInvariant, PTL DEF LayerSpec, OnlyWindowWritten

=============================================================================
