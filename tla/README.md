# Stretch navigation: specifications

This directory specifies the navigation software of the Stretch robot: the behavior tree that sends it to a
goal, and the semantic navigation pipeline that tells the planner which obstacles are not really there.
Paths below are relative to the repository's `src/` colcon workspace.

## The system

A detector names an object in a camera image (`semantic_perception`). The projection node lifts the detection
to a polygon on the ground, remembers it and publishes the remembered regions
(`semantic_traversability/src/projection_node.cpp`). Two consumers use the regions: the dynamic map updater,
which overrides cells of the SLAM map (`dynamic_mapping`), and a nav2 costmap layer
(`semantic_traversability_layer.cpp`). Independently, `bt_engine` waits for `/start` and ticks a behavior tree
whose leaves are the ROS wrappers of `behaviortree_ros2`; the last leaf is nav2's `navigate_to_pose` action.

| Component | State | Operations | What makes it hard | What makes it correct |
|---|---|---|---|---|
| dynamic map updater | raw map, latest regions, two masks, two evidence grids | `onRawMap`, `onSemanticRegions`, `onScan`, all under `mutex_` | three topics in any order, TF that fails per region, a map that grows, obstacles that come back | an occupied cell is published free only with enough evidence from enough poses, and is published free then |
| projection node | depth image and camera info, pending and held region per label | `onDetection`, 5 Hz timer | false positives, drop-outs, two objects of one label, ages against two limits | published after consistent sightings, held through drop-outs, dropped afterwards |
| semantic pipeline | the latched topic between them, robot pose, TF | delivery, republication, motion | a publication repeated is not an observation repeated; messages before localization | only detections confirmed, or near confirmed ones, open cells |
| `RosActionNode` | goal handle, future handle, result, feedback verdict | `tick`, `halt`, `cancelGoal`, four client callbacks | callbacks run only while the node spins its own executor; halting races acceptance and rejection | one live goal at a time, none left behind, SUCCESS only for a goal that succeeded |
| `bt_engine` | `start_received_`, tree status | `startCallback`, `runTree`, `main` | `/start` early, twice or late; an exception in a leaf | one goal per process, a start is not lost, the loop ends |
| `TreeExecutionServer` | thread, tree, goal handle, cancellation flag | `handle_goal`, `handle_cancel`, `handle_accepted`, `execute` | a new goal joins the old thread inside the executor | every accepted goal ends in one terminal state |
| service, publisher and subscriber leaves | future response, last message, shared instances | `tick`, `halt`, callbacks | as for the action leaf | a response belongs to the request it is credited to |
| costmap layer | latest regions, parameters | `regionsCallback`, `updateBounds`, `updateCosts`, `reset`, parameter callback | two snapshots in one cycle, parameters written and read one by one without a lock | only marked cells inside the window are lowered, and the cleared cells follow the regions |
| navigator client | goal handle, result future, feedback, status | `goToPose`, `isTaskComplete`, `cancelTask` | a rejected goal after a successful one | a result belongs to the goal asked last |
| perception nodes | model, prompt, latest image | image and prompt callbacks, parser | free-form answers of a model | boxes inside the image |

`PROJECT.json` lists the hazards line by line with the properties aimed at them.

## Modules

| Module | What it is | Code |
|---|---|---|
| `DynamicMapUpdater` | the updater node, one action per callback | `dynamic_map_updater_node.cpp`, `dynamic_map_core.cpp` |
| `DynamicMapHistory` | adds what was really seen of each cell, and the properties | |
| `DynamicMapProofs` | theorems about the two modules above | |
| `ProjectionNode` | region memory of the projection node | `projection_node.cpp` |
| `ProjectionHistory` | adds the runs of sightings per place, and the properties | |
| `GridGeometry` | points, cells, polygon fill and ray steps on one grid | `dynamic_map_core.cpp` |
| `ScanProcessing` | the updater with that geometry, a scan ray by ray and cell by cell | `processScanRayLocked`, `fillRegionCellsLocked` |
| `SemanticTraversabilityLayer` | the costmap layer inside the update cycle of its costmap | `semantic_traversability_layer.cpp` |
| `SemanticPipeline` | projection node and updater composed, with the history of sightings | topic and TF between them |
| `ActionLeaf` | what a leaf that wraps an action promises to the tree | |
| `RosActionNode` | the action leaf, its client and an action server | `bt_action_node.hpp`, `navigate_to_pose_action.cpp` |
| `RosServiceNode` | the service leaf, its client and the servers | `bt_service_node.hpp` |
| `RosTopicSubNode` | subscriber leaves, the registry and the subscriptions they share | `bt_topic_sub_node.hpp` |
| `ActionServer` | what a server that executes one goal after the other promises to its clients | |
| `TreeExecutionServer` | an action server that executes a tree per goal, each in a thread | `tree_execution_server.cpp` |
| `BTEngine` | the process around the action leaf | `bt_engine.cpp`, `set_semantic_instruction.cpp` |
| `ProjectionProofs`, `ScanProofs`, `PipelineProofs`, `LayerProofs`, `ActionLeafProofs` (with the engine), `RosLeafProofs` (service and subscriber leaves), `TreeServerProofs` | theorems about the modules they are named after | |
| `MCDynamicMap`, `MCScan`, `MCPipeline`, `MCPipelinePoses`, `MCLayer` | small instances for TLC; `MCPipelinePoses` adds the poses of detections | |
| `MCTrees` | the action leaf in the engine's tree or under any other parent, for TLC | |
| `MCLeaves` | the action leaf, the service leaf, the subscriber leaves or the tree server by themselves, for TLC | |

### DynamicMapUpdater

Variables have the members' names. The handlers hold one mutex for their whole length, so each is one atomic
action, including the publication at its end. A pose that could not be looked up is `NoPose`; the regions whose
frame could not be transformed are missing from `dynOk` (for the dynamic mask) and `travOk` (for the
traversable mask), which are chosen separately because the code looks the transform up separately. The polygon
fill and the Bresenham line are data of the messages here: a region carries its footprint per geometry, a ray the
cells it crosses (those at least `ray_pass_through_margin_m` before its endpoint) and its end cell; `ScanProcessing`
supplies both. `ScanCell` gives the
result of processing the rays of a scan in order, cell by cell: a ray that ends on the cell resets it, later
rays count from zero.

Abstractions. All geometries share one set of cell indices. Hits are counted up to `HitCap`, which loses
nothing because hits are only compared with thresholds not above it. One separation stands for
`min_pose_separation_m` and `traversable_min_pose_separation_m`, which have the same default and must be
positive. Labels are already normalized. The `change_events` text and the count of newly cleared cells behind
it are left out.

### GridGeometry and ScanProcessing

`GridGeometry` computes in whole units, `Scale` to a cell; distances are compared as squares, so that no root is
needed. `ScanProcessing` extends the updater: a region is a polygon that `RegionCells` fills, and `OnScan` is replaced by
`BeginScan`, `BeginRay`, `VisitCell` and `EndScan`, whose variables `cursor` and `err` are `x0`, `y0` and `err` of
`raytraceCells`. The mutex is held in between, so maps and regions come only while `phase` is `"idle"`. The rays are
chosen by the point they measure; one that is out of range or ends beside the map is skipped by the code and
not begun here. `scan` and `before` are history: the rays with the cells they passed through, and the evidence
at the beginning of the scan. With `evidence` mapped to `before` during a scan, every step of `ScanProcessing` is a
step of `DynamicMapUpdater` or a stutter, and the step that ends a scan is `OnScan` of the rays in `scan`
(`ScanIsAtomic`): this is what entitles the properties and proofs of the updater to treat a scan as one step.

`RayInv` ties `err` to the distance of the cursor from the line, says that the loop goes on towards its end, and that
the cell a ray ends in is not counted as passed through. The last part needs a margin of half a cell's diagonal
(`2 * Margin^2 >= Scale^2`) and has one exception found by TLC: a scanner exactly in the middle of the cell it
measures, at a range below the margin, where `max(0.0, ...)` gives 0 and the comparison is not strict.
`MaskIsGrownPolygon` compares the fill with the cells whose centre is on one side of all edges, or within the confidence
radius of a vertex, for convex polygons whose edges meet no centre. This is what `addRegionToMaskLocked` does for every mask, that of
dynamic objects included; `dynamic_mapping/DESIGN.md:149` and `:135` give the radius to traversable regions only and
test cell centres against the polygon otherwise. `DynamicMaskIsPolygon` is that reading, and the `scan_mask` run shows that the code departs from it.
`ConvexPolygon` says that going round, all other vertices are on one side of each edge, and
`OnBorder` that a point is on an edge; the `scan` run assumes both of its polygons (`ConvexAssumption`), so that it is an
instance of the theorem `MasksAreGrownPolygons`. `RegionAssumption` says that the message made for each polygon is one of the
updater's regions; the run takes these messages as its regions (`MCRegion`).

### ProjectionNode

`OnDetection` is the part of the handler after a polygon was found. Stamps are replaced by ages that
`TimePasses` increments up to `MaxAge`, one above the larger limit, where all comparisons agree. A region is its
centroid; the convex hull and the box are not modelled. `HoldTime = 0` is the mode without a memory.

`runs` keeps, per label and place, the lengths of the runs of sightings that ended there, each sighting near the one before
and within `pending_region_ttl_sec` of it. `NewRegionConfirmed` asks for such a run of `region_confirmation_hits`; a run may drift, since the code
compares a detection with the centroid of the sighting before, so the ends of a run need not be near each other.

### SemanticPipeline

The regions topic has depth one, so a message not yet taken is overwritten. `TakeRegions` uses the pose of the
robot at reception, as `lookupRobotPoseLocked` does. Before `Localize` no frame is known to the map frame.
`traced` is a history variable: the places at which a label was confirmed by the last of `region_confirmation_hits` sightings
in a run, or that were seen within the match distance of such a place, and so on. `OpenedWhereConfirmed` says that only they open cells.
It does not say that one detection opens nothing: a detection within the match distance of a held region replaces it at once
(`projection_node.cpp:382`) and opens the cells it covers, also those that no other detection covers. `semantic_nav/README.md:49` promises that
one-frame false positives are not held, of candidates that were not confirmed; an outlier elsewhere is such a candidate, an outlier near a held region is not.
The steps of the projection node are those of `ProjectionNode`, with
the history variables of `ProjectionHistory` beside them, so the promises of the projection node are checked in the composition. Scans are left to the updater's own runs.
A message may reach the updater before a frame is known, so the composition is a behaviour of the updater with
`TransformsMayFail = TRUE` (`PipelineRunsUpdater`); its own actions decide on `Localize` instead of on this constant.

### SemanticTraversabilityLayer

nav2 updates a costmap in a thread: all layers extend a window (`updateBounds`), the master grid is reset inside
it, and all layers write to it (`updateCosts`). The module steps through that cycle with `phase`, region by region in
`transformRegions` and cell by cell in `updateCosts`, because parameters are read there without a lock and TF is
looked up per region; messages, parameters and TF change between any two steps. The parameter callback writes one parameter at a time
(`SetParameter`), and the cycle reads each where the code does: `enabled_` with a snapshot, the cost twice per region
(`TransformRegion`, `TakeCost`), then for each cell `clear_unknown_`, `override_threshold_` and `clear_margin_m_` in three steps
(`CheckUnknown`, `CheckThreshold`, `WriteCell`). So one cell may be decided by values that were never in force together. `had` is a
history variable, the values that each of these three parameters has had since `updateCosts` began, and `LoweredByCurrentValues` says
what is still true: each of the three decisions about a cell is explained by one of them, and a value given up before the cycle decides nothing.
Two margins that differ only in width are not told apart: the margin is on or off.
`lower` stands for the layers below; `base` remembers what they wrote last. `Reset` is clearing the costmap, which forgets the regions;
the topic does not send its latched message again, the publisher's repetition does. The layer writes the box of
a region clamped to the window; the polygon tests are given as `Inside` and `Near`.

### RosActionNode

The client's callbacks run only when the node spins its private executor, so the module splits `tick` and
`cancelGoal` at the points where they spin: `phase` says where the call stands. `requests` holds the
requests the client has not been answered yet (goal, cancel, result); `server` is the state of each goal on
the server, whose actions are external. A spin handles one event or none, which is what `spin_some` does with
the one waitable the client is; an event not handled although the server has decided is a reply under way.
`GoalReply` also issues the result request, which rclcpp_action does when a result callback is set. A null
dereference, an exception of the client for an unknown handle and `RuntimeError` for a missing client all lead
to `phase = "crashed"`. Goals are numbered in order, and the tree may halt a RUNNING leaf at any time. The
constants choose the environment:

- `MayReject`: the server may reject a goal;
- `MayTimeout`: every wait bounded by `server_timeout` may expire;
- `FeedbackVerdicts`: what `onFeedback` may return (`RUNNING` alone for `NavigateToPose`);
- `SharedClient`: another leaf spins the same executor between two calls (`ForeignSpin`), which may run the result
  callback while `goal_handle_` is null (`NullResultReply`, a crash);
- `Clients`: whether the constructor got an action name.

`LeafSpec` is the refinement of `ActionLeaf`: `live` is the set of goals the server may still act upon. A leaf that
crashes takes the process with it and is left RUNNING there; `SafeOnceAccepted` says when that can happen: only in a halt before the
goal is accepted. There it does happen, also for a first goal: one that is rejected while `halt` waits leaves a null handle (`bt_action_node.hpp:538`)
for `async_get_result`.

`goal_handle_` is not reset when a goal is started (lines 384-387 reset the other members), which has two consequences, each shown by a run:

- `action_halt`: the first goal succeeded and its result was taken; the second is halted before it is accepted. The handle is not
  null, so nothing waits for the second goal's; it is that of a goal the client has forgotten, `async_get_result` throws at line 551,
  and the second goal goes on unattended.
- `action_success`: the first goal is halted, and the waits for cancellation and result expire (lines 556, 562). It is still RUNNING on the server when
  the second goal is sent, and succeeds before that is accepted: its result is taken, since its number is that of the handle, and
  once the second goal is accepted the leaf returns SUCCESS with it.

What is left with expiring waits and a shared client is `SomeGoalSucceeded`: SUCCESS is that of some goal of the leaf.

Left out: the action name on the blackboard and the client registry, preemption by nav2, status messages,
`tick` after shutdown.

### RosServiceNode

A tick is one action, since only servers act while it runs: up to two spins, each handling at most one response.
`pending` holds the requests the client knows, `fulfilled` those whose future has its response; a call that is halted or
times out leaves its request there, and its late response goes to a future nobody holds. `Rename` writes the port
on the blackboard, which `tick` reads when the leaf is IDLE. What the derived class decides (`setRequest`, the
status in `onResponseReceived`) is a choice. A name missing in the port or no client end in an exception
(`thrown`). Requests of other leaves to the same client are left out, as is a client that another leaf kept in the registry.

### RosTopicSubNode

Several leaves, made and destroyed at any time, share instances through a registry of weak pointers. `slots` are the
connections of the broadcaster, `queue` is the subscription's queue of depth one. A tick is two steps when it
subscribes (`Subscribe`, then `Process`), because messages may come between the two. The registry keeps an
expired entry for ever (`insert` does not replace it), after which leaves of that topic no longer share; their
messages are handed over all the same. A leaf that leaves a subscription others keep stays connected to it, even
after its destruction: `strayed` remembers such leaves, and nothing is promised about them.

### TreeExecutionServer

`executor` is what the executor's thread is doing; all callbacks run there, one at a time, and `handle_accepted`
follows `handle_goal` in the same callback (`"joining"`), where it may wait for the thread of the previous goal.
`at[g]` is the place in `execute` for goal `g`. `treeOf` and `treeRunning` stand for the one `p_->tree` that all goals
share, `ticked` records which tree each thread ticked. Leaves, `haltTree` and the methods that a derived server overrides may throw. Within the
`try` of `execute` (178-257) that aborts the goal. Outside of it nothing catches it and the process ends: `onGoalReceived` in `handle_goal` (132),
`onTreeExecutionCompleted` after the loop (261), and the registration, in the timer or in a thread (174). `RegistrationThrows` is allowed on every
registration: for a parameter that names a missing directory it is the only outcome, and a second registration repeats `registerNodesIntoFactory`
on a factory that has forgotten its trees but not its nodes, which throws for any node registered there. (`behaviortree_ros2/tree_execution_server.md` shows a server that
does register nodes there.) `MayCrash` is the data race between the registration in the timer and a thread's
`createTree`: it may end the process or not. Destruction after a shutdown is `DestroyServer`. No property says that the process
survives, because nothing in the code sees to it; `since`, the version of the parameters when a thread started, serves `NewestTrees`: however parameter changes
fall between start, reload and registration, no goal is executed with older ones.

### BTEngine

Extends `RosActionNode` with `main`: building the tree, the idle loop, the tick loop. A tick of the Sequence
ticks one child to its end or to RUNNING, so the leaf's steps are those of `Tick` while `child = "navigate"`.
`Interrupt` is Ctrl-C between two ticks. An exception leaves `main` (`"exited"`). Neither shipped tree names an action, so both end as `engine_main`
shows; `Clients = {TRUE}` stands for a tree or an engine in which the action is configured, with the instruction leaf or without.

## Runs

| Run | Checks | Outcome |
|---|---|---|
| `dynamic_map` | types, `FreeCellsWitnessed` and its converse `WitnessedCellsFree`, the inductive invariant, `ConfirmedCellsPersist`, with TF failures | holds |
| `scan` | a scan ray by ray implements `OnScan`, rays follow their lines and spare their end, masks are the polygons grown at their vertices | holds |
| `scan_mask` | `DynamicMaskIsPolygon` | violated: the mask of dynamic objects is grown too (`dynamic_map_updater_node.cpp:439`) |
| `pipeline` | confirmation, drop-outs and expiry of regions; `OpenedWhereConfirmed` | holds |
| `pipeline_poses` | `ObservedFromDistinctPoses` | violated: the timer's republication counts as an observation (`dynamic_map_updater_node.cpp:493`) |
| `costmap_layer` | lowered cells explained by values of the parameters during the cycle, inside the window only, published regions get cleared, vanished ones restored | holds |
| `trees` | action leaf over three goals under any parent: own result, no crash once a goal is accepted, refinement of `ActionLeaf`, completion; in the engine: one goal per process, `FinishedTree`, no lost start, termination | holds |
| `leaves` | action leaf with expiring waits and a shared client: `halt` returns, SUCCESS is not invented; service leaf: own response, calls end; subscriber leaves: each message once; tree server: refinement of `ActionServer`, own tree, newest parameters, nothing left running, a cancelled goal ends, goals end if trees do | holds |
| `action_halt` | `CancelsCurrentGoal` | violated: the handle of the previous goal is used (`bt_action_node.hpp:524`) |
| `action_success` | `SuccessMeansArrived` with expiring waits | violated: the result of the previous goal is taken (`bt_action_node.hpp:411`) |
| `tree_server_cancel` | `CancelHandled` | violated: a second goal blocks the executor in `join` (`tree_execution_server.cpp:158`) |
| `engine_main` | `StartSendsGoal` for `main_tree.xml` | violated: no action name, exception at the first tick (`bt_engine.cpp:32`) |

### Bounds

- Dynamic map: three cells are one in front of another and a wall behind, so a ray crosses none, one or two
  of them and can end on a candidate; two geometries that place the footprints differently plus one without
  extent; three poses of which only the outer two are distinct, enough for a greedy choice to go wrong; two
  rays per scan, enough for a hit before and after an endpoint; cell values 64, 65, 100 and -1 around the
  threshold 65; thresholds of two and three.
- Scan: five by four cells of four units, so lines have slopes below, at and above the diagonal; eight targets, two
  scanners, two rays per scan and two scans, enough for a cell to be crossed, hit and crossed again from two
  poses; six polygons, among them one over the border of the map, one beside it whose radius reaches in, and one
  with two vertices.
- Pipeline: one label at three places, of which the outer two do not match, so that a run may drift from one to the other; two of them cover a cell that
  the third does not; three confirmations (two in `pipeline_poses`, the default); limits of one and two, ages to three; two distant poses, which are symmetric.
- Action leaf: three goals in `trees`, so that the third meets state left by both an accepted and a rejected one; two in `leaves`,
  where waits expire, clients are shared and feedback asks for stops, and in the two runs that show violations, which need an
  old goal and a new one. Two would also show an engine that sends a second goal.
- Other leaves: three service requests to two services, so that a late response meets a call to the
  same or another service; three subscriber leaves, of which two have a static topic and the third follows the
  blackboard and latches, with three messages and four changes of the leaves and topics, enough to share, to stray and to subscribe again.
- Tree server: two goals, since the executor waits for the first before it can take a third, and one change of
  the parameters before, between or after them; any versions of the parameters may name missing directories.
- Costmap layer: two cells, one marked that the wide region holds and one that both regions reach by polygon or margin, marked or unknown;
  two values of each parameter but the margin, starting with the declared defaults and the margin on; two writes (`MaxChanges`), so that two
  parameters can change within a cell, or one of them and back; one clearing (`MaxResets`). The margin does not change in the run, the theorems allow it to.

`CHECK_DEADLOCK FALSE` is given where the system stops: the engine exits, the tree server crashes or is shut
down, and a leaf stops after a crash, without a client, or with all its goals used.

### Fairness

`trees` restates `FairSpec` of the action leaf for the steps under any parent: the tree keeps ticking (weak fairness of `Tick`, `CancelStep` and `Reset`; the tick
loop of `bt_engine` runs at a fixed rate), a reply that is under way is handled if it could be again and again
(strong fairness, since a spin may miss it any finite number of times; DDS services are reliable), and the server decides, answers and
ends every goal. For the engine it restates `EngineFairSpec`: the same of its ticks, weak fairness of its own loop steps, and strong fairness of
`StartCallback`, which is enabled only between two ticks.
`leaves` restates `LoneSpec`, which assumes of the action leaf only that
waits end at their deadline, as `spin_until_future_complete` guarantees whatever the server does; and it assumes
of the service leaf that it is ticked and that its deadline passes.

The costmap layer assumes that the costmap is updated, the node is spun and the publisher repeats its message
(`projection_node` and `static_region_publisher` do on a timer). `GoneRegionRestored` has as a premise that the window
goes on to reach the cell, which a rolling window or a new map brings about.

The tree server (`ServerFairSpec`, restated in `leaves`) assumes that its executor handles what it can handle and that threads run. It does not assume
that a tree ends: `CancelEnds` holds without, and `GoalsEnd` has it as a premise (`TreesEnd`).

## Proofs

Each `*Proofs` module states theorems about the component it extends, for every value of the constants that
satisfies the named assumptions of that component's modules; `PROJECT.json` lists them. All follow one scheme: an invariant that is
inductive, one lemma per action that it survives, and the property as a consequence of the invariant or of one step from it.
The helper lemmas come first in each module. Where numbers have to be counted down, a least element of
a set is taken (`WFMin`), since the prover cannot instantiate induction over an operator.

**`DynamicMapProofs`** (any grid, region set, ray set, pose set and threshold).

- `UpdaterInvariant`: `UpdaterInv` holds in every state. `FreeCellsWitnessed` speaks of the published map
  and of history, and is not inductive: a step reads the evidence grids and the masks. `UpdaterInv` adds that
  the evidence of a cell is bounded by its history with poses pairwise far apart (`EvidenceSound`), that it
  exists only on occupied cells and, if dynamic, inside the mask (`EvidencePlaced`), that masks lie inside what
  the last message proposes, the candidates being exactly the footprints of the regions that could be placed when
  they were last filled in (`MasksProposed`, with the history variable `known`), that masks are empty for a degenerate geometry, and that the
  published map is computed from the current state (`PublishedCurrent`). The `dynamic_map` run checks it too.
- `FreeCellsAreWitnessed`: from the invariant, by the two paths a cell can be overridden.
- `ConfirmedCellsAreKept`: the action property, from the invariant and monotonicity of evidence.
- `WitnessedCellsAreFree`: the converse needs that evidence is not lost. `EvidenceExact` says that the hits are all
  sightings, that every pose seen from is kept or close to one that is, and that evidence meeting both thresholds is confirmed. Hypothesis:
  one of the two thresholds is positive. The defaults are 5 and 3; with both at zero the code would confirm cells, but only
  once their evidence is updated.

**`ScanProofs`** (any grid, scanner, measured point, margin and number of rays).

- `RaysFollowTheirLines`: `err` is a linear function of the steps made along the two axes, and the cursor is never further
  from its line than half a step nor past its end (`OnLine`), so that the loop goes on until the end. A ray does not pass through the
  cell it ends in: that cell's centre is at most half a diagonal from the measured point, hence nearer to it than the margin
  (equality would make one square twice another, which `NoDoubleSquare` excludes by descent), and by the
  triangle inequality, taken between squares (`CauchySchwarz`), it is not at the margin or more before it.
- `ScansAreAtomic`: each step of the scan is `OnScan` or a stutter of the updater. `Processed` says that the evidence
  so far is `ScanCell` of the rays so far on the evidence before the scan; visiting one more cell adds one crossing after the cell's last
  hit (`AddOneMore`, `CellPassed`), a ray that begins resets the cell it ends in.
- `ScanImplementsUpdater`: `ScanSpec` implements the specification of the updater. Beyond the steps above it needs that the rays
  of a scan are messages of the updater (`RaysOnGrid`) and that, between two scans, the
  published map is computed from the current grids (`Shown`): during a scan the updater sees the grids of before, and
  what is published has to agree with them. Hypothesis `RayMessage \subseteq Ray`: the updater's rays include all that
  can be traced on the grid, which is how `Ray` is meant. The `scan` run, which has no use for `Ray` and leaves it
  empty, checks `ScanIsAtomic` instead, where a scan is any sequence of rays traced.
- `MasksAreGrownPolygons` and `MasksCoverPolygons`: the mask of the last region is the filled polygon with the cells near a vertex. For any polygon the crossing rule
  would need an induction over its edges, but the row through a point crosses a convex one in two edges at most, one going up and
  one going down: two that go up have the polygon on the same side (`OneCrossing`). The number of edges crossed beside the point is odd
  just for a point between the two (`TwoCrossings`), which is then beyond no edge (`BetweenCrossings`); that a
  row which meets the polygon has both follows from going round it (`Entered`), and a row beside all vertices meets a
  vertex that is lowest or highest, at which the edges cannot turn around the point (`NoTurnBesideRow`). The box around
  the polygon, clamped to the map, loses no cell: vertices bound the polygon (`Extent`), and a cell whose centre is between two
  numbers is between their cells (`CellBetween`, `BoxHolds`). Hypotheses: the polygons are convex, since
  `convexHull` removes every vertex that does not turn left (`projection_node.cpp:137-160`) and the fallback is a box;
  `"person"` is a dynamic label and the frame is known, without which the mask is not filled at all; for exact equality, no cell centre on an edge.
  Without the last one, `MasksCoverPolygons` bounds the difference: a cell too many has its centre on an edge.

**`ProjectionProofs`** (any labels, places, match relation and limits). A pending region with `n` hits is the end of a run of `n`
sightings that may still go on (`PendingInv`), and a held one is exactly as old as the last sighting at
its place (`HeldInv`); what is published is what was held (`ProjectionInv`). `NewRegionsAreConfirmed`,
`DropOutsAreTolerated` and `TimerPublishesFresh` follow from one step.

**`PipelineProofs`**. `PipelineKeepsPromises`: a step of the composition is a step of `HistorySpec` or a stutter of it, so the
theorems above hold there. `CellsOpenWhereConfirmed` follows a region through the memory (`PromotedInv`: what is held and
published is at a traced place), the messages (`MessagesInv`) and the cells (`CellsInv`). Hypothesis `HoldTime # 0`: the mode
without a memory (`region_hold_sec` of 0; the default is -1) publishes every single detection.
`PipelineTypesHold` needs no hypothesis. `PipelineRunsUpdater`: whatever the projection node publishes, taken or overwritten, is a message
that the updater is specified for, so that a step of the composition is one of `DynamicMapUpdater` or a stutter. Hypothesis
`TransformsMayFail = TRUE`, which both pipeline runs set, as a message may come before the frames are known.

**`LayerProofs`** (any grid, regions, margins and settings). Regions under way imply that some setting is enabled,
cells are looked at only inside the window and only while regions are written (`CycleInv`). For `CycleUsesCurrentValues` the
decisions already made about the current cell are an invariant of their own (`CheckInv`): once `clear_unknown_` or the threshold was passed, one of the
values in `had` lets the cell pass. `OnlyWindowWritten` follows from one step: the two regions of `updateBounds` and `updateCosts` need not agree.

**`ActionLeafProofs`** (any number of goals), where `LeafInv` says that requests under way are those of the current goal of a RUNNING
leaf (`RequestsInv`), that each phase of a call knows that goal (`ControlInv`), and that a result held is its result (`ResultInv`).

- Hypothesis `~MayTimeout` of all but `LeafTypes`, `EngineSendsOneGoal` and the theorems named last. It is needed: a halt whose
  waits expire keeps `goal_handle_` and abandons its goal, and then `ActsOnOwnResult` and what follows are false, as the run
  `action_success` shows. It says that the server answers every wait within `server_timeout`.
- Hypothesis `"SUCCESS" \notin FeedbackVerdicts` of every theorem about SUCCESS, of `LeafKeepsPromises` and
  `FinishedTreeIsAtRest`: `onFeedback` may return any status, and one that returns SUCCESS ends the leaf with it
  before the goal is reached. `NavigateToPose` returns RUNNING.
- Hypotheses `~SharedClient` and `FeedbackVerdicts \subseteq {"RUNNING"}` of `AcceptedLeafIsSafe`: another leaf
  that spins the executor can handle this leaf's result reply between two ticks, after which the client no longer
  knows the goal that a halt cancels; a stop asked for by feedback races the result in the same way. `bt_engine`
  loads trees with one action leaf, whose feedback asks for nothing.
- `EngineSendsOneGoal` needs no hypothesis: the tick loop ends with the tree.
- With timeouts, `EarnedInv` is what is left of `LeafInv`: goals are used in order, the result held is that of a goal
  that has ended, and SUCCESS is that of a goal sent (`SuccessIsEarned`), though perhaps not the last. One that sends
  a single goal cannot confuse it (`OnlyGoalArrived`), and with `EngineSendsOneGoal` this gives
  `SucceededTreeArrived`: in `bt_engine` no timeout can turn a failed navigation into a tree that reports SUCCESS.
  What a timeout can do is leave a goal alive, the other half of `FinishedTree`.
- `EngineRunsLeaf`: the engine is one of the parents that `Spec` allows, so the theorems about the leaf hold in it.

**`RosLeafProofs`** (any number of requests, leaves, topics and messages), no hypotheses. `ServiceInv`: a RUNNING leaf waits
for its last request, sent to the service it names. `SubInv`: a
leaf that has not strayed is called by its own instance alone (`CalledByOwn`), and what waits in a queue is newer than
what the subscription has received, which is not older than what its leaves have processed (`InOrder`). `LeavesBehave` and `LeavesTypesHold` carry
this and the theorems about the action leaf and the tree server over to the instance that the `leaves` run checks.

**`TreeServerProofs`** (any number of goals and parameter changes), no hypotheses. `ThreadsInv`: one thread runs, for the
active goal, and a second active goal exists only while the executor waits in `join`. From it follow `ServerTypesHold`, `OwnTreeTicked`,
`AnsweredGoalsRest`, `TreesAreNewest` and, step by step, the refinement `ServerServesGoals`.

### Only model-checked

- Liveness, as `ENABLED` and fairness are beyond the prover: `RunningEnds`, `HaltReturns`, `CallEnds`,
  `StartSendsGoal`, `TreeEnds`, `CancelEnds`, `GoalsEnd`, `PublishedRegionCleared`, `GoneRegionRestored`.
- Masks of polygons that are not convex, whose parity of crossings is an induction over edges. The projection node
  publishes none; `static_region_publisher` could be configured with one.
- The six properties that are violated.

## Plan

Done: the updater with its geometry and its scans, the projection node, the pipeline, the costmap layer, the action,
service and subscriber leaves, the engine, the tree server; for each of them the proof of its safety properties. Left, in this order:

1. Proofs: `FreeCellsWitnessed` and its converse stated of `ScanSpec` itself. They follow from `ScanImplementsUpdater`, since
   the history variables of `DynamicMapHistory` restrict no step, but the prover cannot cite a theorem of a
   module taken with `INSTANCE`, so the formal statement would repeat `DynamicMapProofs` over the variables of the scan.
2. The costmap layer composed with the pipeline's topic, where both consumers may see different messages.
3. `BasicNavigator` against the action server of `RosActionNode`, lifecycle startup included.
4. Pure algorithms: convex hull and minimum thickness box of the projection, the box parser of the detector.

## Not modelled

Detectors, launch files, robot description, containers and simulator assets have no state of their own in
this repository. `PROJECT.json` gives the reason for each component left out so far. Effects of the code for which
no property is stated: the verdict of `onFeedback` is read again after the cancellation it asked for
(`bt_action_node.hpp:487`, which no leaf of the repository does); after an exception a tree is aborted without being
halted (`tree_execution_server.cpp:255`); a map that grows is a new geometry and forgets confirmations
(`dynamic_map_updater_node.cpp:155`); a rejected goal leaves the previous `result_future` of `BasicNavigator` in place
(`robot_navigator.py:144`); and masks stay stale after TF recovers until the next region message
(`dynamic_map_updater_node.cpp:165`). Loading plugins and trees from directories (`bt_utils.cpp`) appears only as a
registration that may throw. A subscriber leaf keeps `last_msg_` of its old topic until the first message of the new one.
