--------------------------- MODULE RosActionNode ---------------------------
(***************************************************************************)
(* BT::RosActionNode, the leaf that wraps a rclcpp_action client, driven   *)
(* by its parent in the tree (tick, halt, reset) and talking to an action  *)
(* server.  onResultReceived and onFailure are those of NavigateToPose.    *)
(*                                                                         *)
(* The callbacks of the client run only while the node spins its private   *)
(* executor.  The client is one waitable that handles one event each time  *)
(* it is spun, so a spin handles one event or none.  A reply is in the     *)
(* executor's reach from the moment the server has decided; a spin that    *)
(* does not handle it is a reply still under way.                          *)
(*                                                                         *)
(* server_timeout is a choice: with MayTimeout every wait may expire,      *)
(* without it no wait does.                                                *)
(***************************************************************************)
EXTENDS Naturals, FiniteSets

CONSTANTS
  MaxGoals,          \* bound: goals sent
  Clients,           \* can the constructor name the action: {TRUE}, or FALSE too
  MayReject,         \* may the server reject a goal
  MayTimeout,        \* may server_timeout expire
  FeedbackVerdicts,  \* what onFeedback may return
  SharedClient       \* does another node of the tree spin the same client

NoGoal == 0
Goals == 1 .. MaxGoals

ASSUME NodeAssumption ==
  /\ MaxGoals \in Nat \ {0}
  /\ {MayReject, MayTimeout, SharedClient} \subseteq BOOLEAN
  /\ Clients \subseteq BOOLEAN
  /\ FeedbackVerdicts \subseteq {"RUNNING", "SUCCESS", "FAILURE"}

VARIABLES
  client,            \* is client_instance_ set
  status,            \* TreeNode::status()
  phase,             \* where tick() or halt() stands; "idle" between calls
  caller,            \* who called cancelGoal: "halt" or "feedback"
  goalReceived,      \* goal_received_
  future,            \* goal whose handle future_goal_handle_ will hold
  handle,            \* goal of goal_handle_, NoGoal for the null pointer
  verdict,           \* on_feedback_state_change_
  result,            \* goal whose result is in result_
  sent,              \* goals sent so far; the last one is the current goal
  requests,          \* requests of the client that were not answered yet
  server             \* state of each goal on the server

control == <<status, phase, caller>>
members == <<client, goalReceived, future, handle, sent>>
inbox == <<verdict, result, requests>>
vars == <<control, members, inbox, server>>

Terminal == {"succeeded", "aborted", "canceled"}
Live == {"pending", "active", "canceling"}

-----------------------------------------------------------------------------
(* One event of the action client.                                         *)

(* Mutant: the result of an accepted goal is not asked for.                *)
GoalReplyOnly(g) ==
  /\ <<"goal", g>> \in requests /\ server[g] # "pending"
  /\ requests' = requests \ {<<"goal", g>>}
  /\ UNCHANGED <<verdict, result>>

(* A goal response.  For an accepted goal the client at once asks for the  *)
(* result, and knows the handle until the result has come.                 *)
GoalReply(g) ==
  /\ <<"goal", g>> \in requests /\ server[g] # "pending"
  /\ requests' = (requests \ {<<"goal", g>>})
                   \cup IF server[g] = "rejected" THEN {} ELSE {<<"result", g>>}
  /\ UNCHANGED <<verdict, result>>

CancelReply(g) ==
  /\ <<"cancel", g>> \in requests /\ server[g] # "active"
  /\ requests' = requests \ {<<"cancel", g>>}
  /\ UNCHANGED <<verdict, result>>

(* The feedback callback does not look at the goal.                        *)
Feedback(g) ==
  /\ <<"result", g>> \in requests
  /\ verdict' \in FeedbackVerdicts
  /\ UNCHANGED <<result, requests>>

(* The result callback compares the goal with goal_handle_, which it       *)
(* dereferences: see Broken.                                               *)
ResultReply(g) ==
  /\ <<"result", g>> \in requests /\ server[g] \in Terminal
  /\ requests' = requests \ {<<"result", g>>}
  /\ result' = IF handle = g THEN g ELSE result
  /\ UNCHANGED verdict

NullResultReply(g) ==
  /\ handle = NoGoal
  /\ <<"result", g>> \in requests /\ server[g] \in Terminal

(* Handle one event and go on to the next phase.                           *)
Event(next) ==
  \E g \in Goals :
    \/ phase' = next /\ (GoalReply(g) \/ CancelReply(g) \/ Feedback(g))
    \/ ResultReply(g) /\ phase' = IF NullResultReply(g) THEN "crashed" ELSE next

SpinSome(next) == Event(next) \/ (phase' = next /\ UNCHANGED inbox)

FutureReady == <<"goal", future>> \notin requests

(* future_goal_handle_.get(): null for a rejected goal.                    *)
FutureHandle == IF server[future] = "rejected" THEN NoGoal ELSE future

-----------------------------------------------------------------------------
(* tick() of an IDLE node.                                                 *)

(* Mutant: the result of the previous goal is not cleared.                 *)
BeginTickKeeping ==
  /\ phase = "idle" /\ status = "IDLE" /\ client
  /\ goalReceived' = FALSE /\ verdict' = "RUNNING"
  /\ UNCHANGED <<client, phase, caller, handle, result>>

(* Mutant: the feedback state starts as the status of the node.            *)
BeginTickIdle ==
  /\ phase = "idle" /\ status = "IDLE" /\ client
  /\ goalReceived' = FALSE /\ verdict' = status /\ result' = NoGoal
  /\ UNCHANGED <<client, phase, caller, handle>>

(* handle is not reset: goal_handle_ keeps the handle of an earlier goal.  *)
BeginTick ==
  /\ phase = "idle" /\ status = "IDLE" /\ client
  /\ goalReceived' = FALSE /\ verdict' = "RUNNING" /\ result' = NoGoal
  /\ UNCHANGED <<client, phase, caller, handle>>

SendGoal ==
  /\ BeginTick
  /\ sent < MaxGoals
  /\ sent' = sent + 1 /\ future' = sent'
  /\ requests' = requests \cup {<<"goal", sent'>>}
  /\ server' = [server EXCEPT ![sent'] = "pending"]
  /\ status' = "RUNNING"

(* setGoal returns false, or the server is not ready.                      *)
GoalNotSent ==
  /\ BeginTick
  /\ future' = NoGoal /\ status' = "FAILURE"
  /\ UNCHANGED <<sent, requests, server>>

(* RuntimeError: no client was specified.                                  *)
TickWithoutClient ==
  /\ phase = "idle" /\ status = "IDLE" /\ ~client
  /\ phase' = "crashed"
  /\ UNCHANGED <<status, caller, members, inbox, server>>

-----------------------------------------------------------------------------
(* tick() of a RUNNING node.                                               *)

Spin ==
  /\ phase = "idle" /\ status = "RUNNING"
  /\ SpinSome("spun")
  /\ UNCHANGED <<status, caller, members, server>>

(* spin_until_future_complete with no delay: one more event.               *)
PollGoal ==
  /\ phase = "spun" /\ ~goalReceived /\ ~FutureReady
  /\ SpinSome("polled")
  /\ UNCHANGED <<status, caller, members, server>>

(* Neither the request nor the goal is cancelled on SEND_GOAL_TIMEOUT.     *)
GoalUnanswered ==
  /\ phase = "polled" /\ ~FutureReady
  /\ phase' = "idle"
  /\ status' \in {"RUNNING"} \cup {s \in {"FAILURE"} : MayTimeout}
  /\ UNCHANGED <<caller, members, inbox, server>>

(* Mutant: the handle is taken only once.                                  *)
TakeFirstHandle ==
  /\ phase \in {"spun", "polled"} /\ ~goalReceived /\ FutureReady
  /\ goalReceived' = TRUE
  /\ handle' = IF handle = NoGoal THEN FutureHandle ELSE handle
  /\ future' = NoGoal
  /\ IF handle' = NoGoal
       THEN status' = "FAILURE" /\ phase' = "idle"
       ELSE phase' = "decide" /\ UNCHANGED status
  /\ UNCHANGED <<client, caller, sent, inbox, server>>

TakeHandle ==
  /\ phase \in {"spun", "polled"} /\ ~goalReceived /\ FutureReady
  /\ goalReceived' = TRUE
  /\ handle' = FutureHandle /\ future' = NoGoal
  /\ IF handle' = NoGoal
       THEN status' = "FAILURE" /\ phase' = "idle"
       ELSE phase' = "decide" /\ UNCHANGED status
  /\ UNCHANGED <<client, caller, sent, inbox, server>>

Decides == phase = "decide" \/ (phase = "spun" /\ goalReceived)

(* Mutant: a cancelled goal completes the node with SUCCESS.                   *)
ResultStatusAny(g) == IF server[g] = "aborted" THEN "FAILURE" ELSE "SUCCESS"

(* onResultReceived and onFailure of NavigateToPose.                       *)
ResultStatus(g) == IF server[g] = "succeeded" THEN "SUCCESS" ELSE "FAILURE"

(* Mutant: only an aborted or cancelled goal completes the node.           *)
DecideFailures ==
  /\ Decides /\ verdict = "RUNNING"
  /\ status' = IF result = NoGoal \/ ResultStatus(result) = "SUCCESS"
                 THEN "RUNNING" ELSE "FAILURE"
  /\ phase' = "idle"
  /\ UNCHANGED <<caller, members, inbox, server>>

Decide ==
  /\ Decides /\ verdict = "RUNNING"
  /\ status' = IF result = NoGoal THEN "RUNNING" ELSE ResultStatus(result)
  /\ phase' = "idle"
  /\ UNCHANGED <<caller, members, inbox, server>>

-----------------------------------------------------------------------------
(* cancelGoal().  It is called by halt() and by a tick whose feedback asked *)
(* for a stop; both wait for the server inside the call.  An IDLE or       *)
(* completed node is not cancelled, and a RUNNING node holds a handle or a *)
(* future.                                                                 *)

(* async_get_result and async_cancel_goal: a handle that is null or that   *)
(* the client does not know any more ends in an exception.                 *)
RequestCancel(h) ==
  IF <<"result", h>> \in requests
    THEN phase' = "awaitCancel" /\ requests' = requests \cup {<<"cancel", h>>}
    ELSE phase' = "crashed" /\ UNCHANGED requests

(* Mutant: the goal request under way is not waited for.                   *)
CancelGoalNow(by) ==
  /\ caller' = by
  /\ RequestCancel(handle)
  /\ UNCHANGED <<status, members, verdict, result, server>>

CancelGoal(by) ==
  /\ caller' = by
  /\ IF handle # NoGoal
       THEN RequestCancel(handle)
       ELSE phase' = "awaitAccept" /\ UNCHANGED requests
  /\ UNCHANGED <<status, members, verdict, result, server>>

StopOnFeedback == Decides /\ verdict # "RUNNING" /\ CancelGoal("feedback")

Halt ==
  /\ phase = "idle" /\ status = "RUNNING"
  /\ CancelGoal("halt")

(* The events handled while cancelGoal waits.                              *)
Waits(h) ==
  \/ phase = "awaitAccept" /\ ~FutureReady
  \/ phase = "awaitCancel" /\ <<"cancel", h>> \in requests
  \/ phase = "awaitResult" /\ <<"result", h>> \in requests

SpinWhileWaiting ==
  /\ Waits(handle)
  /\ Event(phase)
  /\ UNCHANGED <<status, caller, members, server>>

(* Mutant: no wait for the server.                                         *)
WaitEndsAtOnce(from) == phase = from

(* Mutant: no timeout.                                                     *)
WaitEndsAnswered(from) == phase = from /\ ~Waits(handle)

WaitEnds(from) == phase = from /\ (MayTimeout \/ ~Waits(handle))

(* The caller of cancelGoal goes on: TreeNode::haltNode makes the halted   *)
(* node IDLE, the tick returns on_feedback_state_change_ as it is now.     *)
Return ==
  /\ phase' = "idle"
  /\ status' = IF caller = "halt" THEN "IDLE" ELSE verdict

AcceptAwaited ==
  /\ phase = "awaitAccept" /\ FutureReady
  /\ handle' = FutureHandle /\ future' = NoGoal
  /\ RequestCancel(handle')
  /\ UNCHANGED <<client, status, caller, goalReceived, sent, verdict, result, server>>

AcceptTimedOut ==
  /\ phase = "awaitAccept" /\ MayTimeout /\ ~FutureReady
  /\ Return
  /\ UNCHANGED <<caller, members, inbox, server>>

CancelAwaited ==
  /\ WaitEnds("awaitCancel")
  /\ phase' = "awaitResult"
  /\ UNCHANGED <<status, caller, members, inbox, server>>

ResultAwaited ==
  /\ WaitEnds("awaitResult")
  /\ Return
  /\ UNCHANGED <<caller, members, inbox, server>>

-----------------------------------------------------------------------------
(* The rest of the tree, and the action server.                            *)

Reset ==
  /\ phase = "idle" /\ status \in {"SUCCESS", "FAILURE"}
  /\ status' = "IDLE"
  /\ UNCHANGED <<phase, caller, members, inbox, server>>

(* The tick of another node whose action has the same name.                *)
ForeignSpin ==
  /\ SharedClient /\ phase = "idle"
  /\ Event("idle")
  /\ UNCHANGED <<status, caller, members, server>>

ServerSets(g, state) ==
  /\ server' = [server EXCEPT ![g] = state]
  /\ UNCHANGED <<control, members, inbox>>

AcceptGoal(g) == server[g] = "pending" /\ ServerSets(g, "active")

RejectGoal(g) == MayReject /\ server[g] = "pending" /\ ServerSets(g, "rejected")

AcceptCancel(g) ==
  server[g] = "active" /\ <<"cancel", g>> \in requests /\ ServerSets(g, "canceling")

FinishGoal(g) ==
  \/ /\ server[g] \in {"active", "canceling"}
     /\ \E end \in {"succeeded", "aborted"} : ServerSets(g, end)
  \/ server[g] = "canceling" /\ ServerSets(g, "canceled")

-----------------------------------------------------------------------------
(* The constructor has made the client if a static port or the default     *)
(* value of the parameters names the action.                               *)
Init ==
  /\ client \in Clients
  /\ status = "IDLE" /\ phase = "idle" /\ caller = "halt"
  /\ goalReceived = FALSE /\ future = NoGoal /\ handle = NoGoal
  /\ verdict = "RUNNING" /\ result = NoGoal
  /\ sent = 0 /\ requests = {}
  /\ server = [g \in Goals |-> "none"]

Tick ==
  \/ SendGoal \/ GoalNotSent \/ TickWithoutClient
  \/ Spin \/ PollGoal \/ GoalUnanswered \/ TakeHandle
  \/ Decide \/ StopOnFeedback

CancelStep ==
  \/ SpinWhileWaiting \/ AcceptAwaited \/ AcceptTimedOut
  \/ CancelAwaited \/ ResultAwaited

ServerStep(g) == AcceptGoal(g) \/ RejectGoal(g) \/ AcceptCancel(g) \/ FinishGoal(g)

Next ==
  \/ Tick \/ Halt \/ CancelStep \/ Reset \/ ForeignSpin
  \/ \E g \in Goals : ServerStep(g)

Spec == Init /\ [][Next]_vars

(* The tree keeps ticking the node, a reply under way is handled if it     *)
(* could be again and again, and the server decides every goal, answers    *)
(* every cancel request and ends every goal.                               *)
Answered(kind) ==
  \E g \in Goals : <<kind, g>> \in requests /\ <<kind, g>> \notin requests'

Fairness ==
  /\ WF_vars(Tick) /\ WF_vars(CancelStep) /\ WF_vars(Reset)
  /\ \A kind \in {"goal", "cancel", "result"} :
       SF_vars((Tick \/ CancelStep) /\ Answered(kind))
  /\ \A g \in Goals :
       WF_vars(AcceptGoal(g)) /\ WF_vars(AcceptCancel(g)) /\ WF_vars(FinishGoal(g))

FairSpec == Spec /\ Fairness

(* Only the deadlines of the waits are certain: the server may be gone.    *)
LoneSpec ==
  Spec /\ WF_vars(AcceptAwaited \/ AcceptTimedOut \/ CancelAwaited \/ ResultAwaited)

-----------------------------------------------------------------------------
(* Each variable has its type.                                             *)
TypeOK ==
  /\ client \in BOOLEAN
  /\ status \in {"IDLE", "RUNNING", "SUCCESS", "FAILURE"}
  /\ phase \in {"idle", "spun", "polled", "decide", "awaitAccept",
                "awaitCancel", "awaitResult", "crashed"}
  /\ caller \in {"halt", "feedback"}
  /\ goalReceived \in BOOLEAN
  /\ {future, handle, result, sent} \subseteq 0 .. MaxGoals
  /\ verdict \in {"RUNNING", "SUCCESS", "FAILURE"}
  /\ requests \subseteq {"goal", "cancel", "result"} \X Goals
  /\ server \in [Goals -> {"none", "rejected"} \cup Live \cup Terminal]

(* Only a halt that comes before the goal was accepted can end in an       *)
(* exception: a node that holds the handle of its goal is ticked and       *)
(* halted safely, whatever happened to the goals before.                   *)
SafeOnceAccepted == phase = "crashed" => caller = "halt" /\ ~goalReceived

(* The result the node acts upon is that of the goal it is RUNNING for.    *)
OwnResult == result # NoGoal /\ status = "RUNNING" => result = sent

(* cancelGoal asks the server to cancel the goal the node is RUNNING for.  *)
CancelsCurrentGoal ==
  caller = "halt" /\ phase \in {"awaitCancel", "awaitResult", "crashed"}
    => handle = sent

(* SUCCESS is reported only when the robot has reached the current goal.   *)
SuccessMeansArrived == status = "SUCCESS" => sent # 0 /\ server[sent] = "succeeded"

(* SUCCESS is never invented: one of the goals sent has succeeded, if      *)
(* perhaps not the current one, whatever waits have expired and whoever    *)
(* spins the client.                                                       *)
SomeGoalSucceeded == status = "SUCCESS" => \E g \in 1 .. sent : server[g] = "succeeded"

(* halt() returns, whatever the server does or fails to do.                *)
HaltReturns ==
  phase \in {"awaitAccept", "awaitCancel", "awaitResult"}
    ~> phase \in {"idle", "crashed"}

(* The node keeps the promises of a leaf.                                  *)
Leaf ==
  INSTANCE ActionLeaf WITH
    live <- {g \in Goals : server[g] \in Live},
    succeeded <- sent # 0 /\ server[sent] = "succeeded"
LeafSpec == Leaf!Spec

=============================================================================
