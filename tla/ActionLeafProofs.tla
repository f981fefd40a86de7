--------------------------- MODULE ActionLeafProofs ---------------------------
(***************************************************************************)
(* The action leaf for any number of goals.  While no wait expires, it     *)
(* acts upon results of its own goal and implements ActionLeaf, whatever   *)
(* other leaves spin its client; a leaf with a client of its own whose     *)
(* feedback never asks for a stop is safe once its goal is accepted.       *)
(* When waits expire, SUCCESS is still that of a goal that succeeded.      *)
(* The bt_engine process that ticks the leaf comes last.                   *)
(***************************************************************************)
EXTENDS BTEngine, TLAPS

(* Goals and requests: only the current goal of a RUNNING leaf has any,    *)
(* and a goal that the server may still act upon has one.                  *)
RequestsInv ==
  /\ \A g \in Goals : server[g] = "none" <=> g > sent
  /\ \A g \in Goals : server[g] = "pending" => <<"goal", g>> \in requests
  /\ \A g \in Goals : server[g] \in {"active", "canceling"} =>
       <<"goal", g>> \in requests \/ <<"result", g>> \in requests
  /\ \A kind \in {"goal", "cancel", "result"}, g \in Goals :
       <<kind, g>> \in requests => g = sent /\ status = "RUNNING"
  /\ \A g \in Goals : <<"goal", g>> \in requests =>
       ~goalReceived /\ future = g /\ phase \notin {"decide", "awaitCancel", "awaitResult"}
  /\ \A g \in Goals : <<"result", g>> \in requests =>
       server[g] \in {"active", "canceling"} \cup Terminal /\ <<"goal", g>> \notin requests
  /\ \A g \in Goals : <<"cancel", g>> \in requests => phase = "awaitCancel"

(* Where the call of a RUNNING leaf stands, it knows the current goal.     *)
ControlInv ==
  /\ phase \notin {"idle", "crashed"} => status = "RUNNING"
  /\ status = "RUNNING" => sent # 0
  /\ status = "RUNNING" /\ phase \in {"idle", "spun", "polled", "awaitAccept"} =>
       IF goalReceived THEN handle = sent ELSE future = sent
  /\ phase = "polled" => ~goalReceived
  /\ phase = "decide" => goalReceived /\ handle = sent
  /\ phase = "awaitAccept" => caller = "halt" /\ ~goalReceived
  /\ phase \in {"awaitCancel", "awaitResult"} =>
       handle = sent /\ (caller = "feedback" => goalReceived)

(* The result of a RUNNING leaf is that of its goal, which has ended.      *)
ResultInv ==
  status = "RUNNING" /\ result # NoGoal =>
    /\ result = sent /\ server[sent] \in Terminal
    /\ <<"goal", sent>> \notin requests /\ <<"result", sent>> \notin requests

LeafInv == TypeOK /\ RequestsInv /\ ControlInv /\ ResultInv

(* With a client of its own and no stop on feedback, a leaf that was       *)
(* accepted waits for a result until it has it.                            *)
SafeInv ==
  /\ verdict = "RUNNING" /\ caller = "halt"
  /\ ~client => status = "IDLE" /\ ~goalReceived
  /\ status = "RUNNING" /\ goalReceived /\ phase \in {"idle", "spun", "decide"} =>
       <<"result", sent>> \in requests \/ (phase # "idle" /\ result = sent)
  /\ status = "RUNNING" /\ ~goalReceived /\ phase \in {"idle", "spun", "polled", "awaitAccept"} =>
       \/ <<"goal", sent>> \in requests
       \/ phase # "idle" /\ (server[sent] = "rejected" \/ <<"result", sent>> \in requests)
  /\ SafeOnceAccepted

-----------------------------------------------------------------------------
(* Every variable keeps its type, whatever expires and whoever spins.      *)

(* A request is a pair of what is asked and of which goal.                 *)
LEMMA EventTypes ==
  ASSUME TypeOK, NEW next, Event(next)
  PROVE  /\ phase' \in {next, "crashed"}
         /\ verdict' \in {"RUNNING", "SUCCESS", "FAILURE"}
         /\ result' \in 0 .. MaxGoals
         /\ requests' \subseteq {"goal", "cancel", "result"} \X Goals
<1> USE NodeAssumption DEF TypeOK
<1>1. PICK g \in Goals :
        \/ phase' = next /\ (GoalReply(g) \/ CancelReply(g) \/ Feedback(g))
        \/ ResultReply(g) /\ phase' = IF NullResultReply(g) THEN "crashed" ELSE next
  BY DEF Event
<1>2. phase' \in {next, "crashed"}
  BY <1>1
<1>3. verdict' \in {"RUNNING", "SUCCESS", "FAILURE"}
  BY <1>1 DEF GoalReply, CancelReply, Feedback, ResultReply
<1>4. result' \in 0 .. MaxGoals
  BY <1>1 DEF GoalReply, CancelReply, Feedback, ResultReply, Goals
<1>5. <<"result", g>> \in {"goal", "cancel", "result"} \X Goals
  OBVIOUS
<1>6. requests' \subseteq {"goal", "cancel", "result"} \X Goals
  BY <1>1, <1>5 DEF GoalReply, CancelReply, Feedback, ResultReply
<1> QED BY <1>2, <1>3, <1>4, <1>6

LEMMA RequestCancelTypes ==
  ASSUME TypeOK, NEW h, RequestCancel(h)
  PROVE  /\ phase' \in {"awaitCancel", "crashed"}
         /\ requests' \subseteq {"goal", "cancel", "result"} \X Goals
BY DEF RequestCancel, TypeOK

LEMMA TypesStep ==
  ASSUME TypeOK, [Next]_vars
  PROVE  TypeOK'
<1> USE NodeAssumption DEF TypeOK, NoGoal
<1>1. CASE SendGoal
  <2>1. sent' \in 0 .. MaxGoals /\ sent' \in Goals /\ 0 \in 0 .. MaxGoals
    BY <1>1 DEF SendGoal, Goals
  <2>2. requests' \subseteq {"goal", "cancel", "result"} \X Goals
    BY <1>1, <2>1 DEF SendGoal
  <2>3. server' \in [Goals -> {"none", "rejected"} \cup Live \cup Terminal]
    BY <1>1, <2>1 DEF SendGoal, Live
  <2> QED BY <1>1, <2>1, <2>2, <2>3 DEF SendGoal, BeginTick
<1>2. CASE GoalNotSent
  <2>1. 0 \in 0 .. MaxGoals
    OBVIOUS
  <2> QED BY <1>2, <2>1 DEF GoalNotSent, BeginTick
<1>3. CASE TickWithoutClient
  BY <1>3 DEF TickWithoutClient, members, inbox
<1>4. CASE Spin
  BY <1>4, EventTypes DEF Spin, SpinSome, members, inbox
<1>5. CASE PollGoal
  BY <1>5, EventTypes DEF PollGoal, SpinSome, members, inbox
<1>6. CASE GoalUnanswered
  BY <1>6 DEF GoalUnanswered, members, inbox
<1>7. CASE TakeHandle
  <2>1. FutureHandle \in 0 .. MaxGoals /\ 0 \in 0 .. MaxGoals
    BY DEF FutureHandle
  <2> QED BY <1>7, <2>1 DEF TakeHandle, inbox
<1>8. CASE Decide
  BY <1>8 DEF Decide, ResultStatus, members, inbox
<1>9. CASE StopOnFeedback
  BY <1>9, RequestCancelTypes DEF StopOnFeedback, CancelGoal, members
<1>10. CASE Halt
  BY <1>10, RequestCancelTypes DEF Halt, CancelGoal, members
<1>11. CASE SpinWhileWaiting
  BY <1>11, EventTypes DEF SpinWhileWaiting, members
<1>12. CASE AcceptAwaited
  <2>1. FutureHandle \in 0 .. MaxGoals /\ 0 \in 0 .. MaxGoals
    BY DEF FutureHandle
  <2>2. /\ phase' \in {"awaitCancel", "crashed"}
        /\ requests' \subseteq {"goal", "cancel", "result"} \X Goals
    BY <1>12 DEF AcceptAwaited, RequestCancel
  <2> QED BY <1>12, <2>1, <2>2 DEF AcceptAwaited
<1>13. CASE AcceptTimedOut \/ CancelAwaited \/ ResultAwaited
  BY <1>13 DEF AcceptTimedOut, CancelAwaited, ResultAwaited, Return, members, inbox
<1>14. CASE Reset
  BY <1>14 DEF Reset, members, inbox
<1>15. CASE ForeignSpin
  BY <1>15, EventTypes DEF ForeignSpin, members
<1>16. ASSUME NEW g \in Goals, ServerStep(g)
       PROVE  TypeOK'
  BY <1>16 DEF ServerStep, AcceptGoal, RejectGoal, AcceptCancel, FinishGoal, ServerSets,
               control, members, inbox, Live, Terminal
<1>17. CASE UNCHANGED vars
  BY <1>17 DEF vars, control, members, inbox
<1> QED BY <1>1, <1>2, <1>3, <1>4, <1>5, <1>6, <1>7, <1>8, <1>9, <1>10, <1>11, <1>12, <1>13,
           <1>14, <1>15, <1>16, <1>17 DEF Next, Tick, CancelStep

LEMMA InitTypes == Init => TypeOK
<1> SUFFICES ASSUME Init PROVE TypeOK
  OBVIOUS
<1> USE NodeAssumption DEF Init, NoGoal
<1>1. {future, handle, result, sent} \subseteq 0 .. MaxGoals /\ client \in BOOLEAN
  OBVIOUS
<1> QED BY <1>1 DEF TypeOK

(* Each variable keeps its type, with timeouts and a shared client too.    *)
THEOREM LeafTypes == Spec => []TypeOK
BY InitTypes, TypesStep, PTL DEF Spec

-----------------------------------------------------------------------------
(* One step of the invariant, while no wait expires.                       *)

(* An event of the client, in a call that stays where it is or goes on.    *)
LEMMA EventKeeps ==
  ASSUME LeafInv, phase # "crashed",
         NEW next \in {"idle", "spun", "polled", "awaitAccept", "awaitCancel", "awaitResult"},
         Event(next), UNCHANGED <<status, caller, members, server>>,
         phase \in {"awaitCancel", "awaitResult"} \/ next \in {"awaitCancel", "awaitResult"}
           => next = phase,
         phase # "decide"
  PROVE  TypeOK' /\ RequestsInv' /\ ResultInv' /\ phase' \in {next, "crashed"}
<1> USE NodeAssumption DEF LeafInv, NoGoal
<1>1. TypeOK' /\ phase' \in {next, "crashed"}
  BY EventTypes DEF TypeOK, members
<1>2. PICK g \in Goals :
        \/ phase' = next /\ (GoalReply(g) \/ CancelReply(g) \/ Feedback(g))
        \/ ResultReply(g) /\ phase' = IF NullResultReply(g) THEN "crashed" ELSE next
  BY DEF Event
<1>3. phase = "awaitCancel" => phase' = "awaitCancel"
  BY <1>2 DEF NullResultReply, ControlInv, TypeOK
<1>4. UNCHANGED <<goalReceived, future, handle, sent>>
  BY DEF members
<1>5. CASE GoalReply(g)
  <2>1. /\ requests' = (requests \ {<<"goal", g>>})
                         \cup IF server[g] = "rejected" THEN {} ELSE {<<"result", g>>}
        /\ result' = result /\ g = sent /\ status = "RUNNING"
        /\ server[g] \notin {"none", "pending"}
    BY <1>5 DEF GoalReply, RequestsInv, Goals, TypeOK
  <2>2. RequestsInv'
    BY <1>1, <1>3, <1>4, <2>1 DEF RequestsInv, TypeOK, Live, Terminal
  <2>3. ResultInv'
    BY <1>4, <1>5, <2>1 DEF ResultInv, GoalReply
  <2> QED BY <1>1, <2>2, <2>3
<1>6. CASE CancelReply(g)
  <2>1. requests' = requests \ {<<"cancel", g>>} /\ result' = result
    BY <1>6 DEF CancelReply
  <2> QED BY <1>1, <1>3, <1>4, <2>1 DEF RequestsInv, ResultInv
<1>7. CASE Feedback(g)
  <2>1. requests' = requests /\ result' = result
    BY <1>7 DEF Feedback
  <2> QED BY <1>1, <1>3, <1>4, <2>1 DEF RequestsInv, ResultInv
<1>8. CASE ResultReply(g)
  <2>1. /\ requests' = requests \ {<<"result", g>>} /\ result' = IF handle = g THEN g ELSE result
        /\ g = sent /\ server[g] \in Terminal /\ <<"goal", g>> \notin requests
    BY <1>8 DEF ResultReply, RequestsInv
  <2>2. RequestsInv'
    BY <1>1, <1>3, <1>4, <2>1 DEF RequestsInv, Terminal
  <2>3. ResultInv'
    BY <1>4, <2>1 DEF ResultInv
  <2> QED BY <1>1, <2>2, <2>3
<1> QED BY <1>2, <1>5, <1>6, <1>7, <1>8

(* A leaf that is not RUNNING has no request under way and no live goal.   *)
LEMMA AtRest ==
  ASSUME TypeOK, RequestsInv, status # "RUNNING"
  PROVE  requests = {} /\ \A g \in Goals : server[g] \notin Live
<1>1. ASSUME NEW r \in requests PROVE FALSE
  <2>1. PICK kind \in {"goal", "cancel", "result"}, g \in Goals : r = <<kind, g>>
    BY DEF TypeOK
  <2> QED BY <2>1 DEF RequestsInv
<1>2. requests = {}
  BY <1>1
<1> QED BY <1>2 DEF RequestsInv, Live

LEMMA SendStep ==
  ASSUME LeafInv, SendGoal
  PROVE  LeafInv'
<1> USE NodeAssumption DEF LeafInv, NoGoal
<1>1. TypeOK'
  BY TypesStep DEF Next, Tick
<1>2. /\ phase = "idle" /\ status = "IDLE" /\ phase' = phase /\ status' = "RUNNING"
      /\ sent' = sent + 1 /\ sent' \in Goals /\ future' = sent' /\ goalReceived' = FALSE
      /\ requests' = requests \cup {<<"goal", sent'>>} /\ result' = NoGoal
      /\ server' = [server EXCEPT ![sent'] = "pending"]
  BY DEF SendGoal, BeginTick, TypeOK, Goals
<1>3. requests = {}
  BY <1>2, AtRest
<1>4. RequestsInv'
  <2>1. \A g \in Goals : server'[g] = "none" <=> g > sent'
    BY <1>1, <1>2 DEF RequestsInv, TypeOK, Goals
  <2>2. \A g \in Goals : g # sent' => server'[g] = server[g]
    BY <1>2 DEF TypeOK
  <2>3. server'[sent'] = "pending" /\ requests' = {<<"goal", sent'>>}
    BY <1>2, <1>3 DEF TypeOK
  <2>4. \A g \in Goals : server[g] \notin {"pending", "active", "canceling"}
    BY <1>3 DEF RequestsInv
  <2> QED BY <1>2, <2>1, <2>2, <2>3, <2>4 DEF RequestsInv
<1>5. ControlInv'
  BY <1>2 DEF ControlInv, TypeOK, Goals
<1>6. ResultInv'
  BY <1>2 DEF ResultInv
<1> QED BY <1>1, <1>4, <1>5, <1>6

LEMMA NotSentStep ==
  ASSUME LeafInv, GoalNotSent
  PROVE  LeafInv'
<1> USE DEF LeafInv, GoalNotSent, BeginTick, NoGoal
<1>1. TypeOK' /\ requests = {}
  BY TypesStep, AtRest DEF Next, Tick
<1>2. RequestsInv' /\ ControlInv' /\ ResultInv'
  BY <1>1 DEF RequestsInv, ControlInv, ResultInv
<1> QED BY <1>1, <1>2

LEMMA TakeHandleStep ==
  ASSUME LeafInv, TakeHandle
  PROVE  LeafInv'
<1> USE DEF LeafInv, TakeHandle, NoGoal, inbox
<1>1. TypeOK'
  BY TypesStep DEF Next, Tick
<1>2. status = "RUNNING" /\ future = sent /\ sent \in Goals /\ <<"goal", sent>> \notin requests
  BY DEF ControlInv, FutureReady, TypeOK, Goals
<1>3. \A g \in Goals : <<"goal", g>> \notin requests
  BY <1>2 DEF RequestsInv
<1>4. CASE server[sent] = "rejected"
  <2>1. \A g \in Goals : <<"result", g>> \notin requests /\ <<"cancel", g>> \notin requests
    BY <1>4 DEF RequestsInv, Terminal
  <2>2. status' = "FAILURE" /\ phase' = "idle" /\ goalReceived'
    BY <1>2, <1>4 DEF FutureHandle
  <2> QED BY <1>1, <1>3, <2>1, <2>2 DEF RequestsInv, ControlInv, ResultInv
<1>5. CASE server[sent] # "rejected"
  <2>1. handle' = sent /\ phase' = "decide" /\ status' = status /\ goalReceived'
    BY <1>2, <1>5 DEF FutureHandle, Goals
  <2> QED BY <1>1, <1>2, <1>3, <2>1 DEF RequestsInv, ControlInv, ResultInv
<1> QED BY <1>4, <1>5

LEMMA DecideStep ==
  ASSUME LeafInv, Decide
  PROVE  LeafInv'
<1> USE DEF LeafInv, Decide, Decides, NoGoal, inbox, members
<1>1. TypeOK' /\ status = "RUNNING" /\ goalReceived /\ handle = sent
  BY TypesStep DEF Next, Tick, ControlInv
<1>2. \A g \in Goals : <<"goal", g>> \notin requests /\ <<"cancel", g>> \notin requests
  BY <1>1 DEF RequestsInv
<1>3. CASE result = NoGoal
  BY <1>1, <1>2, <1>3 DEF RequestsInv, ControlInv, ResultInv
<1>4. CASE result # NoGoal
  <2>1. \A g \in Goals : <<"result", g>> \notin requests
    BY <1>1, <1>4 DEF ResultInv, RequestsInv
  <2>2. status' # "RUNNING"
    BY <1>4 DEF ResultStatus
  <2> QED BY <1>1, <1>2, <2>1, <2>2 DEF RequestsInv, ControlInv, ResultInv
<1> QED BY <1>3, <1>4

(* cancelGoal asks for the result of no goal but the current one.          *)
LEMMA RequestCancelStep ==
  ASSUME LeafInv, NEW h \in 0 .. MaxGoals, RequestCancel(h), phase # "awaitCancel"
  PROVE  \/ phase' = "crashed" /\ UNCHANGED requests
         \/ /\ phase' = "awaitCancel" /\ h = sent /\ h \in Goals
            /\ requests' = requests \cup {<<"cancel", h>>}
            /\ \A g \in Goals : <<"goal", g>> \notin requests
<1> USE DEF LeafInv, RequestCancel
<1>1. CASE <<"result", h>> \in requests
  <2>1. h \in Goals
    BY <1>1 DEF TypeOK
  <2> QED BY <1>1, <2>1 DEF RequestsInv
<1>2. CASE <<"result", h>> \notin requests
  BY <1>2
<1> QED BY <1>1, <1>2

LEMMA CancelGoalStep ==
  ASSUME LeafInv, NEW by \in {"halt", "feedback"}, CancelGoal(by), TypeOK',
         status = "RUNNING",
         by = "halt" => phase = "idle",
         by = "feedback" => Decides
  PROVE  LeafInv'
<1> USE DEF LeafInv, CancelGoal, NoGoal, members
<1>1. phase # "awaitCancel" /\ handle \in 0 .. MaxGoals
  BY DEF Decides, TypeOK
<1>2. /\ UNCHANGED <<status, goalReceived, future, handle, sent, verdict, result, server>>
      /\ caller' = by
  OBVIOUS
<1>3. by = "feedback" => goalReceived /\ handle = sent /\ handle # 0
  BY DEF Decides, ControlInv
<1>4. CASE handle # NoGoal /\ phase' = "crashed" /\ UNCHANGED requests
  BY <1>1, <1>2, <1>4 DEF RequestsInv, ControlInv, ResultInv
<1>5. CASE /\ handle # NoGoal /\ phase' = "awaitCancel" /\ handle = sent /\ handle \in Goals
           /\ requests' = requests \cup {<<"cancel", handle>>}
           /\ \A g \in Goals : <<"goal", g>> \notin requests
  <2>1. RequestsInv'
    BY <1>2, <1>5 DEF RequestsInv
  <2>2. ControlInv' /\ ResultInv'
    BY <1>2, <1>3, <1>5 DEF ControlInv, ResultInv
  <2> QED BY <2>1, <2>2
<1>6. CASE handle = NoGoal
  <2>1. by = "halt" /\ phase = "idle" /\ phase' = "awaitAccept" /\ UNCHANGED requests
    BY <1>3, <1>6
  <2>2. ~goalReceived
    BY <1>6, <2>1 DEF ControlInv
  <2> QED BY <1>2, <2>1, <2>2 DEF RequestsInv, ControlInv, ResultInv
<1> QED BY <1>1, <1>4, <1>5, <1>6, RequestCancelStep

LEMMA AcceptAwaitedStep ==
  ASSUME LeafInv, AcceptAwaited
  PROVE  LeafInv'
<1> USE DEF LeafInv, AcceptAwaited, NoGoal
<1>1. TypeOK'
  BY TypesStep DEF Next, CancelStep
<1>2. /\ phase = "awaitAccept" /\ status = "RUNNING" /\ ~goalReceived /\ caller = "halt"
      /\ future = sent /\ \A g \in Goals : <<"goal", g>> \notin requests
  BY DEF ControlInv, RequestsInv, FutureReady
<1>3. UNCHANGED <<client, status, caller, goalReceived, sent, verdict, result, server>>
  OBVIOUS
<1>4. RequestCancel(FutureHandle) /\ FutureHandle \in 0 .. MaxGoals /\ handle' = FutureHandle
  <2>1. handle' = FutureHandle
    OBVIOUS
  <2>2. FutureHandle \in 0 .. MaxGoals
    BY <1>1, <2>1 DEF TypeOK
  <2>3. RequestCancel(FutureHandle)
    BY <2>1 DEF RequestCancel
  <2> QED BY <2>1, <2>2, <2>3
<1>5. CASE phase' = "crashed" /\ UNCHANGED requests
  BY <1>1, <1>2, <1>3, <1>5 DEF RequestsInv, ControlInv, ResultInv
<1>6. CASE /\ phase' = "awaitCancel" /\ handle' = sent /\ sent \in Goals
           /\ requests' = requests \cup {<<"cancel", sent>>}
  <2>1. RequestsInv'
    BY <1>2, <1>3, <1>6 DEF RequestsInv
  <2>2. ControlInv' /\ ResultInv'
    BY <1>2, <1>3, <1>6 DEF ControlInv, ResultInv
  <2> QED BY <1>1, <2>1, <2>2
<1> QED BY <1>2, <1>4, <1>5, <1>6, RequestCancelStep

LEMMA ServerStepKeeps ==
  ASSUME LeafInv, NEW g \in Goals, ServerStep(g)
  PROVE  LeafInv'
<1> USE DEF LeafInv, NoGoal
<1>1. TypeOK' /\ UNCHANGED <<control, members, inbox>>
  BY TypesStep DEF Next, ServerStep, AcceptGoal, RejectGoal, AcceptCancel, FinishGoal, ServerSets
<1>2. UNCHANGED <<status, phase, caller, goalReceived, future, handle, sent, result, requests>>
  BY <1>1 DEF control, members, inbox
<1>3. PICK state \in {"active", "canceling", "rejected"} \cup Terminal :
        /\ server' = [server EXCEPT ![g] = state]
        /\ \/ server[g] = "pending" /\ state \in {"active", "rejected"}
           \/ server[g] \in {"active", "canceling"} /\ state \in {"canceling"} \cup Terminal
  BY DEF ServerStep, AcceptGoal, RejectGoal, AcceptCancel, FinishGoal, ServerSets, Terminal
<1>4. \A h \in Goals : server'[h] = IF h = g THEN state ELSE server[h]
  BY <1>3 DEF TypeOK
<1>5. RequestsInv'
  BY <1>2, <1>3, <1>4 DEF RequestsInv, Terminal
<1>6. ControlInv'
  BY <1>2 DEF ControlInv
<1>7. ResultInv'
  BY <1>2, <1>3, <1>4 DEF ResultInv, TypeOK, Goals, Terminal, ControlInv
<1> QED BY <1>1, <1>5, <1>6, <1>7

LEMMA ReturnStep ==
  ASSUME LeafInv, ResultAwaited, ~MayTimeout
  PROVE  LeafInv'
<1> USE DEF LeafInv, ResultAwaited, WaitEnds, Return, NoGoal
<1>1. TypeOK' /\ UNCHANGED <<caller, members, inbox, server>>
  BY TypesStep DEF Next, CancelStep
<1>2. UNCHANGED <<caller, goalReceived, future, handle, sent, result, requests, server>>
  BY <1>1 DEF members, inbox
<1>3. /\ phase = "awaitResult" /\ phase' = "idle" /\ handle = sent /\ status = "RUNNING"
      /\ caller = "feedback" => goalReceived
  BY DEF ControlInv
<1>4. \A g \in Goals : /\ <<"result", g>> \notin requests /\ <<"cancel", g>> \notin requests
                       /\ <<"goal", g>> \notin requests
  BY <1>3 DEF Waits, RequestsInv
<1>5. status' = "RUNNING" => goalReceived
  BY <1>3 DEF TypeOK
<1> QED BY <1>1, <1>2, <1>3, <1>4, <1>5 DEF RequestsInv, ControlInv, ResultInv

LEMMA LeafStep ==
  ASSUME LeafInv, [Next]_vars, ~MayTimeout
  PROVE  LeafInv'
<1> USE DEF LeafInv, NoGoal
<1>1. TypeOK'
  BY TypesStep
<1>2. CASE SendGoal \/ GoalNotSent \/ TakeHandle \/ Decide \/ AcceptAwaited \/ ResultAwaited
  BY <1>2, SendStep, NotSentStep, TakeHandleStep, DecideStep, AcceptAwaitedStep, ReturnStep
<1>3. CASE TickWithoutClient
  BY <1>1, <1>3 DEF TickWithoutClient, RequestsInv, ControlInv, ResultInv, members, inbox
<1>4. CASE Spin
  <2>1. CASE Event("spun")
    <3>1. RequestsInv' /\ ResultInv' /\ phase' \in {"spun", "crashed"}
      BY <1>4, <2>1, EventKeeps DEF Spin
    <3> QED BY <1>1, <1>4, <3>1 DEF Spin, ControlInv, members
  <2>2. CASE phase' = "spun" /\ UNCHANGED inbox
    BY <1>1, <1>4, <2>2 DEF Spin, RequestsInv, ControlInv, ResultInv, members, inbox
  <2> QED BY <1>4, <2>1, <2>2 DEF Spin, SpinSome
<1>5. CASE PollGoal
  <2>1. CASE Event("polled")
    <3>1. RequestsInv' /\ ResultInv' /\ phase' \in {"polled", "crashed"}
      BY <1>5, <2>1, EventKeeps DEF PollGoal
    <3> QED BY <1>1, <1>5, <3>1 DEF PollGoal, ControlInv, members
  <2>2. CASE phase' = "polled" /\ UNCHANGED inbox
    BY <1>1, <1>5, <2>2 DEF PollGoal, RequestsInv, ControlInv, ResultInv, members, inbox
  <2> QED BY <1>5, <2>1, <2>2 DEF PollGoal, SpinSome
<1>6. CASE GoalUnanswered
  <2>1. status' = "RUNNING" /\ status = "RUNNING"
    BY <1>6 DEF GoalUnanswered, ControlInv
  <2> QED
    BY <1>1, <1>6, <2>1 DEF GoalUnanswered, RequestsInv, ControlInv, ResultInv, members, inbox
<1>7. CASE StopOnFeedback
  BY <1>1, <1>7, CancelGoalStep DEF StopOnFeedback, Decides, ControlInv
<1>8. CASE Halt
  BY <1>1, <1>8, CancelGoalStep DEF Halt
<1>9. CASE SpinWhileWaiting
  <2>1. phase \in {"awaitAccept", "awaitCancel", "awaitResult"}
    BY <1>9 DEF SpinWhileWaiting, Waits
  <2>2. RequestsInv' /\ ResultInv' /\ phase' \in {phase, "crashed"}
    BY <1>9, <2>1, EventKeeps DEF SpinWhileWaiting
  <2> QED BY <1>1, <1>9, <2>1, <2>2 DEF SpinWhileWaiting, ControlInv, members
<1>10. CASE AcceptTimedOut
  BY <1>10 DEF AcceptTimedOut
<1>11. CASE CancelAwaited
  <2>1. /\ phase = "awaitCancel" /\ phase' = "awaitResult" /\ status = "RUNNING" /\ handle = sent
        /\ <<"cancel", handle>> \notin requests
        /\ UNCHANGED <<status, caller, goalReceived, future, handle, sent, result,
                       requests, server>>
    BY <1>11 DEF CancelAwaited, WaitEnds, Waits, ControlInv, members, inbox
  <2>2. \A g \in Goals : <<"cancel", g>> \notin requests
    BY <2>1 DEF RequestsInv
  <2> QED BY <1>1, <2>1, <2>2 DEF RequestsInv, ControlInv, ResultInv
<1>12. CASE Reset
  <2>1. requests = {}
    BY <1>12, AtRest DEF Reset
  <2> QED BY <1>1, <1>12, <2>1 DEF Reset, RequestsInv, ControlInv, ResultInv, members, inbox
<1>13. CASE ForeignSpin
  <2>1. RequestsInv' /\ ResultInv' /\ phase' \in {"idle", "crashed"}
    BY <1>13, EventKeeps DEF ForeignSpin
  <2> QED BY <1>1, <1>13, <2>1 DEF ForeignSpin, ControlInv, members
<1>14. CASE UNCHANGED vars
  BY <1>1, <1>14
     DEF vars, control, members, inbox, RequestsInv, ControlInv, ResultInv
<1> QED BY <1>2, <1>3, <1>4, <1>5, <1>6, <1>7, <1>8, <1>9, <1>10, <1>11, <1>12, <1>13, <1>14,
           ServerStepKeeps DEF Next, Tick, CancelStep

LEMMA LeafStart == Init => LeafInv
<1>1. ASSUME Init PROVE RequestsInv /\ ControlInv /\ ResultInv
  BY <1>1, NodeAssumption DEF Init, RequestsInv, ControlInv, ResultInv, NoGoal, Goals
<1> QED BY <1>1, InitTypes DEF LeafInv

(* The inductive invariant of the leaf, while no wait expires.             *)
THEOREM LeafInvariant ==
  ASSUME ~MayTimeout
  PROVE  Spec => []LeafInv
BY LeafStart, LeafStep, PTL DEF Spec

(* The result a leaf acts upon is that of the goal it is RUNNING for, also *)
(* when a leaf of the same client handles the events and when feedback     *)
(* stops the goal.                                                         *)
THEOREM ActsOnOwnResult ==
  ASSUME ~MayTimeout
  PROVE  Spec => []OwnResult
<1>1. LeafInv => OwnResult
  BY DEF LeafInv, ResultInv, OwnResult
<1> QED BY <1>1, LeafInvariant, PTL

-----------------------------------------------------------------------------
(* A leaf whose feedback never claims SUCCESS.                             *)

(* No verdict of the feedback is SUCCESS, and SUCCESS is that of the goal. *)
SuccessInv == verdict # "SUCCESS" /\ SuccessMeansArrived

LEMMA EventVerdicts ==
  ASSUME NEW next, Event(next)
  PROVE  verdict' = verdict \/ verdict' \in FeedbackVerdicts
BY DEF Event, GoalReply, CancelReply, Feedback, ResultReply

LEMMA VerdictStep ==
  ASSUME [Next]_vars
  PROVE  verdict' \in {verdict, "RUNNING"} \cup FeedbackVerdicts
<1> USE DEF members, inbox, control
<1>1. CASE SendGoal \/ GoalNotSent \/ TickWithoutClient \/ GoalUnanswered \/ TakeHandle \/ Decide
  BY <1>1 DEF SendGoal, GoalNotSent, BeginTick, TickWithoutClient, GoalUnanswered, TakeHandle,
              Decide
<1>2. CASE Spin \/ PollGoal \/ SpinWhileWaiting \/ ForeignSpin
  BY <1>2, EventVerdicts DEF Spin, PollGoal, SpinSome, SpinWhileWaiting, ForeignSpin
<1>3. CASE StopOnFeedback \/ Halt \/ Reset
  BY <1>3 DEF StopOnFeedback, Halt, CancelGoal, Reset
<1>4. CASE AcceptAwaited \/ AcceptTimedOut \/ CancelAwaited \/ ResultAwaited
  BY <1>4 DEF AcceptAwaited, AcceptTimedOut, CancelAwaited, ResultAwaited
<1>5. ASSUME NEW g \in Goals, ServerStep(g) PROVE verdict' = verdict
  BY <1>5 DEF ServerStep, AcceptGoal, RejectGoal, AcceptCancel, FinishGoal, ServerSets
<1>6. CASE UNCHANGED vars
  BY <1>6 DEF vars
<1> QED BY <1>1, <1>2, <1>3, <1>4, <1>5, <1>6 DEF Next, Tick, CancelStep

(* The node ends its tick with SUCCESS only in Decide and on feedback.     *)
LEMMA StatusStep ==
  ASSUME LeafInv, [Next]_vars, ~MayTimeout
  PROVE  \/ SendGoal \/ GoalNotSent \/ TakeHandle \/ Decide \/ ResultAwaited \/ Reset
         \/ UNCHANGED <<status, sent, server>>
         \/ UNCHANGED <<status, sent>> /\ \E g \in Goals : ServerStep(g)
<1> USE DEF members, inbox, control
<1>1. CASE TickWithoutClient \/ GoalUnanswered
  BY <1>1 DEF TickWithoutClient, GoalUnanswered, LeafInv, ControlInv
<1> QED
  BY <1>1 DEF Next, Tick, CancelStep, vars, Spin, PollGoal, StopOnFeedback, Halt, CancelGoal,
              SpinWhileWaiting, AcceptAwaited, AcceptTimedOut, CancelAwaited, ForeignSpin,
              ServerStep, AcceptGoal, RejectGoal, AcceptCancel, FinishGoal, ServerSets

LEMMA SuccessStep ==
  ASSUME LeafInv, SuccessInv, [Next]_vars, ~MayTimeout, "SUCCESS" \notin FeedbackVerdicts
  PROVE  SuccessInv'
<1> USE DEF SuccessInv, SuccessMeansArrived
<1>1. verdict' # "SUCCESS"
  BY VerdictStep
<1>2. CASE SendGoal \/ GoalNotSent \/ TakeHandle \/ Reset
  <2>1. status' # "SUCCESS" \/ UNCHANGED <<status, sent, server>>
    BY <1>2 DEF SendGoal, GoalNotSent, TakeHandle, Reset
  <2> QED BY <1>1, <2>1
<1>3. CASE Decide
  <2>1. status = "RUNNING" /\ UNCHANGED <<sent, server>>
    BY <1>3 DEF Decide, Decides, LeafInv, ControlInv, members
  <2>2. status' = "SUCCESS" => result # NoGoal /\ server[result] = "succeeded"
    BY <1>3 DEF Decide, ResultStatus
  <2>3. result # NoGoal => result = sent /\ sent # 0
    BY <2>1 DEF LeafInv, ResultInv, ControlInv
  <2> QED BY <1>1, <2>1, <2>2, <2>3
<1>4. CASE ResultAwaited
  <2>1. status' # "SUCCESS"
    BY <1>4 DEF ResultAwaited, Return
  <2> QED BY <1>1, <2>1
<1>5. ASSUME NEW g \in Goals, ServerStep(g), UNCHANGED <<status, sent>>
      PROVE  SuccessMeansArrived'
  <2>1. server' = [server EXCEPT ![g] = server'[g]] /\ server[g] \notin Terminal
    BY <1>5 DEF ServerStep, AcceptGoal, RejectGoal, AcceptCancel, FinishGoal, ServerSets,
                LeafInv, TypeOK, Terminal
  <2>2. sent # 0 => sent \in Goals
    BY DEF LeafInv, TypeOK, Goals
  <2>3. status = "SUCCESS" => g # sent
    BY <2>1 DEF Terminal
  <2> QED BY <1>5, <2>1, <2>2, <2>3 DEF LeafInv, TypeOK
<1>6. CASE UNCHANGED <<status, sent, server>>
  BY <1>1, <1>6
<1> QED BY <1>1, <1>2, <1>3, <1>4, <1>5, <1>6, StatusStep

(* SUCCESS is reported only for a goal that the server brought to          *)
(* SUCCEEDED: onResultReceived and onFailure decide upon the result of the *)
(* goal the leaf is RUNNING for, and a stop on feedback reports no SUCCESS.*)
THEOREM SuccessIsOfOwnGoal ==
  ASSUME ~MayTimeout, "SUCCESS" \notin FeedbackVerdicts
  PROVE  Spec => []SuccessMeansArrived
<1>1. Init => SuccessInv
  BY DEF Init, SuccessInv, SuccessMeansArrived
<1>2. LeafInv /\ SuccessInv /\ [Next]_vars => SuccessInv'
  BY SuccessStep
<1>3. SuccessInv => SuccessMeansArrived
  BY DEF SuccessInv
<1> QED BY <1>1, <1>2, <1>3, LeafInvariant, PTL DEF Spec

-----------------------------------------------------------------------------
(* The leaf when waits may expire: it may act upon the result of an        *)
(* earlier goal, but never report a SUCCESS that no goal had.              *)

(* Goals are used in order, and a result is that of a goal that has ended. *)
EarnedInv ==
  /\ TypeOK /\ SomeGoalSucceeded
  /\ \A g \in Goals : server[g] # "none" => g <= sent
  /\ result # NoGoal => server[result] \in Terminal
  /\ verdict # "SUCCESS"

(* Only ResultReply sets the result, and only of a goal that has ended.    *)
LEMMA ResultStep ==
  ASSUME [Next]_vars
  PROVE  \/ result' \in {result, NoGoal}
         \/ result' \in Goals /\ server[result'] \in Terminal
<1> USE DEF members, inbox, control
<1>1. ASSUME NEW next, Event(next)
      PROVE  result' = result \/ (result' \in Goals /\ server[result'] \in Terminal)
  BY <1>1 DEF Event, GoalReply, CancelReply, Feedback, ResultReply
<1>2. CASE SendGoal \/ GoalNotSent \/ TickWithoutClient \/ GoalUnanswered \/ TakeHandle \/ Decide
  BY <1>2 DEF SendGoal, GoalNotSent, BeginTick, TickWithoutClient, GoalUnanswered, TakeHandle,
              Decide
<1>3. CASE Spin \/ PollGoal \/ SpinWhileWaiting \/ ForeignSpin
  BY <1>1, <1>3 DEF Spin, PollGoal, SpinSome, SpinWhileWaiting, ForeignSpin
<1>4. CASE StopOnFeedback \/ Halt \/ Reset
  BY <1>4 DEF StopOnFeedback, Halt, CancelGoal, Reset
<1>5. CASE AcceptAwaited \/ AcceptTimedOut \/ CancelAwaited \/ ResultAwaited
  BY <1>5 DEF AcceptAwaited, AcceptTimedOut, CancelAwaited, ResultAwaited
<1>6. ASSUME NEW g \in Goals, ServerStep(g) PROVE result' = result
  BY <1>6 DEF ServerStep, AcceptGoal, RejectGoal, AcceptCancel, FinishGoal, ServerSets
<1>7. CASE UNCHANGED vars
  BY <1>7 DEF vars
<1> QED BY <1>2, <1>3, <1>4, <1>5, <1>6, <1>7 DEF Next, Tick, CancelStep

(* The server leaves a goal that has ended as it is, and learns of a goal  *)
(* only by SendGoal.                                                       *)
LEMMA ServerChange ==
  ASSUME EarnedInv, [Next]_vars
  PROVE  /\ sent' >= sent
         /\ \A g \in Goals : server'[g] # "none" => g <= sent'
         /\ \A g \in Goals : server[g] \in Terminal => server'[g] = server[g]
<1> USE NodeAssumption DEF members, inbox, control
<1>1. CASE SendGoal
  <2>1. /\ sent' = sent + 1 /\ sent' \in Goals /\ sent \in Nat
        /\ server' = [server EXCEPT ![sent'] = "pending"]
    BY <1>1 DEF SendGoal, EarnedInv, TypeOK, Goals
  <2>2. server[sent'] = "none"
    BY <2>1 DEF EarnedInv, Goals
  <2>3. \A g \in Goals : g # sent' => server'[g] = server[g]
    BY <2>1 DEF EarnedInv, TypeOK
  <2> QED BY <2>1, <2>2, <2>3 DEF EarnedInv, Goals, Terminal
<1>2. ASSUME NEW g \in Goals, ServerStep(g)
      PROVE  /\ sent' = sent /\ server[g] \notin Terminal \cup {"none"}
             /\ server' = [server EXCEPT ![g] = server'[g]]
  BY <1>2 DEF ServerStep, AcceptGoal, RejectGoal, AcceptCancel, FinishGoal, ServerSets,
              EarnedInv, TypeOK, Terminal
<1>3. CASE \E g \in Goals : ServerStep(g)
  BY <1>2, <1>3 DEF EarnedInv, TypeOK
<1>4. CASE UNCHANGED <<sent, server>>
  BY <1>4 DEF EarnedInv, TypeOK
<1>5. SendGoal \/ (\E g \in Goals : ServerStep(g)) \/ UNCHANGED <<sent, server>>
  BY DEF Next, Tick, CancelStep, vars, GoalNotSent, BeginTick, TickWithoutClient, Spin, PollGoal,
         GoalUnanswered, TakeHandle, Decide, StopOnFeedback, Halt, CancelGoal, SpinWhileWaiting,
         AcceptAwaited, AcceptTimedOut, CancelAwaited, ResultAwaited, Reset, ForeignSpin
<1> QED BY <1>1, <1>3, <1>4, <1>5

(* The node becomes SUCCESS in Decide, or by a verdict of the feedback.    *)
LEMMA BecomesSuccess ==
  ASSUME EarnedInv, [Next]_vars, status' = "SUCCESS", status # "SUCCESS"
  PROVE  Decide /\ result # NoGoal /\ server[result] = "succeeded"
<1> USE DEF members, inbox, control
<1>1. ~(AcceptTimedOut \/ ResultAwaited)
  BY DEF AcceptTimedOut, ResultAwaited, Return, EarnedInv
<1>2. Decide
  BY <1>1 DEF Next, Tick, CancelStep, vars, SendGoal, GoalNotSent, TickWithoutClient, Spin,
              PollGoal, GoalUnanswered, TakeHandle, StopOnFeedback, Halt, CancelGoal,
              SpinWhileWaiting, AcceptAwaited, CancelAwaited, Reset, ForeignSpin,
              ServerStep, AcceptGoal, RejectGoal, AcceptCancel, FinishGoal, ServerSets
<1> QED BY <1>2 DEF Decide, ResultStatus

LEMMA EarnedStep ==
  ASSUME EarnedInv, [Next]_vars, "SUCCESS" \notin FeedbackVerdicts
  PROVE  EarnedInv'
<1>1. TypeOK' /\ TypeOK
  BY TypesStep DEF EarnedInv
<1>2. sent \in Nat /\ sent' \in Nat /\ sent <= MaxGoals /\ sent' >= sent /\ MaxGoals \in Nat
  BY <1>1, ServerChange, NodeAssumption DEF TypeOK
<1>3. verdict' # "SUCCESS"
  BY VerdictStep DEF EarnedInv
<1>4. \A g \in Goals : g \in 1 .. sent => g \in 1 .. sent'
  BY <1>2 DEF Goals
<1>5. 1 .. sent \subseteq Goals
  BY <1>2 DEF Goals
<1>6. \A g \in Goals : server[g] \in Terminal => server'[g] = server[g]
  BY ServerChange
<1>7. result # NoGoal => result \in Goals
  BY <1>1, NodeAssumption DEF TypeOK, NoGoal, Goals
<1>8. result' # NoGoal => server'[result'] \in Terminal
  BY <1>6, <1>7, ResultStep DEF EarnedInv
<1>9. SomeGoalSucceeded'
  <2>1. CASE status' = "SUCCESS" /\ status = "SUCCESS"
    <3>1. PICK g \in 1 .. sent : server[g] = "succeeded"
      BY <2>1 DEF EarnedInv, SomeGoalSucceeded
    <3> QED BY <1>4, <1>5, <1>6, <3>1 DEF SomeGoalSucceeded, Terminal
  <2>2. CASE status' = "SUCCESS" /\ status # "SUCCESS"
    <3>1. result \in Goals /\ server[result] = "succeeded"
      BY <1>7, <2>2, BecomesSuccess
    <3>2. result \in 1 .. sent
      BY <1>2, <3>1 DEF EarnedInv, Goals
    <3> QED BY <1>4, <1>6, <3>1, <3>2 DEF SomeGoalSucceeded, Terminal
  <2> QED BY <2>1, <2>2 DEF SomeGoalSucceeded
<1> QED BY <1>1, <1>3, <1>8, <1>9, ServerChange DEF EarnedInv

LEMMA EarnedStart == Init => EarnedInv
<1> SUFFICES ASSUME Init PROVE EarnedInv
  OBVIOUS
<1> QED BY InitTypes DEF Init, EarnedInv, SomeGoalSucceeded

(* Whatever expires and whoever spins the client, the leaf reports SUCCESS *)
(* only when one of its goals was brought to SUCCEEDED, if perhaps not the *)
(* last one: after a wait has expired an older goal may still be alive.    *)
THEOREM SuccessIsEarned ==
  ASSUME "SUCCESS" \notin FeedbackVerdicts
  PROVE  Spec => []SomeGoalSucceeded
<1>1. EarnedInv => SomeGoalSucceeded
  BY DEF EarnedInv
<1> QED BY <1>1, EarnedStart, EarnedStep, PTL DEF Spec

(* The first goal cannot be taken for another: as long as a leaf sends one *)
(* goal, its SUCCESS is that of this goal even if waits expire.            *)
LEMMA OnlyGoal ==
  ASSUME EarnedInv, sent <= 1
  PROVE  SuccessMeansArrived
<1>1. sent \in Nat
  BY NodeAssumption DEF EarnedInv, TypeOK
<1> QED BY <1>1 DEF EarnedInv, SomeGoalSucceeded, SuccessMeansArrived

(* SUCCESS of a leaf that sends one goal is that of this goal, whatever    *)
(* expires and whoever spins the client of RosActionNode.                  *)
THEOREM OnlyGoalArrived ==
  ASSUME MaxGoals = 1, "SUCCESS" \notin FeedbackVerdicts
  PROVE  Spec => []SuccessMeansArrived
<1>1. EarnedInv => SuccessMeansArrived
  BY OnlyGoal DEF EarnedInv, TypeOK
<1> QED BY <1>1, EarnedStart, EarnedStep, PTL DEF Spec

-----------------------------------------------------------------------------
(* The leaf keeps the promises of ActionLeaf.                              *)

LeafLive == {g \in Goals : server[g] \in Live}
LeafSucceeded == sent # 0 /\ server[sent] = "succeeded"

(* No goal but the current one is alive, and none once the wait is over.   *)
LEMMA LiveIsCurrent ==
  ASSUME LeafInv
  PROVE  \A g \in Goals : server[g] \in Live => g = sent /\ status = "RUNNING"
BY DEF LeafInv, RequestsInv, Live

LEMMA SendRefines ==
  ASSUME LeafInv, SendGoal
  PROVE  Leaf!Begin
<1> USE DEF LeafInv
<1>1. /\ status = "IDLE" /\ status' = "RUNNING" /\ sent' \in Goals /\ sent' # 0
      /\ server' = [server EXCEPT ![sent'] = "pending"]
  <2>1. sent \in 0 .. MaxGoals /\ MaxGoals \in Nat
    BY NodeAssumption DEF TypeOK
  <2> QED BY <2>1 DEF SendGoal, BeginTick, Goals
<1>2. \A g \in Goals : server'[g] \in Live <=> g = sent'
  BY <1>1, AtRest DEF TypeOK, Live
<1>3. {g \in Goals : server'[g] \in Live} = {sent'}
  BY <1>1, <1>2
<1>4. (sent' # 0 /\ server'[sent'] = "succeeded") = FALSE
  BY <1>1 DEF TypeOK
<1> QED BY <1>1, <1>3, <1>4 DEF Leaf!Begin

(* A call that ends at an answer leaves no goal alive.                     *)
LEMMA NoneLive ==
  ASSUME LeafInv, LeafInv', status' # "RUNNING", UNCHANGED server
  PROVE  LeafLive = {}
BY LiveIsCurrent DEF LeafInv, RequestsInv, Live, LeafLive

LEMMA ServerRefines ==
  ASSUME LeafInv, NEW g \in Goals, ServerStep(g), UNCHANGED <<status, sent>>
  PROVE  Leaf!GoalEnds \/ UNCHANGED <<status, LeafLive, LeafSucceeded>>
<1> USE DEF LeafInv
<1>1. /\ server[g] \in Live
      /\ server' = [server EXCEPT ![g] = server'[g]]
  BY DEF ServerStep, AcceptGoal, RejectGoal, AcceptCancel, FinishGoal, ServerSets, TypeOK, Live
<1>2. g = sent /\ status = "RUNNING" /\ \A h \in Goals : server[h] \in Live => h = g
  BY <1>1, LiveIsCurrent
<1>3. \A h \in Goals : h # g => server'[h] = server[h]
  BY <1>1 DEF TypeOK
<1>4. CASE server'[g] \in Live
  <2>1. LeafLive' = LeafLive
    BY <1>1, <1>3, <1>4 DEF LeafLive
  <2>2. LeafSucceeded' = LeafSucceeded
    BY <1>1, <1>2, <1>4 DEF LeafSucceeded, Live
  <2> QED BY <2>1, <2>2
<1>5. CASE server'[g] \notin Live
  <2>1. {h \in Goals : server[h] \in Live} # {} /\ {h \in Goals : server'[h] \in Live} = {}
    BY <1>1, <1>2, <1>3, <1>5
  <2>2. (sent' # 0 /\ server'[sent'] = "succeeded") \in BOOLEAN
    OBVIOUS
  <2> QED BY <1>2, <2>1, <2>2 DEF Leaf!GoalEnds
<1> QED BY <1>4, <1>5

LEMMA LeafStepRefines ==
  ASSUME LeafInv, SuccessInv, LeafInv', [Next]_vars, ~MayTimeout,
         "SUCCESS" \notin FeedbackVerdicts
  PROVE  [Leaf!Next]_(Leaf!vars)
<1>1. CASE SendGoal
  BY <1>1, SendRefines DEF Leaf!Next
<1>2. CASE GoalNotSent
  <2>1. status = "IDLE" /\ status' = "FAILURE" /\ UNCHANGED <<sent, server>>
    BY <1>2 DEF GoalNotSent, BeginTick
  <2> QED BY <2>1 DEF Leaf!Next, Leaf!Refuse
<1>3. CASE TakeHandle \/ Decide \/ ResultAwaited
  <2>1. status = "RUNNING" /\ UNCHANGED <<sent, server>>
    BY <1>3 DEF TakeHandle, Decide, Decides, ResultAwaited, WaitEnds, members, LeafInv, ControlInv
  <2>2. status' = "SUCCESS" => LeafSucceeded
    <3>1. SuccessInv'
      BY SuccessStep
    <3> QED BY <2>1, <3>1 DEF SuccessInv, SuccessMeansArrived, LeafSucceeded
  <2>3. status' \in {"IDLE", "RUNNING", "SUCCESS", "FAILURE"}
    BY DEF LeafInv, TypeOK
  <2>4. status' # "RUNNING" => LeafLive = {}
    BY <2>1, NoneLive
  <2> QED
    BY <2>1, <2>2, <2>3, <2>4
       DEF Leaf!Next, Leaf!Complete, Leaf!Halted, Leaf!vars, LeafLive, LeafSucceeded
<1>4. CASE Reset
  <2>1. status \in {"SUCCESS", "FAILURE"} /\ status' = "IDLE" /\ UNCHANGED <<sent, server>>
    BY <1>4 DEF Reset, members
  <2> QED BY <2>1 DEF Leaf!Next, Leaf!Reset
<1>5. CASE UNCHANGED <<status, sent, server>>
  BY <1>5 DEF Leaf!vars
<1>6. ASSUME NEW g \in Goals, ServerStep(g), UNCHANGED <<status, sent>>
      PROVE  [Leaf!Next]_(Leaf!vars)
  BY <1>6, ServerRefines DEF Leaf!Next, Leaf!vars, LeafLive, LeafSucceeded
<1> QED BY <1>1, <1>2, <1>3, <1>4, <1>5, <1>6, StatusStep

(* While no wait expires the leaf implements ActionLeaf: at most one of    *)
(* its goals is alive, none when it is not RUNNING, and SUCCESS is earned. *)
THEOREM LeafKeepsPromises ==
  ASSUME ~MayTimeout, "SUCCESS" \notin FeedbackVerdicts
  PROVE  Spec => LeafSpec
<1>1. Init => Leaf!Init /\ SuccessInv
  <2>1. Init => {g \in Goals : server[g] \in Live} = {}
    BY DEF Init, Live
  <2>2. Init => (sent # 0 /\ server[sent] = "succeeded") = FALSE
    BY DEF Init
  <2> QED BY <2>1, <2>2 DEF Init, Leaf!Init, SuccessInv, SuccessMeansArrived
<1>2. LeafInv /\ SuccessInv /\ [Next]_vars => SuccessInv'
  BY SuccessStep
<1>3. LeafInv /\ LeafInv' /\ SuccessInv /\ [Next]_vars => [Leaf!Next]_(Leaf!vars)
  BY LeafStepRefines
<1> QED BY <1>1, <1>2, <1>3, LeafInvariant, PTL DEF Spec, LeafSpec, Leaf!Spec

-----------------------------------------------------------------------------
(* A leaf with a client of its own and no stop on feedback.                *)

LEMMA EventKeepsSafe ==
  ASSUME LeafInv, SafeInv,
         NEW next \in {"spun", "polled", "awaitAccept", "awaitCancel", "awaitResult"},
         Event(next), FeedbackVerdicts \subseteq {"RUNNING"},
         UNCHANGED <<status, caller, members, server>>, status = "RUNNING",
         phase \in {"idle", "spun", "awaitAccept", "awaitCancel", "awaitResult"},
         ~goalReceived /\ next \in {"spun", "polled", "awaitAccept"} =>
           <<"goal", sent>> \in requests,
         goalReceived /\ next = "spun" => <<"result", sent>> \in requests
  PROVE  SafeInv'
<1> USE DEF LeafInv, NoGoal
<1>1. PICK g \in Goals :
        \/ phase' = next /\ (GoalReply(g) \/ CancelReply(g) \/ Feedback(g))
        \/ ResultReply(g) /\ phase' = IF NullResultReply(g) THEN "crashed" ELSE next
  BY DEF Event
<1>2. UNCHANGED <<status, caller, client, goalReceived, future, handle, sent, server>>
  BY DEF members
<1>3. verdict' = "RUNNING"
  BY EventVerdicts DEF SafeInv
<1>4. phase' = next \/ (phase' = "crashed" /\ ~goalReceived)
  <2>1. CASE goalReceived
    <3>1. handle # NoGoal
      BY <2>1 DEF ControlInv
    <3> QED BY <1>1, <3>1 DEF NullResultReply
  <2> QED BY <1>1, <2>1
<1>5. <<"result", sent>> \in requests =>
        <<"result", sent>> \in requests' \/ (goalReceived /\ next = "spun" => result' = sent)
  <2>1. goalReceived /\ next = "spun" =>
          handle = sent \/ phase \in {"awaitAccept", "awaitCancel", "awaitResult"}
    BY DEF ControlInv
  <2>2. phase \in {"awaitAccept", "awaitCancel", "awaitResult"} /\ goalReceived => handle = sent
    BY DEF ControlInv
  <2>3. sent # 0 /\ sent \in Goals
    BY DEF ControlInv, TypeOK, Goals
  <2> QED
    BY <1>1, <2>1, <2>2, <2>3 DEF GoalReply, CancelReply, Feedback, ResultReply, RequestsInv
<1>6. <<"goal", sent>> \in requests =>
        \/ <<"goal", sent>> \in requests'
        \/ server[sent] = "rejected" \/ <<"result", sent>> \in requests'
  BY <1>1 DEF GoalReply, CancelReply, Feedback, ResultReply
<1>7. CASE phase' = "crashed"
  BY <1>2, <1>3, <1>4, <1>7 DEF SafeInv, SafeOnceAccepted
<1>8. CASE phase' = next
  BY <1>2, <1>3, <1>5, <1>6, <1>8 DEF SafeInv, SafeOnceAccepted
<1> QED BY <1>4, <1>7, <1>8

LEMMA SafeStep ==
  ASSUME LeafInv, SafeInv, LeafInv', [Next]_vars,
         ~MayTimeout, ~SharedClient, FeedbackVerdicts \subseteq {"RUNNING"}
  PROVE  SafeInv'
<1> USE DEF LeafInv, NoGoal
<1>1. CASE SendGoal \/ GoalNotSent
  BY <1>1 DEF SendGoal, GoalNotSent, BeginTick, SafeInv, SafeOnceAccepted
<1>2. CASE TickWithoutClient
  BY <1>2 DEF TickWithoutClient, SafeInv, SafeOnceAccepted, members, inbox
<1>3. CASE Spin
  <2>1. status = "RUNNING" /\ phase = "idle" /\ UNCHANGED <<status, caller, members, server>>
    BY <1>3 DEF Spin
  <2>2. CASE Event("spun")
    BY <2>1, <2>2, EventKeepsSafe DEF SafeInv
  <2>3. CASE phase' = "spun" /\ UNCHANGED inbox
    BY <2>1, <2>3 DEF SafeInv, SafeOnceAccepted, members, inbox
  <2> QED BY <1>3, <2>2, <2>3 DEF Spin, SpinSome
<1>4. CASE PollGoal
  <2>1. /\ status = "RUNNING" /\ phase = "spun" /\ UNCHANGED <<status, caller, members, server>>
        /\ ~goalReceived /\ <<"goal", sent>> \in requests
    BY <1>4 DEF PollGoal, ControlInv, FutureReady
  <2>2. CASE Event("polled")
    BY <2>1, <2>2, EventKeepsSafe
  <2>3. CASE phase' = "polled" /\ UNCHANGED inbox
    BY <2>1, <2>3 DEF SafeInv, SafeOnceAccepted, members, inbox
  <2> QED BY <1>4, <2>2, <2>3 DEF PollGoal, SpinSome
<1>5. CASE GoalUnanswered
  <2>1. /\ ~goalReceived /\ <<"goal", sent>> \in requests /\ status' = status /\ phase' = "idle"
    BY <1>5 DEF GoalUnanswered, ControlInv, FutureReady
  <2> QED BY <1>5, <2>1 DEF GoalUnanswered, SafeInv, SafeOnceAccepted, members, inbox
<1>6. CASE TakeHandle
  <2>1. /\ status = "RUNNING" /\ future = sent /\ <<"goal", sent>> \notin requests /\ ~goalReceived
        /\ phase \in {"spun", "polled"}
    BY <1>6 DEF TakeHandle, ControlInv, FutureReady
  <2>2. server[sent] # "rejected" => <<"result", sent>> \in requests
    BY <2>1 DEF SafeInv
  <2>3. server[sent] = "rejected" => phase' = "idle" /\ status' = "FAILURE"
    BY <1>6, <2>1 DEF TakeHandle, FutureHandle
  <2>4. /\ UNCHANGED <<client, caller, sent, verdict, result, requests, server>> /\ goalReceived'
        /\ phase' \in {"idle", "decide"} /\ status' \in {"RUNNING", "FAILURE"}
        /\ phase' = "idle" => status' = "FAILURE"
    BY <1>6, <2>1 DEF TakeHandle, inbox
  <2> QED BY <2>1, <2>2, <2>3, <2>4 DEF SafeInv, SafeOnceAccepted
<1>7. CASE Decide
  <2>1. /\ status = "RUNNING" /\ goalReceived /\ sent # 0 /\ phase \in {"decide", "spun"}
        /\ UNCHANGED <<client, caller, goalReceived, sent, verdict, result, requests, server>>
        /\ phase' = "idle"
    BY <1>7 DEF Decide, Decides, ControlInv, members, inbox
  <2>2. status' = "RUNNING" => result = NoGoal
    BY <1>7 DEF Decide, ResultStatus
  <2> QED BY <2>1, <2>2 DEF SafeInv, SafeOnceAccepted
<1>8. CASE StopOnFeedback
  BY <1>8 DEF StopOnFeedback, SafeInv
<1>9. CASE Halt
  <2>1. /\ status = "RUNNING" /\ phase = "idle" /\ caller' = "halt"
        /\ UNCHANGED <<client, status, goalReceived, handle, sent, verdict, result, server>>
    BY <1>9 DEF Halt, CancelGoal, members
  <2>2. CASE handle = NoGoal
    <3>1. phase' = "awaitAccept" /\ UNCHANGED requests /\ ~goalReceived
      BY <1>9, <2>1, <2>2 DEF Halt, CancelGoal, ControlInv
    <3> QED BY <2>1, <3>1 DEF SafeInv, SafeOnceAccepted
  <2>3. CASE handle # NoGoal
    <3>1. goalReceived => <<"result", handle>> \in requests
      BY <2>1 DEF ControlInv, SafeInv
    <3>2. phase' \in {"awaitCancel", "crashed"} /\ (goalReceived => phase' = "awaitCancel")
      BY <1>9, <2>3, <3>1 DEF Halt, CancelGoal, RequestCancel
    <3> QED BY <2>1, <3>2 DEF SafeInv, SafeOnceAccepted
  <2> QED BY <2>2, <2>3
<1>10. CASE SpinWhileWaiting
  <2>1. /\ phase \in {"awaitAccept", "awaitCancel", "awaitResult"} /\ status = "RUNNING"
        /\ phase = "awaitAccept" => ~goalReceived /\ <<"goal", sent>> \in requests
    BY <1>10 DEF SpinWhileWaiting, Waits, ControlInv, FutureReady
  <2> QED BY <1>10, <2>1, EventKeepsSafe DEF SpinWhileWaiting
<1>11. CASE AcceptAwaited
  <2>1. ~goalReceived /\ phase' \in {"awaitCancel", "crashed"} /\ caller = "halt"
    BY <1>11 DEF AcceptAwaited, ControlInv, RequestCancel
  <2> QED BY <1>11, <2>1 DEF AcceptAwaited, SafeInv, SafeOnceAccepted
<1>12. CASE CancelAwaited \/ ResultAwaited
  <2>1. status = "RUNNING" /\ phase' \in {"awaitResult", "idle"}
    BY <1>12 DEF CancelAwaited, ResultAwaited, WaitEnds, Return, ControlInv
  <2>2. (status' = status /\ phase' = "awaitResult") \/ status' = "IDLE"
    BY <1>12 DEF CancelAwaited, ResultAwaited, Return, SafeInv
  <2> QED
    BY <1>12, <2>1, <2>2
       DEF CancelAwaited, ResultAwaited, SafeInv, SafeOnceAccepted, members, inbox
<1>13. CASE Reset
  BY <1>13 DEF Reset, SafeInv, SafeOnceAccepted, members, inbox
<1>14. ASSUME NEW g \in Goals, ServerStep(g) PROVE SafeInv'
  <2>1. UNCHANGED <<control, members, inbox>> /\ server[g] # "rejected"
        /\ server' = [server EXCEPT ![g] = server'[g]]
    BY <1>14 DEF ServerStep, AcceptGoal, RejectGoal, AcceptCancel, FinishGoal, ServerSets, TypeOK
  <2>2. server[sent] = "rejected" /\ sent # 0 => server'[sent] = "rejected"
    BY <2>1 DEF TypeOK, Goals
  <2>3. status = "RUNNING" => sent # 0
    BY DEF ControlInv
  <2> QED BY <2>1, <2>2, <2>3 DEF SafeInv, SafeOnceAccepted, control, members, inbox
<1>15. CASE UNCHANGED vars
  BY <1>15 DEF vars, SafeInv, SafeOnceAccepted, control, members, inbox
<1> QED
  BY <1>1, <1>2, <1>3, <1>4, <1>5, <1>6, <1>7, <1>8, <1>9, <1>10, <1>11, <1>12, <1>13, <1>14,
     <1>15 DEF Next, Tick, CancelStep, AcceptTimedOut, ForeignSpin

(* A leaf that holds the handle of its goal is ticked and halted without   *)
(* an exception: as long as nobody else takes its result, the client knows *)
(* the goal until the leaf has acted upon the result.                      *)
THEOREM AcceptedLeafIsSafe ==
  ASSUME ~MayTimeout, ~SharedClient, FeedbackVerdicts \subseteq {"RUNNING"}
  PROVE  Spec => []SafeOnceAccepted
<1>1. Init => SafeInv
  BY DEF Init, SafeInv, SafeOnceAccepted
<1>2. LeafInv /\ LeafInv' /\ SafeInv /\ [Next]_vars => SafeInv'
  BY SafeStep
<1>3. SafeInv => SafeOnceAccepted
  BY DEF SafeInv
<1> QED BY <1>1, <1>2, <1>3, LeafInvariant, PTL DEF Spec

-----------------------------------------------------------------------------
(* The bt_engine process, for any number of goals and /start messages.  It *)
(* takes only steps of the leaf that RosActionNode has, so that the        *)
(* invariants of the leaf hold of it too.                                  *)

(* No goal was sent before the leaf was ticked, and the leaf is IDLE again *)
(* only when the tree has ended.                                           *)
OnceInv ==
  /\ sent \in 0 .. 1
  /\ status = "IDLE" /\ engine # "finished" => sent = 0

LEMMA OnceStep ==
  ASSUME OnceInv, [EngineNext]_allVars
  PROVE  OnceInv'
<1> USE DEF OnceInv
<1>1. CASE BuildTree \/ PublishStart \/ StartCallback \/ RunTree \/ TickInstruction \/ Interrupt
  BY <1>1 DEF BuildTree, PublishStart, StartCallback, RunTree, TickInstruction, Interrupt,
              vars, control, members
<1>2. CASE TickNavigate
  <2>1. engine' \in {"running", "exited"} /\ engine = "running" /\ Tick
    BY <1>2 DEF TickNavigate
  <2>2. CASE SendGoal
    BY <2>1, <2>2 DEF SendGoal, BeginTick
  <2>3. CASE ~SendGoal
    <3>1. sent' = sent
      BY <2>1, <2>3 DEF Tick, GoalNotSent, TickWithoutClient, Spin, PollGoal, GoalUnanswered,
                        TakeHandle, Decide, StopOnFeedback, CancelGoal, members
    <3>2. status' = "IDLE" => status = "IDLE"
      BY <2>1, <2>3 DEF Tick, GoalNotSent, TickWithoutClient, Spin, PollGoal, GoalUnanswered,
                        TakeHandle, Decide, ResultStatus, StopOnFeedback, CancelGoal
    <3> QED BY <2>1, <3>1, <3>2
  <2> QED BY <2>2, <2>3
<1>3. CASE TreeCompletes
  BY <1>3 DEF TreeCompletes, Reset, members
<1>4. CASE ServerActs
  BY <1>4 DEF ServerActs, ServerStep, AcceptGoal, RejectGoal, AcceptCancel, FinishGoal,
              ServerSets, control, members, engineVars
<1>5. CASE UNCHANGED allVars
  BY <1>5 DEF allVars, vars, control, members, engineVars
<1> QED BY <1>1, <1>2, <1>3, <1>4, <1>5 DEF EngineNext

(* One process sends at most one goal, however many /start messages come   *)
(* and whatever expires: main leaves the loop when the tree has completed. *)
THEOREM EngineSendsOneGoal == EngineSpec => []OneGoalPerProcess
<1>1. EngineInit => OnceInv
  BY DEF EngineInit, Init, OnceInv
<1>2. OnceInv /\ [EngineNext]_allVars => OnceInv'
  BY OnceStep
<1>3. OnceInv => OneGoalPerProcess
  BY DEF OnceInv, OneGoalPerProcess
<1> QED BY <1>1, <1>2, <1>3, PTL DEF EngineSpec

-----------------------------------------------------------------------------
(* A finished tree.                                                        *)

(* Every step of the engine is one of the leaf or leaves it alone.         *)
LEMMA EngineStepsLeaf == [EngineNext]_allVars => [Next]_vars
BY DEF EngineNext, BuildTree, PublishStart, StartCallback, RunTree, TickInstruction,
       TickNavigate, TreeCompletes, Interrupt, ServerActs, allVars, Next

(* The leaf runs only after the instruction was published, and a finished  *)
(* tree has taken its status from the leaf.                                *)
TreeInv ==
  /\ child = "navigate" /\ WithInstruction => instructed
  /\ status # "IDLE" => child = "navigate"
  /\ engine # "finished" => treeStatus # "SUCCESS"
  /\ engine = "finished" => status = "IDLE"
  /\ treeStatus = "SUCCESS" =>
       /\ sent # 0 /\ server[sent] = "succeeded"
       /\ WithInstruction => instructed

LEMMA TreeStep ==
  ASSUME TypeOK, SuccessMeansArrived, TreeInv, [EngineNext]_allVars
  PROVE  TreeInv'
<1> USE DEF TreeInv
<1>1. CASE BuildTree \/ PublishStart \/ StartCallback \/ RunTree \/ Interrupt
  BY <1>1 DEF BuildTree, PublishStart, StartCallback, RunTree, Interrupt,
              vars, control, members, tree
<1>2. CASE TickInstruction
  BY <1>2 DEF TickInstruction, vars, control, members
<1>3. CASE TickNavigate
  BY <1>3 DEF TickNavigate, tree
<1>4. CASE TreeCompletes
  BY <1>4 DEF TreeCompletes, Reset, members, SuccessMeansArrived
<1>5. CASE ServerActs
  <2>1. PICK g \in Goals : ServerStep(g) /\ UNCHANGED engineVars
    BY <1>5 DEF ServerActs
  <2>2. /\ server' = [server EXCEPT ![g] = server'[g]] /\ server[g] # "succeeded"
        /\ UNCHANGED <<status, sent, engine, child, instructed, treeStatus>>
    BY <2>1 DEF ServerStep, AcceptGoal, RejectGoal, AcceptCancel, FinishGoal, ServerSets,
                TypeOK, control, members, engineVars, tree
  <2>3. sent # 0 => sent \in Goals
    BY DEF TypeOK, Goals
  <2>4. sent # 0 /\ server[sent] = "succeeded" => server'[sent] = "succeeded"
    BY <2>2, <2>3 DEF TypeOK
  <2> QED BY <2>2, <2>4
<1>6. CASE UNCHANGED allVars
  BY <1>6 DEF allVars, vars, control, members, engineVars, tree
<1> QED BY <1>1, <1>2, <1>3, <1>4, <1>5, <1>6 DEF EngineNext

(* A tree that ran to its end has left no goal alive on the server, and    *)
(* SUCCESS means that the instruction was published and the robot arrived: *)
(* the engine adds nothing that the leaf's promises do not give.           *)
THEOREM FinishedTreeIsAtRest ==
  ASSUME ~MayTimeout, "SUCCESS" \notin FeedbackVerdicts
  PROVE  EngineSpec => []FinishedTree
<1>1. EngineInit => LeafInv /\ SuccessInv /\ TreeInv
  <2>1. EngineInit => Init
    BY DEF EngineInit
  <2>2. Init => LeafInv
    BY LeafStart
  <2>3. EngineInit => SuccessInv /\ TreeInv
    BY DEF EngineInit, Init, SuccessInv, SuccessMeansArrived, TreeInv
  <2> QED BY <2>1, <2>2, <2>3
<1>2. LeafInv /\ SuccessInv /\ TreeInv /\ [EngineNext]_allVars
        => LeafInv' /\ SuccessInv' /\ TreeInv'
  BY EngineStepsLeaf, LeafStep, SuccessStep, TreeStep DEF LeafInv, SuccessInv
<1>3. LeafInv /\ SuccessInv /\ TreeInv => FinishedTree
  BY LiveIsCurrent DEF TreeInv, FinishedTree
<1> QED BY <1>1, <1>2, <1>3, PTL DEF EngineSpec

(* The bt_engine process is a parent of the leaf: what RosActionNode       *)
(* promises under any parent holds in it.                                  *)
THEOREM EngineRunsLeaf == EngineSpec => Spec
<1>1. EngineInit => Init
  BY DEF EngineInit
<1> QED BY <1>1, EngineStepsLeaf, PTL DEF EngineSpec, Spec

(* Where the tree succeeded the robot is, also when the waits expire.      *)
ArrivedTree ==
  engine = "finished" /\ treeStatus = "SUCCESS" =>
    /\ sent # 0 /\ server[sent] = "succeeded"
    /\ WithInstruction => instructed

(* In the bt_engine process the tree reports SUCCESS only when the robot   *)
(* has reached its goal and the instruction was published, even if waits   *)
(* for the server expire: main ticks one leaf to its end and sends one     *)
(* goal, so that no result of an older goal can be taken for its own.      *)
THEOREM SucceededTreeArrived ==
  ASSUME "SUCCESS" \notin FeedbackVerdicts
  PROVE  EngineSpec => []ArrivedTree /\ []SuccessMeansArrived
<1>1. EngineInit => EarnedInv /\ OnceInv /\ TreeInv
  <2>1. EngineInit => Init
    BY DEF EngineInit
  <2>2. EngineInit => OnceInv /\ TreeInv
    BY DEF EngineInit, Init, OnceInv, TreeInv
  <2> QED BY <2>1, <2>2, EarnedStart
<1>2. EarnedInv /\ OnceInv => SuccessMeansArrived /\ TypeOK
  BY OnlyGoal DEF OnceInv, EarnedInv
<1>3. EarnedInv /\ OnceInv /\ TreeInv /\ [EngineNext]_allVars
        => EarnedInv' /\ OnceInv' /\ TreeInv'
  BY <1>2, EngineStepsLeaf, EarnedStep, OnceStep, TreeStep
<1>4. TreeInv => ArrivedTree
  BY DEF TreeInv, ArrivedTree
<1> QED BY <1>1, <1>2, <1>3, <1>4, PTL DEF EngineSpec

=============================================================================
