--------------------------- MODULE RosServiceNode ---------------------------
(***************************************************************************)
(* BT::RosServiceNode, the leaf that wraps a service client, driven by its *)
(* parent (tick, halt, reset).  What the derived class decides (setRequest *)
(* and onResponseReceived) is a choice; onFailure is the default one.      *)
(*                                                                         *)
(* Only the servers act during a tick, so each tick is one action.  The    *)
(* client handles one response each time its executor is spun: a tick of a *)
(* RUNNING leaf spins once, and once more if its future is not ready yet.  *)
(* Requests are numbered in the order they are sent.                       *)
(***************************************************************************)
EXTENDS Naturals, FiniteSets

CONSTANTS
  Service,         \* names of services
  NoService,       \* the empty name: no client
  MaxRequests,     \* bound: requests sent
  SharedService    \* does another leaf of the tree spin the same client

NoRequest == 0
Requests == 1 .. MaxRequests

ASSUME ServiceAssumption ==
  /\ NoService \notin Service
  /\ MaxRequests \in Nat \ {0}
  /\ SharedService \in BOOLEAN

VARIABLES
  serviceStatus,   \* TreeNode::status()
  thrown,          \* has an exception left tick()
  onBoard,         \* service_name_should_be_checked_: the port is a blackboard pointer
  port,            \* what getInput("service_name") gives
  serviceName,     \* service_name_; srv_instance_ is its client
  futureResponse,  \* request of future_response_, NoRequest for an empty future
  received,        \* response_received_
  response,        \* request whose response is in response_
  overdue,         \* is service_timeout_ over since time_request_sent_
  asked,           \* requests sent so far; the last one is the current call
  askedOf,         \* the service each request was sent to
  pending,         \* requests that the client still knows
  answered,        \* requests the server has answered
  fulfilled        \* requests whose future holds the response

leaf == <<serviceStatus, thrown, onBoard, port, serviceName>>
call == <<futureResponse, received, response, overdue>>
exchange == <<asked, askedOf, pending, answered, fulfilled>>
serviceVars == <<leaf, call, exchange>>

(* The constructor makes the client if a static port or the default value  *)
(* of the parameters names the service.                                    *)
ServiceInit ==
  /\ serviceStatus = "IDLE" /\ thrown = FALSE
  /\ onBoard \in BOOLEAN
  /\ port \in Service \cup {NoService}
  /\ serviceName \in IF ~onBoard /\ port # NoService THEN {port} ELSE Service \cup {NoService}
  /\ futureResponse = NoRequest /\ received = FALSE
  /\ response = NoRequest /\ overdue = FALSE
  /\ asked = 0 /\ pending = {} /\ answered = {} /\ fulfilled = {}
  /\ askedOf = [r \in Requests |-> NoService]

-----------------------------------------------------------------------------
(* tick() of an IDLE leaf.                                                 *)

NameChanged == port # serviceName /\ (onBoard \/ serviceName = NoService)

NameAtTick == IF NameChanged THEN port ELSE serviceName

(* RuntimeError: the port names no service, or nothing does.               *)
TickWithoutName ==
  /\ serviceStatus = "IDLE" /\ ~thrown
  /\ NameAtTick = NoService
  /\ thrown' = TRUE
  /\ UNCHANGED <<serviceStatus, onBoard, port, serviceName, call, exchange>>

(* Mutant: the members of the last call are kept.                          *)
BeginCallKeeping ==
  /\ serviceStatus = "IDLE" /\ ~thrown /\ NameAtTick # NoService
  /\ serviceName' = NameAtTick
  /\ UNCHANGED <<received, response, thrown, onBoard, port>>

BeginCall ==
  /\ serviceStatus = "IDLE" /\ ~thrown /\ NameAtTick # NoService
  /\ serviceName' = NameAtTick
  /\ received' = FALSE /\ response' = NoRequest
  /\ UNCHANGED <<thrown, onBoard, port>>

(* A new client does not know the requests of the one before.              *)
KnownAfter == IF NameChanged THEN {} ELSE pending

(* setRequest returns false, or the service is not ready.                  *)
RequestNotSent ==
  /\ BeginCall
  /\ futureResponse' = NoRequest /\ serviceStatus' = "FAILURE"
  /\ pending' = KnownAfter
  /\ UNCHANGED <<overdue, asked, askedOf, answered, fulfilled>>

SendRequest ==
  /\ BeginCall
  /\ asked < MaxRequests
  /\ asked' = asked + 1 /\ futureResponse' = asked'
  /\ askedOf' = [askedOf EXCEPT ![asked'] = serviceName']
  /\ pending' = KnownAfter \cup {asked'}
  /\ serviceStatus' = "RUNNING" /\ overdue' = FALSE
  /\ UNCHANGED <<answered, fulfilled>>

-----------------------------------------------------------------------------
(* tick() of a RUNNING leaf.                                               *)

(* The responses that up to n spins handle.                                *)
Spins(n) == {rs \in SUBSET (pending \cap answered) : Cardinality(rs) <= n}

HandleResponses(rs) ==
  /\ pending' = pending \ rs
  /\ fulfilled' = fulfilled \cup rs
  /\ UNCHANGED <<asked, askedOf, answered>>

SpinAndPoll == \E rs \in Spins(IF futureResponse \in fulfilled THEN 1 ELSE 2) : HandleResponses(rs)

(* The response of an earlier call goes to a future that nobody holds.     *)
(* onResponseReceived decides the status.                                  *)
TickAnswered ==
  /\ serviceStatus = "RUNNING" /\ ~thrown
  /\ SpinAndPoll
  /\ received \/ futureResponse \in fulfilled'
  /\ response' = IF received THEN response ELSE futureResponse
  /\ received' = TRUE
  /\ futureResponse' = IF received THEN futureResponse ELSE NoRequest
  /\ serviceStatus' \in {"SUCCESS", "FAILURE"}
  /\ UNCHANGED <<thrown, onBoard, port, serviceName, overdue>>

(* Mutant: no deadline.                                                    *)
TickUnansweredWaiting ==
  /\ serviceStatus = "RUNNING" /\ ~thrown
  /\ SpinAndPoll
  /\ ~received /\ futureResponse \notin fulfilled'
  /\ UNCHANGED <<leaf, call>>

(* SERVICE_TIMEOUT leaves the request with the client.                     *)
TickUnanswered ==
  /\ serviceStatus = "RUNNING" /\ ~thrown
  /\ SpinAndPoll
  /\ ~received /\ futureResponse \notin fulfilled'
  /\ serviceStatus' = IF overdue THEN "FAILURE" ELSE "RUNNING"
  /\ UNCHANGED <<thrown, onBoard, port, serviceName, call>>

-----------------------------------------------------------------------------
(* The rest of the tree, the clock and the servers.                        *)

(* halt() leaves the request with the client as well.                      *)
HaltCall ==
  /\ serviceStatus = "RUNNING" /\ ~thrown
  /\ serviceStatus' = "IDLE"
  /\ UNCHANGED <<thrown, onBoard, port, serviceName, call, exchange>>

ResetLeaf ==
  /\ serviceStatus \in {"SUCCESS", "FAILURE"}
  /\ serviceStatus' = "IDLE"
  /\ UNCHANGED <<thrown, onBoard, port, serviceName, call, exchange>>

(* Somebody writes another name to the blackboard entry.                   *)
Rename ==
  /\ onBoard
  /\ port' \in Service \cup {NoService}
  /\ UNCHANGED <<serviceStatus, thrown, onBoard, serviceName, call, exchange>>

(* Another leaf with the same service name spins the client.               *)
OtherLeafSpins ==
  /\ SharedService
  /\ \E rs \in Spins(1) : HandleResponses(rs)
  /\ UNCHANGED <<leaf, call>>

Overdue ==
  /\ serviceStatus = "RUNNING" /\ ~overdue
  /\ overdue' = TRUE
  /\ UNCHANGED <<leaf, futureResponse, received, response, exchange>>

Answer(r) ==
  /\ r <= asked /\ r \notin answered
  /\ answered' = answered \cup {r}
  /\ UNCHANGED <<leaf, call, asked, askedOf, pending, fulfilled>>

TickRunning == TickAnswered \/ TickUnanswered

ServiceNext ==
  \/ TickWithoutName \/ RequestNotSent \/ SendRequest \/ TickRunning
  \/ HaltCall \/ ResetLeaf \/ Rename \/ OtherLeafSpins \/ Overdue
  \/ \E r \in Requests : Answer(r)

ServiceSpec == ServiceInit /\ [][ServiceNext]_serviceVars

-----------------------------------------------------------------------------
(* Each variable of the service leaf has its type.                         *)
ServiceTypeOK ==
  /\ serviceStatus \in {"IDLE", "RUNNING", "SUCCESS", "FAILURE"}
  /\ {thrown, onBoard, received, overdue} \subseteq BOOLEAN
  /\ {port, serviceName} \subseteq Service \cup {NoService}
  /\ {futureResponse, response, asked} \subseteq 0 .. MaxRequests
  /\ askedOf \in [Requests -> Service \cup {NoService}]
  /\ UNION {pending, answered, fulfilled} \subseteq 1 .. asked

(* A call asks the service that the port names when it begins, and         *)
(* onResponseReceived gets the response to the request of this very call,  *)
(* whatever responses of calls that were halted or timed out come in       *)
(* between; a call without a response does not succeed.                    *)
AnswersOwnRequest ==
  [][ /\ asked' # asked /\ onBoard => askedOf'[asked'] = port
      /\ serviceStatus = "RUNNING" /\ serviceStatus' # "RUNNING" /\ received'
           => response' = asked /\ asked \in answered /\ askedOf[asked] = serviceName
      /\ serviceStatus' = "SUCCESS" => received' ]_serviceVars

(* A call ends although the server is gone, if the leaf is ticked on.      *)
CallEnds == serviceStatus = "RUNNING" ~> serviceStatus # "RUNNING"

=============================================================================
