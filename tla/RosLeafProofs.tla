--------------------------- MODULE RosLeafProofs ---------------------------
(***************************************************************************)
(* The service leaf and the subscriber leaves for any number of requests,  *)
(* leaves, topics and messages: the answers and messages a leaf is given   *)
(* are its own, whoever spins the client or the subscription.              *)
(***************************************************************************)
EXTENDS MCLeaves, ActionLeafProofs, TreeServerProofs, FiniteSetTheorems, TLAPS

-----------------------------------------------------------------------------
(* The service leaf.                                                       *)

(* A RUNNING leaf waits for the request it sent last, which went to the    *)
(* service it names, and a future is fulfilled only by an answer.          *)
ServiceInv ==
  /\ ServiceTypeOK
  /\ serviceStatus = "RUNNING" =>
       asked # 0 /\ futureResponse = asked /\ ~received /\ askedOf[asked] = serviceName
  /\ serviceStatus = "SUCCESS" => received
  /\ fulfilled \subseteq answered

LEMMA CallBegins ==
  ASSUME ServiceInv, RequestNotSent \/ SendRequest
  PROVE  ServiceInv'
<1> USE ServiceAssumption DEF ServiceInv, ServiceTypeOK, NoRequest
<1>1. /\ serviceName' = NameAtTick /\ received' = FALSE /\ response' = NoRequest
      /\ UNCHANGED <<thrown, onBoard, port, answered, fulfilled>>
  BY DEF RequestNotSent, SendRequest, BeginCall
<1>2. NameAtTick \in Service \cup {NoService} /\ KnownAfter \subseteq pending
  BY DEF NameAtTick, KnownAfter
<1>3. CASE RequestNotSent
  <2>1. /\ futureResponse' = 0 /\ serviceStatus' = "FAILURE" /\ pending' = KnownAfter
        /\ UNCHANGED <<overdue, asked, askedOf>> /\ 0 \in 0 .. MaxRequests
    BY <1>3 DEF RequestNotSent
  <2> QED BY <1>1, <1>2, <2>1
<1>4. CASE SendRequest
  <2>1. asked \in Nat /\ asked < MaxRequests /\ asked' = asked + 1 /\ futureResponse' = asked'
    BY <1>4 DEF SendRequest
  <2>2. asked' \in Requests /\ asked' \in 0 .. MaxRequests /\ 0 \in 0 .. MaxRequests /\ asked' # 0
    BY <2>1 DEF Requests
  <2>3. 1 .. asked \subseteq 1 .. asked' /\ asked' \in 1 .. asked'
    BY <2>1
  <2>4. /\ askedOf' = [askedOf EXCEPT ![asked'] = serviceName']
        /\ pending' = KnownAfter \cup {asked'} /\ serviceStatus' = "RUNNING" /\ overdue' = FALSE
    BY <1>4 DEF SendRequest
  <2>5. UNION {pending', answered', fulfilled'} \subseteq 1 .. asked'
    BY <1>1, <1>2, <2>3, <2>4
  <2> QED BY <1>1, <1>2, <2>1, <2>2, <2>4, <2>5
<1> QED BY <1>3, <1>4

(* A spin fulfils futures of requests that were answered.                  *)
LEMMA SpinFulfils ==
  ASSUME ServiceInv, NEW n, NEW rs \in Spins(n), HandleResponses(rs)
  PROVE  /\ pending' \subseteq pending /\ fulfilled' \subseteq answered
         /\ UNCHANGED <<asked, askedOf, answered>>
         /\ UNION {pending', answered', fulfilled'} \subseteq 1 .. asked
BY DEF ServiceInv, ServiceTypeOK, Spins, HandleResponses

LEMMA TickStep ==
  ASSUME ServiceInv, TickRunning
  PROVE  /\ ServiceInv'
         /\ UNCHANGED asked
         /\ serviceStatus' # "RUNNING" /\ received' =>
              response' = asked /\ asked \in answered /\ askedOf[asked] = serviceName
<1>1. /\ serviceStatus = "RUNNING" /\ futureResponse = asked /\ ~received /\ asked # 0
      /\ askedOf[asked] = serviceName /\ SpinAndPoll
  BY DEF ServiceInv, TickRunning, TickAnswered, TickUnanswered
<1>2. /\ pending' \subseteq pending /\ fulfilled' \subseteq answered
      /\ UNCHANGED <<asked, askedOf, answered>>
      /\ UNION {pending', answered', fulfilled'} \subseteq 1 .. asked
  BY <1>1, SpinFulfils DEF SpinAndPoll
<1> USE DEF ServiceInv, ServiceTypeOK, NoRequest
<1>3. CASE TickAnswered
  <2>1. /\ response' = asked /\ received' /\ futureResponse' = 0 /\ asked \in answered
        /\ serviceStatus' \in {"SUCCESS", "FAILURE"}
        /\ UNCHANGED <<thrown, onBoard, port, serviceName, overdue>>
        /\ received' \in BOOLEAN
    BY <1>1, <1>2, <1>3 DEF TickAnswered
  <2>2. 0 \in 0 .. MaxRequests
    BY ServiceAssumption
  <2> QED BY <1>1, <1>2, <2>1, <2>2
<1>4. CASE TickUnanswered
  BY <1>1, <1>2, <1>4 DEF TickUnanswered, call
<1> QED BY <1>3, <1>4 DEF TickRunning

LEMMA ServiceKeeps ==
  ASSUME ServiceInv, [ServiceNext]_serviceVars
  PROVE  ServiceInv'
<1> USE DEF ServiceInv, ServiceTypeOK
<1>1. CASE RequestNotSent \/ SendRequest \/ TickRunning
  BY <1>1, CallBegins, TickStep
<1>2. CASE TickWithoutName
  BY <1>2 DEF TickWithoutName, call, exchange
<1>3. CASE HaltCall \/ ResetLeaf
  BY <1>3 DEF HaltCall, ResetLeaf, call, exchange
<1>4. CASE Rename
  BY <1>4 DEF Rename, call, exchange
<1>5. CASE OtherLeafSpins
  BY <1>5, SpinFulfils DEF OtherLeafSpins, leaf, call
<1>6. CASE Overdue
  BY <1>6 DEF Overdue, leaf, exchange
<1>7. ASSUME NEW r \in Requests, Answer(r) PROVE ServiceInv'
  <2>1. r \in 1 .. asked
    BY <1>7 DEF Answer, Requests
  <2> QED BY <1>7, <2>1 DEF Answer, leaf, call
<1>8. CASE UNCHANGED serviceVars
  BY <1>8 DEF serviceVars, leaf, call, exchange
<1> QED BY <1>1, <1>2, <1>3, <1>4, <1>5, <1>6, <1>7, <1>8 DEF ServiceNext

LEMMA ServiceStart == ServiceInit => ServiceInv
<1> SUFFICES ASSUME ServiceInit PROVE ServiceInv
  OBVIOUS
<1>1. 0 \in 0 .. MaxRequests
  BY ServiceAssumption
<1>2. serviceName \in Service \cup {NoService}
  BY DEF ServiceInit
<1> QED BY <1>1, <1>2 DEF ServiceInit, ServiceInv, ServiceTypeOK, NoRequest

(* A call asks the service that its port names, and ends with the response *)
(* to its own request, whatever responses of calls that were halted or     *)
(* timed out come in between, and also if another leaf spins the client.   *)
THEOREM ServiceAnswersOwnRequest == ServiceSpec => AnswersOwnRequest
<1> DEFINE Own ==
      /\ asked' # asked /\ onBoard => askedOf'[asked'] = port
      /\ serviceStatus = "RUNNING" /\ serviceStatus' # "RUNNING" /\ received'
           => response' = asked /\ asked \in answered /\ askedOf[asked] = serviceName
      /\ serviceStatus' = "SUCCESS" => received'
<1>1. ASSUME ServiceInv, ServiceInv', ServiceNext PROVE Own
  <2>1. serviceStatus' = "SUCCESS" => received'
    BY <1>1 DEF ServiceInv
  <2>2. CASE TickRunning
    BY <1>1, <2>1, <2>2, TickStep
  <2>3. CASE SendRequest
    <3>1. asked' \in Requests /\ askedOf \in [Requests -> Service \cup {NoService}]
      BY <1>1, <2>3, ServiceAssumption DEF SendRequest, ServiceInv, ServiceTypeOK, Requests
    <3>2. askedOf'[asked'] = NameAtTick /\ serviceStatus = "IDLE"
      BY <2>3, <3>1 DEF SendRequest, BeginCall
    <3>3. onBoard => NameAtTick = port
      BY DEF NameAtTick, NameChanged
    <3> QED BY <2>1, <3>2, <3>3
  <2>4. CASE ~TickRunning /\ ~SendRequest
    <3>1. asked' = asked
      BY <1>1, <2>4 DEF ServiceNext, TickWithoutName, RequestNotSent, HaltCall, ResetLeaf, Rename,
                        OtherLeafSpins, HandleResponses, Overdue, Answer, exchange
    <3>2. serviceStatus = "RUNNING" /\ serviceStatus' # "RUNNING" => HaltCall
      BY <1>1, <2>4 DEF ServiceNext, TickWithoutName, RequestNotSent, BeginCall, ResetLeaf, Rename,
                        OtherLeafSpins, Overdue, Answer, leaf
    <3>3. HaltCall => ~received'
      BY <1>1 DEF HaltCall, ServiceInv, call
    <3> QED BY <2>1, <3>1, <3>2, <3>3
  <2> QED BY <2>2, <2>3, <2>4
<1>2. ServiceInv /\ ServiceInv' /\ [ServiceNext]_serviceVars => [Own]_serviceVars
  BY <1>1
<1>3. ServiceInv /\ [ServiceNext]_serviceVars => ServiceInv'
  BY ServiceKeeps
<1> QED BY <1>2, <1>3, ServiceStart, PTL DEF ServiceSpec, AnswersOwnRequest

-----------------------------------------------------------------------------
(* The subscriber leaves.                                                  *)

SubTypes ==
  /\ SubTypeOK
  /\ instance \in [Reader -> Instances \cup {NoInstance}]
  /\ slots \in [Instances -> SUBSET Reader]
  /\ topicOf \in [Instances -> Topic \cup {NoTopic}]
  /\ lastOf \in [Instances -> Nat] /\ queue \in [Instances -> Nat]
  /\ registry \in [Topic -> Instances \cup {NoInstance, Expired}]

(* A leaf that has not strayed is called by its own instance alone.        *)
CalledByOwn ==
  \A l \in alive \ strayed, i \in Instances : l \in slots[i] => instance[l] = i

(* What a leaf has processed is not newer than what its subscription has   *)
(* received, and what waits in the queue is newer than both.               *)
InOrder ==
  /\ \A i \in Instances : queue[i] # NoMessage => lastOf[i] < queue[i]
  /\ \A l \in alive \ strayed : instance[l] # NoInstance =>
       /\ lastOf[instance[l]] # NoMessage => processed[l] <= lastOf[instance[l]]
       /\ queue[instance[l]] # NoMessage => processed[l] < queue[instance[l]]

SubInv == SubTypes /\ CalledByOwn /\ InOrder /\ HandsEachOnce

LEMMA InstanceFacts ==
  /\ Cardinality(Reader) \in Nat
  /\ NoInstance \notin Instances /\ Expired \notin Instances /\ Expired # NoInstance
<1>1. Cardinality(Reader) \in Nat
  BY LeafAssumption, FS_CardinalityType
<1> QED BY <1>1 DEF NoInstance, Expired, Instances

(* There are as many identifiers as leaves, and each leaf holds one.       *)
LEMMA FreeInstance ==
  ASSUME NEW l \in Reader
  PROVE  \E i \in Instances : i \in Free(l)
<1> SUFFICES ASSUME \A i \in Instances : \E k \in Reader \ {l} : instance[k] = i
             PROVE  FALSE
  BY DEF Free
<1> DEFINE holder == [i \in Instances |-> CHOOSE k \in Reader \ {l} : instance[k] = i]
<1>1. \A i \in Instances : holder[i] \in Reader \ {l} /\ instance[holder[i]] = i
  OBVIOUS
<1>2. holder \in [Instances -> Reader \ {l}]
  BY <1>1
<1>3. IsFiniteSet(Instances) /\ Cardinality(Instances) = Cardinality(Reader)
  <2>1. Cardinality(Reader) \in Nat
    BY InstanceFacts
  <2>2. Cardinality(1 .. Cardinality(Reader)) = Cardinality(Reader)
    BY <2>1, FS_Interval
  <2> QED BY <2>1, <2>2, FS_Interval DEF Instances
<1>4. IsFiniteSet(Reader \ {l}) /\ Cardinality(Reader \ {l}) = Cardinality(Reader) - 1
  BY FS_RemoveElement, LeafAssumption
<1>5. Cardinality(Reader \ {l}) < Cardinality(Instances)
  BY <1>3, <1>4, InstanceFacts
<1>6. \E i, j \in Instances : i # j /\ holder[i] = holder[j]
  <2> HIDE DEF holder
  <2> QED BY <1>2, <1>3, <1>4, <1>5, FS_PigeonHole
<1> QED BY <1>1, <1>6

(* The instance a leaf gets: the registered one of the topic, which        *)
(* another leaf holds, or one that no other leaf holds.                    *)
LEMMA InstanceForFacts ==
  ASSUME SubTypes, NEW l \in Reader, NEW t \in Topic, l \in alive => topicName[l] # t
  PROVE  /\ InstanceFor(l, t) \in Instances
         /\ Found(l, t) =>
              /\ InstanceFor(l, t) \notin Released(l) /\ topicOf[InstanceFor(l, t)] = t
              /\ instance[l] # InstanceFor(l, t)
              /\ \E k \in alive : k # l /\ instance[k] = InstanceFor(l, t)
         /\ ~Found(l, t) =>
              /\ \A k \in Reader \ {l} : instance[k] # InstanceFor(l, t)
              /\ \A s \in Topic : RegistryWithout(l)[s] # InstanceFor(l, t)
              /\ RegistryWithout(l)[t] \in {NoInstance, Expired}
<1> USE DEF SubTypes, SubTypeOK
<1> DEFINE i == InstanceFor(l, t)
<1>1. /\ NoInstance \notin Instances /\ Expired \notin Instances /\ Expired # NoInstance
      /\ NoTopic \notin Topic
  BY InstanceFacts, LeafAssumption
<1>2. \A s \in Topic : RegistryWithout(l)[s] =
        IF registry[s] \in Released(l) THEN Expired ELSE registry[s]
  BY DEF RegistryWithout
<1>3. CASE Found(l, t)
  <2>1. i = registry[t] /\ i \in Instances /\ i \notin Released(l)
    BY <1>1, <1>2, <1>3 DEF InstanceFor, Found
  <2>2. topicOf[i] = t
    BY <2>1
  <2>3. instance[l] # i
    BY <1>1, <2>1, <2>2
  <2>4. \E k \in alive : instance[k] = i
    BY <1>1, <2>1, <2>2
  <2> QED BY <1>3, <2>1, <2>2, <2>3, <2>4
<1>4. CASE ~Found(l, t)
  <2>1. i \in Free(l) /\ i \in Instances
    BY <1>4, FreeInstance DEF InstanceFor, Free
  <2>2. \A k \in Reader \ {l} : instance[k] # i
    BY <2>1 DEF Free
  <2>3. ASSUME NEW s \in Topic, RegistryWithout(l)[s] = i PROVE FALSE
    <3>1. registry[s] = i /\ i \notin Released(l)
      BY <1>1, <1>2, <2>1, <2>3
    <3>2. topicOf[i] = s
      BY <2>1, <3>1
    <3>3. instance[l] = i
      BY <1>1, <2>1, <2>2, <3>2
    <3> QED BY <2>1, <2>2, <3>1, <3>3 DEF Released
  <2>4. RegistryWithout(l)[t] \in {NoInstance, Expired}
    BY <1>2, <1>4 DEF Found
  <2> QED BY <1>4, <2>1, <2>2, <2>3, <2>4
<1> QED BY <1>3, <1>4

(* What CreateSubscriber leaves of one instance.                           *)
LEMMA MovedMember ==
  ASSUME NEW member, NEW empty, NEW l, NEW t, NEW j \in Instances
  PROVE  AfterMove(member, empty, l, t)[j] =
           IF j \in Released(l) \/ (j = InstanceFor(l, t) /\ ~Found(l, t))
             THEN empty ELSE member[j]
BY DEF AfterMove

LEMMA WithNone == \A S : S \cup {} = S
OBVIOUS

(* A leaf that subscribes, in its constructor or in a tick.                *)
LEMMA SubscribeKeeps ==
  ASSUME SubInv, NEW l \in Reader, NEW t \in Topic, CreateSubscriber(l, t),
         l \in alive => topicName[l] # t,
         alive' = alive \cup {l}, ticking' \in alive' \cup {NoReader},
         strayed' \in {strayed, strayed \cup {l}},
         l \in alive /\ instance[l] # NoInstance /\ Released(l) = {} => l \in strayed',
         topicPort' \in [Reader -> Topic \cup {NoTopic}],
         published' = published, changes' \in Nat
  PROVE  SubInv'
<1> USE DEF SubInv, SubTypes, SubTypeOK
<1> DEFINE i == InstanceFor(l, t)
           found == Found(l, t)
           gone == Released(l)
<1>1. /\ i \in Instances
      /\ found => /\ i \notin gone /\ topicOf[i] = t /\ instance[l] # i
                  /\ \E k \in alive : k # l /\ instance[k] = i
      /\ ~found => /\ \A k \in Reader \ {l} : instance[k] # i
                   /\ \A s \in Topic : RegistryWithout(l)[s] # i
                   /\ RegistryWithout(l)[t] \in {NoInstance, Expired}
  BY InstanceForFacts
<1>2. /\ NoInstance \notin Instances /\ Expired \notin Instances /\ Expired # NoInstance
      /\ NoTopic \notin Topic
  BY InstanceFacts, LeafAssumption
<1>3. /\ topicName' = [topicName EXCEPT ![l] = t] /\ instance' = [instance EXCEPT ![l] = i]
      /\ lastMsg' = [lastMsg EXCEPT ![l] = IF lastOf'[i] # NoMessage THEN lastOf'[i] ELSE @]
      /\ processed' = [processed EXCEPT ![l] = NoMessage]
      /\ registry' = [RegistryWithout(l) EXCEPT ![t] = IF @ = NoInstance THEN i ELSE @]
      /\ slots' = [AfterMove(slots, {}, l, t) EXCEPT ![i] = @ \cup {l}]
      /\ topicOf' = [AfterMove(topicOf, NoTopic, l, t) EXCEPT ![i] = t]
      /\ lastOf' = AfterMove(lastOf, NoMessage, l, t)
      /\ queue' = AfterMove(queue, NoMessage, l, t)
  BY DEF CreateSubscriber
<1>4. ASSUME NEW j \in Instances
      PROVE  /\ slots'[j] = (IF j \in gone \/ (j = i /\ ~found) THEN {} ELSE slots[j])
                               \cup (IF j = i THEN {l} ELSE {})
             /\ topicOf'[j] = IF j = i THEN t ELSE IF j \in gone THEN NoTopic ELSE topicOf[j]
             /\ lastOf'[j] = IF j \in gone \/ (j = i /\ ~found) THEN 0 ELSE lastOf[j]
             /\ queue'[j] = IF j \in gone \/ (j = i /\ ~found) THEN 0 ELSE queue[j]
  BY <1>1, <1>3, <1>4, MovedMember DEF AfterMove, NoMessage
<1> HIDE DEF i, found, gone
<1>4a. \A j \in Instances :
         /\ \A k \in slots'[j] : k = l \/ k \in slots[j]
         /\ j # i /\ slots'[j] # {} => j \notin gone /\ slots'[j] = slots[j]
  <2>1. ASSUME NEW j \in Instances, j = i
        PROVE  \A k \in slots'[j] : k = l \/ k \in slots[j]
    BY <1>4, <2>1
  <2>2. ASSUME NEW j \in Instances, j # i
        PROVE  slots'[j] = {} \/ (j \notin gone /\ slots'[j] = slots[j])
    <3>1. slots'[j] = (IF j \in gone THEN {} ELSE slots[j]) \cup {}
      BY <1>4, <2>2
    <3> QED BY <3>1, WithNone
  <2> QED BY <2>1, <2>2
<1>5. \A k \in Reader \ {l} : instance[k] # NoInstance =>
        /\ instance[k] \in Instances /\ instance[k] \notin gone
        /\ instance[k] = i => found
  BY <1>1 DEF Released, gone
<1>6. /\ instance' \in [Reader -> Instances \cup {NoInstance}]
      /\ instance'[l] = i /\ \A k \in Reader \ {l} : instance'[k] = instance[k]
  BY <1>1, <1>3
<1>7. slots' \in [Instances -> SUBSET Reader]
  <2>1. slots' = [j \in Instances |-> slots'[j]]
    BY <1>3 DEF AfterMove
  <2>2. \A j \in Instances : slots'[j] \subseteq Reader
    BY <1>4a
  <2> QED BY <2>1, <2>2
<1>8. topicOf' \in [Instances -> Topic \cup {NoTopic}]
  <2>1. topicOf' = [j \in Instances |-> topicOf'[j]]
    BY <1>3 DEF AfterMove
  <2>2. \A j \in Instances : topicOf'[j] \in Topic \cup {NoTopic}
    BY <1>4
  <2> QED BY <2>1, <2>2
<1>9. lastOf' \in [Instances -> Nat] /\ queue' \in [Instances -> Nat]
  <2>1. lastOf' = [j \in Instances |-> lastOf'[j]] /\ queue' = [j \in Instances |-> queue'[j]]
    BY <1>3 DEF AfterMove
  <2>2. \A j \in Instances : lastOf'[j] \in Nat /\ queue'[j] \in Nat
    BY <1>4 DEF NoMessage
  <2> QED BY <2>1, <2>2
<1>10. \A j \in Instances : lastOf'[j] <= published /\ queue'[j] <= published
  BY <1>4 DEF NoMessage
<1>11. /\ registry' \in [Topic -> Instances \cup {NoInstance, Expired}]
       /\ \A s \in Topic : registry'[s] \in Instances =>
            \/ s = t /\ registry'[s] = i
            \/ registry'[s] = registry[s] /\ registry[s] \notin gone /\ (registry[s] = i => found)
  <2>1. \A s \in Topic :
          RegistryWithout(l)[s] = IF registry[s] \in gone THEN Expired ELSE registry[s]
    BY DEF RegistryWithout, gone
  <2>2. RegistryWithout(l) \in [Topic -> Instances \cup {NoInstance, Expired}]
    BY <2>1 DEF RegistryWithout
  <2>3. \A s \in Topic : registry'[s] = IF s = t /\ RegistryWithout(l)[t] = NoInstance
                                         THEN i ELSE RegistryWithout(l)[s]
    BY <1>3, <2>2
  <2> QED BY <1>1, <1>2, <1>3, <2>1, <2>2, <2>3
<1>12. /\ topicName' \in [Reader -> Topic \cup {NoTopic}]
       /\ lastMsg' \in [Reader -> 0 .. published'] /\ processed' \in [Reader -> 0 .. published']
  <2>1. lastOf'[i] \in 0 .. published /\ NoMessage \in 0 .. published
    BY <1>1, <1>9, <1>10 DEF NoMessage
  <2> QED BY <1>3, <2>1
<1>13. \A k \in Reader : instance'[k] # NoInstance =>
         k \in alive' /\ topicOf'[instance'[k]] = topicName'[k] /\ k \in slots'[instance'[k]]
  <2>1. topicName'[l] = t /\ \A k \in Reader \ {l} : topicName'[k] = topicName[k]
    BY <1>3
  <2>2. ASSUME NEW k \in Reader \ {l}, instance'[k] # NoInstance
        PROVE  k \in alive' /\ topicOf'[instance'[k]] = topicName'[k] /\ k \in slots'[instance'[k]]
    <3>1. PICK j \in Instances : j = instance[k] /\ j = instance'[k]
      BY <1>5, <1>6, <2>2
    <3>2. \A n \in Reader : instance[n] # NoInstance =>
            n \in alive /\ topicOf[instance[n]] = topicName[n] /\ n \in slots[instance[n]]
      OBVIOUS
    <3> HIDE DEF SubInv, SubTypes, SubTypeOK
    <3>3. /\ j \notin gone /\ (j = i => found)
          /\ k \in alive /\ topicOf[j] = topicName[k] /\ k \in slots[j]
      <4>1. instance[k] # NoInstance
        BY <2>2, <3>1
      <4> QED BY <1>5, <3>1, <3>2, <4>1
    <3>4. topicOf'[j] = topicOf[j] /\ k \in slots'[j]
      BY <1>1, <1>4, <3>3
    <3> QED BY <2>1, <3>1, <3>3, <3>4
  <2>3. l \in alive' /\ topicOf'[i] = t /\ l \in slots'[i]
    BY <1>1, <1>4
  <2> QED BY <1>6, <2>1, <2>2, <2>3
<1>14. \A j \in Instances : topicOf'[j] # NoTopic => \E k \in alive' : instance'[k] = j
  <2>1. ASSUME NEW j \in Instances, j # i, topicOf'[j] # NoTopic
        PROVE  \E k \in alive' : instance'[k] = j
    <3>1. j \notin gone /\ topicOf[j] # NoTopic
      BY <1>4, <2>1
    <3>2. \E k \in Reader \ {l} : instance[k] = j
      <4>1. PICK k \in alive : instance[k] = j
        BY <3>1
      <4> QED BY <3>1, <4>1 DEF Released, gone
    <3> QED BY <1>2, <1>6, <2>1, <3>2
  <2> QED BY <1>6, <2>1
<1>15. \A j \in Instances : slots'[j] \subseteq alive' \cup strayed'
  BY <1>4a
<1>16. \A s \in Topic : registry'[s] \in Instances => topicOf'[registry'[s]] = s
  <2>1. ASSUME NEW s \in Topic, registry[s] \in Instances \ gone, registry[s] = i => found
        PROVE  topicOf'[registry[s]] = s
    BY <1>1, <1>4, <2>1
  <2>2. topicOf'[i] = t
    BY <1>1, <1>4
  <2> QED BY <1>11, <2>1, <2>2
<1>17. SubTypes'
  BY <1>6, <1>7, <1>8, <1>9, <1>10, <1>11, <1>12, <1>13, <1>14, <1>15, <1>16
<1>18. CalledByOwn'
  <2>1. ASSUME NEW j \in Instances, l \in slots'[j], l \notin strayed', j # i PROVE FALSE
    <3>1. j \notin gone /\ l \in slots[j] /\ l \notin strayed
      BY <1>4a, <2>1
    <3>2. l \in alive /\ instance[l] = j
      BY <3>1 DEF CalledByOwn
    <3>3. gone # {}
      BY <1>2, <2>1, <3>2 DEF gone
    <3> QED BY <3>1, <3>2, <3>3 DEF Released, gone
  <2>2. ASSUME NEW k \in alive \ strayed, NEW j \in Instances, k # l, k \in slots'[j]
        PROVE  instance'[k] = j
    <3>1. k \in slots[j]
      BY <1>4a, <2>2
    <3> QED BY <1>6, <2>2, <3>1 DEF CalledByOwn
  <2> QED BY <1>6, <2>1, <2>2 DEF CalledByOwn
<1>19. ASSUME NEW k \in alive' \ strayed', instance'[k] # NoInstance
       PROVE  \/ k = l /\ instance'[k] = i
              \/ /\ k # l /\ k \in alive \ strayed /\ instance'[k] = instance[k]
                 /\ UNCHANGED <<lastOf[instance[k]], queue[instance[k]], lastMsg[k], processed[k]>>
  <2>1. k # l => UNCHANGED <<lastMsg[k], processed[k]>>
    BY <1>3
  <2>2. ASSUME k # l
        PROVE  UNCHANGED <<lastOf[instance[k]], queue[instance[k]]>>
    <3>1. PICK j \in Instances : j = instance[k] /\ j \notin gone /\ (j = i => found)
      BY <1>5, <1>6, <1>19, <2>2
    <3>2. lastOf'[j] = lastOf[j] /\ queue'[j] = queue[j]
      BY <1>4, <3>1
    <3> QED BY <1>6, <2>2, <3>1, <3>2
  <2> QED BY <1>6, <1>19, <2>1, <2>2
<1>20. InOrder'
  <2>1. /\ lastOf'[i] # NoMessage => processed'[l] <= lastOf'[i]
        /\ queue'[i] # NoMessage => processed'[l] < queue'[i]
    <3>1. processed'[l] = 0
      BY <1>3 DEF NoMessage
    <3>2. lastOf'[i] \in Nat /\ queue'[i] \in Nat
      BY <1>1, <1>9
    <3> QED BY <3>1, <3>2 DEF NoMessage
  <2>2. \A j \in Instances : queue'[j] # NoMessage => lastOf'[j] < queue'[j]
    <3>1. ASSUME NEW j \in Instances
          PROVE  \/ lastOf'[j] = 0 /\ queue'[j] = 0
                 \/ lastOf'[j] = lastOf[j] /\ queue'[j] = queue[j]
      BY <1>4
    <3> QED BY <3>1 DEF InOrder, NoMessage
  <2> QED BY <1>19, <2>1, <2>2 DEF InOrder
<1>21. HandsEachOnce'
  <2>1. lastOf'[i] # NoMessage => lastMsg'[l] = lastOf'[i] /\ processed'[l] # lastOf'[i]
    BY <1>3
  <2> QED BY <1>19, <2>1 DEF HandsEachOnce
<1> QED BY <1>17, <1>18, <1>20, <1>21

(* A leaf that ticks takes the message of its subscription.                *)
LEMMA ProcessKeeps ==
  ASSUME SubInv, NEW l \in Reader, Process(l)
  PROVE  SubInv'
<1> USE DEF SubInv, SubTypes, SubTypeOK
<1>1. PICK i \in Instances : i = instance[l] /\ topicOf[i] = topicName[l] /\ l \in slots[i]
  BY InstanceFacts DEF Process
<1>2. PICK m \in Nat : m = MessageOf(i) /\ m <= published
  BY <1>1 DEF MessageOf
<1>3. /\ queue' = [queue EXCEPT ![i] = 0] /\ lastOf' = [lastOf EXCEPT ![i] = m]
      /\ queue' \in [Instances -> Nat] /\ lastOf' \in [Instances -> Nat]
      /\ \A j \in Instances : queue'[j] <= published /\ lastOf'[j] <= published
  BY <1>1, <1>2 DEF Process, NoMessage
<1>4. /\ queue'[i] = 0 /\ lastOf'[i] = m
      /\ \A j \in Instances \ {i} : queue'[j] = queue[j] /\ lastOf'[j] = lastOf[j]
  BY <1>3
<1>5. \A k \in Reader :
        AfterSpin(l, k) = IF k \in slots[i] /\ queue[i] # 0 THEN queue[i] ELSE lastMsg[k]
  BY <1>1 DEF AfterSpin, NoMessage
<1>6. \A k \in Reader : AfterSpin(l, k) \in 0 .. published
  <2>1. queue[i] \in 0 .. published
    BY <1>1
  <2> QED BY <1>5, <2>1
<1>7. /\ lastMsg' \in [Reader -> 0 .. published] /\ processed' \in [Reader -> 0 .. published]
      /\ \A k \in Reader : lastMsg'[k] = IF k = l /\ l \notin Latching THEN 0 ELSE AfterSpin(l, k)
      /\ processed'[l] = IF AfterSpin(l, l) # 0 THEN AfterSpin(l, l) ELSE processed[l]
      /\ \A k \in Reader \ {l} : processed'[k] = processed[k]
  <2>1. 0 \in 0 .. published
    OBVIOUS
  <2> QED BY <1>6, <2>1 DEF Process, NoMessage
<1>8. UNCHANGED <<alive, topicPort, topicName, instance, slots, topicOf, registry, strayed,
                  published, changes>>
      /\ ticking' = NoReader
  BY DEF Process
<1>9. SubTypes'
  BY <1>3, <1>7, <1>8
<1>10. CalledByOwn'
  BY <1>8 DEF CalledByOwn
<1>11. ASSUME NEW k \in alive \ strayed, instance[k] # NoInstance, instance[k] # i
       PROVE  /\ k # l /\ lastMsg'[k] = lastMsg[k] /\ processed'[k] = processed[k]
              /\ queue'[instance[k]] = queue[instance[k]]
              /\ lastOf'[instance[k]] = lastOf[instance[k]]
  <2>1. k # l /\ k \notin slots[i]
    BY <1>1, <1>11 DEF CalledByOwn
  <2> QED BY <1>4, <1>5, <1>7, <1>11, <2>1
<1>12. ASSUME NEW k \in alive \ strayed, instance[k] = i, m # 0
       PROVE  /\ k \in slots[i] /\ AfterSpin(l, k) \in {0, m}
              /\ processed[k] <= m
              /\ AfterSpin(l, k) = 0 => processed[k] = m /\ k \notin Latching
              /\ AfterSpin(l, k) = m => processed[k] # m \/ k \in Latching
  <2>1. k \in slots[i] /\ processed[k] \in Nat
    BY <1>1, <1>12, InstanceFacts
  <2>2. CASE queue[i] # 0
    <3>1. m = queue[i] /\ AfterSpin(l, k) = m
      BY <1>2, <1>5, <2>1, <2>2 DEF MessageOf, NoMessage
    <3>2. processed[k] < m
      BY <1>1, <1>12, <2>2, <3>1, InstanceFacts DEF InOrder, NoMessage
    <3> QED BY <1>2, <1>12, <2>1, <3>1, <3>2
  <2>3. CASE queue[i] = 0
    <3>1. m = lastOf[i] /\ AfterSpin(l, k) = lastMsg[k]
      BY <1>2, <1>5, <2>3 DEF MessageOf, NoMessage
    <3>2. processed[k] <= m
      BY <1>1, <1>12, <3>1, InstanceFacts DEF InOrder, NoMessage
    <3>3. lastMsg[k] = IF processed[k] # m \/ k \in Latching THEN m ELSE 0
      BY <1>1, <1>12, <3>1, InstanceFacts DEF HandsEachOnce, NoMessage
    <3> QED BY <1>12, <2>1, <3>1, <3>2, <3>3
  <2> QED BY <2>2, <2>3
<1>13. InOrder'
  <2>1. ASSUME NEW j \in Instances, queue'[j] # 0 PROVE lastOf'[j] < queue'[j]
    BY <1>4, <2>1 DEF InOrder, NoMessage
  <2>2. ASSUME NEW k \in alive \ strayed, instance[k] = i, m # 0 PROVE processed'[k] <= m
    BY <1>2, <1>7, <1>12, <2>2
  <2> QED BY <1>1, <1>4, <1>8, <1>11, <2>1, <2>2 DEF InOrder, NoMessage
<1>14. HandsEachOnce'
  <2>1. ASSUME NEW k \in alive \ strayed, instance[k] = i, m # 0
        PROVE  lastMsg'[k] = IF processed'[k] # m \/ k \in Latching THEN m ELSE 0
    BY <1>7, <1>12, <2>1
  <2> QED BY <1>1, <1>4, <1>8, <1>11, <2>1 DEF HandsEachOnce, NoMessage
<1> QED BY <1>9, <1>10, <1>13, <1>14

LEMMA PublishKeeps ==
  ASSUME SubInv, NEW t \in Topic, Publish(t)
  PROVE  SubInv'
<1> USE DEF SubInv, SubTypes, SubTypeOK
<1>1. published \in Nat /\ published' = published + 1
  BY DEF Publish
<1>2. /\ queue' = [j \in Instances |-> queue'[j]]
      /\ \A j \in Instances : queue'[j] = queue[j] \/ queue'[j] = published + 1
  BY DEF Publish
<1>3. UNCHANGED <<leaves, ownedByLeaf, slots, topicOf, lastOf, registry, history, changes>>
  BY DEF Publish
<1>4. queue' \in [Instances -> Nat] /\ \A j \in Instances : queue'[j] <= published'
  <2>1. \A j \in Instances : queue'[j] \in Nat /\ queue'[j] <= published'
    BY <1>1, <1>2
  <2> QED BY <1>2, <2>1
<1>5. lastMsg' \in [Reader -> 0 .. published'] /\ processed' \in [Reader -> 0 .. published']
  <2>1. 0 .. published \subseteq 0 .. published'
    BY <1>1
  <2> QED BY <1>3, <2>1 DEF ownedByLeaf, history
<1>6. SubTypes'
  <2>1. \A j \in Instances : lastOf'[j] <= published'
    BY <1>1, <1>3
  <2> QED BY <1>1, <1>3, <1>4, <1>5, <2>1 DEF leaves, ownedByLeaf, history
<1>7. CalledByOwn' /\ HandsEachOnce'
  BY <1>3 DEF CalledByOwn, HandsEachOnce, leaves, ownedByLeaf, history
<1>8. InOrder'
  <2>1. \A k \in alive \ strayed : processed[k] \in Nat /\ processed[k] <= published
    OBVIOUS
  <2>2. ASSUME NEW j \in Instances, queue'[j] # 0
        PROVE  \/ queue'[j] = queue[j]
               \/ queue'[j] > lastOf[j] /\ \A k \in alive \ strayed : processed[k] < queue'[j]
    BY <1>1, <1>2, <2>1, <2>2
  <2> QED BY <1>3, <2>1, <2>2, InstanceFacts
          DEF InOrder, NoMessage, leaves, ownedByLeaf, history
<1> QED BY <1>6, <1>7, <1>8

LEMMA DestroyKeeps ==
  ASSUME SubInv, NEW l \in Reader, Destroy(l)
  PROVE  SubInv'
<1> USE DEF SubInv, SubTypes, SubTypeOK
<1> DEFINE gone == Released(l)
<1>1. /\ l \in alive /\ alive' = alive \ {l} /\ ticking = NoReader
      /\ topicName' = [topicName EXCEPT ![l] = NoTopic]
      /\ instance' = [instance EXCEPT ![l] = NoInstance]
      /\ lastMsg' = [lastMsg EXCEPT ![l] = 0] /\ processed' = [processed EXCEPT ![l] = 0]
      /\ topicOf' = [j \in Instances |-> IF j \in gone THEN NoTopic ELSE topicOf[j]]
      /\ lastOf' = [j \in Instances |-> IF j \in gone THEN 0 ELSE lastOf[j]]
      /\ queue' = [j \in Instances |-> IF j \in gone THEN 0 ELSE queue[j]]
      /\ slots' = [j \in Instances |->
                     IF j \in gone THEN {}
                     ELSE IF j = instance[l] THEN slots[j] \ {l} ELSE slots[j]]
      /\ registry' = [s \in Topic |-> IF registry[s] \in gone THEN Expired ELSE registry[s]]
      /\ UNCHANGED <<ticking, topicPort, strayed, published, changes>>
  BY DEF Destroy, LeafGone, NoMessage, RegistryWithout
<1>2. \A k \in Reader \ {l} : instance[k] # NoInstance =>
        instance[k] \in Instances /\ instance[k] \notin gone
  BY DEF Released
<1> HIDE DEF gone
<1>3. ASSUME NEW j \in Instances
      PROVE  /\ slots'[j] \subseteq slots[j]
             /\ l \in slots'[j] => j # instance[l]
             /\ \A k \in Reader \ {l} : k \in slots[j] /\ j \notin gone => k \in slots'[j]
  BY <1>1
<1>4. /\ instance' \in [Reader -> Instances \cup {NoInstance}] /\ instance'[l] = NoInstance
      /\ \A k \in Reader \ {l} : /\ instance'[k] = instance[k] /\ lastMsg'[k] = lastMsg[k]
                                 /\ processed'[k] = processed[k] /\ topicName'[k] = topicName[k]
  BY <1>1
<1>5. /\ topicName' \in [Reader -> Topic \cup {NoTopic}]
      /\ lastMsg' \in [Reader -> 0 .. published'] /\ processed' \in [Reader -> 0 .. published']
  <2>1. 0 \in 0 .. published
    OBVIOUS
  <2> QED BY <1>1, <2>1
<1>6. slots' \in [Instances -> SUBSET Reader]
  <2>1. \A j \in Instances : slots'[j] \subseteq Reader
    BY <1>3
  <2> QED BY <1>1, <2>1
<1>7. /\ topicOf' \in [Instances -> Topic \cup {NoTopic}]
      /\ lastOf' \in [Instances -> Nat] /\ queue' \in [Instances -> Nat]
      /\ \A j \in Instances : lastOf'[j] <= published' /\ queue'[j] <= published'
  BY <1>1
<1>8. registry' \in [Topic -> Instances \cup {NoInstance, Expired}]
  BY <1>1
<1>9. ASSUME NEW k \in Reader, instance'[k] # NoInstance
      PROVE  k \in alive' /\ topicOf'[instance'[k]] = topicName'[k] /\ k \in slots'[instance'[k]]
  <2>1. k # l
    BY <1>4, <1>9
  <2>2. PICK j \in Instances : j = instance[k] /\ j = instance'[k] /\ j \notin gone
    BY <1>2, <1>4, <1>9, <2>1
  <2>3. k \in alive /\ topicOf[j] = topicName[k] /\ k \in slots[j]
    BY <1>4, <1>9, <2>1, <2>2
  <2>4. topicOf'[j] = topicOf[j] /\ k \in slots'[j]
    BY <1>1, <1>3, <2>1, <2>2, <2>3
  <2> QED BY <1>1, <1>4, <2>1, <2>2, <2>3, <2>4
<1>10. ASSUME NEW j \in Instances, topicOf'[j] # NoTopic
       PROVE  \E k \in alive' : instance'[k] = j
  <2>1. j \notin gone /\ topicOf[j] # NoTopic
    BY <1>1, <1>10
  <2>2. PICK k \in alive : instance[k] = j
    BY <2>1
  <2>3. \E n \in Reader \ {l} : instance[n] = j
    BY <2>1, <2>2 DEF Released, gone
  <2>4. PICK n \in Reader \ {l} : instance[n] = j
    BY <2>3
  <2>5. n \in alive
    BY <2>4, InstanceFacts
  <2> QED BY <1>1, <1>4, <2>4, <2>5
<1>11. ASSUME NEW j \in Instances PROVE slots'[j] \subseteq alive' \cup strayed'
  <2>1. l \in slots'[j] => l \in strayed
    BY <1>1, <1>3 DEF CalledByOwn
  <2> QED BY <1>1, <1>3, <2>1
<1>12. ASSUME NEW s \in Topic, registry'[s] \in Instances PROVE topicOf'[registry'[s]] = s
  <2>1. registry'[s] = registry[s] /\ registry[s] \notin gone
    BY <1>1, <1>12, InstanceFacts
  <2> QED BY <1>1, <1>12, <2>1
<1>13. SubTypes'
  BY <1>1, <1>4, <1>5, <1>6, <1>7, <1>8, <1>9, <1>10, <1>11, <1>12
<1>14. CalledByOwn'
  BY <1>1, <1>3, <1>4 DEF CalledByOwn
<1>15. ASSUME NEW k \in alive' \ strayed', instance'[k] # NoInstance
       PROVE  /\ k \in alive \ strayed /\ instance'[k] = instance[k] /\ lastMsg'[k] = lastMsg[k]
              /\ instance[k] # NoInstance /\ processed'[k] = processed[k]
              /\ lastOf'[instance[k]] = lastOf[instance[k]]
              /\ queue'[instance[k]] = queue[instance[k]]
  <2>1. k \in Reader \ {l} /\ k \in alive \ strayed
    BY <1>1, <1>15
  <2> QED BY <1>1, <1>2, <1>4, <1>15, <2>1
<1>16. InOrder'
  <2>1. ASSUME NEW j \in Instances, queue'[j] # 0 PROVE lastOf'[j] < queue'[j]
    BY <1>1, <2>1 DEF InOrder, NoMessage
  <2> QED BY <1>15, <2>1 DEF InOrder, NoMessage
<1>17. HandsEachOnce'
  BY <1>15 DEF HandsEachOnce
<1> QED BY <1>13, <1>14, <1>16, <1>17

LEMMA SubStep == SubInv /\ [SubNext]_subVars => SubInv'
<1> SUFFICES ASSUME SubInv, [SubNext]_subVars PROVE SubInv'
  OBVIOUS
<1> USE DEF SubInv, SubTypes, SubTypeOK
<1>1. ASSUME NEW l \in Reader, ConstructStatic(l) PROVE SubInv'
  <2>1. PICK t \in Ports[l] :
          topicPort' = [topicPort EXCEPT ![l] = t] /\ CreateSubscriber(l, t)
    BY <1>1 DEF ConstructStatic
  <2>2. t \in Topic
    <3>1. l \in Reader \ OnBoard
      BY <1>1 DEF ConstructStatic
    <3>2. Ports[l] \subseteq Topic \cup {NoTopic} /\ NoTopic \notin Ports[l]
      BY <3>1, LeafAssumption
    <3> QED BY <3>2
  <2>3. topicPort' \in [Reader -> Topic \cup {NoTopic}]
    BY <2>1, <2>2
  <2>4. changes' \in Nat
    BY <1>1 DEF ConstructStatic, Change
  <2>5. l \notin alive /\ alive' = alive \cup {l} /\ UNCHANGED <<ticking, published, strayed>>
    BY <1>1 DEF ConstructStatic
  <2> HIDE DEF SubInv, SubTypes, SubTypeOK
  <2>6. ticking' \in alive' \cup {NoReader}
    BY <2>5 DEF SubInv, SubTypes, SubTypeOK
  <2> QED BY <2>1, <2>2, <2>3, <2>4, <2>5, <2>6, SubscribeKeeps
<1>2. ASSUME NEW l \in Reader, Subscribe(l) PROVE SubInv'
  <2>1. topicPort[l] \in Topic /\ topicName[l] # topicPort[l]
    BY <1>2 DEF Subscribe, MustSubscribe
  <2>2. /\ l \in alive /\ alive' = alive /\ ticking' = l /\ CreateSubscriber(l, topicPort[l])
        /\ UNCHANGED <<topicPort, published, changes>>
        /\ strayed' = IF instance[l] # NoInstance /\ Released(l) = {}
                        THEN strayed \cup {l} ELSE strayed
    BY <1>2 DEF Subscribe
  <2>3. /\ alive' = alive \cup {l} /\ ticking' \in alive' \cup {NoReader} /\ changes' \in Nat
        /\ topicPort' \in [Reader -> Topic \cup {NoTopic}]
    BY <2>2
  <2>4. /\ strayed' \in {strayed, strayed \cup {l}}
        /\ l \in alive /\ instance[l] # NoInstance /\ Released(l) = {} => l \in strayed'
    BY <2>2
  <2> HIDE DEF SubInv, SubTypes, SubTypeOK
  <2> QED BY <2>1, <2>2, <2>3, <2>4, SubscribeKeeps
<1>3. ASSUME NEW l \in Reader, ConstructOnBoard(l) \/ RenameTopic(l) PROVE SubInv'
  <2>1. /\ UNCHANGED <<ticking, ownedByLeaf, ownedByInstance, history, published>>
        /\ alive' \in {alive, alive \cup {l}} /\ changes' \in Nat
        /\ \E t \in Ports[l] : topicPort' = [topicPort EXCEPT ![l] = t]
    BY <1>3 DEF ConstructOnBoard, RenameTopic, Change
  <2>2. topicPort' \in [Reader -> Topic \cup {NoTopic}]
    <3>1. Ports[l] \subseteq Topic \cup {NoTopic}
      BY LeafAssumption
    <3> QED BY <2>1, <3>1
  <2>3. alive' = alive \/ (l \notin alive /\ instance[l] = NoInstance /\ alive' = alive \cup {l})
    BY <1>3 DEF ConstructOnBoard, RenameTopic
  <2>4. SubTypes' /\ CalledByOwn'
    BY <2>1, <2>2, <2>3, InstanceFacts DEF CalledByOwn, ownedByLeaf, ownedByInstance, history
  <2>5. InOrder' /\ HandsEachOnce'
    BY <2>1, <2>3 DEF InOrder, HandsEachOnce, ownedByLeaf, ownedByInstance, history
  <2> QED BY <2>4, <2>5
<1>4. ASSUME NEW l \in Reader, Destroy(l) PROVE SubInv'
  BY <1>4, DestroyKeeps
<1>5. ASSUME NEW l \in Reader, Process(l) PROVE SubInv'
  BY <1>5, ProcessKeeps
<1>6. ASSUME NEW t \in Topic, Publish(t) PROVE SubInv'
  BY <1>6, PublishKeeps
<1>7. CASE UNCHANGED subVars
  BY <1>7 DEF CalledByOwn, InOrder, HandsEachOnce,
              subVars, leaves, ownedByLeaf, ownedByInstance, history
<1> HIDE DEF SubInv
<1> QED BY <1>1, <1>2, <1>3, <1>4, <1>5, <1>6, <1>7 DEF SubNext

LEMMA SubStart == SubInit => SubInv
<1> SUFFICES ASSUME SubInit PROVE SubInv
  OBVIOUS
<1>1. 0 \in 0 .. 0
  OBVIOUS
<1> QED BY <1>1, LeafAssumption, InstanceFacts
        DEF SubInit, SubInv, SubTypes, SubTypeOK, CalledByOwn, InOrder, HandsEachOnce,
            NoMessage, NoInstance

(* The inductive invariant of the subscriber leaves: apart from the leaves *)
(* that have strayed, each is called by its own instance alone, and        *)
(* messages move from queue to instance to leaf in their order.            *)
THEOREM SubscriberInvariant == SubSpec => []SubInv
BY SubStart, SubStep, PTL DEF SubSpec

(* However the leaves of a topic come, tick and go, what the next onTick   *)
(* of a leaf gets is the newest message its subscription has received, and *)
(* each message once: also a message that another leaf's tick received.    *)
(* Only a leaf that left a subscription which another one keeps may not.   *)
THEOREM SubscribersGetEachOnce == SubSpec => []HandsEachOnce
<1>1. SubInv => HandsEachOnce
  BY DEF SubInv
<1> QED BY <1>1, SubscriberInvariant, PTL

-----------------------------------------------------------------------------
(* The wrappers beside each other.                                         *)

LEMMA EachKindSteps ==
  ASSUME [LeavesNext]_leafVars
  PROVE  /\ [Next]_vars /\ [ServiceNext]_serviceVars /\ [SubNext]_subVars
         /\ [ServerNext]_serverVars
BY DEF LeavesNext, leafVars, ActionStep, ServiceStep, TopicStep, TreesStep

(* In the sum of the wrappers each kind behaves as its own specification   *)
(* says, and the service leaf answers its own requests.                    *)
THEOREM LeavesBehave ==
  LeavesSpec => Spec /\ ServiceSpec /\ SubSpec /\ ServerSpec /\ AnswersOwnRequest
<1>1. LeavesInit => Init /\ ServiceInit /\ SubInit /\ ServerInit
  BY DEF LeavesInit
<1>2. [LeavesNext]_leafVars =>
        [Next]_vars /\ [ServiceNext]_serviceVars /\ [SubNext]_subVars /\ [ServerNext]_serverVars
  BY EachKindSteps
<1>3. LeavesSpec => Spec /\ ServiceSpec /\ SubSpec /\ ServerSpec
  BY <1>1, <1>2, PTL DEF LeavesSpec, Spec, ServiceSpec, SubSpec, ServerSpec
<1> QED BY <1>3, ServiceAnswersOwnRequest

(* Every wrapper keeps its types and its connections in order, with        *)
(* timeouts, shared clients and parameter changes too.                     *)
THEOREM LeavesTypesHold == LeavesSpec => []LeavesTypeOK
<1>1. ServiceInv => ServiceTypeOK
  BY DEF ServiceInv
<1>2. SubInv => SubTypeOK
  BY DEF SubInv, SubTypes
<1>3. ServiceSpec => []ServiceInv
  BY ServiceStart, ServiceKeeps, PTL DEF ServiceSpec
<1>4. ServiceSpec /\ Spec /\ SubSpec /\ ServerSpec => []LeavesTypeOK
  BY <1>1, <1>2, <1>3, LeafTypes, SubscriberInvariant, ServerTypesHold, PTL DEF LeavesTypeOK
<1> QED BY <1>4, LeavesBehave

=============================================================================
