-------------------------- MODULE RosTopicSubNode ---------------------------
(***************************************************************************)
(* BT::RosTopicSubNode: condition leaves that read a topic.  Leaves of one *)
(* topic share a SubscriberInstance, found in a registry of weak pointers: *)
(* whichever leaf is ticked spins the subscription, and the callback hands *)
(* the message to every leaf that is connected to the broadcaster.         *)
(*                                                                         *)
(* Leaves come and go with their trees, and a tree may be built before the *)
(* old one is gone.  A leaf whose topic is on the blackboard subscribes in *)
(* its first tick and again when the name has changed; messages may come   *)
(* in between that and the spin of the same tick, so a tick is two steps.  *)
(* A tick that finds neither a name nor a subscription throws and changes  *)
(* nothing.  Messages are numbered in the order of their publication.      *)
(***************************************************************************)
EXTENDS Naturals, FiniteSets

CONSTANTS
  Reader,          \* places for leaves
  Topic,
  NoTopic,         \* the empty name
  NoReader,
  Ports,           \* per leaf: what its port may name
  OnBoard,         \* leaves whose port is a blackboard pointer
  Latching,        \* leaves whose latchLastMessage() returns true
  MaxMessages,     \* bound: messages published
  MaxChanges       \* bound: times that leaves are made and that topics change

NoMessage == 0
NoInstance == 0
(* Every instance is held by a leaf, so an identifier is free in time.     *)
Instances == 1 .. Cardinality(Reader)
Expired == Cardinality(Reader) + 1

ASSUME LeafAssumption ==
  /\ IsFiniteSet(Reader) /\ NoReader \notin Reader /\ NoTopic \notin Topic
  /\ Ports \in [Reader -> SUBSET (Topic \cup {NoTopic})]
  /\ OnBoard \subseteq Reader /\ Latching \subseteq Reader
  /\ \A l \in Reader \ OnBoard : NoTopic \notin Ports[l]
  /\ {MaxMessages, MaxChanges} \subseteq Nat

VARIABLES
  alive,           \* leaves that exist
  ticking,         \* leaf in the middle of its tick, else NoReader
  topicPort,       \* per leaf: what getInput("topic_name") gives
  topicName,       \* per leaf: topic_name_
  instance,        \* per leaf: sub_instance_
  lastMsg,         \* per leaf: last_msg_
  slots,           \* per instance: the leaves its broadcaster calls
  topicOf,         \* per instance: its topic, NoTopic if it does not exist
  lastOf,          \* per instance: the last message it received
  queue,           \* per instance: a message not taken yet; the depth is 1
  registry,        \* per topic: NoInstance before the first, its instance, then Expired
  published,       \* messages published so far
  processed,       \* history, per leaf: the last message of onTick in this subscription
  strayed,         \* history: leaves that left a subscription which another one keeps
  changes

leaves == <<alive, ticking, topicPort>>
ownedByLeaf == <<topicName, instance, lastMsg>>
ownedByInstance == <<slots, topicOf, lastOf, queue, registry>>
history == <<processed, strayed>>
subVars == <<leaves, ownedByLeaf, ownedByInstance, history, published, changes>>

SubInit ==
  /\ alive = {} /\ ticking = NoReader
  /\ topicPort = [l \in Reader |-> NoTopic] /\ topicName = [l \in Reader |-> NoTopic]
  /\ instance = [l \in Reader |-> NoInstance]
  /\ lastMsg = [l \in Reader |-> NoMessage]
  /\ slots = [i \in Instances |-> {}]
  /\ topicOf = [i \in Instances |-> NoTopic]
  /\ lastOf = [i \in Instances |-> NoMessage]
  /\ queue = [i \in Instances |-> NoMessage]
  /\ registry = [t \in Topic |-> NoInstance]
  /\ published = 0 /\ changes = 0
  /\ processed = [l \in Reader |-> NoMessage] /\ strayed = {}

-----------------------------------------------------------------------------
(* Subscriptions.                                                          *)

(* The instance that goes with the shared pointer of a leaf.               *)
Released(l) ==
  {i \in Instances : i = instance[l] /\ \A k \in Reader \ {l} : instance[k] # i}

(* The weak pointers once the leaf has let go.                             *)
RegistryWithout(l) ==
  [t \in Topic |-> IF registry[t] \in Released(l) THEN Expired ELSE registry[t]]

Free(l) == {i \in Instances : \A k \in Reader \ {l} : instance[k] # i}

Found(l, t) == RegistryWithout(l)[t] \in Instances

InstanceFor(l, t) ==
  IF Found(l, t) THEN RegistryWithout(l)[t] ELSE CHOOSE i \in Free(l) : TRUE

(* The members of an instance that is kept, that the leaf lets go, and of  *)
(* the one it gets: made anew unless it was found.                         *)
AfterMove(member, empty, l, t) ==
  [i \in Instances |->
     IF i \in Released(l) \/ (i = InstanceFor(l, t) /\ ~Found(l, t))
       THEN empty ELSE member[i]]

(* registry.insert does not replace an entry, even if it has expired.  The *)
(* connection to the instance the leaf lets go is not closed.              *)
CreateSubscriber(l, t) ==
  LET i == InstanceFor(l, t) IN
  /\ topicName' = [topicName EXCEPT ![l] = t]
  /\ instance' = [instance EXCEPT ![l] = i]
  /\ slots' = [AfterMove(slots, {}, l, t) EXCEPT ![i] = @ \cup {l}]
  /\ topicOf' = [AfterMove(topicOf, NoTopic, l, t) EXCEPT ![i] = t]
  /\ lastOf' = AfterMove(lastOf, NoMessage, l, t)
  /\ queue' = AfterMove(queue, NoMessage, l, t)
  /\ registry' = [RegistryWithout(l) EXCEPT ![t] = IF @ = NoInstance THEN i ELSE @]
  /\ lastMsg' = [lastMsg EXCEPT ![l] = IF lastOf'[i] # NoMessage THEN lastOf'[i] ELSE @]
  /\ processed' = [processed EXCEPT ![l] = NoMessage]

-----------------------------------------------------------------------------
(* The life of a leaf.                                                     *)

Change == changes < MaxChanges /\ changes' = changes + 1

(* The constructor.  A static name is subscribed to at once.               *)
ConstructStatic(l) ==
  /\ ticking = NoReader /\ l \notin alive \cup OnBoard /\ Change
  /\ alive' = alive \cup {l}
  /\ \E t \in Ports[l] : topicPort' = [topicPort EXCEPT ![l] = t] /\ CreateSubscriber(l, t)
  /\ UNCHANGED <<ticking, published, strayed>>

ConstructOnBoard(l) ==
  /\ ticking = NoReader /\ l \in OnBoard \ alive /\ Change
  /\ alive' = alive \cup {l}
  /\ \E t \in Ports[l] : topicPort' = [topicPort EXCEPT ![l] = t]
  /\ UNCHANGED <<ticking, ownedByLeaf, ownedByInstance, history, published>>

RenameTopic(l) ==
  /\ l \in OnBoard \cap alive /\ Change
  /\ \E t \in Ports[l] : topicPort' = [topicPort EXCEPT ![l] = t]
  /\ UNCHANGED <<alive, ticking, ownedByLeaf, ownedByInstance, history, published>>

LeafGone(l) ==
  /\ ticking = NoReader /\ l \in alive
  /\ alive' = alive \ {l}
  /\ topicName' = [topicName EXCEPT ![l] = NoTopic]
  /\ instance' = [instance EXCEPT ![l] = NoInstance]
  /\ lastMsg' = [lastMsg EXCEPT ![l] = NoMessage]
  /\ processed' = [processed EXCEPT ![l] = NoMessage]
  /\ LET kept(member, empty) ==
           [i \in Instances |-> IF i \in Released(l) THEN empty ELSE member[i]] IN
     /\ topicOf' = kept(topicOf, NoTopic)
     /\ lastOf' = kept(lastOf, NoMessage) /\ queue' = kept(queue, NoMessage)
  /\ registry' = RegistryWithout(l)
  /\ UNCHANGED <<ticking, topicPort, strayed, published, changes>>

(* Mutant: a destructor that does not disconnect.                          *)
DestroyConnected(l) ==
  /\ LeafGone(l)
  /\ slots' = [i \in Instances |-> IF i \in Released(l) THEN {} ELSE slots[i]]

(* The destructor closes the last connection of the leaf.                  *)
Destroy(l) ==
  /\ LeafGone(l)
  /\ slots' = [i \in Instances |->
                 IF i \in Released(l) THEN {}
                 ELSE IF i = instance[l] THEN slots[i] \ {l} ELSE slots[i]]

-----------------------------------------------------------------------------
(* tick()                                                                  *)

(* An empty name in the port keeps the subscription.                       *)
MustSubscribe(l) == topicPort[l] # NoTopic /\ topicPort[l] # topicName[l]

Subscribe(l) ==
  /\ ticking = NoReader /\ l \in alive /\ MustSubscribe(l)
  /\ ticking' = l
  /\ CreateSubscriber(l, topicPort[l])
  /\ strayed' = IF instance[l] # NoInstance /\ Released(l) = {}
                  THEN strayed \cup {l} ELSE strayed
  /\ UNCHANGED <<alive, topicPort, published, changes>>

(* spin_some() takes the message of the queue; the callback hands it to    *)
(* the leaves connected.                                                   *)
MessageOf(i) == IF queue[i] # NoMessage THEN queue[i] ELSE lastOf[i]

(* Mutant: only the leaf that spins gets the message.                      *)
AfterSpinAlone(l, k) ==
  IF k = l /\ queue[instance[l]] # NoMessage
    THEN queue[instance[l]] ELSE lastMsg[k]

AfterSpin(l, k) ==
  IF k \in slots[instance[l]] /\ queue[instance[l]] # NoMessage
    THEN queue[instance[l]] ELSE lastMsg[k]

Process(l) ==
  /\ l \in alive /\ instance[l] # NoInstance
  /\ ticking = l \/ (ticking = NoReader /\ ~MustSubscribe(l))
  /\ ticking' = NoReader
  /\ queue' = [queue EXCEPT ![instance[l]] = NoMessage]
  /\ lastOf' = [lastOf EXCEPT ![instance[l]] = MessageOf(instance[l])]
  /\ lastMsg' = [k \in Reader |-> IF k = l /\ l \notin Latching
                                  THEN NoMessage ELSE AfterSpin(l, k)]
  /\ processed' = [processed EXCEPT
                     ![l] = IF AfterSpin(l, l) # NoMessage THEN AfterSpin(l, l) ELSE @]
  /\ UNCHANGED <<alive, topicPort, topicName, instance, slots, topicOf, registry,
                 strayed, published, changes>>

(* A subscription that the publisher does not know yet gets nothing.       *)
Publish(t) ==
  /\ published < MaxMessages
  /\ published' = published + 1
  /\ \E reached \in SUBSET {i \in Instances : topicOf[i] = t} :
       queue' = [i \in Instances |-> IF i \in reached THEN published' ELSE queue[i]]
  /\ UNCHANGED <<leaves, ownedByLeaf, slots, topicOf, lastOf, registry, history, changes>>

SubNext ==
  \/ \E l \in Reader :
       ConstructStatic(l) \/ ConstructOnBoard(l) \/ RenameTopic(l) \/ Destroy(l)
         \/ Subscribe(l) \/ Process(l)
  \/ \E t \in Topic : Publish(t)

SubSpec == SubInit /\ [][SubNext]_subVars

-----------------------------------------------------------------------------
(* Each variable of the subscriber leaves has its type; instances exist    *)
(* while a leaf holds them, are registered under their own topic, and call *)
(* only leaves that exist or have strayed.                                 *)
SubTypeOK ==
  /\ alive \subseteq Reader /\ strayed \subseteq Reader /\ ticking \in alive \cup {NoReader}
  /\ topicPort \in [Reader -> Topic \cup {NoTopic}]
  /\ topicName \in [Reader -> Topic \cup {NoTopic}]
  /\ lastMsg \in [Reader -> 0 .. published] /\ processed \in [Reader -> 0 .. published]
  /\ {published, changes} \subseteq Nat
  /\ \A l \in Reader : instance[l] # NoInstance
       => l \in alive /\ topicOf[instance[l]] = topicName[l] /\ l \in slots[instance[l]]
  /\ \A i \in Instances :
       /\ topicOf[i] # NoTopic => \E l \in alive : instance[l] = i
       /\ slots[i] \subseteq alive \cup strayed
       /\ lastOf[i] <= published /\ queue[i] <= published
  /\ \A t \in Topic : registry[t] \in Instances => topicOf[registry[t]] = t

(* What the next onTick would get is the newest message the subscription   *)
(* has received, whichever leaf spun it and even if that was before this   *)
(* leaf subscribed, and each message once; a latching leaf gets it again.  *)
HandsEachOnce ==
  \A l \in alive \ strayed :
    instance[l] # NoInstance /\ lastOf[instance[l]] # NoMessage
      => lastMsg[l] = IF processed[l] # lastOf[instance[l]] \/ l \in Latching
                        THEN lastOf[instance[l]] ELSE NoMessage

=============================================================================
