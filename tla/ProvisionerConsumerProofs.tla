--------------------- MODULE ProvisionerConsumerProofs ---------------------
(***************************************************************************)
(* What the provisioner's loops guarantee for any number of processes and  *)
(* messages, any bodies and any limits.                                    *)
(***************************************************************************)
EXTENDS ProvisionerConsumer, FiniteSetTheorems, TLAPS

----------------------------------------------------------------------------
(***************************************************************************)
(* Types.                                                                  *)
(***************************************************************************)

LEMMA ConsumerValues ==
    /\ \A stage \in Stages : At(stage) \in Consumer
    /\ NothingCounted \in Metrics
    /\ \A d \in Deliveries : d # NoDelivery
  BY NoneDistinct DEF At, Stages, Consumer, NoDelivery, Deliveries, NothingCounted, Metrics

LEMMA CountTypes ==
    ASSUME counted \in [Consumers -> Metrics], NEW c \in Consumers, NEW n \in Nat,
           NEW counter \in {"received", "processed", "failed"}, Count(c, counter, n)
    PROVE  counted' \in [Consumers -> Metrics]
<1>1. CASE counter = "received"
  BY <1>1 DEF Count, Metrics
<1>2. CASE counter = "processed"
  BY <1>2 DEF Count, Metrics
<1>3. CASE counter = "failed"
  BY <1>3 DEF Count, Metrics
<1> QED
  BY <1>1, <1>2, <1>3

\* The receive of SQS: what it does to the queue has the right type.
LEMMA DeliverTypes ==
    ASSUME TypeOK, NEW S \in SUBSET Messages, Deliver(S)
    PROVE  /\ queue' \in [Messages -> {"unused", "visible", "invisible", "deleted", "dead"}]
           /\ receives' \in [Messages -> 0..MaxReceive]
           /\ Cardinality(S) \in Nat
           /\ {[msg |-> m, receipt |-> receives[m] + 1] : m \in S} \subseteq Deliveries
<1>1. \A m \in S : receives[m] + 1 \in 0..MaxReceive
  BY LimitsPositive DEF TypeOK, Deliver, Receivable
<1>2. Cardinality(S) \in Nat
  BY MessagesFinite, FS_Subset, FS_CardinalityType
<1> QED
  BY <1>1, <1>2, LimitsPositive DEF TypeOK, Deliver, Deliveries

\* A body is understood when every field Parse insists on is filled, and Split then
\* yields the halves it asks for.
LEMMA SplitIsAsked ==
    /\ \A m \in Messages : Asked[m] = IF Understood(m) THEN Split(m) ELSE {}
    /\ \A m \in Messages : Split(m) # {} /\ Split(m) \subseteq {"scaffold", "infra"}
<1>1. ASSUME NEW m \in Messages
      PROVE  Understood(m) <=> Body[m].filled = Required
  <2>1. Body[m].filled \subseteq Required
    BY BodiesKnown DEF Bodies
  <2> QED
    BY <2>1 DEF Understood, Missing
<1>2. ASSUME NEW m \in Messages
      PROVE  HasWork(m) <=> Body[m].resources # 0
  <2>1. Body[m].resources \in Nat
    BY BodiesKnown DEF Bodies
  <2> QED
    BY <2>1 DEF HasWork
<1>3. \A m \in Messages : Asked[m] = IF Understood(m) THEN Split(m) ELSE {}
  BY <1>1, <1>2 DEF Asked, Split
<1>4. \A m \in Messages : Split(m) # {} /\ Split(m) \subseteq {"scaffold", "infra"}
  BY DEF Split
<1> QED
  BY <1>3, <1>4

----------------------------------------------------------------------------
(***************************************************************************)
(* The inductive invariant.  Over SQS, what a consumer is about to delete  *)
(* has been separated.  Over Kafka, one reader runs at a time; everything  *)
(* behind the group's offset, behind the reader's position and behind the  *)
(* message in hand has been dispatched, wherever a re-join put the three.  *)
(* Until the first re-join they are in order: the message in hand is the   *)
(* one at the position, and the offset is not ahead of it.                 *)
(***************************************************************************)

\* The messages nothing is left to do for, and those of them that asked for something.
Done == {m \in Messages : {m} \X Asked[m] \subseteq work}

Separated == {m \in Done : Asked[m] # {}}

DoneUpTo(n) == \A i \in 1..n : Topic[i] \in Done

SqsInv ==
    transport = "sqs" =>
        /\ \A m \in Messages : queue[m] = "deleted" => m \in Separated
        /\ \A c \in Consumers : consumer[c].stage = "acknowledge" => consumer[c].current.msg \in Separated

AtOffset(i) == [msg |-> Topic[i], receipt |-> i]

\* The reader has nothing in hand, a message to dispatch, or one to commit.
Reading(c) ==
    \/ consumer[c].stage = "loop" /\ consumer[c].batch = {} /\ DoneUpTo(position)
    \/ \E i \in 1..Len(Topic) :
          /\ consumer[c].stage = "loop" /\ consumer[c].batch = {AtOffset(i)}
          /\ DoneUpTo(i - 1)
          /\ \A j \in 1..position : j # i => Topic[j] \in Done
          /\ generation = "later" \/ i = position
    \/ \E i \in 1..Len(Topic) :
          /\ consumer[c].stage = "acknowledge" /\ consumer[c].batch = {}
          /\ consumer[c].current = AtOffset(i)
          /\ DoneUpTo(i) /\ DoneUpTo(position)
          /\ generation = "later" \/ i = position

KafkaInv ==
    transport = "kafka" =>
        /\ \A m \in Messages : queue[m] = "unused"
        /\ DoneUpTo(committed)
        /\ \A c, o \in Consumers : Running(c) /\ Running(o) => c = o
        /\ \A c \in Consumers : Running(c) => (generation = "later" \/ committed <= position) /\ Reading(c)

DeliveryInv == TypeOK /\ SqsInv /\ KafkaInv

\* What a consumer has in hand is a delivery; over Kafka, one of the topic, and without a
\* re-join the one at its position.
LEMMA InHand ==
    ASSUME DeliveryInv, NEW c \in Consumers, consumer[c].stage = "acknowledge"
    PROVE  /\ consumer[c].current \in Deliveries
           /\ consumer[c].current.msg \in Messages
           /\ transport = "kafka" =>
                 /\ consumer[c].current.receipt \in 1..Len(Topic)
                 /\ generation = "later" \/ (consumer[c].current.receipt = position /\ committed <= position)
<1>1. consumer[c].current \in Deliveries
  BY DEF DeliveryInv, TypeOK, Consumer
<1>2. ASSUME transport = "kafka"
      PROVE  /\ consumer[c].current.receipt \in 1..Len(Topic)
             /\ generation = "later" \/ (consumer[c].current.receipt = position /\ committed <= position)
  <2>1. Reading(c) /\ (generation = "later" \/ committed <= position)
    BY <1>2 DEF DeliveryInv, KafkaInv, Running
  <2>2. PICK i \in 1..Len(Topic) :
            consumer[c].current = AtOffset(i) /\ (generation = "later" \/ i = position)
    BY <2>1 DEF Reading
  <2>3. consumer[c].current.receipt = i
    BY <2>2 DEF AtOffset
  <2> QED
    BY <2>1, <2>2, <2>3
<1> QED
  BY <1>1, <1>2 DEF Deliveries

LEMMA AcknowledgeTypes ==
    ASSUME DeliveryInv, NEW c \in Consumers, consumer[c].stage = "acknowledge",
           ApplyAcknowledge(consumer[c].current)
    PROVE  /\ queue' \in [Messages -> {"unused", "visible", "invisible", "deleted", "dead"}]
           /\ committed' \in 0..Len(Topic)
  BY InHand DEF DeliveryInv, TypeOK, ApplyAcknowledge, ApplyDelete, ApplyCommit

LEMMA NextMessageTypes ==
    ASSUME TypeOK, NEW c \in Consumers, consumer[c].stage = "acknowledge", NextMessage(c)
    PROVE  /\ consumer' \in [Consumers -> Consumer]
           /\ \A o \in Consumers : consumer'[o].stage = "acknowledge" <=> consumer'[o].current # NoDelivery
<1>1. [consumer[c] EXCEPT !.stage = "loop", !.current = NoDelivery] \in Consumer
  BY DEF TypeOK, Consumer, Stages
<1> QED
  BY <1>1 DEF TypeOK, NextMessage, Consumer

\* A step of the loops preserves the types.
LEMMA StepTypes ==
    ASSUME DeliveryInv, NEW c \in Consumers, Step(c)
    PROVE  TypeOK'
<1> USE ConsumerValues DEF DeliveryInv, TypeOK
<1>0. Len(Topic) \in Nat /\ \A i \in 1..Len(Topic) : Topic[i] \in Messages
  BY TopicHoldsMessages
<1>1. CASE Start(c)
  BY <1>1 DEF Start, At, Stages
<1>2. CASE StartFails(c)
  BY <1>2, LimitsPositive DEF StartFails, At, Stages
<1>3. CASE Return(c)
  BY <1>3 DEF Return, At, Stages
<1>4. ASSUME NEW S \in SUBSET Messages, ReceiveMessage(c, S)
      PROVE  TypeOK'
  <2>1. counted' \in [Consumers -> Metrics]
    BY <1>4, DeliverTypes, CountTypes DEF ReceiveMessage
  <2>2. \A B \in SUBSET Deliveries : [consumer[c] EXCEPT !.batch = B] \in Consumer
    BY DEF Consumer
  <2>3. /\ consumer' \in [Consumers -> Consumer]
        /\ \A o \in Consumers :
              /\ consumer'[o].stage = consumer[o].stage
              /\ consumer'[o].current = consumer[o].current
    BY <1>4, <2>2, DeliverTypes DEF ReceiveMessage, Consumer
  <2> QED
    BY <1>4, <2>1, <2>3, DeliverTypes DEF ReceiveMessage
<1>5. ASSUME NEW S \in SUBSET Messages, ReceiveLost(c, S)
      PROVE  TypeOK'
  BY <1>5, DeliverTypes DEF ReceiveLost
<1>6. CASE FetchMessage(c)
  <2>1. counted' \in [Consumers -> Metrics]
    BY <1>6, CountTypes DEF FetchMessage
  <2>2. [msg |-> Topic[position + 1], receipt |-> position + 1] \in Deliveries
    <3>1. position + 1 \in 1..Len(Topic)
      BY <1>0, <1>6 DEF FetchMessage
    <3> QED
      BY <1>0, <3>1 DEF Deliveries
  <2>3. consumer' \in [Consumers -> Consumer]
    BY <1>6, <2>2 DEF FetchMessage, Consumer
  <2> QED
    BY <1>0, <1>6, <2>1, <2>3 DEF FetchMessage
<1>7. CASE FetchFails(c)
  BY <1>7 DEF FetchFails, vars
<1>8. ASSUME NEW d \in consumer[c].batch, Dispatch(c, d)
      PROVE  TypeOK'
  <2>1. d \in Deliveries /\ d.msg \in Messages
    BY DEF Consumer, Deliveries
  <2>2. [stage |-> "acknowledge", batch |-> consumer[c].batch \ {d}, current |-> d] \in Consumer
    BY <2>1 DEF Consumer, Stages
  <2>3. work' \subseteq Messages \X {"scaffold", "infra"}
    BY <1>8, <2>1, SplitIsAsked DEF Dispatch
  <2> QED
    BY <1>8, <2>1, <2>2, <2>3 DEF Dispatch, Consumer
<1>9. ASSUME NEW d \in consumer[c].batch, NotUnderstood(c, d)
      PROVE  TypeOK'
  <2>1. d \in Deliveries
    BY DEF Consumer
  <2>2. /\ [consumer[c] EXCEPT !.batch = @ \ {d}] \in Consumer
        /\ [stage |-> "acknowledge", batch |-> consumer[c].batch \ {d}, current |-> d] \in Consumer
    BY <2>1 DEF Consumer, Stages
  <2>3. CASE transport = "sqs"
    <3>1. counted' \in [Consumers -> Metrics]
      BY <1>9, <2>3, CountTypes DEF NotUnderstood
    <3>2. /\ consumer' \in [Consumers -> Consumer]
          /\ \A o \in Consumers :
                /\ consumer'[o].stage = consumer[o].stage
                /\ consumer'[o].current = consumer[o].current
      <4>1. consumer' = [consumer EXCEPT ![c] = [consumer[c] EXCEPT !.batch = @ \ {d}]]
        BY <1>9, <2>3 DEF NotUnderstood
      <4> QED
        BY <2>2, <4>1 DEF Consumer
    <3> QED
      BY <1>9, <2>3, <3>1, <3>2 DEF NotUnderstood
  <2>4. CASE transport # "sqs"
    <3>1. /\ consumer' \in [Consumers -> Consumer]
          /\ \A o \in Consumers :
                IF o = c THEN consumer'[o].stage = "acknowledge" /\ consumer'[o].current = d
                         ELSE consumer'[o] = consumer[o]
      <4>1. consumer' = [consumer EXCEPT
                ![c] = [stage |-> "acknowledge", batch |-> consumer[c].batch \ {d}, current |-> d]]
        BY <1>9, <2>4 DEF NotUnderstood
      <4> QED
        BY <2>2, <4>1
    <3> QED
      BY <1>9, <2>1, <2>4, <3>1 DEF NotUnderstood
  <2> QED
    BY <2>3, <2>4
<1>10. CASE Acknowledge(c)
  <2>1. counted' \in [Consumers -> Metrics]
    BY <1>10, CountTypes DEF Acknowledge
  <2>2. /\ queue' \in [Messages -> {"unused", "visible", "invisible", "deleted", "dead"}]
        /\ committed' \in 0..Len(Topic)
    BY <1>10, AcknowledgeTypes DEF Acknowledge
  <2> QED
    BY <1>10, <2>1, <2>2, NextMessageTypes DEF Acknowledge
<1>11. CASE AcknowledgeFails(c)
  <2>1. counted' \in [Consumers -> Metrics]
    BY <1>11, CountTypes DEF AcknowledgeFails
  <2>2. /\ queue' \in [Messages -> {"unused", "visible", "invisible", "deleted", "dead"}]
        /\ committed' \in 0..Len(Topic)
    BY <1>11, AcknowledgeTypes DEF AcknowledgeFails
  <2> QED
    BY <1>11, <2>1, <2>2, NextMessageTypes DEF AcknowledgeFails
<1> QED
  BY <1>1, <1>2, <1>3, <1>4, <1>5, <1>6, <1>7, <1>8, <1>9, <1>10, <1>11 DEF Step

LEMMA EnvironmentTypes ==
    ASSUME TypeOK, Environment
    PROVE  TypeOK'
<1> USE ConsumerValues, LimitsPositive DEF TypeOK
<1>1. ASSUME NEW c \in Consumers, Cancel(c)
      PROVE  TypeOK'
  BY <1>1 DEF Cancel
<1>2. ASSUME NEW c \in Consumers, Kill(c)
      PROVE  TypeOK'
  BY <1>2 DEF Kill, At, Stages
<1>3. ASSUME NEW c \in Consumers, Restart(c)
      PROVE  TypeOK'
  BY <1>3 DEF Restart, At, Stages
<1>4. ASSUME NEW c \in Consumers, Rejoin(c)
      PROVE  TypeOK'
  BY <1>4 DEF Rejoin
<1>5. ASSUME NEW m \in Messages, VisibilityLapses(m)
      PROVE  TypeOK'
  BY <1>5 DEF VisibilityLapses
<1>6. ASSUME NEW m \in Messages, DeadLetter(m)
      PROVE  TypeOK'
  BY <1>6 DEF DeadLetter
<1> QED
  BY <1>1, <1>2, <1>3, <1>4, <1>5, <1>6 DEF Environment

----------------------------------------------------------------------------
(***************************************************************************)
(* The invariant is preserved.                                             *)
(***************************************************************************)

\* A process chooses its transport once; what has been separated stays so.
LEMMA WorkStays ==
    ASSUME [Next]_vars
    PROVE  /\ transport' = transport
           /\ work \subseteq work'
           /\ Done \subseteq Done' /\ Separated \subseteq Separated'
<1>1. transport' = transport /\ work \subseteq work'
  <2>1. ASSUME NEW c \in Consumers, Step(c)
        PROVE  transport' = transport /\ work \subseteq work'
    BY <2>1 DEF Step, Start, StartFails, Return, ReceiveMessage, ReceiveLost, FetchMessage, FetchFails,
                Dispatch, NotUnderstood, Acknowledge, AcknowledgeFails, vars
  <2>2. CASE Environment
    BY <2>2 DEF Environment, Cancel, Kill, Restart, Rejoin, VisibilityLapses, DeadLetter
  <2> QED
    BY <2>1, <2>2 DEF Next, vars
<1> QED
  BY <1>1 DEF Done, Separated

\* Over SQS: only what is in hand at DeleteMessage becomes deleted, and Dispatch put
\* it there.
LEMMA SqsStep ==
    ASSUME DeliveryInv, [Next]_vars, transport = "sqs"
    PROVE  SqsInv'
<1> USE DEF DeliveryInv, SqsInv, TypeOK
<1>1. transport' = "sqs" /\ Separated \subseteq Separated'
  BY WorkStays
<1> DEFINE Goal ==
        /\ \A m \in Messages : queue'[m] = "deleted" => m \in Separated'
        /\ \A o \in Consumers : consumer'[o].stage = "acknowledge" => consumer'[o].current.msg \in Separated'
<1>2. SUFFICES Goal
  OBVIOUS
<1>3. ASSUME NEW c \in Consumers, Start(c) \/ StartFails(c) \/ Return(c) \/ Kill(c) \/ Restart(c)
      PROVE  Goal
  <2>1. queue' = queue
    BY <1>3 DEF Start, StartFails, Return, Kill, Restart
  <2>2. \A o \in Consumers : IF o = c THEN consumer'[o].stage # "acknowledge" ELSE consumer'[o] = consumer[o]
    BY <1>3 DEF Start, StartFails, Return, Kill, Restart, At
  <2> QED
    BY <1>1, <2>1, <2>2
<1>4. ASSUME NEW c \in Consumers, NEW S \in SUBSET Messages, ReceiveMessage(c, S) \/ ReceiveLost(c, S)
      PROVE  Goal
  <2>1. \A m \in Messages : queue'[m] = "deleted" => queue[m] = "deleted"
    BY <1>4 DEF ReceiveMessage, ReceiveLost, Deliver
  <2>2. CASE ReceiveMessage(c, S)
    <3>1. \E B : consumer' = [consumer EXCEPT ![c] = [consumer[c] EXCEPT !.batch = B]]
      BY <2>2 DEF ReceiveMessage
    <3>2. \A o \in Consumers :
              consumer'[o].stage = consumer[o].stage /\ consumer'[o].current = consumer[o].current
      BY <3>1 DEF Consumer
    <3> QED
      BY <1>1, <2>1, <3>2
  <2>3. CASE ReceiveLost(c, S)
    BY <1>1, <2>1, <2>3 DEF ReceiveLost
  <2> QED
    BY <1>4, <2>2, <2>3
<1>5. ASSUME NEW c \in Consumers, NEW d \in consumer[c].batch, Dispatch(c, d)
      PROVE  Goal
  <2>1. d.msg \in Messages
    BY DEF Consumer, Deliveries
  <2>2. d.msg \in Separated'
    BY <1>5, <2>1, SplitIsAsked DEF Dispatch, Done, Separated
  <2> QED
    BY <1>1, <1>5, <2>2 DEF Dispatch
<1>6. ASSUME NEW c \in Consumers, NEW d \in consumer[c].batch, NotUnderstood(c, d)
      PROVE  Goal
  <2>1. consumer' = [consumer EXCEPT ![c] = [consumer[c] EXCEPT !.batch = @ \ {d}]]
    BY <1>6 DEF NotUnderstood
  <2>2. \A o \in Consumers :
            consumer'[o].stage = consumer[o].stage /\ consumer'[o].current = consumer[o].current
    BY <2>1 DEF Consumer
  <2> QED
    BY <1>1, <1>6, <2>2 DEF NotUnderstood
<1>7. ASSUME NEW c \in Consumers, Acknowledge(c) \/ AcknowledgeFails(c)
      PROVE  Goal
  <2>1. consumer[c].stage = "acknowledge"
    BY <1>7 DEF Acknowledge, AcknowledgeFails
  <2>2. \A m \in Messages : queue'[m] = "deleted" => queue[m] = "deleted" \/ m = consumer[c].current.msg
    BY <1>7 DEF Acknowledge, AcknowledgeFails, ApplyAcknowledge, ApplyDelete
  <2>3. \A o \in Consumers : IF o = c THEN consumer'[o].stage = "loop" ELSE consumer'[o] = consumer[o]
    BY <1>7 DEF Acknowledge, AcknowledgeFails, NextMessage, Consumer
  <2> QED
    BY <1>1, <2>1, <2>2, <2>3
<1>8. ASSUME NEW c \in Consumers, Cancel(c)
      PROVE  Goal
  BY <1>1, <1>8 DEF Cancel
<1>9. ASSUME NEW m \in Messages, VisibilityLapses(m) \/ DeadLetter(m)
      PROVE  Goal
  BY <1>1, <1>9 DEF VisibilityLapses, DeadLetter
<1>10. CASE UNCHANGED vars
  BY <1>1, <1>10 DEF vars
<1>11. ASSUME NEW c \in Consumers, FetchMessage(c) \/ FetchFails(c) \/ Rejoin(c)
       PROVE  Goal
  BY <1>11 DEF FetchMessage, FetchFails, Rejoin
<1> QED
  BY <1>3, <1>4, <1>5, <1>6, <1>7, <1>8, <1>9, <1>10, <1>11 DEF Next, Step, Environment

\* Over Kafka: enough to look at the one consumer that moves.
LEMMA KafkaFrame ==
    ASSUME DeliveryInv, [Next]_vars, transport = "kafka", NEW c \in Consumers,
           \A o \in Consumers : o # c => consumer'[o] = consumer[o] /\ ~Running(o),
           queue' = queue, DoneUpTo(committed)',
           Running(c)' => (generation = "later" \/ committed <= position)' /\ Reading(c)'
    PROVE  KafkaInv'
<1>1. \A o \in Consumers : Running(o)' => o = c
  BY DEF Running
<1> QED
  BY <1>1 DEF DeliveryInv, KafkaInv

\* What it starts from: nobody else runs, and what it read is accounted for.
LEMMA KafkaRunning ==
    ASSUME DeliveryInv, transport = "kafka", NEW c \in Consumers, Running(c)
    PROVE  /\ \A o \in Consumers : o # c => ~Running(o)
           /\ generation = "later" \/ committed <= position
           /\ Reading(c) /\ DoneUpTo(committed)
           /\ committed \in Nat /\ position \in Nat /\ Len(Topic) \in Nat
           /\ consumer[c] \in Consumer /\ consumer \in [Consumers -> Consumer]
  BY TopicHoldsMessages DEF DeliveryInv, KafkaInv, TypeOK

\* The reader fetches, hands on, commits, re-joins, or ends.
LEMMA KafkaReaderStep ==
    ASSUME DeliveryInv, [Next]_vars, transport = "kafka", NEW c \in Consumers, Running(c),
           \/ Return(c) \/ Kill(c) \/ FetchMessage(c) \/ Acknowledge(c) \/ AcknowledgeFails(c) \/ Rejoin(c)
           \/ \E d \in consumer[c].batch : Dispatch(c, d) \/ NotUnderstood(c, d)
    PROVE  KafkaInv'
<1>1. Done \subseteq Done' /\ \A n \in Nat : DoneUpTo(n) => \A i \in 1..n : Topic[i] \in Done'
  BY WorkStays DEF DoneUpTo
<1>2. CASE Return(c) \/ Kill(c)
  <2>1. /\ queue' = queue /\ committed' = committed /\ position' = position
        /\ consumer' = [consumer EXCEPT ![c] = At("exited")]
    BY <1>2 DEF Return, Kill
  <2>2. ~Running(c)' /\ DoneUpTo(committed)' /\ queue' = queue
    BY <1>1, <2>1, KafkaRunning DEF Running, At, DoneUpTo
  <2> QED
    BY <2>1, <2>2, KafkaFrame, KafkaRunning
<1>3. CASE FetchMessage(c)
  <2>1. /\ queue' = queue /\ committed' = committed /\ generation' = generation
        /\ position' = position + 1 /\ position < Len(Topic)
        /\ consumer[c].stage = "loop" /\ consumer[c].batch = {}
        /\ consumer' = [consumer EXCEPT ![c] = [consumer[c] EXCEPT !.batch = {AtOffset(position + 1)}]]
    BY <1>3 DEF FetchMessage, AtOffset
  <2>2. consumer'[c].stage = "loop" /\ consumer'[c].batch = {AtOffset(position + 1)}
    BY <2>1, KafkaRunning DEF Consumer
  <2>3. DoneUpTo(position) /\ (generation = "later" \/ committed <= position)
    BY <2>1, KafkaRunning DEF Reading
  <2>4. DoneUpTo(committed)' /\ \A i \in 1..position : Topic[i] \in Done'
    BY <1>1, <2>1, <2>3, KafkaRunning DEF DoneUpTo
  <2>5. \E i \in 1..Len(Topic) :
            /\ i = position' /\ i - 1 = position
            /\ consumer'[c].stage = "loop" /\ consumer'[c].batch = {AtOffset(i)}
    BY <2>1, <2>2, KafkaRunning
  <2>6. Reading(c)'
    <3>1. PICK i \in 1..Len(Topic) :
              /\ i = position' /\ i - 1 = position
              /\ consumer'[c].stage = "loop" /\ consumer'[c].batch = {AtOffset(i)}
      BY <2>5
    <3>2. DoneUpTo(i - 1)' /\ \A j \in 1..position' : j # i => Topic[j] \in Done'
      BY <2>1, <2>4, <3>1, KafkaRunning DEF DoneUpTo
    <3> QED
      BY <3>1, <3>2 DEF Reading, AtOffset
  <2>7. (generation = "later" \/ committed <= position)'
    BY <2>1, <2>3, KafkaRunning
  <2> QED
    BY <2>1, <2>4, <2>6, <2>7, KafkaFrame, KafkaRunning
<1>4. ASSUME NEW d \in consumer[c].batch, Dispatch(c, d) \/ NotUnderstood(c, d)
      PROVE  KafkaInv'
  <2>1. /\ queue' = queue /\ committed' = committed /\ position' = position /\ generation' = generation
        /\ consumer[c].stage = "loop"
        /\ consumer' = [consumer EXCEPT
              ![c] = [stage |-> "acknowledge", batch |-> consumer[c].batch \ {d}, current |-> d]]
    BY <1>4 DEF Dispatch, NotUnderstood
  <2>2. PICK i \in 1..Len(Topic) :
            /\ consumer[c].batch = {AtOffset(i)} /\ DoneUpTo(i - 1)
            /\ \A j \in 1..position : j # i => Topic[j] \in Done
            /\ generation = "later" \/ i = position
    BY <2>1, KafkaRunning DEF Reading
  <2>3. d = AtOffset(i) /\ consumer[c].batch \ {d} = {}
    BY <2>2
  <2>4. Topic[i] \in Messages /\ d.msg = Topic[i]
    BY <2>3, KafkaRunning, TopicHoldsMessages DEF AtOffset
  <2>5. Topic[i] \in Done'
    BY <1>4, <2>4, SplitIsAsked DEF Done, Dispatch, NotUnderstood
  <2>6. \A j \in 1..(i - 1) : Topic[j] \in Done'
    BY <1>1, <2>2 DEF DoneUpTo
  <2>7. DoneUpTo(committed)' /\ DoneUpTo(i)' /\ DoneUpTo(position)'
    BY <1>1, <2>1, <2>2, <2>5, <2>6, KafkaRunning DEF DoneUpTo
  <2>8. /\ consumer'[c].stage = "acknowledge" /\ consumer'[c].batch = {}
        /\ consumer'[c].current = AtOffset(i)
    BY <2>1, <2>3, KafkaRunning
  <2>9. Reading(c)'
    BY <2>1, <2>2, <2>7, <2>8 DEF Reading, AtOffset
  <2> QED
    BY <2>1, <2>7, <2>9, KafkaFrame, KafkaRunning
<1>5. CASE Acknowledge(c) \/ AcknowledgeFails(c)
  <2>1. /\ queue' = queue /\ position' = position /\ generation' = generation
        /\ committed' \in {committed, consumer[c].current.receipt}
        /\ consumer[c].stage = "acknowledge"
        /\ consumer' = [consumer EXCEPT ![c] = [consumer[c] EXCEPT !.stage = "loop", !.current = NoDelivery]]
    BY <1>5 DEF Acknowledge, AcknowledgeFails, ApplyAcknowledge, ApplyCommit, NextMessage
  <2>2. PICK i \in 1..Len(Topic) :
            /\ consumer[c].batch = {} /\ consumer[c].current = AtOffset(i)
            /\ DoneUpTo(i) /\ DoneUpTo(position)
            /\ generation = "later" \/ i = position
    BY <2>1, KafkaRunning DEF Reading
  <2>3. consumer[c].current.receipt = i
    BY <2>2 DEF AtOffset
  <2>4. consumer'[c].stage = "loop" /\ consumer'[c].batch = {}
    BY <2>1, <2>2, KafkaRunning DEF Consumer
  <2>5. committed' = committed \/ committed' = i
    BY <2>1, <2>3
  <2>6. DoneUpTo(committed)' /\ DoneUpTo(position)'
    BY <1>1, <2>1, <2>2, <2>5, KafkaRunning DEF DoneUpTo
  <2>7. (generation = "later" \/ committed <= position)'
    BY <2>1, <2>2, <2>5, KafkaRunning
  <2>8. Reading(c)'
    BY <2>4, <2>6 DEF Reading
  <2> QED
    BY <2>1, <2>6, <2>7, <2>8, KafkaFrame, KafkaRunning
<1>6. CASE Rejoin(c)
  <2>1. /\ queue' = queue /\ committed' = committed /\ consumer' = consumer
        /\ position' = committed /\ generation' = "later"
    BY <1>6 DEF Rejoin
  <2>2. DoneUpTo(committed)' /\ DoneUpTo(position)'
    BY <1>1, <2>1, KafkaRunning DEF DoneUpTo
  <2>3. \A n \in Nat : DoneUpTo(n) => DoneUpTo(n)'
    BY <1>1 DEF DoneUpTo
  <2>4. ASSUME consumer[c].stage = "loop", consumer[c].batch = {}
        PROVE  Reading(c)'
    BY <2>1, <2>2, <2>4 DEF Reading
  <2>5. ASSUME NEW i \in 1..Len(Topic),
               consumer[c].stage = "loop", consumer[c].batch = {AtOffset(i)}, DoneUpTo(i - 1)
        PROVE  Reading(c)'
    <3>1. DoneUpTo(i - 1)' /\ \A j \in 1..position' : Topic[j] \in Done'
      BY <2>2, <2>3, <2>5, KafkaRunning DEF DoneUpTo
    <3> QED
      BY <2>1, <2>5, <3>1 DEF Reading, AtOffset
  <2>6. ASSUME NEW i \in 1..Len(Topic),
               consumer[c].stage = "acknowledge", consumer[c].batch = {},
               consumer[c].current = AtOffset(i), DoneUpTo(i)
        PROVE  Reading(c)'
    <3>1. DoneUpTo(i)'
      BY <2>3, <2>6, KafkaRunning
    <3> QED
      BY <2>1, <2>2, <2>6, <3>1 DEF Reading, AtOffset
  <2>7. Reading(c)'
    BY <2>4, <2>5, <2>6, KafkaRunning DEF Reading
  <2> QED
    BY <2>1, <2>2, <2>7, KafkaFrame, KafkaRunning
<1> QED
  BY <1>2, <1>3, <1>4, <1>5, <1>6

LEMMA KafkaStep ==
    ASSUME DeliveryInv, [Next]_vars, transport = "kafka"
    PROVE  KafkaInv'
<1>1. /\ Done \subseteq Done' /\ DoneUpTo(committed) /\ committed \in Nat /\ position \in Nat
      /\ \A n \in Nat : DoneUpTo(n) => \A i \in 1..n : Topic[i] \in Done'
  BY WorkStays, TopicHoldsMessages DEF DoneUpTo, DeliveryInv, KafkaInv, TypeOK
<1>2. ASSUME NEW c \in Consumers, Start(c)
      PROVE  KafkaInv'
  <2>1. /\ queue' = queue /\ committed' = committed /\ position' = committed
        /\ \A o \in Consumers : ~Running(o)
        /\ consumer' = [consumer EXCEPT ![c] = At("loop")]
    BY <1>2 DEF Start
  <2>2. consumer'[c] = At("loop") /\ \A o \in Consumers : o # c => consumer'[o] = consumer[o]
    BY <2>1 DEF DeliveryInv, TypeOK
  <2>3. DoneUpTo(committed)' /\ DoneUpTo(position)' /\ committed' <= position'
    BY <1>1, <2>1 DEF DoneUpTo
  <2>4. Reading(c)'
    BY <2>2, <2>3 DEF Reading, At
  <2> QED
    BY <2>1, <2>2, <2>3, <2>4, KafkaFrame
<1>3. ASSUME /\ queue' = queue /\ committed' = committed /\ work' = work
             /\ position' = position /\ generation' = generation
             /\ \A o \in Consumers : Running(o)' => Running(o) /\ consumer'[o] = consumer[o]
      PROVE  KafkaInv'
  <2>1. Done' = Done /\ \A n : DoneUpTo(n)' <=> DoneUpTo(n)
    BY <1>3 DEF DoneUpTo, Done
  <2>2. ASSUME NEW o \in Consumers, Running(o)'
        PROVE  Running(o) /\ Reading(o)'
    <3>1. Running(o) /\ consumer'[o] = consumer[o] /\ Reading(o)
      BY <1>3, <2>2 DEF DeliveryInv, KafkaInv
    <3>2. CASE consumer[o].stage = "loop" /\ consumer[o].batch = {} /\ DoneUpTo(position)
      BY <1>3, <2>1, <3>1, <3>2 DEF Reading
    <3>3. CASE ~(consumer[o].stage = "loop" /\ consumer[o].batch = {} /\ DoneUpTo(position))
      BY <1>3, <2>1, <3>1, <3>3 DEF Reading, AtOffset, DoneUpTo
    <3> QED
      BY <3>1, <3>2, <3>3
  <2> QED
    BY <1>3, <2>1, <2>2 DEF DeliveryInv, KafkaInv
<1>4. ASSUME NEW c \in Consumers, StartFails(c) \/ Restart(c) \/ Cancel(c) \/ FetchFails(c)
      PROVE  KafkaInv'
  <2>1. /\ queue' = queue /\ committed' = committed /\ work' = work
        /\ position' = position /\ generation' = generation
        /\ \A o \in Consumers : consumer'[o] = consumer[o] \/ consumer'[o].stage \in {"starting", "exited"}
    BY <1>4 DEF StartFails, Restart, Cancel, FetchFails, vars, At, DeliveryInv, TypeOK
  <2> QED
    BY <1>3, <2>1 DEF Running
<1>5. ASSUME NEW m \in Messages, VisibilityLapses(m) \/ DeadLetter(m)
      PROVE  KafkaInv'
  BY <1>5 DEF VisibilityLapses, DeadLetter, DeliveryInv, KafkaInv
<1>6. CASE UNCHANGED vars
  BY <1>3, <1>6 DEF vars, Running
<1>7. ASSUME NEW c \in Consumers, Step(c)
      PROVE  KafkaInv'
  <2>1. /\ \A S \in SUBSET Messages : ~ReceiveMessage(c, S) /\ ~ReceiveLost(c, S)
    BY DEF ReceiveMessage, ReceiveLost
  <2>2. Running(c) \/ Start(c) \/ StartFails(c)
    BY <1>7, <2>1 DEF Step, Running, Return, FetchMessage, FetchFails, Dispatch, NotUnderstood, Acknowledge,
                      AcknowledgeFails
  <2> QED
    BY <1>2, <1>4, <1>7, <2>1, <2>2, KafkaReaderStep DEF Step
<1>8. ASSUME NEW c \in Consumers, Kill(c) \/ Rejoin(c)
      PROVE  KafkaInv'
  BY <1>8, KafkaReaderStep DEF Kill, Rejoin
<1> QED
  BY <1>2, <1>4, <1>5, <1>6, <1>7, <1>8 DEF Next, Environment

LEMMA InitDelivery == Init => DeliveryInv
<1> SUFFICES ASSUME Init
             PROVE  DeliveryInv
  OBVIOUS
<1>1. Len(Topic) \in Nat
  BY TopicHoldsMessages
<1>2. \A c \in Consumers : consumer[c] = At("starting")
  BY DEF Init
<1>3. TypeOK
  BY <1>1, <1>2, ConsumerValues, LimitsPositive DEF Init, TypeOK, At, Stages
<1>4. SqsInv
  BY <1>2 DEF Init, SqsInv, At
<1>5. KafkaInv
  BY <1>2 DEF Init, KafkaInv, DoneUpTo, Running, At
<1> QED
  BY <1>3, <1>4, <1>5 DEF DeliveryInv

LEMMA NextDelivery == DeliveryInv /\ [Next]_vars => DeliveryInv'
<1> SUFFICES ASSUME DeliveryInv, [Next]_vars
             PROVE  DeliveryInv'
  OBVIOUS
<1>1. TypeOK'
  <2>1. CASE UNCHANGED vars
    BY <2>1 DEF vars, DeliveryInv, TypeOK
  <2> QED
    BY <2>1, StepTypes, EnvironmentTypes DEF Next, DeliveryInv
<1>2. transport' = transport /\ transport \in {"sqs", "kafka"}
  BY WorkStays DEF DeliveryInv, TypeOK
<1>3. SqsInv'
  BY <1>2, SqsStep DEF SqsInv
<1>4. KafkaInv'
  BY <1>2, KafkaStep DEF KafkaInv
<1> QED
  BY <1>1, <1>3, <1>4 DEF DeliveryInv

LEMMA Delivered == Spec => []DeliveryInv
  BY InitDelivery, NextDelivery, PTL DEF Spec

----------------------------------------------------------------------------
(***************************************************************************)
(* The theorems.                                                           *)
(***************************************************************************)

\* Every variable keeps its type; in particular Kafka's offset and the reader's
\* position stay within the topic.
THEOREM TypeCorrect == Spec => []TypeOK
  BY Delivered, PTL DEF DeliveryInv

\* No request leaves its broker before every half it asks for was handed on, and SQS
\* never loses a message that was not understood.
THEOREM SplitBeforeAcknowledged == Spec => []AcknowledgedWasSplit
<1>1. DeliveryInv => AcknowledgedWasSplit
  <2> SUFFICES ASSUME DeliveryInv, NEW m \in Messages, Acknowledged(m)
               PROVE  /\ {m} \X Asked[m] \subseteq work
                      /\ transport = "sqs" => Asked[m] # {}
    BY DEF AcknowledgedWasSplit
  <2>1. CASE transport = "sqs"
    BY <2>1 DEF DeliveryInv, SqsInv, Acknowledged, Separated, Done
  <2>2. CASE transport = "kafka"
    BY <2>2 DEF DeliveryInv, KafkaInv, Acknowledged, DoneUpTo, Done
  <2> QED
    BY <2>1, <2>2 DEF DeliveryInv, TypeOK
<1> QED
  BY <1>1, Delivered, PTL

\* The group's offset moves back only in a process whose reader has re-joined its group:
\* until then the reader commits the message at its position and nothing else.
THEOREM OffsetRewinds == Spec => OffsetRewindsOnlyAfterRejoin
<1>1. DeliveryInv /\ [Next]_vars => [committed' >= committed \/ generation = "later"]_vars
  <2> SUFFICES ASSUME DeliveryInv, [Next]_vars, generation # "later"
               PROVE  committed' >= committed
    OBVIOUS
  <2>1. committed \in Nat
    BY DEF DeliveryInv, TypeOK
  <2>2. ASSUME NEW c \in Consumers, Acknowledge(c) \/ AcknowledgeFails(c)
        PROVE  committed' >= committed
    <3>1. consumer[c].stage = "acknowledge"
      BY <2>2 DEF Acknowledge, AcknowledgeFails
    <3>2. transport = "kafka" =>
              consumer[c].current.receipt = position /\ committed <= position
      BY <3>1, InHand
    <3>3. committed' = committed \/ (transport = "kafka" /\ committed' = consumer[c].current.receipt)
      BY <2>2 DEF Acknowledge, AcknowledgeFails, ApplyAcknowledge, ApplyDelete, ApplyCommit, DeliveryInv, TypeOK
    <3> QED
      BY <2>1, <3>2, <3>3
  <2>3. ASSUME NEW c \in Consumers, Step(c)
        PROVE  committed' >= committed
    BY <2>1, <2>2, <2>3 DEF Step, Start, StartFails, Return, ReceiveMessage, ReceiveLost, FetchMessage,
                            FetchFails, Dispatch, NotUnderstood, vars
  <2>4. CASE Environment
    BY <2>1, <2>4 DEF Environment, Cancel, Kill, Restart, Rejoin, VisibilityLapses, DeadLetter
  <2> QED
    BY <2>1, <2>3, <2>4 DEF Next, vars
<1> QED
  BY <1>1, Delivered, PTL DEF Spec, OffsetRewindsOnlyAfterRejoin

----------------------------------------------------------------------------
(***************************************************************************)
(* The refinement.  Dispatch separates a message and changes no fate; any  *)
(* other step separates nothing.  One that leaves the group's offset where *)
(* it is or moves it on settles what was pending; one that moves it back   *)
(* reopens what the offset no longer covers.                               *)
(***************************************************************************)

\* What has left the SQS queue never comes back, nor does what Kafka's offset has passed
\* while that moves on.
LEMMA AcknowledgedStays ==
    ASSUME DeliveryInv, [Next]_vars, NEW m \in Messages
    PROVE  /\ queue[m] = "dead" => queue'[m] = "dead"
           /\ queue[m] = "deleted" => queue'[m] = "deleted"
           /\ committed' >= committed => (Acknowledged(m) => Acknowledged(m)')
           /\ committed' < committed => (Acknowledged(m)' => Acknowledged(m) \/ queue'[m] = "deleted")
<1>0. DeliveryInv'
  BY NextDelivery
<1> USE DEF DeliveryInv, TypeOK
<1>1. /\ queue[m] = "dead" => queue'[m] = "dead"
      /\ queue[m] = "deleted" => queue'[m] = "deleted"
  <2>1. ASSUME NEW c \in Consumers, Step(c)
        PROVE  <1>1
    BY <2>1 DEF Step, Start, StartFails, Return, ReceiveMessage, ReceiveLost, FetchMessage, FetchFails, Deliver,
                Receivable, Dispatch, NotUnderstood, Acknowledge, AcknowledgeFails, ApplyAcknowledge, ApplyDelete,
                ApplyCommit, vars
  <2>2. CASE Environment
    BY <2>2 DEF Environment, Cancel, Kill, Restart, Rejoin, VisibilityLapses, DeadLetter
  <2> QED
    BY <2>1, <2>2 DEF Next, vars
<1>2. transport' = transport
  BY WorkStays
<1>3. committed \in Nat /\ committed' \in Nat
  BY <1>0, TopicHoldsMessages
<1>4. committed' >= committed => (Acknowledged(m) => Acknowledged(m)')
  <2>1. committed' >= committed => 1..committed \subseteq 1..committed'
    BY <1>3
  <2> QED
    BY <1>1, <1>2, <2>1 DEF Acknowledged
<1>5. committed' < committed => (Acknowledged(m)' => Acknowledged(m) \/ queue'[m] = "deleted")
  <2>1. committed' < committed => 1..committed' \subseteq 1..committed
    BY <1>3
  <2> QED
    BY <1>2, <2>1 DEF Acknowledged
<1> QED
  BY <1>1, <1>4, <1>5

\* A step that leaves the work alone and does not move the offset back settles pending
\* messages only, and acknowledges those whose work is done.
LEMMA StepSettles ==
    ASSUME DeliveryInv, [Next]_vars, committed' >= committed, work' = work
    PROVE  Delivery!Settle
<1>1. DeliveryInv'
  BY NextDelivery
<1>2. Fate' \in [Messages -> {"pending", "acknowledged", "aside"}]
  BY DEF Fate
<1>3. ASSUME NEW m \in Messages
      PROVE  \/ Fate'[m] = Fate[m]
             \/ Fate[m] = "pending" /\ Fate'[m] = "aside"
             \/ /\ Fate[m] = "pending" /\ Fate'[m] = "acknowledged"
                /\ Asked[m] # {} /\ {m} \X Asked[m] \subseteq work
  <2>1. /\ queue[m] = "dead" => queue'[m] = "dead"
        /\ queue[m] = "deleted" => queue'[m] = "deleted"
        /\ Acknowledged(m) => Acknowledged(m)'
        /\ transport' = transport
    BY AcknowledgedStays, WorkStays
  <2>2. Fate[m] \in {"acknowledged", "aside"} => Fate'[m] = Fate[m]
    BY <1>1, <2>1 DEF Fate, Acknowledged, DeliveryInv, KafkaInv, TypeOK
  <2>3. Fate'[m] = "acknowledged" => Asked[m] # {} /\ m \in Done'
    <3>1. Fate'[m] = "acknowledged" => Acknowledged(m)' /\ (transport' = "kafka" => Asked[m] # {})
      BY DEF Fate
    <3>2. CASE transport' = "sqs"
      BY <1>1, <3>1, <3>2 DEF Acknowledged, DeliveryInv, SqsInv, Separated
    <3>3. CASE transport' = "kafka"
      BY <1>1, <3>1, <3>3 DEF Acknowledged, DeliveryInv, KafkaInv, DoneUpTo
    <3> QED
      BY <1>1, <3>2, <3>3 DEF DeliveryInv, TypeOK
  <2>4. m \in Done' => {m} \X Asked[m] \subseteq work
    BY DEF Done
  <2>5. Fate'[m] \in {"pending", "acknowledged", "aside"} /\ Fate[m] \in {"pending", "acknowledged", "aside"}
    BY <1>2 DEF Fate
  <2> QED
    BY <2>2, <2>3, <2>4, <2>5
<1>4. transport' = transport
  BY WorkStays
<1> QED
  BY <1>2, <1>3, <1>4 DEF Delivery!Settle, Delivery!Parts

\* Only a commit moves the offset.
LEMMA CommitMovesOffset ==
    ASSUME DeliveryInv, [Next]_vars, committed' # committed
    PROVE  transport = "kafka" /\ work' = work /\ queue' = queue
<1>1. ASSUME NEW c \in Consumers, Acknowledge(c) \/ AcknowledgeFails(c)
      PROVE  transport = "kafka" /\ work' = work /\ queue' = queue
  BY <1>1 DEF Acknowledge, AcknowledgeFails, ApplyAcknowledge, ApplyDelete, ApplyCommit, DeliveryInv, TypeOK
<1>2. ASSUME ~\E c \in Consumers : Acknowledge(c) \/ AcknowledgeFails(c)
      PROVE  FALSE
  BY <1>2 DEF Next, Step, Environment, Start, StartFails, Return, ReceiveMessage, ReceiveLost, FetchMessage,
              FetchFails, Dispatch, NotUnderstood, Cancel, Kill, Restart, Rejoin, VisibilityLapses, DeadLetter, vars
<1> QED
  BY <1>1, <1>2

\* Moving the offset back reopens messages and does nothing else.
LEMMA RewindReopens ==
    ASSUME DeliveryInv, [Next]_vars, committed' < committed
    PROVE  Delivery!Reopen
<1>1. committed' # committed
  BY NextDelivery DEF DeliveryInv, TypeOK
<1>2. transport = "kafka" /\ transport' = transport /\ work' = work /\ queue' = queue
  BY <1>1, CommitMovesOffset, WorkStays
<1>3. \A m \in Messages : queue[m] = "unused"
  BY <1>2 DEF DeliveryInv, KafkaInv
<1>4. ASSUME NEW m \in Messages
      PROVE  Fate'[m] = "pending" \/ Fate'[m] = Fate[m]
  BY <1>2, <1>3, AcknowledgedStays DEF Fate
<1> DEFINE Again == {m \in Messages : Fate[m] # "pending" /\ Fate'[m] = "pending"}
<1>5. Fate' = [m \in Messages |-> IF m \in Again THEN "pending" ELSE Fate[m]]
  <2>1. \A m \in Messages : Fate'[m] = IF m \in Again THEN "pending" ELSE Fate[m]
    BY <1>4
  <2> QED
    BY <2>1 DEF Fate
<1>6. Again \in SUBSET {m \in Messages : Fate[m] # "pending"}
  OBVIOUS
<1> QED
  BY <1>2, <1>5, <1>6 DEF Delivery!Reopen

\* Dispatch is the abstract Separate.
LEMMA DispatchSeparates ==
    ASSUME DeliveryInv, NEW c \in Consumers, NEW d \in consumer[c].batch, Dispatch(c, d)
    PROVE  d.msg \in Messages /\ Delivery!Separate(d.msg)
<1>1. d.msg \in Messages
  BY DEF DeliveryInv, TypeOK, Consumer, Deliveries
<1>2. work' = work \cup {d.msg} \X Asked[d.msg]
  BY <1>1, SplitIsAsked DEF Dispatch
<1>3. Fate' = Fate /\ transport' = transport
  BY DEF Dispatch, Fate, Acknowledged
<1> QED
  BY <1>1, <1>2, <1>3 DEF Delivery!Separate, Delivery!Parts

\* Both consume loops implement ProvisionDelivery.
THEOREM Implementation == Spec => ImplementsDelivery
<1>1. Init => Delivery!Init
  <2> SUFFICES ASSUME Init
               PROVE  Delivery!Init
    OBVIOUS
  <2>1. \A m \in Messages : queue[m] # "dead" /\ ~Acknowledged(m)
    BY DEF Init, Acknowledged
  <2> QED
    BY <2>1 DEF Init, Fate, Delivery!Init
<1>2. DeliveryInv /\ [Next]_vars => [Delivery!Next]_<<transport, Fate, work>>
  <2> SUFFICES ASSUME DeliveryInv, [Next]_vars
               PROVE  [Delivery!Next]_<<transport, Fate, work>>
    OBVIOUS
  <2>1. CASE committed' < committed
    BY <2>1, RewindReopens DEF Delivery!Next
  <2>2. CASE committed' >= committed /\ work' = work
    BY <2>2, StepSettles DEF Delivery!Next
  <2>3. ASSUME NEW c \in Consumers, NEW d \in consumer[c].batch, Dispatch(c, d)
        PROVE  Delivery!Next
    BY <2>3, DispatchSeparates DEF Delivery!Next
  <2>4. ASSUME work' # work
        PROVE  \E c \in Consumers : \E d \in consumer[c].batch : Dispatch(c, d)
    BY <2>4 DEF Next, Step, Environment, Start, StartFails, Return, ReceiveMessage, ReceiveLost, FetchMessage,
                FetchFails, NotUnderstood, Acknowledge, AcknowledgeFails, Cancel, Kill, Restart, Rejoin,
                VisibilityLapses, DeadLetter, vars
  <2>5. DeliveryInv'
    BY NextDelivery
  <2>6. committed' < committed \/ committed' >= committed
    BY <2>5, TopicHoldsMessages DEF DeliveryInv, TypeOK
  <2> QED
    BY <2>1, <2>2, <2>3, <2>4, <2>6
<1> QED
  BY <1>1, <1>2, Delivered, PTL DEF Spec, ImplementsDelivery, Delivery!Spec


----------------------------------------------------------------------------
(***************************************************************************)
(* The counters.  The equation needs that a batch is finite, that a batch  *)
(* has as many deliveries as the receive handed out messages, and that a   *)
(* process starts with counters at nothing.                                *)
(***************************************************************************)

\* The counters n account for what a loop in state s has received.
Balanced(s, n) ==
    /\ IsFiniteSet(s.batch)
    /\ n.received = n.processed + n.failed + Cardinality(s.batch)
                        + (IF s.stage = "acknowledge" THEN 1 ELSE 0)

CountingInv ==
    \A c \in Consumers :
        /\ consumer[c].stage = "starting" => counted[c] = NothingCounted
        /\ Running(c) => Balanced(consumer[c], counted[c])

\* A batch holds one delivery per message the receive handed out.
LEMMA BatchSizes ==
    ASSUME NEW S \in SUBSET Messages
    PROVE  LET batch == {[msg |-> m, receipt |-> receives[m] + 1] : m \in S}
           IN  IsFiniteSet(batch) /\ Cardinality(batch) = Cardinality(S)
<1> DEFINE batch == {[msg |-> m, receipt |-> receives[m] + 1] : m \in S}
           f == [m \in S |-> [msg |-> m, receipt |-> receives[m] + 1]]
<1>1. f \in Bijection(S, batch)
  BY DEF Bijection, Injection, Surjection, IsInjective
<1>2. ExistsBijection(S, batch)
  BY <1>1 DEF ExistsBijection
<1>3. IsFiniteSet(S)
  BY MessagesFinite, FS_Subset
<1> QED
  BY <1>2, <1>3, FS_Bijection

\* A delivery taken from a batch leaves one less.
LEMMA TakenFromBatch ==
    ASSUME NEW B, NEW d \in B, IsFiniteSet(B)
    PROVE  /\ IsFiniteSet(B \ {d})
           /\ Cardinality(B) \in Nat
           /\ Cardinality(B \ {d}) = Cardinality(B) - 1
  BY FS_RemoveElement, FS_CardinalityType

\* A step of one process leaves the others' books alone.
LEMMA CountingFrame ==
    ASSUME CountingInv, NEW c \in Consumers,
           \A o \in Consumers : o # c => consumer'[o] = consumer[o] /\ counted'[o] = counted[o],
           consumer'[c].stage = "starting" => counted'[c] = NothingCounted,
           Running(c)' => Balanced(consumer'[c], counted'[c])
    PROVE  CountingInv'
  BY DEF CountingInv, Running

\* A step of the code keeps the books balanced.
LEMMA StepCounting ==
    ASSUME TypeOK, CountingInv, NEW c \in Consumers, Step(c)
    PROVE  CountingInv'
<1>0. /\ consumer[c] \in Consumer /\ counted[c] \in Metrics
      /\ Running(c) => Balanced(consumer[c], counted[c])
      /\ Cardinality({}) = 0 /\ IsFiniteSet({})
  BY FS_EmptySet DEF TypeOK, CountingInv
<1>1. CASE Start(c) \/ StartFails(c) \/ Return(c)
  <2>1. /\ \/ consumer' = [consumer EXCEPT ![c] = At("loop")] /\ counted[c] = NothingCounted
           \/ consumer' = [consumer EXCEPT ![c] = At("exited")]
        /\ counted' = counted
    BY <1>1 DEF Start, StartFails, Return, CountingInv
  <2>2. Balanced(At("loop"), NothingCounted)
    BY <1>0 DEF Balanced, At, NothingCounted
  <2>3. CASE consumer' = [consumer EXCEPT ![c] = At("loop")] /\ counted[c] = NothingCounted
    <3>1. consumer'[c] = At("loop") /\ counted'[c] = NothingCounted
      BY <2>1, <2>3 DEF TypeOK
    <3>2. consumer'[c].stage # "starting" /\ Balanced(consumer'[c], counted'[c])
      BY <2>2, <3>1 DEF At
    <3> QED
      BY <2>1, <2>3, <3>2, CountingFrame DEF TypeOK
  <2>4. CASE consumer' = [consumer EXCEPT ![c] = At("exited")]
    <3>1. consumer'[c].stage = "exited"
      BY <2>4 DEF TypeOK, At
    <3> QED
      BY <2>1, <2>4, <3>1, CountingFrame DEF TypeOK, Running
  <2> QED
    BY <2>1, <2>3, <2>4
<1>2. ASSUME NEW S \in SUBSET Messages, ReceiveMessage(c, S)
      PROVE  CountingInv'
  <2> DEFINE batch == {[msg |-> m, receipt |-> receives[m] + 1] : m \in S}
  <2>1. /\ consumer[c].stage = "loop" /\ consumer[c].batch = {}
        /\ consumer' = [consumer EXCEPT ![c] = [consumer[c] EXCEPT !.batch = batch]]
        /\ counted' = [counted EXCEPT ![c]["received"] = @ + Cardinality(S)]
    BY <1>2 DEF ReceiveMessage, Count
  <2>2. IsFiniteSet(batch) /\ Cardinality(batch) = Cardinality(S) /\ Cardinality(S) \in Nat
    BY BatchSizes, FS_CardinalityType
  <2> HIDE DEF batch
  <2>3. consumer'[c].stage = "loop" /\ consumer'[c].batch = batch
    BY <1>0, <2>1 DEF TypeOK, Consumer
  <2>4. /\ counted'[c].received = counted[c].received + Cardinality(S)
        /\ counted'[c].processed = counted[c].processed /\ counted'[c].failed = counted[c].failed
    BY <1>0, <2>1 DEF TypeOK, Metrics
  <2>5. counted[c].received = counted[c].processed + counted[c].failed
    BY <1>0, <2>1 DEF Running, Balanced, Metrics
  <2>6. Balanced(consumer'[c], counted'[c])
    BY <1>0, <2>2, <2>3, <2>4, <2>5 DEF Balanced, Metrics
  <2> QED
    BY <2>1, <2>3, <2>6, CountingFrame DEF TypeOK
<1>3. CASE FetchMessage(c)
  <2> DEFINE batch == {[msg |-> Topic[position + 1], receipt |-> position + 1]}
  <2>1. /\ consumer[c].stage = "loop" /\ consumer[c].batch = {}
        /\ consumer' = [consumer EXCEPT ![c] = [consumer[c] EXCEPT !.batch = batch]]
        /\ counted' = [counted EXCEPT ![c]["received"] = @ + 1]
    BY <1>3 DEF FetchMessage, Count
  <2>2. IsFiniteSet(batch) /\ Cardinality(batch) = 1
    BY FS_Singleton
  <2> HIDE DEF batch
  <2>3. consumer'[c].stage = "loop" /\ consumer'[c].batch = batch
    BY <1>0, <2>1 DEF TypeOK, Consumer
  <2>4. /\ counted'[c].received = counted[c].received + 1
        /\ counted'[c].processed = counted[c].processed /\ counted'[c].failed = counted[c].failed
    BY <1>0, <2>1 DEF TypeOK, Metrics
  <2>5. Balanced(consumer'[c], counted'[c])
    BY <1>0, <2>1, <2>2, <2>3, <2>4 DEF Running, Balanced, Metrics
  <2> QED
    BY <2>1, <2>3, <2>5, CountingFrame DEF TypeOK
<1>4. ASSUME NEW d \in consumer[c].batch, Dispatch(c, d) \/ NotUnderstood(c, d)
      PROVE  CountingInv'
  <2>1. /\ consumer[c].stage = "loop"
        /\ \/ /\ consumer' = [consumer EXCEPT
                    ![c] = [stage |-> "acknowledge", batch |-> consumer[c].batch \ {d}, current |-> d]]
              /\ counted' = counted
           \/ /\ consumer' = [consumer EXCEPT ![c] = [consumer[c] EXCEPT !.batch = consumer[c].batch \ {d}]]
              /\ counted' = [counted EXCEPT ![c]["failed"] = @ + 1]
    BY <1>4 DEF Dispatch, NotUnderstood, Count
  <2>2. /\ IsFiniteSet(consumer[c].batch \ {d})
        /\ Cardinality(consumer[c].batch) \in Nat
        /\ Cardinality(consumer[c].batch \ {d}) = Cardinality(consumer[c].batch) - 1
    BY <1>0, <2>1, TakenFromBatch DEF Running, Balanced
  <2>3. /\ consumer'[c].batch = consumer[c].batch \ {d}
        /\ counted'[c].received = counted[c].received /\ counted'[c].processed = counted[c].processed
        /\ \/ consumer'[c].stage = "acknowledge" /\ counted'[c].failed = counted[c].failed
           \/ consumer'[c].stage = "loop" /\ counted'[c].failed = counted[c].failed + 1
    BY <1>0, <2>1 DEF TypeOK, Consumer, Metrics
  <2>4. counted[c].received = counted[c].processed + counted[c].failed + Cardinality(consumer[c].batch)
    BY <1>0, <2>1, <2>2 DEF Running, Balanced, Metrics
  <2>5. Balanced(consumer'[c], counted'[c])
    BY <1>0, <2>2, <2>3, <2>4 DEF Balanced, Metrics
  <2> QED
    BY <2>1, <2>3, <2>5, CountingFrame DEF TypeOK
<1>5. CASE Acknowledge(c) \/ AcknowledgeFails(c)
  <2>1. /\ consumer[c].stage = "acknowledge"
        /\ consumer' = [consumer EXCEPT ![c] = [consumer[c] EXCEPT !.stage = "loop", !.current = NoDelivery]]
        /\ \/ counted' = [counted EXCEPT ![c]["processed"] = @ + 1]
           \/ counted' = [counted EXCEPT ![c]["failed"] = @ + 1]
    BY <1>5 DEF Acknowledge, AcknowledgeFails, NextMessage, Count
  <2>2. /\ IsFiniteSet(consumer[c].batch)
        /\ Cardinality(consumer[c].batch) \in Nat
        /\ counted[c].received = counted[c].processed + counted[c].failed + Cardinality(consumer[c].batch) + 1
    BY <1>0, <2>1, FS_CardinalityType DEF Running, Balanced
  <2>3. consumer'[c].stage = "loop" /\ consumer'[c].batch = consumer[c].batch
    BY <1>0, <2>1 DEF TypeOK, Consumer
  <2>4. /\ counted'[c].received = counted[c].received
        /\ \/ counted'[c].processed = counted[c].processed + 1 /\ counted'[c].failed = counted[c].failed
           \/ counted'[c].processed = counted[c].processed /\ counted'[c].failed = counted[c].failed + 1
    BY <1>0, <2>1 DEF TypeOK, Metrics
  <2>5. Balanced(consumer'[c], counted'[c])
    BY <1>0, <2>2, <2>3, <2>4 DEF Balanced, Metrics
  <2> QED
    BY <2>1, <2>3, <2>5, CountingFrame DEF TypeOK
<1>6. CASE FetchFails(c) \/ \E S \in SUBSET Messages : ReceiveLost(c, S)
  BY <1>6 DEF FetchFails, ReceiveLost, vars, CountingInv, Running
<1> QED
  BY <1>1, <1>2, <1>3, <1>4, <1>5, <1>6 DEF Step

\* The counters of a process account for every message it received.
THEOREM CountersAreAccounted == Spec => []ReceivedIsAccounted
<1>1. Init => CountingInv
  BY DEF Init, CountingInv, Running, At
<1>2. TypeOK /\ CountingInv /\ [Next]_vars => CountingInv'
  <2> SUFFICES ASSUME TypeOK, CountingInv, [Next]_vars
               PROVE  CountingInv'
    OBVIOUS
  <2>1. ASSUME NEW c \in Consumers, Kill(c) \/ Restart(c)
        PROVE  CountingInv'
    <3>1. /\ consumer' = [consumer EXCEPT ![c] = At("exited")] /\ counted' = counted
          \/ /\ consumer' = [consumer EXCEPT ![c] = At("starting")]
             /\ counted' = [counted EXCEPT ![c] = NothingCounted]
      BY <2>1 DEF Kill, Restart
    <3> QED
      BY <3>1, CountingFrame DEF TypeOK, Running, At
  <2>2. ASSUME UNCHANGED <<consumer, counted>>
        PROVE  CountingInv'
    BY <2>2 DEF CountingInv, Running
  <2>3. ASSUME NEW c \in Consumers, Cancel(c) \/ Rejoin(c)
        PROVE  CountingInv'
    BY <2>2, <2>3 DEF Cancel, Rejoin
  <2>4. ASSUME NEW m \in Messages, VisibilityLapses(m) \/ DeadLetter(m)
        PROVE  CountingInv'
    BY <2>2, <2>4 DEF VisibilityLapses, DeadLetter
  <2>5. CASE UNCHANGED vars
    BY <2>2, <2>5 DEF vars
  <2> QED
    BY <2>1, <2>3, <2>4, <2>5, StepCounting DEF Next, Environment
<1>3. CountingInv => ReceivedIsAccounted
  BY DEF CountingInv, ReceivedIsAccounted, Balanced
<1> QED
  BY <1>1, <1>2, <1>3, TypeCorrect, PTL DEF Spec

----------------------------------------------------------------------------
(***************************************************************************)
(* Where KeptUntilUnderstood, which does not hold of the Kafka loop, is    *)
(* true, and what is left of it over Kafka.                                *)
(***************************************************************************)

SqsKeepsUntilUnderstood == transport = "sqs" => KeptUntilUnderstood

\* The SQS loop acknowledges nothing it did not understand: such a message can only
\* end on the dead-letter queue.
THEOREM SqsKeeps == Spec => []SqsKeepsUntilUnderstood
<1>1. AcknowledgedWasSplit => SqsKeepsUntilUnderstood
  <2> SUFFICES ASSUME AcknowledgedWasSplit, transport = "sqs", NEW m \in Messages, Acknowledged(m)
               PROVE  Understood(m)
    BY DEF SqsKeepsUntilUnderstood, KeptUntilUnderstood
  <2>1. Asked[m] # {}
    BY DEF AcknowledgedWasSplit
  <2> QED
    BY <2>1, SplitIsAsked
<1> QED
  BY <1>1, SplitBeforeAcknowledged, PTL

=============================================================================
