------------------------ MODULE ProvisionerConsumer ------------------------
(***************************************************************************)
(* The provisioner's consume loops: main.go chooses SQS or Kafka, the loop *)
(* of sqs.go or kafka.go receives, Dispatch parses and separates a         *)
(* request, and the loop deletes the message or commits its offset.        *)
(*                                                                         *)
(* SQS and Kafka are external.  An SQS message is invisible for a while    *)
(* after each delivery and dead-lettered after MaxReceive of them.  Kafka  *)
(* keeps one offset for the group.  A reader starts from it and moves on   *)
(* whether or not its commits succeed, until its generation of the group   *)
(* ends: the client then re-joins and reads again from the group's offset, *)
(* in the same process and unseen by the loop.  A rollout lets two pods    *)
(* poll the queue; local development runs one Kafka reader at a time.      *)
(*                                                                         *)
(* work is what the halves handed on by Dispatch amount to; the code logs  *)
(* them where the StartExecution calls belong.                             *)
(***************************************************************************)
EXTENDS Integers, FiniteSets, Sequences

CONSTANTS
    Consumers,
    Messages,
    Body,            \* what each message carries
    Topic,           \* Kafka: the messages in the order they were published
    MaxReceive,      \* SQS: maxReceiveCount of the redrive policy
    BatchSize,       \* SQS: MaxNumberOfMessages of a receive
    MaxDisruptions,  \* bound on cancellations, kills, failed starts and re-joins
    None

\* The fields Parse insists on.
Required == {"request_id", "name", "template"}

\* A body that is no JSON fills no field.
Bodies == [filled : SUBSET Required, resources : Nat]

ASSUME BodiesKnown == Body \in [Messages -> Bodies]
ASSUME TopicHoldsMessages ==
    /\ Topic \in Seq(Messages)
    /\ \A m \in Messages : \E i \in 1..Len(Topic) : Topic[i] = m
    /\ \A i, j \in 1..Len(Topic) : Topic[i] = Topic[j] => i = j
ASSUME LimitsPositive == MaxReceive \in Nat \ {0} /\ BatchSize \in Nat \ {0} /\ MaxDisruptions \in Nat
ASSUME MessagesFinite == IsFiniteSet(Messages)
ASSUME NoneDistinct == None \notin Messages

VARIABLES
    transport,    \* the loop main.go chose
    queue,        \* SQS: where each message is
    receives,     \* SQS: its ApproximateReceiveCount
    committed,    \* Kafka: the group's offset, the number of messages behind it
    position,     \* Kafka: the reader's position
    generation,   \* Kafka: the reader's generation of the group, its process's "first" or a "later" one
    consumer,     \* the loop of each process
    cancelled,    \* processes whose root context is cancelled
    counted,      \* the counters each process reports
    work,
    disruptions

broker == <<queue, receives, committed, position, generation>>
vars == <<transport, queue, receives, committed, position, generation, consumer, cancelled, counted, work, disruptions>>

----------------------------------------------------------------------------
(* Values *)

\* One delivery; receipt is the receive it came from, or its offset plus one.
Deliveries == [msg : Messages, receipt : Nat]
NoDelivery == [msg |-> None, receipt |-> 0]

\* acknowledge: the message in hand has been dispatched and is to be deleted or
\* committed.  exited: the process has ended.
Stages == {"starting", "loop", "acknowledge", "exited"}

Consumer == [stage : Stages, batch : SUBSET Deliveries, current : Deliveries \cup {NoDelivery}]

At(stage) == [stage |-> stage, batch |-> {}, current |-> NoDelivery]

Running(c) == consumer[c].stage \in {"loop", "acknowledge"}

Metrics == [received : Nat, processed : Nat, failed : Nat]

NothingCounted == [received |-> 0, processed |-> 0, failed |-> 0]

Count(c, counter, n) == counted' = [counted EXCEPT ![c][counter] = @ + n]

----------------------------------------------------------------------------
(* Parse, Split and HasWork *)

Missing(m) == Required \ Body[m].filled

Understood(m) == Missing(m) = {}

\* Mutant: an off-by-one in HasWork.
HasWorkOffByOne(m) == Body[m].resources > 1

HasWork(m) == Body[m].resources > 0

Split(m) == {"scaffold"} \cup IF HasWork(m) THEN {"infra"} ELSE {}

----------------------------------------------------------------------------
(* main: starting a process *)

\* Mutant: the reader of a new process starts at the end of the topic.
StartAtLatest(c) ==
    /\ consumer[c].stage = "starting"
    /\ transport = "kafka" => \A o \in Consumers : ~Running(o)
    /\ consumer' = [consumer EXCEPT ![c] = At("loop")]
    /\ position' = Len(Topic) /\ generation' = "first"
    /\ UNCHANGED <<transport, queue, receives, committed, cancelled, counted, work, disruptions>>

\* runSQS has the queue's URL, or RunKafka its reader.
Start(c) ==
    /\ consumer[c].stage = "starting"
    /\ transport = "kafka" => \A o \in Consumers : ~Running(o)
    /\ consumer' = [consumer EXCEPT ![c] = At("loop")]
    /\ position' = committed /\ generation' = "first"
    /\ UNCHANGED <<transport, queue, receives, committed, cancelled, counted, work, disruptions>>

\* The process ends before it polls: telemetry, the AWS configuration or the queue's URL
\* is not available, or SIGTERM comes first.
StartFails(c) ==
    /\ consumer[c].stage = "starting"
    /\ disruptions < MaxDisruptions
    /\ disruptions' = disruptions + 1
    /\ consumer' = [consumer EXCEPT ![c] = At("exited")]
    /\ UNCHANGED <<transport, queue, receives, committed, position, generation, cancelled, counted, work>>

\* The loop notices the cancellation where it would receive again.
Return(c) ==
    /\ consumer[c].stage = "loop" /\ consumer[c].batch = {} /\ c \in cancelled
    /\ consumer' = [consumer EXCEPT ![c] = At("exited")]
    /\ UNCHANGED <<transport, queue, receives, committed, position, generation, cancelled, counted, work, disruptions>>

----------------------------------------------------------------------------
(* Receiving *)

Receivable == {m \in Messages : queue[m] = "visible" /\ receives[m] < MaxReceive}

\* SQS hands out the messages of S and hides them.
Deliver(S) ==
    /\ S \subseteq Receivable /\ Cardinality(S) <= BatchSize
    /\ queue' = [m \in Messages |-> IF m \in S THEN "invisible" ELSE queue[m]]
    /\ receives' = [m \in Messages |-> IF m \in S THEN receives[m] + 1 ELSE receives[m]]

\* ReceiveMessage returns a batch.
ReceiveMessage(c, S) ==
    /\ transport = "sqs" /\ c \notin cancelled
    /\ consumer[c].stage = "loop" /\ consumer[c].batch = {}
    /\ Deliver(S)
    /\ consumer' = [consumer EXCEPT ![c].batch = {[msg |-> m, receipt |-> receives[m] + 1] : m \in S}]
    /\ Count(c, "received", Cardinality(S))
    /\ UNCHANGED <<transport, committed, position, generation, cancelled, work, disruptions>>

\* The batch is handed out but the call fails or is cancelled while it waits: the
\* loop polls again, or ends.
ReceiveLost(c, S) ==
    /\ transport = "sqs"
    /\ consumer[c].stage = "loop" /\ consumer[c].batch = {}
    /\ Deliver(S)
    /\ UNCHANGED <<transport, committed, position, generation, consumer, cancelled, counted, work, disruptions>>

\* FetchMessage fails: the loop tries again, or ends.
FetchFails(c) ==
    /\ transport = "kafka"
    /\ consumer[c].stage = "loop" /\ consumer[c].batch = {}
    /\ UNCHANGED vars

\* Mutant: the loop fetches on while messages are in hand, and handles them in any order.
FetchAhead(c) ==
    /\ transport = "kafka" /\ c \notin cancelled
    /\ consumer[c].stage = "loop"
    /\ position < Len(Topic)
    /\ position' = position + 1
    /\ consumer' = [consumer EXCEPT
          ![c].batch = @ \cup {[msg |-> Topic[position + 1], receipt |-> position + 1]}]
    /\ Count(c, "received", 1)
    /\ UNCHANGED <<transport, queue, receives, committed, generation, cancelled, work, disruptions>>

\* FetchMessage returns the message at the reader's position and moves on.
FetchMessage(c) ==
    /\ transport = "kafka" /\ c \notin cancelled
    /\ consumer[c].stage = "loop" /\ consumer[c].batch = {}
    /\ position < Len(Topic)
    /\ position' = position + 1
    /\ consumer' = [consumer EXCEPT
          ![c].batch = {[msg |-> Topic[position + 1], receipt |-> position + 1]}]
    /\ Count(c, "received", 1)
    /\ UNCHANGED <<transport, queue, receives, committed, generation, cancelled, work, disruptions>>

----------------------------------------------------------------------------
(* Handling one message: Dispatch, then DeleteMessage or CommitMessages *)

\* A request that is understood is separated and goes on to be acknowledged.
Dispatch(c, d) ==
    /\ consumer[c].stage = "loop" /\ d \in consumer[c].batch
    /\ Understood(d.msg)
    /\ consumer' = [consumer EXCEPT
          ![c] = [stage |-> "acknowledge", batch |-> @.batch \ {d}, current |-> d]]
    /\ work' = work \cup {d.msg} \X Split(d.msg)
    /\ UNCHANGED <<transport, queue, receives, committed, position, generation, cancelled, counted, disruptions>>

\* Mutant: RunSQS deletes a message Dispatch cannot understand, as it once did.
NotUnderstoodDeletes(c, d) ==
    /\ consumer[c].stage = "loop" /\ d \in consumer[c].batch
    /\ ~Understood(d.msg)
    /\ consumer' = [consumer EXCEPT
          ![c] = [stage |-> "acknowledge", batch |-> @.batch \ {d}, current |-> d]]
    /\ UNCHANGED <<transport, queue, receives, committed, position, generation, cancelled, counted, work, disruptions>>

\* One that is not: RunSQS leaves it on the queue, RunKafka goes on to commit it.
NotUnderstood(c, d) ==
    /\ consumer[c].stage = "loop" /\ d \in consumer[c].batch
    /\ ~Understood(d.msg)
    /\ IF transport = "sqs"
       THEN /\ consumer' = [consumer EXCEPT ![c].batch = @ \ {d}]
            /\ Count(c, "failed", 1)
       ELSE /\ consumer' = [consumer EXCEPT
                  ![c] = [stage |-> "acknowledge", batch |-> @.batch \ {d}, current |-> d]]
            /\ UNCHANGED counted
    /\ UNCHANGED <<transport, queue, receives, committed, position, generation, cancelled, work, disruptions>>

\* What DeleteMessage does to the queue: the newest receipt removes the message, an
\* older one may or may not, and the dead-letter queue is out of its reach.
ApplyDelete(d) ==
    /\ \/ /\ queue[d.msg] \in {"visible", "invisible"}
          /\ queue' = [queue EXCEPT ![d.msg] = "deleted"]
       \/ /\ queue[d.msg] \in {"deleted", "dead"} \/ d.receipt < receives[d.msg]
          /\ UNCHANGED queue
    /\ UNCHANGED committed

\* What CommitMessages does to the group's offset.
ApplyCommit(d) ==
    /\ committed' = d.receipt
    /\ UNCHANGED queue

ApplyAcknowledge(d) ==
    IF transport = "sqs" THEN ApplyDelete(d) ELSE ApplyCommit(d)

\* Mutant: the message just handled is not forgotten.
NextMessageKeeps(c) == consumer' = [consumer EXCEPT ![c].stage = "loop"]

\* On to the next message.
NextMessage(c) == consumer' = [consumer EXCEPT ![c].stage = "loop", ![c].current = NoDelivery]

\* The call runs under the process's context.  Once that is cancelled no request is
\* sent to SQS; the Kafka client may still hand the commit on.
MayTakeEffect(c) == c \notin cancelled \/ transport = "kafka"

\* The call succeeds.
Acknowledge(c) ==
    /\ consumer[c].stage = "acknowledge" /\ MayTakeEffect(c)
    /\ ApplyAcknowledge(consumer[c].current)
    /\ NextMessage(c)
    /\ Count(c, "processed", 1)
    /\ UNCHANGED <<transport, receives, position, generation, cancelled, work, disruptions>>

\* Mutant: a failed acknowledgement is not counted.
AcknowledgeFailsUncounted(c) ==
    /\ consumer[c].stage = "acknowledge"
    /\ NextMessage(c)
    /\ UNCHANGED <<transport, queue, receives, committed, position, generation, cancelled, counted, work, disruptions>>

\* The call fails, before or after it took effect; the loop goes on.  Kafka refuses the
\* commits of a generation that has ended; what that does to the reader is Rejoin.
AcknowledgeFails(c) ==
    /\ consumer[c].stage = "acknowledge"
    /\ \/ UNCHANGED <<queue, committed>>
       \/ MayTakeEffect(c) /\ ApplyAcknowledge(consumer[c].current)
    /\ NextMessage(c)
    /\ Count(c, "failed", 1)
    /\ UNCHANGED <<transport, receives, position, generation, cancelled, work, disruptions>>

----------------------------------------------------------------------------
(* Kubernetes and SQS *)

\* SIGTERM cancels the root context.
Cancel(c) ==
    /\ Running(c) /\ c \notin cancelled
    /\ disruptions < MaxDisruptions
    /\ disruptions' = disruptions + 1
    /\ cancelled' = cancelled \cup {c}
    /\ UNCHANGED <<transport, queue, receives, committed, position, generation, consumer, counted, work>>

\* The process dies with messages in hand.
Kill(c) ==
    /\ Running(c)
    /\ disruptions < MaxDisruptions
    /\ disruptions' = disruptions + 1
    /\ consumer' = [consumer EXCEPT ![c] = At("exited")]
    /\ UNCHANGED <<transport, queue, receives, committed, position, generation, cancelled, counted, work>>

\* A new process takes the place of one that ended; its counters start from nothing.
Restart(c) ==
    /\ consumer[c].stage = "exited"
    /\ consumer' = [consumer EXCEPT ![c] = At("starting")]
    /\ cancelled' = cancelled \ {c}
    /\ counted' = [counted EXCEPT ![c] = NothingCounted]
    /\ UNCHANGED <<transport, queue, receives, committed, position, generation, work, disruptions>>

\* The reader's generation ends, through a rebalance or missed heartbeats, and the client
\* subscribes again at the group's offset.  The message in hand stays in hand, and its
\* commit goes to the new generation.
Rejoin(c) ==
    /\ transport = "kafka" /\ Running(c)
    /\ disruptions < MaxDisruptions
    /\ disruptions' = disruptions + 1
    /\ position' = committed /\ generation' = "later"
    /\ UNCHANGED <<transport, queue, receives, committed, consumer, cancelled, counted, work>>

VisibilityLapses(m) ==
    /\ queue[m] = "invisible"
    /\ queue' = [queue EXCEPT ![m] = "visible"]
    /\ UNCHANGED <<transport, receives, committed, position, generation, consumer, cancelled, counted, work, disruptions>>

\* Mutant: the queue has no redrive policy.
NoRedrive(m) ==
    /\ FALSE
    /\ UNCHANGED vars

\* The redrive policy takes a message whose deliveries are used up.
DeadLetter(m) ==
    /\ queue[m] = "visible" /\ receives[m] = MaxReceive
    /\ queue' = [queue EXCEPT ![m] = "dead"]
    /\ UNCHANGED <<transport, receives, committed, position, generation, consumer, cancelled, counted, work, disruptions>>

----------------------------------------------------------------------------
Init ==
    /\ transport \in {"sqs", "kafka"}
    /\ queue = [m \in Messages |-> IF transport = "sqs" THEN "visible" ELSE "unused"]
    /\ receives = [m \in Messages |-> 0]
    /\ committed = 0
    /\ position = 0
    /\ generation = "first"
    /\ consumer = [c \in Consumers |-> At("starting")]
    /\ cancelled = {}
    /\ counted = [c \in Consumers |-> NothingCounted]
    /\ work = {}
    /\ disruptions = 0

\* One step of the provisioner's code.
Step(c) ==
    \/ Start(c)
    \/ StartFails(c)
    \/ Return(c)
    \/ \E S \in SUBSET Messages : ReceiveMessage(c, S)
    \/ \E S \in SUBSET Messages : ReceiveLost(c, S)
    \/ FetchMessage(c)
    \/ FetchFails(c)
    \/ \E d \in consumer[c].batch : Dispatch(c, d)
    \/ \E d \in consumer[c].batch : NotUnderstood(c, d)
    \/ Acknowledge(c)
    \/ AcknowledgeFails(c)

Environment ==
    \/ \E c \in Consumers : Cancel(c) \/ Kill(c) \/ Restart(c) \/ Rejoin(c)
    \/ \E m \in Messages : VisibilityLapses(m) \/ DeadLetter(m)

Next == Environment \/ \E c \in Consumers : Step(c)

Spec == Init /\ [][Next]_vars

\* A loop keeps running while its process lives, an ended process is replaced, and SQS
\* lets visibility timeouts lapse and applies the redrive policy.
FairSpec ==
    /\ Spec
    /\ \A c \in Consumers : WF_vars(Step(c)) /\ WF_vars(Restart(c))
    /\ \A m \in Messages : WF_vars(VisibilityLapses(m)) /\ WF_vars(DeadLetter(m))

----------------------------------------------------------------------------
(* Properties *)

TypeOK ==
    /\ transport \in {"sqs", "kafka"}
    /\ queue \in [Messages -> {"unused", "visible", "invisible", "deleted", "dead"}]
    /\ receives \in [Messages -> 0..MaxReceive]
    /\ committed \in 0..Len(Topic)
    /\ position \in 0..Len(Topic)
    /\ generation \in {"first", "later"}
    /\ consumer \in [Consumers -> Consumer]
    /\ cancelled \subseteq Consumers
    /\ counted \in [Consumers -> Metrics]
    /\ work \subseteq Messages \X {"scaffold", "infra"}
    /\ disruptions \in 0..MaxDisruptions
    /\ \A c \in Consumers : consumer[c].stage = "acknowledge" <=> consumer[c].current # NoDelivery

\* A message the broker will not deliver again because a consumer acknowledged it.
Acknowledged(m) ==
    \/ queue[m] = "deleted"
    \/ transport = "kafka" /\ \E i \in 1..committed : Topic[i] = m

\* The halves a request's body asks for.
Asked == [m \in Messages |->
    IF Body[m].filled # Required THEN {}
    ELSE {"scaffold"} \cup IF Body[m].resources = 0 THEN {} ELSE {"infra"}]

\* A request leaves the broker only after every half its body asks for was handed on,
\* and SQS keeps what was not understood, however deliveries, failed acknowledgements,
\* shutdowns and restarts overlap.
AcknowledgedWasSplit ==
    \A m \in Messages : Acknowledged(m) =>
        /\ {m} \X Asked[m] \subseteq work
        /\ transport = "sqs" => Asked[m] # {}

\* The counters of a process account for each message it received: processed, failed,
\* or still in hand, on every path through the loop.
ReceivedIsAccounted ==
    \A c \in Consumers : Running(c) =>
        counted[c].received = counted[c].processed + counted[c].failed
            + Cardinality(consumer[c].batch) + (IF consumer[c].stage = "acknowledge" THEN 1 ELSE 0)

\* The loop commits in the order it fetches, through failed commits, kills and restarts:
\* the group's offset moves back only when a commit of this process was overtaken by a
\* re-join.
OffsetRewindsOnlyAfterRejoin == [][committed' >= committed \/ generation = "later"]_vars

\* What became of each message.  One that Kafka has moved past without understanding
\* it counts as set aside: it stays in the topic.
Fate == [m \in Messages |->
    IF queue[m] = "dead" THEN "aside"
    ELSE IF ~Acknowledged(m) THEN "pending"
    ELSE IF transport = "kafka" /\ Asked[m] = {} THEN "aside"
    ELSE "acknowledged"]

Delivery == INSTANCE ProvisionDelivery WITH Halves <- Asked, fate <- Fate

\* Both loops keep the promise of ProvisionDelivery, with any overlap of deliveries,
\* shutdowns, re-joins and restarts: an acknowledged request was separated, and what
\* has left the SQS queue never comes back.
ImplementsDelivery == Delivery!Spec

\* Every request that is understood is carried out or dead-lettered in the end, over
\* either transport.
RequestsCarriedOut ==
    \A m \in Messages : Asked[m] # {} => <>({m} \X Asked[m] \subseteq work \/ queue[m] = "dead")

\* Every message leaves the SQS queue in the end.
QueueDrains == transport = "sqs" => \A m \in Messages : <>(queue[m] \in {"deleted", "dead"})

\* What kafka.go says of its loop, that it mirrors the SQS semantics: a message is
\* acknowledged only if it was understood.
KeptUntilUnderstood == \A m \in Messages : Acknowledged(m) => Understood(m)

=============================================================================
