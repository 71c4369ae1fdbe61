-------------------------- MODULE TaskQueueWorker --------------------------
(***************************************************************************)
(* The scaffolder's worker loop (TaskQueueWorker.cs with TaskDispatcher.cs *)
(* and the task adapter of IScaffoldTask.cs), between the SQS task queue   *)
(* it polls and the Step Functions task tokens it answers.                 *)
(*                                                                         *)
(* SQS and Step Functions are external: a message that is received becomes *)
(* invisible until its visibility timeout lapses, at any time, also while  *)
(* it is still being handled; after MaxReceive deliveries it moves to the  *)
(* dead-letter queue; a token can be answered once, and not after the      *)
(* state machine gave up on it.  Several pods poll one queue whenever a    *)
(* rollout overlaps.  What a task does is left open: it succeeds, reports  *)
(* a domain error or throws.                                               *)
(*                                                                         *)
(* handled is a ghost variable: the deliveries dispatched so far.          *)
(***************************************************************************)
EXTENDS Integers, FiniteSets

CONSTANTS
    Pods,
    Messages,
    Kind,            \* what each message carries
    MaxReceive,      \* maxReceiveCount of the redrive policy
    BatchSize,       \* MaxNumberOfMessages of a receive
    MaxDisruptions,  \* bound on shutdowns, kills and fatal receives
    None

\* malformed: no JSON, a null envelope or no task token.  unservable: no handler for
\* the task, or a payload it cannot use.  task: anything else.
Kinds == {"malformed", "unservable", "task"}

ASSUME KindsKnown == Kind \in [Messages -> Kinds]
ASSUME LimitsPositive == MaxReceive \in Nat \ {0} /\ BatchSize \in Nat \ {0} /\ MaxDisruptions \in Nat

VARIABLES
    queue,        \* SQS: where each message is
    receives,     \* SQS: its ApproximateReceiveCount
    token,        \* Step Functions: the task token it carries
    pod,          \* the worker loop of each pod
    stopping,     \* pods whose stoppingToken is cancelled
    disruptions,
    handled

vars == <<queue, receives, token, pod, stopping, disruptions, handled>>

----------------------------------------------------------------------------
(* Values *)

\* One delivery of a message; receipt stands for its ReceiptHandle.
Deliveries == [msg : Messages, receipt : 1..MaxReceive]

NoDelivery == [msg |-> None, receipt |-> 0]

ASSUME NoDeliveryDistinct == None \notin Messages

\* Where the loop is: resolving the queue URL, in the while loop, or at one of the
\* awaits of HandleAsync and FailAsync.  deleteDone and deleteFailed are the two
\* call sites of DeleteAsync.
Reporting == {"succeed", "fail"}
Deleting == {"deleteDone", "deleteFailed"}
Stages == {"starting", "loop", "dispatch", "stopped"} \cup Reporting \cup Deleting

Pod == [stage : Stages, batch : SUBSET Deliveries, current : Deliveries \cup {NoDelivery}]

Stopped == [stage |-> "stopped", batch |-> {}, current |-> NoDelivery]

Answered == {"succeeded", "failed"}

MsgOf(p) == pod[p].current.msg

Goto(p, stage) == pod' = [pod EXCEPT ![p].stage = stage]

\* Mutant: the message just handled is not forgotten.
NextMessageKeeps(p) == Goto(p, "loop")

\* HandleAsync returns: on to the next message.
NextMessage(p) == pod' = [pod EXCEPT ![p].stage = "loop", ![p].current = NoDelivery]

\* An exception leaves ExecuteAsync and stops the host; what it held is forgotten.
HostStops(p) == pod' = [pod EXCEPT ![p] = Stopped]

----------------------------------------------------------------------------
(* ExecuteAsync *)

\* ResolveQueueUrlAsync retries until it has the queue's URL.
Resolve(p) ==
    /\ pod[p].stage = "starting"
    /\ Goto(p, "loop")
    /\ UNCHANGED <<queue, receives, token, stopping, disruptions, handled>>

Receivable == {m \in Messages : queue[m] = "visible" /\ receives[m] < MaxReceive}

\* SQS hands out the messages of S, possibly none, and hides them.
Deliver(S) ==
    /\ S \subseteq Receivable /\ Cardinality(S) <= BatchSize
    /\ queue' = [m \in Messages |-> IF m \in S THEN "invisible" ELSE queue[m]]
    /\ receives' = [m \in Messages |-> IF m \in S THEN receives[m] + 1 ELSE receives[m]]

\* ReceiveMessageAsync returns a batch.
Receive(p, S) ==
    /\ pod[p].stage = "loop" /\ pod[p].batch = {} /\ p \notin stopping
    /\ Deliver(S)
    /\ pod' = [pod EXCEPT ![p].batch = {[msg |-> m, receipt |-> receives[m] + 1] : m \in S}]
    /\ UNCHANGED <<token, stopping, disruptions, handled>>

\* The batch is handed out but the call ends in an AmazonSQSException (backoff and
\* retry) or is cancelled by the shutdown: the messages stay invisible for now.
ReceiveLost(p, S) ==
    /\ pod[p].stage = "loop" /\ pod[p].batch = {}
    /\ Deliver(S)
    /\ UNCHANGED <<token, pod, stopping, disruptions, handled>>

\* Any other exception of ReceiveMessageAsync is not caught (the catch clauses name
\* AmazonSQSException and the shutdown only): the host stops.
ReceiveThrows(p) ==
    /\ pod[p].stage = "loop" /\ pod[p].batch = {}
    /\ disruptions < MaxDisruptions
    /\ disruptions' = disruptions + 1
    /\ HostStops(p)
    /\ UNCHANGED <<queue, receives, token, stopping, handled>>

\* A shutdown is noticed between two messages; the rest of the batch is dropped.
Exit(p) ==
    /\ pod[p].stage \in {"starting", "loop"} /\ p \in stopping
    /\ HostStops(p)
    /\ UNCHANGED <<queue, receives, token, stopping, disruptions, handled>>

----------------------------------------------------------------------------
(* HandleAsync *)

\* No envelope or no token: left on the queue for the dead-letter queue.
Skip(p, d) ==
    /\ pod[p].stage = "loop" /\ p \notin stopping
    /\ d \in pod[p].batch /\ Kind[d.msg] = "malformed"
    /\ pod' = [pod EXCEPT ![p].batch = @ \ {d}]
    /\ UNCHANGED <<queue, receives, token, stopping, disruptions, handled>>

\* Mutant: a delivery is taken up but stays in the batch.
DispatchKeeps(p, d) ==
    /\ pod[p].stage = "loop" /\ p \notin stopping
    /\ d \in pod[p].batch /\ Kind[d.msg] # "malformed"
    /\ pod' = [pod EXCEPT ![p].stage = "dispatch", ![p].current = d]
    /\ handled' = handled \cup {d}
    /\ UNCHANGED <<queue, receives, token, stopping, disruptions>>

\* The envelope is well formed and goes to the dispatcher.
Dispatch(p, d) ==
    /\ pod[p].stage = "loop" /\ p \notin stopping
    /\ d \in pod[p].batch /\ Kind[d.msg] # "malformed"
    /\ pod' = [pod EXCEPT ![p] = [stage |-> "dispatch", batch |-> @.batch \ {d}, current |-> d]]
    /\ handled' = handled \cup {d}
    /\ UNCHANGED <<queue, receives, token, stopping, disruptions>>

\* The use case returns a result.
TaskSucceeds(p) ==
    /\ pod[p].stage = "dispatch"
    /\ Kind[MsgOf(p)] = "task"
    /\ Goto(p, "succeed")
    /\ UNCHANGED <<queue, receives, token, stopping, disruptions, handled>>

\* ScaffolderException, UnknownScaffolderTaskException or JsonException: an outcome
\* to report.
TaskFails(p) ==
    /\ pod[p].stage = "dispatch"
    /\ Goto(p, "fail")
    /\ UNCHANGED <<queue, receives, token, stopping, disruptions, handled>>

\* Mutant: a task that threw is deleted like one that was reported.
TaskThrowsDeletes(p) ==
    /\ pod[p].stage = "dispatch"
    /\ Goto(p, "deleteDone")
    /\ UNCHANGED <<queue, receives, token, stopping, disruptions, handled>>

\* Any other exception, or the shutdown's cancellation: left for redelivery.
TaskThrows(p) ==
    /\ pod[p].stage = "dispatch"
    /\ NextMessage(p)
    /\ UNCHANGED <<queue, receives, token, stopping, disruptions, handled>>

\* SendTaskSuccessAsync and SendTaskFailureAsync reach a token that still waits.
Report(p) ==
    /\ pod[p].stage \in Reporting
    /\ token[MsgOf(p)] = "waiting"
    /\ token' = [token EXCEPT ![MsgOf(p)] = IF pod[p].stage = "succeed" THEN "succeeded" ELSE "failed"]
    /\ Goto(p, IF pod[p].stage = "succeed" THEN "deleteDone" ELSE "deleteFailed")
    /\ UNCHANGED <<queue, receives, stopping, disruptions, handled>>

\* Mutant: a report that is refused counts as delivered.
ReportRefusedDeletes(p) ==
    /\ pod[p].stage \in Reporting
    /\ token[MsgOf(p)] # "waiting"
    /\ Goto(p, "deleteDone")
    /\ UNCHANGED <<queue, receives, token, stopping, disruptions, handled>>

\* The token timed out or was answered before: the exception is caught (in
\* HandleAsync or FailAsync) and the message is left for redelivery.
ReportRefused(p) ==
    /\ pod[p].stage \in Reporting
    /\ token[MsgOf(p)] # "waiting"
    /\ NextMessage(p)
    /\ UNCHANGED <<queue, receives, token, stopping, disruptions, handled>>

\* The call fails or is cancelled, before or after the token was answered: the
\* message is left likewise.
ReportLost(p, applied) ==
    /\ pod[p].stage \in Reporting
    /\ token' = IF applied /\ token[MsgOf(p)] = "waiting"
                THEN [token EXCEPT ![MsgOf(p)] = IF pod[p].stage = "succeed" THEN "succeeded" ELSE "failed"]
                ELSE token
    /\ NextMessage(p)
    /\ UNCHANGED <<queue, receives, stopping, disruptions, handled>>

\* What DeleteMessage does to the queue: the newest receipt removes the message, an
\* older one may or may not, and the dead-letter queue is out of its reach.
ApplyDelete(p) ==
    LET m == MsgOf(p)
    IN  \/ /\ queue[m] \in {"visible", "invisible"}
           /\ queue' = [queue EXCEPT ![m] = "deleted"]
        \/ /\ queue[m] \in {"deleted", "dead"} \/ pod[p].current.receipt < receives[m]
           /\ UNCHANGED queue

\* DeleteMessageAsync succeeds.
Delete(p) ==
    /\ pod[p].stage \in Deleting
    /\ ApplyDelete(p)
    /\ NextMessage(p)
    /\ UNCHANGED <<receives, token, stopping, disruptions, handled>>

\* DeleteMessageAsync throws, before or after it took effect.  After a success the
\* try of HandleAsync catches it; after a failure report DeleteAsync runs in a catch
\* block and outside FailAsync's try, so the exception leaves ExecuteAsync.
DeleteThrows(p) ==
    /\ pod[p].stage \in Deleting
    /\ UNCHANGED queue \/ ApplyDelete(p)
    /\ IF pod[p].stage = "deleteDone" THEN NextMessage(p) ELSE HostStops(p)
    /\ UNCHANGED <<receives, token, stopping, disruptions, handled>>

----------------------------------------------------------------------------
(* Kubernetes, SQS and Step Functions *)

\* SIGTERM cancels stoppingToken.
Shutdown(p) ==
    /\ pod[p].stage # "stopped" /\ p \notin stopping
    /\ disruptions < MaxDisruptions
    /\ disruptions' = disruptions + 1
    /\ stopping' = stopping \cup {p}
    /\ UNCHANGED <<queue, receives, token, pod, handled>>

\* The pod dies, or its grace period ends, with a message in hand.
Kill(p) ==
    /\ pod[p].stage # "stopped"
    /\ disruptions < MaxDisruptions
    /\ disruptions' = disruptions + 1
    /\ HostStops(p)
    /\ UNCHANGED <<queue, receives, token, stopping, handled>>

\* The Deployment starts a new pod.
Restart(p) ==
    /\ pod[p].stage = "stopped"
    /\ pod' = [pod EXCEPT ![p].stage = "starting"]
    /\ stopping' = stopping \ {p}
    /\ UNCHANGED <<queue, receives, token, disruptions, handled>>

VisibilityLapses(m) ==
    /\ queue[m] = "invisible"
    /\ queue' = [queue EXCEPT ![m] = "visible"]
    /\ UNCHANGED <<receives, token, pod, stopping, disruptions, handled>>

\* Mutant: the queue has no redrive policy.
NoRedrive(m) ==
    /\ FALSE
    /\ UNCHANGED vars

\* The redrive policy takes a message whose deliveries are used up.
DeadLetter(m) ==
    /\ queue[m] = "visible" /\ receives[m] = MaxReceive
    /\ queue' = [queue EXCEPT ![m] = "dead"]
    /\ UNCHANGED <<receives, token, pod, stopping, disruptions, handled>>

\* The state machine gives up on a task.
TokenTimesOut(m) ==
    /\ token[m] = "waiting"
    /\ token' = [token EXCEPT ![m] = "timedOut"]
    /\ UNCHANGED <<queue, receives, pod, stopping, disruptions, handled>>

----------------------------------------------------------------------------
Init ==
    /\ queue = [m \in Messages |-> "visible"]
    /\ receives = [m \in Messages |-> 0]
    /\ token = [m \in Messages |-> IF Kind[m] = "malformed" THEN "none" ELSE "waiting"]
    /\ pod = [p \in Pods |-> [Stopped EXCEPT !.stage = "starting"]]
    /\ stopping = {}
    /\ disruptions = 0
    /\ handled = {}

\* One step of the worker's code.
Work(p) ==
    \/ Resolve(p)
    \/ \E S \in SUBSET Messages : Receive(p, S)
    \/ \E S \in SUBSET Messages : ReceiveLost(p, S)
    \/ ReceiveThrows(p)
    \/ Exit(p)
    \/ \E d \in pod[p].batch : Skip(p, d)
    \/ \E d \in pod[p].batch : Dispatch(p, d)
    \/ TaskSucceeds(p)
    \/ TaskFails(p)
    \/ TaskThrows(p)
    \/ Report(p)
    \/ ReportRefused(p)
    \/ \E applied \in BOOLEAN : ReportLost(p, applied)
    \/ Delete(p)
    \/ DeleteThrows(p)

Environment ==
    \/ \E p \in Pods : Shutdown(p) \/ Kill(p) \/ Restart(p)
    \/ \E m \in Messages : VisibilityLapses(m) \/ DeadLetter(m) \/ TokenTimesOut(m)

Next == Environment \/ \E p \in Pods : Work(p)

Spec == Init /\ [][Next]_vars

\* A pod's loop keeps running while the pod lives, the Deployment replaces a stopped
\* pod, and SQS lets visibility timeouts lapse and applies the redrive policy.
FairSpec ==
    /\ Spec
    /\ \A p \in Pods : WF_vars(Work(p)) /\ WF_vars(Restart(p))
    /\ \A m \in Messages : WF_vars(VisibilityLapses(m)) /\ WF_vars(DeadLetter(m))

----------------------------------------------------------------------------
(* Properties *)

TypeOK ==
    /\ queue \in [Messages -> {"visible", "invisible", "deleted", "dead"}]
    /\ receives \in [Messages -> 0..MaxReceive]
    /\ token \in [Messages -> {"none", "waiting", "timedOut"} \cup Answered]
    /\ pod \in [Pods -> Pod]
    /\ stopping \subseteq Pods
    /\ disruptions \in 0..MaxDisruptions
    /\ handled \subseteq Deliveries
    /\ \A p \in Pods :
          pod[p].stage \in {"dispatch"} \cup Reporting \cup Deleting <=> pod[p].current # NoDelivery

\* The deletion rule of TaskQueueWorker.cs: a message is deleted only once its
\* outcome has reached Step Functions, whatever fails, is cancelled, is delivered
\* twice or is deleted with an outdated receipt.
DeletionRule == \A m \in Messages : queue[m] = "deleted" => token[m] \in Answered

\* A delivery is handed to the dispatcher at most once, by one pod: a task runs at
\* most maxReceiveCount times in all, however batches, shutdowns and restarts overlap.
DeliveryHandledOnce ==
    [][\A p \in Pods :
          (pod[p].stage # "dispatch" /\ pod'[p].stage = "dispatch") => pod'[p].current \notin handled]_vars

\* No message stays on the queue for ever: each is deleted or ends where it can be
\* looked at.
EverySettled == \A m \in Messages : <>(queue[m] \in {"deleted", "dead"})

\* How often each task was begun: one dispatched delivery is one execution, since none
\* is dispatched twice (DeliveryHandledOnce).
Runs == [m \in Messages |-> Cardinality({d \in handled : d.msg = m})]

\* What became of each message; a visibility timeout is no change.
Fate == [m \in Messages |-> IF queue[m] \in {"deleted", "dead"} THEN queue[m] ELSE "pending"]

Task == INSTANCE TaskDelivery WITH answer <- token, runs <- Runs, fate <- Fate, MaxRuns <- MaxReceive

\* The worker keeps the promise of TaskDelivery, however pods, deliveries, timeouts and
\* lost reports overlap: a task runs at most maxReceiveCount times, its token gets one
\* answer, after an execution, and its message goes only when that answer is out.
ImplementsTaskDelivery == Task!Spec

\* What the comment in FailAsync promises: no failure while a task's failure is
\* reported and acknowledged takes the pod down.
HostSurvivesReports ==
    [][\A p \in Pods : (pod[p].stage \in Reporting \cup Deleting /\ disruptions' = disruptions) =>
            pod'[p].stage # "stopped"]_vars

=============================================================================
