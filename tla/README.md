# TLA+ models of the internal developer platform

This directory holds the formal models of the platform's services: TLA+ modules
translated from the source, TLC configurations that check them on small
instances, and proofs, checked by TLAPS, that the central invariants hold for
every number of requests, workers, pods and messages.

## The system

Three services and the managed services between them carry one workflow, from
`POST /v1/provision` to a scaffolded repository.

    client -> API (Go) -> SQS or Kafka -> provisioner (Go) -> state machine (not built yet)
                |                                                |
              Redis                                       SQS task queues -> scaffolder workers (C#)
                                                                 |                |
                                                          Step Functions   DynamoDB, GitHub

| Component | State it keeps | Operations | Modelled in |
|---|---|---|---|
| API idempotency layer (`idempotency_middleware.go`, `redis_store.go`, `resource_handler.go`, `sqs/resource_publisher.go`) | one record per key in Redis (`IN_FLIGHT`, `COMPLETED`, hash, response, TTL) | Reserve, Complete, Release, replay; the handler publishes to the queue | `Idempotency` |
| CreateRepository task (`CreateRepositoryUseCase.cs`, `DynamoDbRepositoryRecordStore.cs`, `OctokitRepositoryHost.cs`) | one inventory record per repository in DynamoDB; the repositories on GitHub | claim, create, find, adopt, save | `CreateRepository` |
| Task queue worker (`TaskQueueWorker.cs`, `TaskDispatcher.cs`) | its batch of received messages; message and token state are in SQS and Step Functions | receive, dispatch, report success or failure, delete | `TaskQueueWorker` |
| Provisioner (`main.go`, `sqs.go`, `kafka.go`, `dispatch.go`, `request.go`) | its batch or its reader's position, counters; queue and offset are in SQS and Kafka | start, receive or fetch, dispatch (parse, split), delete or commit, shut down | `ProvisionerConsumer` |
| ReserveName task (`ReserveNameUseCase.cs`, `DynamoDbNameReservationStore.cs`) | one reservation per name in DynamoDB, with a TTL | reserve | `ScaffoldWorkflow` |
| GitHub App client (`GitHubAppClientFactory.cs`) | cached key, client and token expiry, a gate | get a client | `GitHubClient` |
| API life cycle, configuration, telemetry (`main.go`, `application.go`, `config.go`, `server.go`, `logs.go`, `metrics.go`, `tracing.go`) | what is open, the listener, the signal | load and validate, start, serve, drain, close, exit | `ApiLifecycle` |
| API middleware chain and routes (`router.go`, `middleware.go`, `metrics_middleware.go`, `auth_handler.go`, `kafka/resource_publisher.go`) | one gauge, one sample and one log line per request | route, recover, measure, log, publish | `ApiLifecycle` (the idempotency middleware: `Idempotency`) |
| Application name and body rules (`ApplicationName.cs`, `validation.go`) | none | parse, validate | as accepted or refused |
| Domain types, loggers, start-up wiring of the scaffolder, Terraform and manifests | none that changes while the system runs | | not modelled |

How they interact: the API's replicas share only Redis and the queue; a request
passes the middleware (Reserve), the handler (SendMessage) and the middleware
again (Complete or Release). The scaffolder's pods share the task queue,
DynamoDB and GitHub; a worker receives a message, runs the use case it names,
answers the Step Functions token and deletes the message. Everything is at least
once: clients retry, SQS redelivers, the SDKs repeat commands whose answers were
lost.

What is hard: the middleware makes up to four Redis round trips that any other
request can overtake; its lock can vanish (Redis keeps nothing on disk and
evicts); the request's context is cancelled with the client's connection, which
fails some calls and not others; a publish can succeed without the handler
knowing; a task can be executed twice at once; a repository exists on GitHub
before the inventory says so; a visibility timeout lapses while a batch is still
being worked through; two call sites of one delete fail in different ways; the
provisioner's two loops share their parsing and differ in what they do with a
message it refuses; a reservation lapses while its scaffold runs; the API closes
Redis and Kafka while handlers that outlived the drain still use them; the GitHub
client is read without a lock while another call writes its two fields.
`PROJECT.json` lists these hazards at their lines.

## Modules

### `Idempotency`: the API's idempotency layer

One process per HTTP request. `pc[r]` is where the request is between two round
trips, `store[k]` what Redis holds under a key, `reply[r]` what the client got,
`sent` the requests whose message reached the queue.

| Actions | Code |
|---|---|
| `Arrive`, `Reject` | header and body checks of `IdempotencyMiddleware` |
| `ReserveCreates`, `ReserveTaken`, `ReserveAnswerLost` | SETNX in `RedisStore.Reserve` |
| `ReserveReads`, `ReserveFails` | the GET after a taken SETNX, `replayCachedResponse`, the error branch |
| `HandlerRejects`, `HandlerPublishes`, `HandlerPublishFails`, `HandlerPublishUnconfirmed`, `HandlerPanics` | `ResourceHandler.Provision` down to `SendMessage` |
| `CompleteGets`, `CompleteScript`, `CompleteFails` | `RedisStore.Complete` and `completeScript` |
| `Release`, `ReleaseAnswerLost`, `ReleaseFails` | `RedisStore.Release` and `releaseScript`, called after a 5xx or a panic |
| `ClientDisconnects`, `ReplicaCrashes`, `RecordLost` | the environment |

`Faults` selects which faults an instance admits; the proofs hold for any set. A body
stands for its sha256 hash. A response is its status and the request whose handler
produced it; headers and payload are left out. `ReserveAnswerLost`, the unanswered
`CompleteScript` and `ReleaseAnswerLost` are the retries of the Redis client, which
`NewRedisClient` leaves at their default; one repetition per command is modelled. Keys
have no clock: a TTL may end at any time (`RecordLost`), and the field `expires` of a
record says that Redis holds one for it. `losses[k]` counts how often a record was taken
from under its owner, by Redis or by a repeated release script.

### `CreateRepository`: the scaffold task

`Workers` execute `RequestIds` in any interleaving: any worker may begin any
request at any time, so redeliveries and overlapping executions of one request
are included. `records[n]` is the DynamoDB item of a name, `host[n]` who created
the repository on GitHub, `run[w]` the use case's local state at its awaits.
Every call has three outcomes: it takes effect and is answered, it fails, or it
takes effect and its answer is lost (`FaultAfterClaim`, `FaultAfterCreate`,
`FaultAfterSave`). `Claim`'s parameter is the AWS SDK's repeated put, which finds
the claim it wrote itself. Outsiders create repositories (`ForeignCreates`).
The organization is fixed; template, description and timestamps are left out.
A repository that was renamed on the host makes `MarkCreated` throw, which is a
`Fault` at `save`.

### `ScaffoldWorkflow`: both scaffold tasks, composed

Extends `CreateRepository` with the task before it and everything around the two:
`reservations` are the `NAME#app` items of DynamoDB, `outcomes` what executions of
ReserveName came to and still have to report, `machine[q]` the state of request
q's execution in Step Functions, `messages` the task messages not yet deleted.
`lapsed` is a ghost variable: names whose reservation ever lapsed.

| Actions | Code |
|---|---|
| `Reserve`, `ReserveRefused`, `ReserveFaults` | `ReserveNameUseCase.ExecuteAsync` and the conditional put of `ReserveAsync`, its refusal, its lost answer |
| `BeginCreate`, `ExecuteCreate` | a delivery of the second task, and the steps of `CreateRepository` |
| `ReportReserve`, `ReportReserveLost`, `ReportCreate`, `EndUnreported` | what `TaskQueueWorker` does with an outcome: report the token and delete, or leave the message |
| `StartScaffold`, `GiveUp`, `Lapse`, `OutsiderCreates` | the state machine, DynamoDB's TTL, GitHub |

The worker loop is taken at the grain its own model justifies: a message is
deleted only after a report (`DeletionRule`), the delete may fail, a message that
was not deleted is delivered again at any time. An outcome waits in `outcomes` as
long as it likes, so reports arrive late, twice, or after the machine gave up.
ReserveName is one put, so it needs no worker of its own. Nothing in the code
confirms or releases a reservation; the TTL is its only end. The state machine is
not part of the repository yet: the model assumes the two tasks in the order the
worker's task names and use cases imply, and a token that may time out.

### `GitHubClient`: the double-checked token cache

`call[c]` is where a caller of `GetClientAsync` is, `client`, `tokenExpiresAt` and
`privateKeyPem` are the fields of the factory, `gate` and `waiters` the
`SemaphoreSlim`. A client stands for its token and a token for the tick it expires.
A secret is a key, "broken" (a PEM header with no private key behind it:
`GetPrivateKeyAsync` looks for the header only and keeps it for the pod's life) or
"unusable".

| Actions | Code |
|---|---|
| `Look`, `Compare`, `Take`, `CompareThrows` | the check before the gate: each read of a field is a step |
| `Wait`, `Enter`, `Recheck`, `Renew` | the gate and the check inside it |
| `KeyCached`, `KeyRead`, `Mint`, `Store`, `Fail` | `GetPrivateKeyAsync`, the installation token, the two writes, the exits through `finally` |
| `Ask`, `Cancel`, `Finish`, `Tick`, `PutSecret` | callers, cancellation, the clock, an operator |

Field accesses happen in program order, as on the amd64 nodes the platform runs
on; the two writes of `Store` are separate steps, so readers see the new client
with the old expiry. The expiry of a client that was never minted is
`default(DateTimeOffset)`: subtracting from it throws (`CompareThrows`). Today's
worker loop handles one message at a time; the callers are what the class
promises, not what one pod does today.

### `TaskQueueWorker`: the scaffolder's loop

`pod[p]` holds the stage of the loop, the rest of the batch and the message in
hand. The stages are the awaits of `ExecuteAsync`, `HandleAsync` and
`FailAsync`; `deleteDone` and `deleteFailed` are the two call sites of
`DeleteAsync`, which differ in who catches its exception. SQS (`queue`,
`receives`), Step Functions (`token`) and Kubernetes (`Shutdown`, `Kill`,
`Restart`) are environment actions. A delivery carries its receipt: an outdated
receipt may or may not delete the message. The order of a batch is arbitrary.
What a task does is left open: it succeeds, fails with a domain error or throws.
Retries of `ResolveQueueUrlAsync` and empty receives change nothing and are
stuttering steps.

### `ProvisionerConsumer`: the provisioner's two loops

`transport` is what `main.go` chose. `consumer[c]` holds the stage of a process's
loop, the rest of its batch and the message whose acknowledgement is under way;
`queue` and `receives` are SQS, `committed` is the Kafka group's offset and
`position` where the reader is in the topic.

| Actions | Code |
|---|---|
| `Start`, `StartFails`, `Return` | `main`, `runSQS`, and the head and tail of the loops |
| `ReceiveMessage`, `ReceiveLost` | `ReceiveMessage` in `RunSQS`: a batch, or a batch whose answer is lost |
| `FetchMessage`, `FetchFails` | `FetchMessage` in `RunKafka` |
| `Dispatch`, `NotUnderstood` | `Dispatch` with `Parse`, `Split` and `HasWork`, and the two branches on its result |
| `Acknowledge`, `AcknowledgeFails` | `DeleteMessage`, or `CommitMessages` |
| `Cancel`, `Kill`, `Restart`, `Rejoin` | SIGTERM, the death of a process, its replacement, the end of the reader's generation |
| `VisibilityLapses`, `DeadLetter` | SQS and the redrive policy |

The order of an SQS batch is arbitrary. Deletes and commits run under the process's
context: after a cancellation a delete fails, a commit may or may not take effect (the
Kafka client selects between the cancelled context and its commit queue).
`main.go:32-33` cancels that context "so the consumer drains": what the SQS loop drains
is dispatched but not deleted, and comes again. Failed receives that hand nothing out
change nothing. kafka-go subscribes a group reader again when its generation ends (a
rebalance, missed heartbeats) and reads on from the group's offset, inside
`FetchMessage` and unseen by the loop: `Rejoin` may happen at any time, also with a
message in hand, whose commit then goes to the new generation. One Kafka reader runs at
a time, as in the repository's `docker-compose`; a rollout overlaps two SQS processes.
The code logs the two halves where the StartExecution calls will go; `work` collects
them.

### `ProvisionDelivery`: what the provisioner promises

A message's `fate` is pending, acknowledged or aside (dead-lettered, or passed over in
the Kafka topic without being understood). `Separate` carries out a message's halves,
once or again; `Settle` gives fates, acknowledging only what has been separated. What
left SQS has left it for good; over Kafka `Reopen` may make messages pending again,
because a late commit can move the group's offset back. `ProvisionerConsumer` implements
it with `Fate` for `fate`: `Dispatch` is `Separate`, a commit that rewinds is `Reopen`,
every other step is `Settle` or a stutter.

### `Submission`: what the API promises its clients

What a client of `POST /v1/provision` sees, without Redis, round trips and faults:
what it `asked`, the `answer` it got, which requests were `accepted`, how often a
key was forgotten (`losses`). An answer is given once. `Accept` is possible for one
request per key, and for one more per loss; `Refuse` accepts nothing; `Replay`
repeats the answer of an earlier request under the same key, never a failure, and
of the same body unless the key was forgotten. `Idempotency` implements it with
`accepted` for the messages whose handler was told they are queued
(`sent \ unconfirmed`): `HandlerPublishes` is `Accept`, `ReserveReads` is `Replay` or
`Refuse`, every failure is `Refuse`, `Release` refuses after a panic and otherwise
forgets or changes nothing, and the steps of `Complete` are invisible. A message that
was queued without its handler being told is outside this promise: its client got a
500, and the finding of `idempotency_requeue` is about it.

### `Scaffolding`: what the scaffolder promises

What someone who asked for a repository sees: the `progress` of the scaffold, the
`owner` of a name, the `repository` on it, the names that `lapsed`. A scaffold ends
once. Of two requests for a name one fails at the reservation (`Pass`), unless it
lapsed. A name is owned for good, by a request that passed (`Own`); a repository is
created for the owner only (`Create`); done means owned and hosted (`Finish`). A
scaffold that is given up may still come to own its name and create its repository,
because its task may still be running: the module says so, as the code does.
`ScaffoldWorkflow` implements it with the state machine's state for `progress`, the
request in the inventory for `owner` and the host for `repository`: workers,
messages, reservations and the state of a record disappear.

### `TaskDelivery`: what the worker promises the state machine

What the execution that queued a task sees: the `answer` its token got, how often
the task was begun (`runs`), the `fate` of its message. A task is begun at most
maxReceiveCount times (`Begin`), also after it was answered or given up. Its token
is answered once, after an execution, and never with a success for what could not
be carried out (`Tell`); the state machine may stop waiting first (`GiveUp`). The
message goes only when the answer is out (`Remove`), or is set aside. Nothing says
that whoever answers is the execution the success belongs to: with two overlapping
deliveries it need not be. `TaskQueueWorker` implements it with the dispatched
deliveries counted for `runs`; pods, batches, receipts, visibility timeouts and
shutdowns disappear.

### `ApiLifecycle`: one API process, from main to its exit

`stage` is how far `main` has got, `step` the position in the start-up and later
the closing order, `opened` what was opened and not closed, `listener` the server's
socket, `signalled` a SIGTERM. `pc[r]`, `reply[r]`, `recorded[r]`, `record[r]`,
`measured[r]` and `active` follow each request through the chain, as far as it uses
what `Shutdown` closes. `recorded[r]` is what the two `statusRecorder`s hold: the last
status written, where the client gets the first. The ghosts `panicked` and `cutOff`
collect requests whose panic was recovered and requests that met something closed.

| Actions | Code |
|---|---|
| `NewConfig`, `Valid`, `Needed` | `config.NewConfig`, `Validate`, and the branches of `New` on what is configured |
| `Boot`, `BootFails`, `Run` | `Validate` and `bootstrap.New`, one step per thing opened, in the code's order |
| `Listen`, `ListenerFails`, `Notify`, `ServerError`, `Interrupted`, `DrainCompletes`, `DrainTimesOut` | `Server.Start` and `Server.Shutdown` |
| `Close`, `Exit` | `Application.Shutdown` and the tail of `main` |
| `Connect`, `Drop`, `Begin`, `Reserve`, `Publish`, `Authenticate`, `Panic`, `PanicLate`, `Settle`, `Leave` | the router's chain, handlers and publishers |
| `Signal`, `Kill` | Kubernetes |

Handlers keep running after a drain that timed out: they find a closed Redis
client, a closed Kafka writer and a closed log pipeline. An environment is the set
of variables that decide what is wired; a timeout or a name nothing branches on is
left out. Each request has a key of its own: rivals for one key are the subject of
`Idempotency`. `Reserve` and `Settle` may fail for any reason of Redis' or the client's
own, over an open client too; a record may then stay `IN_FLIGHT` behind a clean exit,
and only its TTL ends it (`KeysComeFree`). What the OTLP pipelines buffer and export is
the OpenTelemetry SDK's: its queue may drop lines and an export may fail, so nothing is
claimed of the lines' arrival, only that every provider is shut down.

### `MC...` modules, `...Proofs` modules

The `MC` modules give the constants their values. `IdempotencyProofs`,
`SubmissionProofs`, `CreateRepositoryProofs`, `ScaffoldWorkflowProofs`,
`TaskQueueWorkerProofs`, `ProvisionerConsumerProofs`, `GitHubClientProofs` and
`ApiLifecycleProofs` hold the theorems. Operators marked "Mutant" in a
component's module are plausible bugs; none is used by a specification. Putting
one in the place of the definition after it breaks the property `PROJECT.json`
pairs it with, which shows that the property depends on that code.

## Runs

| Run | Configuration | Shows |
|---|---|---|
| `idempotency_faults` | 3 requests, 1 key, 2 bodies (one invalid), every fault but disconnects | types; `DuplicatesAccounted` (a key is accepted once, plus once per lost record); `ReplayFaithful`; `AcceptedIsQueued`; `CompletedIsFinal`; the layer implements `Submission` (`ImplementsSubmission`) |
| `idempotency_live` | 2 requests, every fault but Redis errors | every request is served that does not wait in `SendMessage` for ever (`RequestsServed`); every key comes free again (`KeysComeFree`); a failed request leaves its key free while Redis answers (`FailureFreesKey`) (18 273 states) |
| `idempotency_overwrite` | 2 requests, lost records | violation: Complete stores its response in a record another request owns |
| `idempotency_requeue` | 2 requests, unconfirmed publishes | violation: one key queued twice |
| `scaffold_workflow` | 2 requests for one name, 2 workers, 1 lapse (715 103 states) | `OwnRepositoryRecorded`, `OneWinnerPerName`, `CreatedIsHosted`, `SaveNeverRefused` of the task; `ReservationGuards`, `TablesAgree`, `DoneOwnsName` of the workflow; the workflow implements `Scaffolding` (`ImplementsScaffolding`), in which a name never changes its owner |
| `create_repository_adopts` | 3 workers, 4 requests (two for one name, one for another, one that does not parse), 2 names | violation: a replayed claim adopts an outsider's repository |
| `task_worker` | 2 pods, 2 messages (a task, a malformed one), 2 deliveries each, 1 disruption (114 152 states) | `DeletionRule`, `DeliveryHandledOnce`; the worker implements `TaskDelivery` (`ImplementsTaskDelivery`); every message is deleted or dead-lettered (`EverySettled`) |
| `task_worker_host` | 2 pods, 1 task, no disruption | violation: a failed delete stops the pod |
| `provisioner` | 2 processes, 2 messages (a request with a resource, one without a template), 2 deliveries each, 2 disruptions, both transports (178 756 states) | `AcknowledgedWasSplit`, `ReceivedIsAccounted`, `OffsetRewindsOnlyAfterRejoin` (commits never move the offset back before a re-join); the loops implement `ProvisionDelivery` (`ImplementsDelivery`); every request is carried out (`RequestsCarriedOut`); the queue drains (`QueueDrains`) |
| `provisioner_kafka` | the same, 1 disruption | violation: Kafka moves past a message that was not understood |
| `github_client` | 3 callers, tokens of 2 ticks renewed 1 before their end, 2 ticks (241 383 states) | one mint per expiry (`MintOnlyWhenDue`); clients that were not due (`HandsOutFresh`); every call ends (`CallsEnd`) |
| `api_lifecycle` | 5 environments, 2 requests, 4 routes (330 520 states) | `CleanHandover` (a clean return leaves no handler, and no request met a closed part), `RunReleases`, `SeenAsServed` (gauge and recorded status); a signal ends the process (`SignalEnds`) |

Bounds. Three requests on one key let an owner, a rival and a late retry meet,
which is what it takes for a release or a completion to hit a third request's
record; keys do not interact, so one is enough. A disconnect makes Redis and SQS
calls fail, which the faults "redis" and "publish" do too, so the large run
leaves it out and the liveness run has it.

In `ScaffoldWorkflow` two requests for one name and two workers let a request meet its
own redelivery or its rival at any await, and one lapse lets the rival take the name
over in between; a second name would only add independent behaviour, and names that do
not parse, more workers and more lapses are covered by the proofs.
`create_repository_adopts` has three workers: a request, its redelivery and a rival. Two
deliveries per message are the fewest with an outdated receipt; the repository
configures five. `MaxDisruptions` bounds shutdowns, kills, fatal receives and re-joins,
which makes the counting of disruptions finite and lets liveness hold at all: a cluster
that kills every pod before it polls settles nothing. One re-join between a failed
commit and the next is enough to rewind the offset. In `ProvisionerConsumer` the message
that cannot be understood comes first in the topic, so the reader must pass it.

`ApiLifecycle` is started deployed, deployed without OTLP and with the address in the
environment, deployed before Redis was provisioned, and local with and without brokers;
two requests let one be cut off while the other is done, and the four routes are one per
path through the chain (a key, a service without one, an unmeasured route, a page that
can panic half-way). In `GitHubClient` three callers let one look while a second writes
and a third waits, and two ticks let a token be minted, fall due and be renewed. Every
bound is a named constant. Symmetry is used over requests and workers, in runs of safety
properties only.

Deadlock checking is off where the system really stops: in `Idempotency` every
request may have been served, in `ScaffoldWorkflow` every scaffold may have ended
and every lapse be spent, and in `ApiLifecycle` the process has exited.

### Fairness

`Idempotency!FairSpec`: weak fairness of each request's next step, except while it waits
for `SendMessage` with its client connected. A goroutine keeps running and every Redis
command returns, because `NewRedisClient` sets dial, read and write timeouts;
`NewAWSClients` sets none on the SQS client, so only the end of the request's context
makes a `SendMessage` without an answer return, and `RequestsServed` exempts the request
that waits there for ever. Weak fairness of `Expires`: Redis drops a record that has a
TTL, and nothing is promised of one without, so `KeysComeFree` depends on every write of
the code leaving a TTL. `TaskQueueWorker!FairSpec`: weak fairness of each pod's loop and
of its replacement by the Deployment, of visibility timeouts and of the redrive policy.
`ProvisionerConsumer!FairSpec` assumes the same of its loops, their restarts and SQS;
fairness of a loop lets a fetch fail often, but not for ever. `ApiLifecycle!FairSpec`:
weak fairness of `main` alone, since each call it makes after start-up has a deadline or
does not wait; handlers get none, because `SendMessage` has no timeout of its own, so
`SignalEnds` holds with handlers that never return. `GitHubClient!FairSpec`: weak
fairness of each caller's next step; the HTTP and AWS clients have timeouts, and the
semaphore serves its waiters in order. Nothing is assumed of clients, of pods being
killed, of answers being lost or of outcomes being good. Safety properties use no
fairness.

## What the violations show

1. `idempotency_overwrite`: `redis_store.go:21-22` says that completion only
   overwrites a record "we still own". The script checks existence only; after a
   lost record and a second reservation, the first request completes the
   second's record.
2. `idempotency_requeue`: `resource_handler.go:40-42` calls a fresh provision id
   safe because retries do not reach the handler. After an unconfirmed publish
   they do, and the request is queued under two ids.
3. `create_repository_adopts`: `CreateRepositoryUseCase.cs:21-23` says of a replayed
   claim that "our own earlier attempt reached GitHub". A claim is also replayed
   when that attempt ended before it reached the host; a repository an outsider
   created in between is adopted and recorded as Created.
4. `task_worker_host`: `TaskQueueWorker.cs:190-193` explains why `FailAsync` must
   handle its own failures; its `DeleteAsync` is outside the try.
5. `provisioner_kafka`: `kafka.go:21-22` says that offsets are committed only after a
   message is processed, mirroring the SQS loop. A message that `Dispatch` refuses is
   committed and counted as processed; the SQS loop keeps it for the dead-letter queue.

How far each claim is from true is proved. `QueuedOnce`: of the messages a handler
was told are queued there is one per key, unless Redis forgot it; only the
unconfirmed publish and the forgotten key break the comment on the provision id.
`CompletesOwn`: under a key that was never forgotten, Complete stores the
owner's response in the owner's record; only the record taken from under its owner
breaks the comment on Complete. `NeverAdoptsRivals`: a Created record points at its
owner's repository or at an outsider's, never at another request's.
`OnlyFailedDeleteStops`: of the four awaits that report and delete, only the delete
after a failure report stops the host. `SqsKeeps`: the SQS loop acknowledges only
what it understood, so it is the Kafka loop alone that does not keep a refused
message.

Met while modelling, without a run of their own:

- After a disconnect or a Redis error `Complete` fails, which is noted in a response
  header alone, and the record stays `IN_FLIGHT` for its TTL, 24 hours by default
  (`router.go:64-67`); until then retries get a 409 saying that the
  request "is still being processed" (`idempotency_middleware.go:131`).
- The condition of `ClaimAsync` admits the owner's own Created record, which a
  redelivery sets back to Claimed until it saves again
  (`DynamoDbRepositoryRecordStore.cs:34-39`); `CreatedIsHosted` and
  `SaveNeverRefused` hold all the same.
- "Callers must invoke Shutdown on teardown" (`tracing.go:22`, `metrics.go:39`,
  `logs.go:25-26`), but a start-up that fails half-way ends in `log.Fatal` and
  closes nothing (`BootFails`). `RunReleases` is about processes that entered `Run`.
- `application.go:213-215` leaves the store nil in environments that have not
  provisioned Redis, but `REDIS_ADDR_PARAM_KEY` has a default, so a deployed API
  asks Parameter Store for it and fails to start (the third environment).
- A PEM header is all `GetPrivateKeyAsync` asks for: a truncated or public key is kept
  for the pod's life and fails in `ImportFromPem` on every mint; a corrected secret is
  read only by a new pod (`GitHubAppClientFactory.cs:140-147`).
- A call that sees the first client before its expiry throws, because it subtracts from
  `default(DateTimeOffset)` (`GitHubAppClientFactory.cs:53`, `CompareThrows`); today's
  sequential worker cannot meet itself there.
- After a re-join of the consumer group a commit can move the offset back: with the
  first message's commit failed and the second in hand, the reader re-joins at the
  first, commits the second, fetches the first again and commits it. It costs repeated
  deliveries, which the loop is built for; `OffsetRewindsOnlyAfterRejoin` says that
  nothing else rewinds it.

## Proofs

All theorems hold for any values of the constants that meet the modules' ASSUMEs:
finitely many requests, valid bodies among the bodies, `NoKey` and `None` distinct
from the rest, `Faults` any set of known faults; `Wants` a name or none per
request; positive limits of the worker; a topic that holds every message once; a
token that lives longer than it is renewed before its end; any environments and
routes of the API.

`IdempotencyProofs`. `TypeOK` comes first. `DuplicatesAccounted` is not inductive, since
it does not see the requests about to be accepted. `ClaimsBounded`
(`ClaimsAlwaysBounded`, a theorem without a run of its own) counts them: the requests
holding a reservation or already accepted, plus one if the key is free, are at most one
more than the losses of the key. A key starts with one right to run the handler; SETNX
spends it, Release hands it back when its holder gives up, and only a loss creates a new
one. The proof follows the set of claimants through every action with two counting
lemmas (a set that grows by at most one element, a set that loses one). The custody
invariant, true while a key has no losses, says that a request that owns a key finds its
own record there and gives `ReplayFaithful` and `CompletedIsFinal`. A third invariant
tracks where a 202 came from and gives `AcceptedIsQueued`. A fourth (`FreesInv`) follows
which keys a request may hold from its arrival on, its own and none before SETNX, and
gives `FailureFreesKey`.

`SubmissionProofs`. Every step of `Idempotency` is one step of `Submission` or a
stutter. `Accept` needs that a request about to be accepted finds the key's budget
unspent, which is `ClaimsBounded` again; `Replay` needs three more facts
(`AnswerInv`): nobody is answered before the handler has returned
(`AnswersInOrder`), what Redis stores was the answer of the request it names
(`StoredWasServed`), and every hash in Redis is of a body someone asked for under
the key, also after a record changed hands (`HashesWereAsked`), so that a 422 is
given only where two bodies really met. The custody invariant gives the rest: the
answer fits the body while the key was never forgotten.

`CreateRepositoryProofs`. Two step lemmas carry everything: a name's owner never
changes (`OwnerStays`) and a hosted repository never changes its creator
(`HostStays`). With them, what an execution learnt at one await (`ExecutionsInv`)
is still true at the next, whatever other workers do, and
`OwnRepositoryRecorded`, `CreatedIsHosted`, `OneWinnerPerName`,
`SaveNeverRefused` and `OwnerNeverChanges` follow.

`ScaffoldWorkflowProofs`. Every step of the workflow is a step of `CreateRepository`
or leaves its variables alone (`WorkflowImplementsTask`), so the theorems above
hold of the composition. `ReservationGuards` is inductive: only `Reserve` and
`ReserveFaults` let a request past ReserveName, they leave it with the name, and
nothing but a lapse takes it away. `TablesAgree` adds that a claim is made by a
request that is past ReserveName, and `DoneOwnsName` that a report of success
comes from an execution that succeeded, which keeps its record for good.

The refinement of `Scaffolding` takes these together with two new facts.
`OrderInv`: no message or execution of the second task is about a request that is
still before the end of the first, whatever is redelivered or reported late, so a
name is owned only by a request that passed. `SucceededHosted`: a request that
succeeded has a repository on its name, which `OwnRepositoryRecorded` says is its
own or an outsider's. `ReservationGuards` shows that no rival has passed when a
request passes.

`TaskQueueWorkerProofs`. `DeletionRule` needs that a pod about to delete knows an
answered token (`DeletingInv`) and that answers stay. `DeliveryHandledOnce` needs
that waiting deliveries are in one batch only, were not dispatched and are older
than any delivery to come (`BatchInv`).

The refinement of `TaskDelivery` adds what a pod has in hand (`InHandInv`): it was
dispatched, so whoever reports reports on an execution, and a success is only ever
reported of a task. Nothing malformed is dispatched (`HandledInv`). That a dispatch
stays within the bound is a counting argument (`RunsBounded`): the dispatched
deliveries of a message map one to one to their receipts, of which there are
maxReceiveCount, and the delivery at hand is not among them yet (`BatchInv`).
`Remove` is `DeletingInv`; outdated receipts only repeat a deletion or miss.

`ProvisionerConsumerProofs`. `DeliveryInv` adds to `TypeOK` what holds between the steps
of a loop. For SQS: a message is acknowledged only after its halves are in `work`, and
what is in hand at that stage was understood (`SqsInv`). For Kafka: everything before
the reader's position has been dispatched, except the message in hand, and the offset is
not beyond it (`KafkaInv`), although a new reader starts from the offset and repeats
what was not committed. A re-join sets the position back to the offset, so it keeps the
first; the second, and that a commit never lies behind the offset, hold within a first
generation only, which is what `OffsetRewinds` proves. `AcknowledgedWasSplit` and the
refinement `ImplementsDelivery` follow, with `Reopen` for a commit that rewinds.

`CountingInv` says the same of the counters: a process starts with nothing counted,
and a batch is finite and has one delivery per message the receive handed out,
which gives `ReceivedIsAccounted`.

`ApiLifecycleProofs`. `Shape` relates main's stage to Run's result and the listener:
`Run` returns without an error only with the listener closed, and `DrainCompletes` is
the only way there, after every connection was waited for. `Wired`: what the
environment needs is open until `Run` returns, so nobody meets a closed part before.
`CutByError`: whoever does meet one does so after Run returned an error. Together they
give `CleanHandover`, whatever the commands of the requests come to. `Released` says
that what comes before `step` in `CloseOrder` has been closed and gives `RunReleases`.
`SeenAsServed` follows the set of requests in the chain with the counting lemmas for
finite sets, and the recorder through every status written (`RecordedAsServed`): where
a status is written twice, the request has panicked.

`GitHubClientProofs`. `GateInv`: whoever is between the second look and the release
holds the gate. `CacheInv`: the expiry never runs ahead of the client, and the two
agree except between the two writes. With them, what a call has learnt at its
stage (`Knows`) survives the other callers' writes, because a client is only ever
replaced by one that lives longer. Reading an expiry that is too old is harmless;
writing the fields in the other order would not be. `GateAccounted` is the safety
behind `CallsEnd`: a held gate belongs to a call on a path that releases it, whoever
waits is in the queue once or has just been handed the gate, and nobody queues at a
free gate. The code's `Release` in a `finally` and the hand-over to the next waiter
keep it through failures and cancellations.

Only model-checked: `RequestsServed`, `KeysComeFree`, `EverySettled`,
`RequestsCarriedOut`, `QueueDrains`, `SignalEnds` and `CallsEnd`, because the prover
handles neither liveness under fairness nor ENABLED. Induction over data and
RECURSIVE operators are out of its reach as well; no module that is proved about
uses them.

## Not modelled

- The character rules of `ApplicationName.Parse` and the field rules of
  `validation.go`: checks of one string or body that unit tests reach. They enter
  as names and bodies that are accepted or refused.
- The text of the JWT and of the PEM key; a secret is a key, broken behind its header,
  or has none.
- What the OpenTelemetry SDK buffers, drops and exports: it is not this repository's
  code, and `Application.Shutdown` only logs its errors.
- Domain types, errors and value objects, the loggers' formatting, the
  provisioner's telemetry providers, the dependency wiring and options of
  `Program.cs`: data and start-up code without a protocol.
- Terraform, Kubernetes manifests and workflows: their values are what the
  environment actions assume (deliveries, TTLs, Redis without persistence,
  overlapping rollouts).

## Plan

Done: `Idempotency` with `Submission`, `CreateRepository`, `TaskQueueWorker` with
`TaskDelivery`, `ProvisionerConsumer` with `ProvisionDelivery`, `ScaffoldWorkflow`
with `Scaffolding`, `GitHubClient`, `ApiLifecycle`, their runs, a proof of every
safety property the passing runs check, and the conditions under which the refuted
claims are true.

1. The state machine, when the repository has it: `ProvisionerConsumer` hands its
   halves to executions that `ScaffoldWorkflow` starts.
2. Releasing what a failed start-up opened has no property because the code does
   not do it; a property follows the code.
