---------------------------- MODULE ApiLifecycle ----------------------------
(***************************************************************************)
(* One process of the API from main to its exit (main.go, application.go,  *)
(* server.go), together with the requests it serves (router.go and the     *)
(* middleware chain it builds): what start-up opens, what a signal or a    *)
(* broken listener sets off, and what is closed while handlers still run.  *)
(*                                                                         *)
(* A handler is followed only as far as it uses what Shutdown closes: the  *)
(* Redis client (the reservation of the request's key), the Kafka writer   *)
(* and the OTLP log pipeline.  Idempotency has the protocol on the key.    *)
(***************************************************************************)
EXTENDS Integers, FiniteSets, Sequences

CONSTANTS
    Requests,      \* HTTP requests sent to this process
    Routes,        \* the routes they ask for
    Environments   \* the environments this instance starts the process in

AllRoutes == {"provision", "signup", "signin", "confirm", "health", "swagger",
              "metrics", "preflight", "unknown"}

\* The environment variables that decide what is wired ("" stands for unset or
\* empty), and whether Terraform has written the Redis endpoint to Parameter Store.
Environment ==
    [ENVIRONMENT : {"", "local"}, ENABLE_TRACING : {"", "false", "?"},
     REDIS_ADDR : {"", "redis:6379"}, REDIS_ADDR_PARAM_KEY : {"", "key"},
     KAFKA_BROKERS : {"", ",", "b1,b2"}, PORT : {"", "9090"}, redisProvisioned : BOOLEAN]

ASSUME RequestsFinite == IsFiniteSet(Requests)
ASSUME RoutesKnown == Routes \subseteq AllRoutes
ASSUME EnvironmentsKnown == Environments \subseteq Environment

VARIABLES
    env,        \* the environment the process was started in
    stage,      \* how far main has got
    step,       \* position in BootOrder, later in CloseOrder
    opened,     \* what was opened and not yet closed
    result,     \* what Run returned
    listener,   \* the server's listening socket
    signalled,  \* SIGINT or SIGTERM was delivered
    exit,       \* how the process ended
    pc,         \* how far each request has got
    route,      \* the route it asks for
    reply,      \* the status its client gets, 0 for none yet
    recorded,   \* the status the two statusRecorders around it hold
    record,     \* the idempotency record of its key in Redis
    measured,   \* the status its histogram sample and log line carry, 0 for none
    active,     \* the gauge http.server.active_requests
    panicked,   \* ghost: requests whose panic was recovered
    cutOff      \* ghost: requests that met something Shutdown had closed

process == <<stage, step, opened, result, listener, signalled, exit>>
requests == <<pc, route, reply, recorded, record, measured, active, panicked, cutOff>>
vars == <<env, process, requests>>

----------------------------------------------------------------------------
(* Configuration *)

\* getEnvOrDefault: an empty variable counts as unset.
Value(given, default) == IF given = "" THEN default ELSE given

\* NewConfig: a boolean that does not parse becomes its default, and a list of
\* separators holds no element.
NewConfig(e) ==
    [local |-> Value(e.ENVIRONMENT, "dev") = "local",
     tracing |-> e.ENABLE_TRACING # "false",
     port |-> Value(e.PORT, "8080"),
     redisAddr |-> Value(e.REDIS_ADDR, ""),
     redisAddrParamKey |-> Value(e.REDIS_ADDR_PARAM_KEY, "/INTERNAL_DEVELOPER_PLATFORM/REDIS_ADDR"),
     brokers |-> e.KAFKA_BROKERS \notin {"", ","}]

config == NewConfig(env)

\* Validate: the required settings are there.  The port stands for all three.
Valid(c) == c.port # ""

\* otlpEnabled in New: there is no Collector in local mode.
Otlp == config.tracing /\ ~config.local

\* The services New wires; a route without its service panics when it is called.
ProvisionWired == ~config.local \/ config.brokers
AuthWired == ~config.local

----------------------------------------------------------------------------
(* Start-up *)

\* What New does, in this order.
BootOrder == <<"validate", "logs", "tracing", "metrics", "aws", "queueUrl",
               "clientId", "redisAddr", "redis", "kafka">>

\* The steps New takes in the given environment.
Needed(s) ==
    CASE s \in {"validate", "metrics"} -> TRUE
      [] s \in {"logs", "tracing"} -> Otlp
      [] s \in {"aws", "queueUrl", "clientId"} -> ~config.local
      [] s = "redisAddr" -> ~config.local /\ config.redisAddr = "" /\ config.redisAddrParamKey # ""
      [] s = "redis" -> ~config.local /\ (config.redisAddr # "" \/ config.redisAddrParamKey # "")
      [] s = "kafka" -> config.local /\ config.brokers

\* Steps that leave something to be closed.  The SQS publisher is not a Closer.
Closeable == {"logs", "tracing", "metrics", "redis", "kafka"}

\* A step can succeed unless it asks Parameter Store for what is not there.
CanSucceed(s) ==
    CASE s = "validate" -> Valid(config)
      [] s = "redisAddr" -> env.redisProvisioned
      [] OTHER -> TRUE

\* Every step but the Kafka writer's constructor calls out or can refuse its input.
CanFail(s) ==
    CASE s = "validate" -> ~Valid(config)
      [] s = "kafka" -> FALSE
      [] OTHER -> TRUE

\* Mutant: every client is kept for Shutdown, the ones that need no closing too.
BootKeepsAll ==
    /\ stage = "booting" /\ step <= Len(BootOrder)
    /\ Needed(BootOrder[step]) => CanSucceed(BootOrder[step])
    /\ step' = step + 1
    /\ opened' = IF Needed(BootOrder[step]) THEN opened \cup {BootOrder[step]} ELSE opened
    /\ UNCHANGED <<env, stage, result, listener, signalled, exit, requests>>

Boot ==
    /\ stage = "booting" /\ step <= Len(BootOrder)
    /\ Needed(BootOrder[step]) => CanSucceed(BootOrder[step])
    /\ step' = step + 1
    /\ opened' = IF Needed(BootOrder[step]) THEN opened \cup ({BootOrder[step]} \cap Closeable)
                 ELSE opened
    /\ UNCHANGED <<env, stage, result, listener, signalled, exit, requests>>

\* Validate or New returns an error: log.Fatal ends the process on the spot.
BootFails ==
    /\ stage = "booting" /\ step <= Len(BootOrder)
    /\ Needed(BootOrder[step]) /\ CanFail(BootOrder[step])
    /\ stage' = "exited"
    /\ exit' = "one"
    /\ UNCHANGED <<env, step, opened, result, listener, signalled, requests>>

\* Run calls Server.Start, which launches the goroutine that listens.
Run ==
    /\ stage = "booting" /\ step > Len(BootOrder)
    /\ stage' = "starting"
    /\ UNCHANGED <<env, step, opened, result, listener, signalled, exit, requests>>

----------------------------------------------------------------------------
(* Server.Start and Server.Shutdown *)

Listen ==
    /\ stage \in {"starting", "serving"}
    /\ listener = "down"
    /\ listener' = "up"
    /\ UNCHANGED <<env, stage, step, opened, result, signalled, exit, requests>>

\* ListenAndServe returns an error other than ErrServerClosed: the port is taken,
\* or a later Accept fails for good.
ListenerFails ==
    /\ stage \in {"starting", "serving"}
    /\ listener \in {"down", "up"}
    /\ listener' = "failed"
    /\ UNCHANGED <<env, stage, step, opened, result, signalled, exit, requests>>

\* signal.Notify: from here on a signal no longer kills the process.
Notify ==
    /\ stage = "starting"
    /\ stage' = "serving"
    /\ UNCHANGED <<env, step, opened, result, listener, signalled, exit, requests>>

\* main goes on to app.Shutdown with what Run returned.
Return(r) ==
    /\ stage' = "closing"
    /\ step' = 1
    /\ result' = r

\* Mutant: main exits with 1 on Run's error without calling app.Shutdown.
ServerErrorExits ==
    /\ stage = "serving" /\ listener = "failed"
    /\ stage' = "exited" /\ exit' = "one" /\ result' = "error"
    /\ UNCHANGED <<env, step, opened, listener, signalled, requests>>

\* The server error wins the select: Start returns without draining anything.
ServerError ==
    /\ stage = "serving" /\ listener = "failed"
    /\ Return("error")
    /\ UNCHANGED <<env, opened, listener, signalled, exit, requests>>

\* A request whose connection http.Server.Shutdown waits for.
Busy(r) == pc[r] \notin {"new", "done", "dropped"}

\* The signal wins the select: http.Server.Shutdown closes the listener and waits.
Interrupted ==
    /\ stage = "serving" /\ signalled
    /\ stage' = "draining"
    /\ listener' = "closed"
    /\ UNCHANGED <<env, step, opened, result, signalled, exit, requests>>

DrainCompletes ==
    /\ stage = "draining"
    /\ \A r \in Requests : ~Busy(r)
    /\ Return("ok")
    /\ UNCHANGED <<env, opened, listener, signalled, exit, requests>>

\* Mutant: Server.Shutdown logs the error of http.Server.Shutdown and returns nil.
DrainTimesOutQuietly ==
    /\ stage = "draining"
    /\ Return("ok")
    /\ UNCHANGED <<env, opened, listener, signalled, exit, requests>>

\* Mutant: http.Server.Shutdown gets a context without a deadline.
DrainNeverTimesOut ==
    /\ stage = "draining"
    /\ \A r \in Requests : ~Busy(r)
    /\ Return("error")
    /\ UNCHANGED <<env, opened, listener, signalled, exit, requests>>

\* ShutdownTimeout passes; the handlers keep running.
DrainTimesOut ==
    /\ stage = "draining"
    /\ Return("error")
    /\ UNCHANGED <<env, opened, listener, signalled, exit, requests>>

----------------------------------------------------------------------------
(* Application.Shutdown and the end of main *)

CloseOrder == <<"redis", "kafka", "metrics", "tracing", "logs">>

\* Each is closed in its turn, whether or not that fails: Shutdown logs an error, also
\* that of a provider whose flush outlasts the deadline all three share, and goes on.
\* Whether the last samples and lines arrive is then the Collector's affair.
Close ==
    /\ stage = "closing" /\ step <= Len(CloseOrder)
    /\ opened' = opened \ {CloseOrder[step]}
    /\ step' = step + 1
    /\ UNCHANGED <<env, stage, result, listener, signalled, exit, requests>>

Exit ==
    /\ stage = "closing" /\ step > Len(CloseOrder)
    /\ stage' = "exited"
    /\ exit' = IF result = "ok" THEN "zero" ELSE "one"
    /\ UNCHANGED <<env, step, opened, result, listener, signalled, requests>>

----------------------------------------------------------------------------
(* The requests *)

\* Mutant: statusRecorder ignores a second status, like the responseRecorder of the
\* idempotency middleware.
WriteHeaderOnce(r, status) ==
    /\ reply' = [reply EXCEPT ![r] = IF @ = 0 THEN status ELSE @]
    /\ recorded' = IF reply[r] = 0 THEN [recorded EXCEPT ![r] = status] ELSE recorded

\* A status is written.  The client gets the first; the recorders keep the last.
WriteHeader(r, status) ==
    /\ reply' = [reply EXCEPT ![r] = IF @ = 0 THEN status ELSE @]
    /\ recorded' = [recorded EXCEPT ![r] = status]

\* A status is written and the handler is left.  A reserved key is completed or
\* released next.
Handled(r, status) ==
    /\ WriteHeader(r, status)
    /\ pc' = [pc EXCEPT ![r] = IF record[r] = "IN_FLIGHT" THEN "settle" ELSE "leaving"]

\* The request uses a part of the process, which may have been closed under it.
Meets(r, part) == cutOff' = IF part \in opened THEN cutOff ELSE cutOff \cup {r}

Connect(r) ==
    /\ listener = "up"
    /\ pc[r] = "new"
    /\ pc' = [pc EXCEPT ![r] = "connected"]
    /\ UNCHANGED <<env, process, route, reply, recorded, record, measured, active, panicked, cutOff>>

\* A draining server closes connections that never carried a request.
Drop(r) ==
    /\ stage = "draining"
    /\ pc[r] = "connected"
    /\ pc' = [pc EXCEPT ![r] = "dropped"]
    /\ UNCHANGED <<env, process, route, reply, recorded, record, measured, active, panicked, cutOff>>

\* Routes answered without a service: CORSMiddleware answers OPTIONS, ServeMux 404.
Immediate == [health |-> 200, swagger |-> 200, metrics |-> 200, preflight |-> 204, unknown |-> 404]

\* The request enters the chain and reaches its route.  The idempotency
\* middleware is there when Redis was configured; keyed says the header is set.
Begin(r, t, keyed) ==
    /\ pc[r] = "connected"
    /\ route' = [route EXCEPT ![r] = t]
    /\ active' = IF t = "metrics" THEN active ELSE active + 1
    /\ IF t \in DOMAIN Immediate
       THEN WriteHeader(r, Immediate[t]) /\ pc' = [pc EXCEPT ![r] = "leaving"]
       ELSE /\ pc' = [pc EXCEPT ![r] = IF t # "provision" THEN "auth"
                                       ELSE IF keyed /\ Needed("redis") THEN "reserve" ELSE "publish"]
            /\ UNCHANGED <<reply, recorded>>
    /\ UNCHANGED <<env, process, record, measured, panicked, cutOff>>

\* Reserve succeeds, or fails for any reason of Redis' own; a closed client answers
\* every command with an error.
Reserve(r, answered) ==
    /\ pc[r] = "reserve"
    /\ answered => "redis" \in opened
    /\ IF answered
       THEN /\ record' = [record EXCEPT ![r] = "IN_FLIGHT"]
            /\ pc' = [pc EXCEPT ![r] = "publish"]
            /\ UNCHANGED <<reply, recorded>>
       ELSE Handled(r, 500) /\ UNCHANGED record
    /\ Meets(r, "redis")
    /\ UNCHANGED <<env, process, route, measured, active, panicked>>

\* Provision: a body that is refused, or SendMessage, or WriteMessages, which needs the
\* writer to be open.
Publish(r, status) ==
    /\ pc[r] = "publish"
    /\ ProvisionWired
    /\ status = 202 => (config.local => "kafka" \in opened)
    /\ Handled(r, status)
    /\ IF config.local /\ status # 400 THEN Meets(r, "kafka") ELSE UNCHANGED cutOff
    /\ UNCHANGED <<env, process, route, record, measured, active, panicked>>

\* The three auth handlers: a body that is refused, Cognito's error, or success.
AuthOutcomes(t) ==
    CASE t = "signup" -> {400, 500, 201}
      [] t = "signin" -> {400, 401, 200}
      [] t = "confirm" -> {400, 500, 200}

Authenticate(r, status) ==
    /\ pc[r] = "auth"
    /\ status \in AuthOutcomes(route[r])
    /\ AuthWired \/ status = 400
    /\ Handled(r, status)
    /\ UNCHANGED <<env, process, route, record, measured, active, panicked, cutOff>>

\* A handler panics before it has written anything, always so when its service is not
\* wired: RecoveryMiddleware writes the 500, and the middlewares around it see an
\* ordinary return.
Panic(r) ==
    /\ pc[r] \in {"publish", "auth"}
    /\ Handled(r, 500)
    /\ panicked' = panicked \cup {r}
    /\ UNCHANGED <<env, process, route, record, measured, active, cutOff>>

\* The handler of the documentation pages, which is not this code's, panics in the middle
\* of a page: RecoveryMiddleware writes a second status.
PanicLate(r) ==
    /\ pc[r] = "leaving" /\ route[r] = "swagger" /\ r \notin panicked
    /\ WriteHeader(r, 500)
    /\ panicked' = panicked \cup {r}
    /\ UNCHANGED <<env, process, pc, route, record, measured, active, cutOff>>

\* Complete, or Release after a 5xx.  An error of either is ignored: Redis is closed or
\* fails, or the client of Complete is gone.  The record then stays for its TTL.
Settle(r, answered) ==
    /\ pc[r] = "settle"
    /\ answered => "redis" \in opened
    /\ record' = IF ~answered THEN record
                 ELSE [record EXCEPT ![r] = IF reply[r] < 500 THEN "COMPLETED" ELSE "ABSENT"]
    /\ pc' = [pc EXCEPT ![r] = "leaving"]
    /\ Meets(r, "redis")
    /\ UNCHANGED <<env, process, route, reply, recorded, measured, active, panicked>>

\* RequestLoggingMiddleware: scrapes and probes get no line; the hook mirrors every other
\* line into the OTLP pipeline.
Logs(r) == route[r] \notin {"metrics", "health"} /\ Otlp

\* The outer middlewares on the way back: the log line, the histogram sample and
\* the gauge.  A scrape passes them by.
Leave(r) ==
    /\ pc[r] = "leaving"
    /\ pc' = [pc EXCEPT ![r] = "done"]
    /\ measured' = [measured EXCEPT ![r] = IF route[r] = "metrics" THEN 0 ELSE recorded[r]]
    /\ active' = IF route[r] = "metrics" THEN active ELSE active - 1
    /\ IF Logs(r) THEN Meets(r, "logs") ELSE UNCHANGED cutOff
    /\ UNCHANGED <<env, process, route, reply, recorded, record, panicked>>

----------------------------------------------------------------------------
(* The environment *)

\* Until Notify a signal has its default effect.
Signal ==
    /\ ~signalled
    /\ signalled' = TRUE
    /\ IF stage \in {"booting", "starting"}
       THEN stage' = "exited" /\ exit' = "killed"
       ELSE UNCHANGED <<stage, exit>>
    /\ UNCHANGED <<env, step, opened, result, listener, requests>>

\* SIGKILL: out of memory, or 30 s after the SIGTERM, as long as the drain may take.
Kill ==
    /\ stage' = "exited"
    /\ exit' = "killed"
    /\ UNCHANGED <<env, step, opened, result, listener, signalled, requests>>

----------------------------------------------------------------------------
Init ==
    /\ env \in Environments
    /\ stage = "booting" /\ step = 1 /\ opened = {} /\ result = "none"
    /\ listener = "down" /\ signalled = FALSE /\ exit = "none"
    /\ pc = [r \in Requests |-> "new"]
    /\ route = [r \in Requests |-> "none"]
    /\ reply = [r \in Requests |-> 0]
    /\ recorded = [r \in Requests |-> 200]
    /\ record = [r \in Requests |-> "ABSENT"]
    /\ measured = [r \in Requests |-> 0]
    /\ active = 0 /\ panicked = {} /\ cutOff = {}

\* main, from its first line to the exit.
Main ==
    \/ Boot \/ BootFails \/ Run \/ Notify
    \/ ServerError \/ Interrupted \/ DrainCompletes \/ DrainTimesOut
    \/ Close \/ Exit

Serve(r) ==
    \/ Connect(r) \/ Drop(r)
    \/ \E t \in Routes, keyed \in BOOLEAN : Begin(r, t, keyed)
    \/ \E answered \in BOOLEAN : Reserve(r, answered) \/ Settle(r, answered)
    \/ \E status \in {202, 400, 500} : Publish(r, status)
    \/ \E status \in {200, 201, 400, 401, 500} : Authenticate(r, status)
    \/ Panic(r) \/ PanicLate(r) \/ Leave(r)

Next ==
    /\ stage # "exited"
    /\ \/ Main \/ Listen \/ ListenerFails \/ Signal \/ Kill
       \/ \E r \in Requests : Serve(r)

Spec == Init /\ [][Next]_vars

\* main's goroutine is scheduled, and every call it makes after start-up ends: the drain
\* and the telemetry providers have deadlines, the Redis client closes at once, and the
\* Kafka writer waits for no more than writes that time out.  Handlers get no fairness:
\* SendMessage has no timeout of its own.
FairSpec == Spec /\ WF_vars(Main)
----------------------------------------------------------------------------
(* Properties *)

TypeOK ==
    /\ env \in Environments
    /\ stage \in {"booting", "starting", "serving", "draining", "closing", "exited"}
    /\ step \in Nat \ {0}
    /\ opened \subseteq Closeable
    /\ result \in {"none", "ok", "error"}
    /\ listener \in {"down", "up", "failed", "closed"}
    /\ signalled \in BOOLEAN
    /\ exit \in {"none", "zero", "one", "killed"}
    /\ pc \in [Requests -> {"new", "connected", "reserve", "publish", "auth", "settle",
                             "leaving", "done", "dropped"}]
    /\ route \in [Requests -> Routes \cup {"none"}]
    /\ reply \in [Requests -> {0, 200, 201, 202, 204, 400, 401, 404, 500}]
    /\ recorded \in [Requests -> {200, 201, 202, 204, 400, 401, 404, 500}]
    /\ record \in [Requests -> {"ABSENT", "IN_FLIGHT", "COMPLETED"}]
    /\ measured \in [Requests -> {0, 200, 201, 202, 204, 400, 401, 404, 500}]
    /\ active \in Int
    /\ panicked \subseteq Requests /\ cutOff \subseteq Requests

\* A process that ends well cuts nobody off.  Once Run has returned without an error no
\* handler is left running over what main closes next, and by then no request has met a
\* closed Redis client, Kafka writer or log pipeline, nor will one: only a broken
\* listener, a drain that timed out or a kill does that to a request, and then the
\* process does not exit with 0.
CleanHandover == result = "ok" => (\A r \in Requests : ~Busy(r)) /\ cutOff = {}

\* Once Run was entered, whichever way main leaves it, everything New opened has
\* been closed by the time main exits by itself.
RunReleases == (exit \in {"zero", "one"} /\ result # "none") => opened = {}

\* Inside the middleware chain, counted by the gauge.
InChain(r) == pc[r] \in {"reserve", "publish", "auth", "settle", "leaving"} /\ route[r] # "metrics"

\* The gauge is the load: it counts back for every way out of the chain, panics included.
\* Every request but a scrape is measured with the status its client got, or with the 500
\* RecoveryMiddleware wrote, even too late for the client (metrics_middleware.go:59-61).
SeenAsServed ==
    /\ active = Cardinality({r \in Requests : InChain(r)})
    /\ \A r \in Requests : (pc[r] = "done" /\ route[r] # "metrics") =>
           measured[r] = IF r \in panicked THEN 500 ELSE reply[r]

\* A signal ends the process, however long a handler takes.
SignalEnds == signalled ~> exit # "none"

=============================================================================
