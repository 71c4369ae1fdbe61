---------------------------- MODULE Idempotency ----------------------------
(***************************************************************************)
(* The idempotency layer of POST /v1/provision: the HTTP middleware        *)
(* (idempotency_middleware.go), the Redis store it drives                  *)
(* (redis_store.go) and the handler it wraps (resource_handler.go, down to *)
(* the queue publisher).                                                   *)
(*                                                                         *)
(* Each request is a process of its own: the API runs as several replicas  *)
(* and every replica serves requests concurrently.  Every Redis round trip *)
(* is one atomic step, because Redis executes commands and Lua scripts one *)
(* at a time; everything between two round trips of a request can be       *)
(* overtaken by any other request.  A retry is a further request carrying  *)
(* the same key.                                                           *)
(*                                                                         *)
(* The ghost parts are the fields owner and from of a record (who wrote it *)
(* with SETNX, whose handler produced the response) and the variables      *)
(* sent, unconfirmed and losses.  No guard reads them.                     *)
(***************************************************************************)
EXTENDS Integers, FiniteSets

CONSTANTS
    Requests,     \* HTTP requests, each served once
    Keys,         \* well-formed X-Idempotency-Key values
    NoKey,        \* the header is absent
    Bodies,       \* request bodies (equal bodies have equal sha256 hashes)
    ValidBodies,  \* the bodies DecodeAndValidate accepts
    None,         \* fills the fields of an absent record or reply
    Faults        \* the faults of the environment this instance admits

FaultKinds == {"loss", "redis", "disconnect", "publish", "unconfirmed", "panic", "crash"}

ASSUME RequestsFinite == IsFiniteSet(Requests)
ASSUME BodiesSplit == ValidBodies \subseteq Bodies
ASSUME KeysDistinct == NoKey \notin Keys
ASSUME NoneDistinct == None \notin Requests /\ None \notin Bodies /\ None \notin Keys \cup {NoKey}
ASSUME FaultsKnown == Faults \subseteq FaultKinds

VARIABLES
    pc,           \* how far each request has got
    req,          \* key and body of each request
    store,        \* Redis: the record kept under each key
    snapshot,     \* hash of the record Complete's GET returned
    reply,        \* what was written to the client
    gone,         \* requests whose context is cancelled (client disconnected)
    sent,         \* requests whose message reached the provisioning queue
    unconfirmed,  \* requests in sent whose handler did not report success
    losses        \* per key, how often its record was taken from under its owner

vars == <<pc, req, store, snapshot, reply, gone, sent, unconfirmed, losses>>

----------------------------------------------------------------------------
(* Values *)

\* Where a request is between two round trips.
Stages == {"new", "setnx", "setnxRetry", "get", "handler", "completeGet",
           "completeScript", "completeRetry", "release", "releaseRetry", "done", "crashed"}

\* The HTTP status codes written; 0 stands for none yet.
Statuses == {0, 202, 400, 409, 422, 500}

\* recordEnvelope; "ABSENT" is a key Redis does not hold.
Record == [state : {"ABSENT", "IN_FLIGHT", "COMPLETED"},
           hash : Bodies \cup {None}, owner : Requests \cup {None},
           status : Statuses, from : Requests \cup {None},
           expires : BOOLEAN]  \* Redis keeps a TTL with it

Absent == [state |-> "ABSENT", hash |-> None, owner |-> None, status |-> 0, from |-> None,
           expires |-> FALSE]

\* env as Reserve builds it: IN_FLIGHT under the hash of the request's body, with a TTL.
InFlight(r) == [state |-> "IN_FLIGHT", hash |-> req[r].body, owner |-> r,
                status |-> 0, from |-> None, expires |-> TRUE]

\* A response, and whether it was replayed from the store.
Reply == [status : Statuses, from : Requests \cup {None}, replay : BOOLEAN]

NoReply == [status |-> 0, from |-> None, replay |-> FALSE]

Answer(r, status) == [status |-> status, from |-> r, replay |-> FALSE]

\* A request that holds a reservation and has not let go of it yet.
Owning == {"handler", "completeGet", "completeScript", "completeRetry", "release"}

Owns(r) == pc[r] \in Owning /\ req[r].key \in Keys

\* The record Redis currently holds under the request's key.
RecordOf(r) == store[req[r].key]

Connected(r) == r \notin gone

\* RespondWithError and the return that follows it.
Finish(r, response) ==
    /\ reply' = [reply EXCEPT ![r] = response]
    /\ pc' = [pc EXCEPT ![r] = "done"]

----------------------------------------------------------------------------
(* The middleware up to the handler *)

\* Mutant: the check for an absent header is dropped.
ArriveUnchecked(r, k, b) ==
    /\ pc[r] = "new"
    /\ req' = [req EXCEPT ![r] = [key |-> k, body |-> b]]
    /\ pc' = [pc EXCEPT ![r] = "setnx"]
    /\ UNCHANGED <<store, snapshot, reply, gone, sent, unconfirmed, losses>>

\* The header is read: absent means straight to the handler, a UUID with a
\* readable body means Reserve.
Arrive(r, k, b) ==
    /\ pc[r] = "new"
    /\ req' = [req EXCEPT ![r] = [key |-> k, body |-> b]]
    /\ pc' = [pc EXCEPT ![r] = IF k = NoKey THEN "handler" ELSE "setnx"]
    /\ UNCHANGED <<store, snapshot, reply, gone, sent, unconfirmed, losses>>

\* The key does not parse, or the body of a keyed request cannot be read: 400.
Reject(r) ==
    /\ pc[r] = "new"
    /\ Finish(r, Answer(r, 400))
    /\ UNCHANGED <<req, store, snapshot, gone, sent, unconfirmed, losses>>

\* Mutant: SET instead of SETNX.
ReserveOverwrites(r) ==
    /\ pc[r] \in {"setnx", "setnxRetry"}
    /\ Connected(r)
    /\ store' = [store EXCEPT ![req[r].key] = InFlight(r)]
    /\ pc' = [pc EXCEPT ![r] = "handler"]
    /\ UNCHANGED <<req, snapshot, reply, gone, sent, unconfirmed, losses>>

\* Reserve's SETNX finds the key free: the record is created for this request.
ReserveCreates(r) ==
    /\ pc[r] \in {"setnx", "setnxRetry"}
    /\ Connected(r)
    /\ RecordOf(r).state = "ABSENT"
    /\ store' = [store EXCEPT ![req[r].key] = InFlight(r)]
    /\ pc' = [pc EXCEPT ![r] = "handler"]
    /\ UNCHANGED <<req, snapshot, reply, gone, sent, unconfirmed, losses>>

\* SETNX is applied but its answer is lost, and the Redis client sends the
\* command again (it retries network errors; one retry is modelled).
ReserveAnswerLost(r) ==
    /\ "redis" \in Faults
    /\ pc[r] = "setnx"
    /\ Connected(r)
    /\ store' = IF RecordOf(r).state = "ABSENT"
                THEN [store EXCEPT ![req[r].key] = InFlight(r)]
                ELSE store
    /\ pc' = [pc EXCEPT ![r] = "setnxRetry"]
    /\ UNCHANGED <<req, snapshot, reply, gone, sent, unconfirmed, losses>>

\* SETNX finds the key taken: Reserve goes on to a separate GET.
ReserveTaken(r) ==
    /\ pc[r] \in {"setnx", "setnxRetry"}
    /\ Connected(r)
    /\ RecordOf(r).state # "ABSENT"
    /\ pc' = [pc EXCEPT ![r] = "get"]
    /\ UNCHANGED <<req, store, snapshot, reply, gone, sent, unconfirmed, losses>>

\* Mutant: the body hash is not compared.
ReplayAnyBody(r, rec) ==
    IF rec.state = "IN_FLIGHT" THEN Answer(r, 409)
    ELSE [status |-> rec.status, from |-> rec.from, replay |-> TRUE]

\* replayCachedResponse: mismatching hash, still in flight, or the stored response.
ReplayOf(r, rec) ==
    IF rec.hash # req[r].body THEN Answer(r, 422)
    ELSE IF rec.state = "IN_FLIGHT" THEN Answer(r, 409)
    ELSE [status |-> rec.status, from |-> rec.from, replay |-> TRUE]

\* Reserve's GET returns a record and the request is answered from it.
ReserveReads(r) ==
    /\ pc[r] = "get"
    /\ Connected(r)
    /\ RecordOf(r).state # "ABSENT"
    /\ Finish(r, ReplayOf(r, RecordOf(r)))
    /\ UNCHANGED <<req, store, snapshot, gone, sent, unconfirmed, losses>>

\* Mutant: a record that vanished before GET is not treated as an error.
ReserveFailsOnErrorOnly(r) ==
    /\ pc[r] \in {"setnx", "setnxRetry", "get"} /\ (~Connected(r) \/ "redis" \in Faults)
    /\ Finish(r, Answer(r, 500))
    /\ UNCHANGED <<req, store, snapshot, gone, sent, unconfirmed, losses>>

\* Reserve returns an error and the client gets "Idempotency store unavailable":
\* the record vanished between SETNX and GET, the context is cancelled, or Redis
\* does not answer.
ReserveFails(r) ==
    /\ \/ pc[r] = "get" /\ RecordOf(r).state = "ABSENT"
       \/ pc[r] \in {"setnx", "setnxRetry", "get"} /\ (~Connected(r) \/ "redis" \in Faults)
    /\ Finish(r, Answer(r, 500))
    /\ UNCHANGED <<req, store, snapshot, gone, sent, unconfirmed, losses>>

----------------------------------------------------------------------------
(* The wrapped handler, ResourceHandler.Provision *)

\* Mutant: only statuses below 202 are cached.
HandlerReturnsUncached(r, status) ==
    /\ reply' = [reply EXCEPT ![r] = Answer(r, status)]
    /\ pc' = [pc EXCEPT ![r] = IF req[r].key = NoKey THEN "done"
                               ELSE IF status < 202 THEN "completeGet" ELSE "release"]
    /\ UNCHANGED <<req, store, snapshot, gone, losses>>

\* Mutant: every response is cached, failures too.
HandlerReturnsCached(r, status) ==
    /\ reply' = [reply EXCEPT ![r] = Answer(r, status)]
    /\ pc' = [pc EXCEPT ![r] = IF req[r].key = NoKey THEN "done" ELSE "completeGet"]
    /\ UNCHANGED <<req, store, snapshot, gone, losses>>

\* The handler has written `status`; shouldCacheResponse picks Complete or
\* Release.  A request without a key never entered the middleware.
HandlerReturns(r, status) ==
    /\ reply' = [reply EXCEPT ![r] = Answer(r, status)]
    /\ pc' = [pc EXCEPT ![r] = IF req[r].key = NoKey THEN "done"
                               ELSE IF status < 500 THEN "completeGet" ELSE "release"]
    /\ UNCHANGED <<req, store, snapshot, gone, losses>>

\* DecodeAndValidate refuses the body.
HandlerRejects(r) ==
    /\ pc[r] = "handler"
    /\ req[r].body \notin ValidBodies
    /\ HandlerReturns(r, 400)
    /\ UNCHANGED <<sent, unconfirmed>>

\* SendMessage succeeds: 202 Accepted.
HandlerPublishes(r) ==
    /\ pc[r] = "handler"
    /\ req[r].body \in ValidBodies
    /\ Connected(r)
    /\ sent' = sent \cup {r}
    /\ HandlerReturns(r, 202)
    /\ UNCHANGED unconfirmed

\* Mutant: the error of SendProvisioningRequest is not looked at.
HandlerIgnoresPublishError(r) ==
    /\ pc[r] = "handler"
    /\ req[r].body \in ValidBodies
    /\ ~Connected(r) \/ "publish" \in Faults
    /\ HandlerReturns(r, 202)
    /\ UNCHANGED <<sent, unconfirmed>>

\* SendMessage fails and nothing was queued: 500.
HandlerPublishFails(r) ==
    /\ pc[r] = "handler"
    /\ req[r].body \in ValidBodies
    /\ ~Connected(r) \/ "publish" \in Faults
    /\ HandlerReturns(r, 500)
    /\ UNCHANGED <<sent, unconfirmed>>

\* SendMessage returns an error although the message was queued (the answer
\* timed out, or the context was cancelled while it was under way): 500.
HandlerPublishUnconfirmed(r) ==
    /\ pc[r] = "handler"
    /\ req[r].body \in ValidBodies
    /\ "unconfirmed" \in Faults
    /\ sent' = sent \cup {r}
    /\ unconfirmed' = unconfirmed \cup {r}
    /\ HandlerReturns(r, 500)

\* The handler panics, before or after the message was queued.  The middleware's
\* deferred function releases the key and panics again; RecoveryMiddleware then
\* writes the 500 (Release, below).  Without a key only RecoveryMiddleware acts.
HandlerPanics(r, queued) ==
    /\ "panic" \in Faults
    /\ pc[r] = "handler"
    /\ queued => req[r].body \in ValidBodies
    /\ sent' = IF queued THEN sent \cup {r} ELSE sent
    /\ unconfirmed' = IF queued THEN unconfirmed \cup {r} ELSE unconfirmed
    /\ IF req[r].key = NoKey
       THEN Finish(r, Answer(r, 500))
       ELSE pc' = [pc EXCEPT ![r] = "release"] /\ UNCHANGED reply
    /\ UNCHANGED <<req, store, snapshot, gone, losses>>

----------------------------------------------------------------------------
(* The middleware after the handler *)

\* Complete's GET.  A missing record ends Complete without an error.
CompleteGets(r) ==
    /\ pc[r] = "completeGet"
    /\ Connected(r)
    /\ snapshot' = [snapshot EXCEPT ![r] = RecordOf(r).hash]
    /\ pc' = [pc EXCEPT ![r] = IF RecordOf(r).state = "ABSENT" THEN "done" ELSE "completeScript"]
    /\ UNCHANGED <<req, store, reply, gone, sent, unconfirmed, losses>>

\* Mutant: SET without PX, which takes the TTL the reservation had away.
ApplyCompleteForEver(r) ==
    store' = IF RecordOf(r).state = "ABSENT" THEN store
             ELSE [store EXCEPT ![req[r].key] =
                     [state |-> "COMPLETED", hash |-> snapshot[r], owner |-> @.owner,
                      status |-> reply[r].status, from |-> r, expires |-> FALSE]]

\* What completeScript does to Redis: overwrite whatever is there, with a fresh TTL,
\* unless nothing is.
ApplyComplete(r) ==
    store' = IF RecordOf(r).state = "ABSENT" THEN store
             ELSE [store EXCEPT ![req[r].key] =
                     [state |-> "COMPLETED", hash |-> snapshot[r], owner |-> @.owner,
                      status |-> reply[r].status, from |-> r, expires |-> TRUE]]

\* completeScript runs.  When its answer is lost the Redis client sends it again.
CompleteScript(r, answered) ==
    /\ pc[r] \in {"completeScript", "completeRetry"}
    /\ Connected(r)
    /\ answered \/ (pc[r] = "completeScript" /\ "redis" \in Faults)
    /\ ApplyComplete(r)
    /\ pc' = [pc EXCEPT ![r] = IF answered THEN "done" ELSE "completeRetry"]
    /\ UNCHANGED <<req, snapshot, reply, gone, sent, unconfirmed, losses>>

\* Complete runs under the request's context, so a disconnected client or a
\* Redis error ends it with the record as it is.
CompleteFails(r) ==
    /\ pc[r] \in {"completeGet", "completeScript", "completeRetry"}
    /\ ~Connected(r) \/ "redis" \in Faults
    /\ pc' = [pc EXCEPT ![r] = "done"]
    /\ UNCHANGED <<req, store, snapshot, reply, gone, sent, unconfirmed, losses>>

\* What the client of a released request ends up with: the handler's 5xx, or
\* RecoveryMiddleware's 500 after a panic.
AfterRelease(r) == IF reply[r] = NoReply THEN Answer(r, 500) ELSE reply[r]

\* What releaseScript does to Redis: delete the record if it is IN_FLIGHT, whoever
\* reserved it.  A repeated script that deletes took someone else's record.
ApplyRelease(r) ==
    LET deletes == RecordOf(r).state = "IN_FLIGHT"
        k == req[r].key
    IN  /\ store' = IF deletes THEN [store EXCEPT ![k] = Absent] ELSE store
        /\ losses' = IF deletes /\ pc[r] = "releaseRetry"
                     THEN [losses EXCEPT ![k] = @ + 1] ELSE losses

\* releaseScript runs, under a context of its own, and the request ends.
Release(r) ==
    /\ pc[r] \in {"release", "releaseRetry"}
    /\ ApplyRelease(r)
    /\ Finish(r, AfterRelease(r))
    /\ UNCHANGED <<req, snapshot, gone, sent, unconfirmed>>

\* releaseScript runs but its answer is lost: the Redis client sends it again.
ReleaseAnswerLost(r) ==
    /\ "redis" \in Faults
    /\ pc[r] = "release"
    /\ ApplyRelease(r)
    /\ pc' = [pc EXCEPT ![r] = "releaseRetry"]
    /\ UNCHANGED <<req, snapshot, reply, gone, sent, unconfirmed>>

\* Mutant: Release runs under the request's context, not one of its own.
ReleaseCancelled(r) ==
    /\ "redis" \in Faults \/ ~Connected(r)
    /\ pc[r] \in {"release", "releaseRetry"}
    /\ Finish(r, AfterRelease(r))
    /\ UNCHANGED <<req, store, snapshot, gone, sent, unconfirmed, losses>>

\* The script never reaches Redis; the middleware ignores the error of Release.
ReleaseFails(r) ==
    /\ "redis" \in Faults
    /\ pc[r] \in {"release", "releaseRetry"}
    /\ Finish(r, AfterRelease(r))
    /\ UNCHANGED <<req, store, snapshot, gone, sent, unconfirmed, losses>>

----------------------------------------------------------------------------
(* The environment *)

\* The client of a request under way closes its connection: net/http cancels
\* the request's context.  Release has a context of its own and does not notice.
ClientDisconnects(r) ==
    /\ "disconnect" \in Faults
    /\ pc[r] \notin {"new", "release", "releaseRetry", "done", "crashed"}
    /\ Connected(r)
    /\ gone' = gone \cup {r}
    /\ UNCHANGED <<pc, req, store, snapshot, reply, sent, unconfirmed, losses>>

\* The replica serving the request dies.
ReplicaCrashes(r) ==
    /\ "crash" \in Faults
    /\ pc[r] \notin {"new", "done", "crashed"}
    /\ pc' = [pc EXCEPT ![r] = "crashed"]
    /\ UNCHANGED <<req, store, snapshot, reply, gone, sent, unconfirmed, losses>>

\* Redis drops a record: its TTL ran out, or the server, which keeps nothing on
\* disk and evicts under memory pressure, restarted or evicted it.
RecordLost(k) ==
    /\ "loss" \in Faults
    /\ store[k].state # "ABSENT"
    /\ store' = [store EXCEPT ![k] = Absent]
    /\ losses' = [losses EXCEPT ![k] = @ + 1]
    /\ UNCHANGED <<pc, req, snapshot, reply, gone, sent, unconfirmed>>

----------------------------------------------------------------------------
Init ==
    /\ pc = [r \in Requests |-> "new"]
    /\ req = [r \in Requests |-> [key |-> None, body |-> None]]
    /\ store = [k \in Keys |-> Absent]
    /\ snapshot = [r \in Requests |-> None]
    /\ reply = [r \in Requests |-> NoReply]
    /\ gone = {}
    /\ sent = {}
    /\ unconfirmed = {}
    /\ losses = [k \in Keys |-> 0]

\* One step of the code serving request r.
Serve(r) ==
    \/ ReserveCreates(r)
    \/ ReserveAnswerLost(r)
    \/ ReserveTaken(r)
    \/ ReserveReads(r)
    \/ ReserveFails(r)
    \/ HandlerRejects(r)
    \/ HandlerPublishes(r)
    \/ HandlerPublishFails(r)
    \/ HandlerPublishUnconfirmed(r)
    \/ \E queued \in BOOLEAN : HandlerPanics(r, queued)
    \/ CompleteGets(r)
    \/ \E answered \in BOOLEAN : CompleteScript(r, answered)
    \/ CompleteFails(r)
    \/ Release(r)
    \/ ReleaseAnswerLost(r)
    \/ ReleaseFails(r)

Environment ==
    \/ \E r \in Requests, k \in Keys \cup {NoKey}, b \in Bodies : Arrive(r, k, b)
    \/ \E r \in Requests : Reject(r)
    \/ \E r \in Requests : ClientDisconnects(r)
    \/ \E r \in Requests : ReplicaCrashes(r)
    \/ \E k \in Keys : RecordLost(k)

Next == Environment \/ \E r \in Requests : Serve(r)

Spec == Init /\ [][Next]_vars

\* The request waits for SendMessage, under the context of a client still connected.
AwaitsQueue(r) == pc[r] = "handler" /\ req[r].body \in ValidBodies /\ Connected(r)

\* Redis drops a record whose TTL ran out.
Expires(k) == store[k].expires /\ RecordLost(k)

\* The goroutine of a request keeps running.  A Redis command returns, with a result or
\* an error: the client has dial, read and write timeouts.  The SQS client has none, so
\* nothing makes SendMessage return but its context, which ends with the connection.
\* Redis drops what has a TTL; nothing is promised of a record without one.
FairSpec ==
    /\ Spec
    /\ \A r \in Requests : WF_vars(~AwaitsQueue(r) /\ Serve(r))
    /\ \A k \in Keys : WF_vars(Expires(k))

----------------------------------------------------------------------------
(* Properties *)

TypeOK ==
    /\ pc \in [Requests -> Stages]
    /\ req \in [Requests -> [key : Keys \cup {NoKey, None}, body : Bodies \cup {None}]]
    /\ store \in [Keys -> Record]
    /\ snapshot \in [Requests -> Bodies \cup {None}]
    /\ reply \in [Requests -> Reply]
    /\ gone \subseteq Requests
    /\ sent \subseteq Requests
    /\ unconfirmed \subseteq sent
    /\ losses \in [Keys -> Nat]
    \* a request being served has a body, and only keyed ones enter the middleware
    /\ \A r \in Requests :
          /\ pc[r] \notin {"new", "done", "crashed"} => req[r].body \in Bodies
          /\ pc[r] = "handler" => req[r].key \in Keys \cup {NoKey}
          /\ pc[r] \in Stages \ {"new", "handler", "done", "crashed"} => req[r].key \in Keys

\* The requests carrying key k that were accepted: queued, and reported as such.
Accepted(k) == {r \in sent \ unconfirmed : req[r].key = k}

\* A key is accepted at most once, plus once for every time its record was taken
\* from under its owner (lost by Redis, or deleted by a repeated Release): whatever
\* the interleaving of retries, failed publishes, cancelled contexts, lost Redis
\* answers, panics and crashes, nothing else lets the middleware run the handler to
\* success twice for one key.
DuplicatesAccounted == \A k \in Keys : Cardinality(Accepted(k)) <= 1 + losses[k]

\* The requests that count against key k: those holding a reservation now and
\* those already accepted.
Claimants(k) == {r \in Requests : req[r].key = k /\ (Owns(r) \/ r \in sent \ unconfirmed)}

\* Why DuplicatesAccounted holds: each key starts with one right to run the
\* handler; SETNX spends it, Release or a loss can hand it out again, and only a
\* loss does so without a claimant giving it up.
ClaimsBounded ==
    \A k \in Keys :
        Cardinality(Claimants(k)) + (IF store[k].state = "ABSENT" THEN 1 ELSE 0) <= 1 + losses[k]

\* While the key's record was never taken away, a replayed response was produced for a
\* request with the same key and the same body: a client never receives the
\* outcome of someone else's request.
ReplayFaithful ==
    \A r \in Requests :
        (reply[r].replay /\ losses[req[r].key] = 0) => req[reply[r].from] = req[r]

\* A client told 202, directly or by replay, has a message on the queue behind
\* it, even across record losses, panics and crashes.
AcceptedIsQueued == \A r \in Requests : reply[r].status = 202 => reply[r].from \in sent \ unconfirmed

\* A stored response is final: as long as the key's record was never taken away, no
\* late Complete, no Release of a failed sibling and no new reservation changes
\* a COMPLETED record.
CompletedIsFinal ==
    [][\A k \in Keys : (store[k].state = "COMPLETED" /\ losses'[k] = 0) => store'[k] = store[k]]_vars

Submitted == INSTANCE Submission WITH asked <- req, answer <- reply, accepted <- sent \ unconfirmed

\* The middleware, the store and the handler together keep what POST /v1/provision
\* promises (Submission): one final answer per request, one acceptance per key and loss,
\* no failure ever replayed, no replay or 422 but against the key's earlier requests.
ImplementsSubmission == Submitted!Spec

\* Every request that arrived is served to the end, whatever fails on the way, unless its
\* replica dies or SendMessage never returns and its client never gives up either.
RequestsServed ==
    \A r \in Requests : pc[r] # "new" ~> (pc[r] \in {"done", "crashed"} \/ []AwaitsQueue(r))

\* No key is taken for ever, neither by a reservation whose request died or could not
\* complete it nor by a stored response: whoever writes a record leaves a TTL on it.
KeysComeFree == \A k \in Keys : store[k].state # "ABSENT" ~> store[k].state = "ABSENT"

\* A request that failed leaves its key free for the retry, even when the handler panicked
\* or the client is long gone: when Redis answers, no request that ended with a 5xx still
\* holds a reservation.
FailureFreesKey ==
    "redis" \notin Faults =>
        \A r \in Requests : (pc[r] = "done" /\ reply[r].status >= 500) =>
            \A k \in Keys : ~(store[k].state = "IN_FLIGHT" /\ store[k].owner = r)

\* What redis_store.go says of Complete: it only overwrites a record the
\* completing request still owns.
CompletesOwnRecord ==
    \A k \in Keys : store[k].state = "COMPLETED" => store[k].from = store[k].owner

\* What resource_handler.go relies on to mint a fresh provision id per call:
\* a retry does not reach the handler once its key was queued.
QueuedOncePerKey ==
    \A r, s \in sent : (req[r].key = req[s].key /\ req[r].key \in Keys) => r = s

=============================================================================
