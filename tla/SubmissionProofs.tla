-------------------------- MODULE SubmissionProofs --------------------------
(***************************************************************************)
(* The idempotency layer implements Submission, for any number of          *)
(* requests, keys and bodies and any combination of faults.                *)
(***************************************************************************)
EXTENDS IdempotencyProofs

\* Nobody was answered before the handler returned, and a request that did not
\* arrive asks for nothing.
AnswersInOrder ==
    \A r \in Requests :
        /\ pc[r] \in {"new", "setnx", "setnxRetry", "get", "handler"} => reply[r] = NoReply
        /\ pc[r] = "new" => req[r] = [key |-> None, body |-> None]

\* r was answered by its own handler, and not with a failure.
Served(r) == reply[r].status \in {202, 400} /\ reply[r].from = r /\ ~reply[r].replay

\* What is stored, or about to be, is the answer of a request under the same key.
StoredWasServed ==
    /\ \A r \in Requests : pc[r] \in {"completeGet", "completeScript", "completeRetry"} => Served(r)
    /\ \A k \in Keys : store[k].state = "COMPLETED" =>
          /\ store[k].from \in Requests
          /\ req[store[k].from].key = k
          /\ Served(store[k].from)
          /\ reply[store[k].from].status = store[k].status

\* Someone asked for body b under key k.
Asked(k, b) == \E o \in Requests : req[o].key = k /\ req[o].body = b

\* Every hash Redis holds, or Complete is about to write, is of a body asked for under
\* the key, even when the record changed hands.
HashesWereAsked ==
    /\ \A k \in Keys : store[k].state # "ABSENT" => Asked(k, store[k].hash)
    /\ \A r \in Requests :
          pc[r] \in {"completeScript", "completeRetry"} => Asked(req[r].key, snapshot[r])

\* What the steps of Submission need beyond ClaimInv and CustodyInv.
AnswerInv == AnswersInOrder /\ StoredWasServed /\ HashesWereAsked

\* Serving a request keeps the order of its answer.
LEMMA AnswersInOrderServe ==
    ASSUME TypeOK, AnswersInOrder, NEW r \in Requests, Serve(r)
    PROVE  AnswersInOrder'
<1> USE DEF TypeOK, AnswersInOrder
<1>1. CASE ReserveCreates(r)
  BY <1>1 DEF ReserveCreates, InFlight
<1>2. CASE ReserveAnswerLost(r)
  BY <1>2 DEF ReserveAnswerLost, InFlight
<1>3. CASE ReserveTaken(r)
  BY <1>3 DEF ReserveTaken
<1>4. CASE ReserveReads(r)
  BY <1>4 DEF ReserveReads, Finish
<1>5. CASE ReserveFails(r)
  BY <1>5 DEF ReserveFails, Finish
<1>6. CASE HandlerRejects(r)
  BY <1>6 DEF HandlerRejects, HandlerReturns
<1>7. CASE HandlerPublishes(r)
  BY <1>7 DEF HandlerPublishes, HandlerReturns
<1>8. CASE HandlerPublishFails(r)
  BY <1>8 DEF HandlerPublishFails, HandlerReturns
<1>9. CASE HandlerPublishUnconfirmed(r)
  BY <1>9 DEF HandlerPublishUnconfirmed, HandlerReturns
<1>10. ASSUME NEW queued \in BOOLEAN, HandlerPanics(r, queued)
       PROVE  AnswersInOrder'
  BY <1>10 DEF HandlerPanics, Finish
<1>11. CASE CompleteGets(r)
  BY <1>11 DEF CompleteGets
<1>12. ASSUME NEW answered \in BOOLEAN, CompleteScript(r, answered)
       PROVE  AnswersInOrder'
  BY <1>12 DEF CompleteScript, ApplyComplete
<1>13. CASE CompleteFails(r)
  BY <1>13 DEF CompleteFails
<1>14. CASE Release(r)
  BY <1>14 DEF Release, ApplyRelease, Finish, Absent
<1>15. CASE ReleaseAnswerLost(r)
  BY <1>15 DEF ReleaseAnswerLost, ApplyRelease, Absent
<1>16. CASE ReleaseFails(r)
  BY <1>16 DEF ReleaseFails, Finish
<1> HIDE DEF TypeOK, AnswersInOrder
<1> QED
  BY <1>1, <1>2, <1>3, <1>4, <1>5, <1>6, <1>7, <1>8, <1>9, <1>10, <1>11, <1>12, <1>13, <1>14, <1>15, <1>16 DEF Serve

\* What a client was told stays.
AnswersStay == \A s \in Requests : reply[s] # NoReply => reply'[s] = reply[s]

\* Serving a request answers it at most once, and nobody else.
LEMMA AnswersStayServe ==
    ASSUME TypeOK, AnswersInOrder, NEW r \in Requests, Serve(r)
    PROVE  AnswersStay
<1>1. reply' = reply \/ (reply[r] = NoReply /\ \E a : reply' = [reply EXCEPT ![r] = a])
  BY DEF TypeOK, AnswersInOrder, Serve, ReserveCreates, ReserveAnswerLost, ReserveTaken, ReserveReads,
         ReserveFails, HandlerRejects, HandlerPublishes, HandlerPublishFails, HandlerPublishUnconfirmed,
         HandlerPanics, HandlerReturns, CompleteGets, CompleteScript, CompleteFails, Release,
         ReleaseAnswerLost, ReleaseFails, AfterRelease, Finish
<1> QED
  BY <1>1 DEF AnswersStay, TypeOK

\* Serving a request stores no answer but one it gave.
LEMMA StoredWasServedServe ==
    ASSUME TypeOK, AnswersInOrder, StoredWasServed, NEW r \in Requests, Serve(r)
    PROVE  StoredWasServed'
<1>0. \A s \in Requests : reply[s].status # 0 => reply'[s] = reply[s]
  BY AnswersStayServe DEF AnswersStay, NoReply
<1> USE <1>0 DEF TypeOK, StoredWasServed, Served, RecordOf
<1>1. CASE ReserveCreates(r)
  BY <1>1 DEF ReserveCreates, InFlight
<1>2. CASE ReserveAnswerLost(r)
  BY <1>2 DEF ReserveAnswerLost, InFlight
<1>3. CASE ReserveTaken(r)
  BY <1>3 DEF ReserveTaken
<1>4. CASE ReserveReads(r)
  BY <1>4 DEF ReserveReads, Finish
<1>5. CASE ReserveFails(r)
  BY <1>5 DEF ReserveFails, Finish
<1>6. CASE HandlerRejects(r)
  BY <1>6 DEF HandlerRejects, HandlerReturns, Answer
<1>7. CASE HandlerPublishes(r)
  BY <1>7 DEF HandlerPublishes, HandlerReturns, Answer
<1>8. CASE HandlerPublishFails(r)
  BY <1>8 DEF HandlerPublishFails, HandlerReturns, Answer
<1>9. CASE HandlerPublishUnconfirmed(r)
  BY <1>9 DEF HandlerPublishUnconfirmed, HandlerReturns, Answer
<1>10. ASSUME NEW queued \in BOOLEAN, HandlerPanics(r, queued)
       PROVE  StoredWasServed'
  <2>1. UNCHANGED <<req, store>>
    BY <1>10 DEF HandlerPanics
  <2>2. pc' = [pc EXCEPT ![r] = "done"] \/ pc' = [pc EXCEPT ![r] = "release"]
    BY <1>10 DEF HandlerPanics, Finish
  <2>3. \A s \in Requests : Served(s) => Served(s)'
    BY <1>0
  <2>4. \A k \in Keys : store[k].state = "COMPLETED" =>
            Served(store[k].from) /\ reply'[store[k].from] = reply[store[k].from]
    BY <1>0
  <2> QED
    BY <2>1, <2>2, <2>3, <2>4
<1>11. CASE CompleteGets(r)
  BY <1>11 DEF CompleteGets
<1>12. ASSUME NEW answered \in BOOLEAN, CompleteScript(r, answered)
       PROVE  StoredWasServed'
  BY <1>12 DEF CompleteScript, ApplyComplete
<1>13. CASE CompleteFails(r)
  BY <1>13 DEF CompleteFails
<1>14. CASE Release(r)
  BY <1>14 DEF Release, ApplyRelease, Finish, Absent
<1>15. CASE ReleaseAnswerLost(r)
  BY <1>15 DEF ReleaseAnswerLost, ApplyRelease, Absent
<1>16. CASE ReleaseFails(r)
  BY <1>16 DEF ReleaseFails, Finish
<1> HIDE DEF TypeOK, StoredWasServed, Served, RecordOf
<1> QED
  BY <1>1, <1>2, <1>3, <1>4, <1>5, <1>6, <1>7, <1>8, <1>9, <1>10, <1>11, <1>12, <1>13, <1>14, <1>15, <1>16 DEF Serve

\* Serving a request writes no hash of a body nobody asked for.
LEMMA HashesWereAskedServe ==
    ASSUME TypeOK, HashesWereAsked, NEW r \in Requests, Serve(r)
    PROVE  HashesWereAsked'
<1> USE DEF TypeOK, HashesWereAsked, Asked, RecordOf
<1>1. CASE ReserveCreates(r)
  BY <1>1 DEF ReserveCreates, InFlight
<1>2. CASE ReserveAnswerLost(r)
  BY <1>2 DEF ReserveAnswerLost, InFlight
<1>3. CASE ReserveTaken(r)
  BY <1>3 DEF ReserveTaken
<1>4. CASE ReserveReads(r)
  BY <1>4 DEF ReserveReads, Finish
<1>5. CASE ReserveFails(r)
  BY <1>5 DEF ReserveFails, Finish
<1>6. CASE HandlerRejects(r)
  BY <1>6 DEF HandlerRejects, HandlerReturns
<1>7. CASE HandlerPublishes(r)
  BY <1>7 DEF HandlerPublishes, HandlerReturns
<1>8. CASE HandlerPublishFails(r)
  BY <1>8 DEF HandlerPublishFails, HandlerReturns
<1>9. CASE HandlerPublishUnconfirmed(r)
  BY <1>9 DEF HandlerPublishUnconfirmed, HandlerReturns
<1>10. ASSUME NEW queued \in BOOLEAN, HandlerPanics(r, queued)
       PROVE  HashesWereAsked'
  BY <1>10 DEF HandlerPanics, Finish
<1>11. CASE CompleteGets(r)
  BY <1>11 DEF CompleteGets
<1>12. ASSUME NEW answered \in BOOLEAN, CompleteScript(r, answered)
       PROVE  HashesWereAsked'
  BY <1>12 DEF CompleteScript, ApplyComplete
<1>13. CASE CompleteFails(r)
  BY <1>13 DEF CompleteFails
<1>14. CASE Release(r)
  BY <1>14 DEF Release, ApplyRelease, Finish, Absent
<1>15. CASE ReleaseAnswerLost(r)
  BY <1>15 DEF ReleaseAnswerLost, ApplyRelease, Absent
<1>16. CASE ReleaseFails(r)
  BY <1>16 DEF ReleaseFails, Finish
<1> HIDE DEF TypeOK, HashesWereAsked, Asked, RecordOf
<1> QED
  BY <1>1, <1>2, <1>3, <1>4, <1>5, <1>6, <1>7, <1>8, <1>9, <1>10, <1>11, <1>12, <1>13, <1>14, <1>15, <1>16 DEF Serve

\* The environment answers only requests that did not arrive yet, and changes nothing
\* the others asked for.
LEMMA AnswerEnvironment ==
    ASSUME TypeOK, AnswerInv, Environment
    PROVE  AnswerInv'
<1> USE DEF TypeOK, AnswerInv, AnswersInOrder, StoredWasServed, Served, HashesWereAsked, Asked
<1>1. ASSUME NEW r \in Requests, NEW k \in Keys \cup {NoKey}, NEW b \in Bodies, Arrive(r, k, b)
      PROVE  AnswerInv'
  <2>1. /\ pc[r] = "new" /\ req[r].key \notin Keys
        /\ \A o \in Requests : o # r => req'[o] = req[o]
        /\ UNCHANGED <<store, snapshot, reply>>
    BY <1>1, NoneDistinct DEF Arrive
  <2>2. pc' \in [Requests -> Stages] /\ \A o \in Requests : o # r => pc'[o] = pc[o]
    BY <1>1 DEF Arrive, Stages
  <2>3. pc'[r] \in {"setnx", "handler"}
    BY <1>1 DEF Arrive
  <2>4. AnswersInOrder'
    BY <2>1, <2>2, <2>3
  <2>5. StoredWasServed'
    <3>1. \A q \in Requests : pc'[q] \in {"completeGet", "completeScript", "completeRetry"} => Served(q)'
      BY <2>1, <2>2, <2>3
    <3>2. \A h \in Keys : store[h].state = "COMPLETED" => req'[store[h].from] = req[store[h].from]
      BY <2>1
    <3> QED
      BY <2>1, <3>1, <3>2
  <2>6. \A h \in Keys : \A c : Asked(h, c) => \E o \in Requests : o # r /\ req[o].key = h /\ req[o].body = c
    BY <2>1
  <2>7. \A h \in Keys : \A c : Asked(h, c) => \E o \in Requests : req'[o].key = h /\ req'[o].body = c
    BY <2>1, <2>6
  <2>8. \A h \in Keys : store'[h].state # "ABSENT" =>
            \E o \in Requests : req'[o].key = h /\ req'[o].body = store'[h].hash
    BY <2>1, <2>7
  <2>9. \A q \in Requests : pc'[q] \in {"completeScript", "completeRetry"} =>
            q # r /\ \E o \in Requests : req'[o].key = req'[q].key /\ req'[o].body = snapshot'[q]
    BY <2>1, <2>2, <2>3, <2>7 DEF Stages
  <2> QED
    BY <2>4, <2>5, <2>8, <2>9
<1>2. ASSUME NEW r \in Requests, Reject(r)
      PROVE  AnswerInv'
  <2>1. /\ pc' = [pc EXCEPT ![r] = "done"] /\ reply[r].status = 0
        /\ UNCHANGED <<req, store, snapshot>>
        /\ \A o \in Requests : o # r => reply'[o] = reply[o]
    BY <1>2 DEF Reject, Finish, NoReply
  <2>2. AnswersInOrder' /\ HashesWereAsked'
    BY <2>1
  <2>3. StoredWasServed'
    BY <2>1
  <2> QED
    BY <2>2, <2>3
<1>3. ASSUME NEW r \in Requests, ClientDisconnects(r)
      PROVE  AnswerInv'
  BY <1>3 DEF ClientDisconnects
<1>4. ASSUME NEW r \in Requests, ReplicaCrashes(r)
      PROVE  AnswerInv'
  BY <1>4 DEF ReplicaCrashes
<1>5. ASSUME NEW k \in Keys, RecordLost(k)
      PROVE  AnswerInv'
  BY <1>5 DEF RecordLost, Absent
<1> HIDE DEF TypeOK, AnswerInv, AnswersInOrder, StoredWasServed, Served, HashesWereAsked, Asked
<1> QED
  BY <1>1, <1>2, <1>3, <1>4, <1>5 DEF Environment

\* Every stored answer is one a handler gave under the same key, and every stored hash
\* that of a body sent under it, even when records expire under their owners.
THEOREM AnswersHold == Spec => []AnswerInv
<1>1. Init => AnswerInv
  BY DEF Init, AnswerInv, AnswersInOrder, StoredWasServed, HashesWereAsked, Absent
<1>2. TypeOK /\ AnswerInv /\ [Next]_vars => AnswerInv'
  <2>1. ASSUME TypeOK, AnswerInv, NEW r \in Requests, Serve(r)
        PROVE  AnswerInv'
    BY <2>1, AnswersInOrderServe, StoredWasServedServe, HashesWereAskedServe DEF AnswerInv
  <2>2. AnswerInv /\ UNCHANGED vars => AnswerInv'
    BY DEF vars, AnswerInv, AnswersInOrder, StoredWasServed, Served, HashesWereAsked, Asked
  <2> QED
    BY <2>1, <2>2, AnswerEnvironment DEF Next
<1> QED
  BY <1>1, <1>2, TypeCorrect, PTL DEF Spec

----------------------------------------------------------------------------
(* The steps of the refinement. *)

\* A step that no client can see.
LEMMA QuietServe ==
    ASSUME TypeOK, NEW r \in Requests,
           \/ ReserveCreates(r) \/ ReserveAnswerLost(r) \/ ReserveTaken(r)
           \/ CompleteGets(r) \/ CompleteFails(r) \/ ReleaseAnswerLost(r)
           \/ \E answered \in BOOLEAN : CompleteScript(r, answered)
    PROVE  UNCHANGED <<req, reply, sent \ unconfirmed, losses>>
  BY DEF TypeOK, ReserveCreates, ReserveAnswerLost, ReserveTaken, CompleteGets, CompleteFails, CompleteScript,
         ReleaseAnswerLost, ApplyRelease

\* A request answered with a failure of its own is refused.
LEMMA FailureRefuses ==
    ASSUME TypeOK, NEW r \in Requests, NEW status,
           status \in {400, 409, 500} \/ (status = 422 /\ Submitted!Conflicting(r)),
           reply[r] = NoReply, r \notin sent \ unconfirmed,
           reply' = [reply EXCEPT ![r] = Answer(r, status)],
           req' = req, sent' \ unconfirmed' = sent \ unconfirmed,
           losses' = losses \/ (req[r].key \in Keys /\ losses' = [losses EXCEPT ![req[r].key] = @ + 1])
    PROVE  Submitted!Next
<1>1. Submitted!Refuse(r, status)
  BY DEF Submitted!Refuse, Submitted!Tell, Submitted!Unanswered, NoReply, Answer
<1> QED
  BY <1>1 DEF Submitted!Next

\* The ways a request is refused before Release: Reserve's error, the handler's 400 and
\* 500, and the panic of a request without a key.
LEMMA RefusingServe ==
    ASSUME ClaimInv, AnswerInv, NEW r \in Requests,
           ReserveFails(r) \/ HandlerRejects(r) \/ HandlerPublishFails(r) \/ HandlerPublishUnconfirmed(r)
    PROVE  Submitted!Next
<1>1. reply[r] = NoReply /\ r \notin sent
  BY DEF ClaimInv, SentInOrder, AnswerInv, AnswersInOrder, ReserveFails, HandlerRejects, HandlerPublishFails,
         HandlerPublishUnconfirmed
<1>2. /\ UNCHANGED <<req, losses>>
      /\ \E status \in {400, 500} : reply' = [reply EXCEPT ![r] = Answer(r, status)]
  BY DEF ReserveFails, Finish, HandlerRejects, HandlerPublishFails, HandlerPublishUnconfirmed, HandlerReturns
<1>3. sent' \ unconfirmed' = sent \ unconfirmed
  BY <1>1 DEF ReserveFails, HandlerRejects, HandlerPublishFails, HandlerPublishUnconfirmed
<1> QED
  BY <1>1, <1>2, <1>3, FailureRefuses DEF ClaimInv

\* A panic answers a request without a key; with a key nothing is visible until Release.
LEMMA PanickingServe ==
    ASSUME ClaimInv, AnswerInv, NEW r \in Requests, NEW queued \in BOOLEAN, HandlerPanics(r, queued)
    PROVE  Submitted!Next \/ UNCHANGED <<req, reply, sent \ unconfirmed, losses>>
<1>1. reply[r] = NoReply /\ r \notin sent
  BY DEF ClaimInv, SentInOrder, AnswerInv, AnswersInOrder, HandlerPanics
<1>2. /\ UNCHANGED <<req, losses>>
      /\ UNCHANGED reply \/ reply' = [reply EXCEPT ![r] = Answer(r, 500)]
  BY DEF HandlerPanics, Finish
<1>3. sent' \ unconfirmed' = sent \ unconfirmed
  BY <1>1 DEF HandlerPanics
<1> QED
  BY <1>1, <1>2, <1>3, FailureRefuses DEF ClaimInv

\* Release answers a request that has no answer yet, and can make Redis forget the key.
LEMMA ReleasingServe ==
    ASSUME ClaimInv, NEW r \in Requests, Release(r) \/ ReleaseFails(r)
    PROVE  Submitted!Next \/ UNCHANGED <<req, reply, sent \ unconfirmed, losses>>
<1>1. req[r].key \in Keys /\ r \notin sent \ unconfirmed
  BY DEF ClaimInv, TypeOK, Stages, SentInOrder, Release, ReleaseFails
<1>2. /\ UNCHANGED <<req, sent, unconfirmed>>
      /\ reply' = [reply EXCEPT ![r] = AfterRelease(r)]
      /\ UNCHANGED losses \/ losses' = [losses EXCEPT ![req[r].key] = @ + 1]
  BY DEF Release, ApplyRelease, ReleaseFails, Finish
<1>3. CASE reply[r] = NoReply
  <2>1. reply' = [reply EXCEPT ![r] = Answer(r, 500)] /\ sent' \ unconfirmed' = sent \ unconfirmed
    BY <1>2, <1>3 DEF AfterRelease
  <2> QED
    BY <1>1, <1>2, <1>3, <2>1, FailureRefuses DEF ClaimInv
<1>4. CASE reply[r] # NoReply
  <2>1. UNCHANGED reply
    BY <1>2, <1>4 DEF AfterRelease, ClaimInv, TypeOK
  <2>2. Submitted!Forget(req[r].key) \/ UNCHANGED losses
    BY <1>2, <2>1 DEF Submitted!Forget
  <2> QED
    BY <1>1, <1>2, <2>1, <2>2 DEF Submitted!Next
<1> QED
  BY <1>3, <1>4

\* The handler accepts: the request holds a right to its key, so the key was accepted at
\* most once per time Redis forgot it.
LEMMA PublishAccepts ==
    ASSUME ClaimInv, AnswerInv, NEW r \in Requests, HandlerPublishes(r)
    PROVE  Submitted!Next
<1>1. reply[r] = NoReply /\ r \notin sent /\ req[r] # Submitted!Unasked
  BY NoneDistinct DEF ClaimInv, TypeOK, SentInOrder, AnswerInv, AnswersInOrder, HandlerPublishes,
     Submitted!Unasked
<1>2. ASSUME NEW k \in Keys, req[r].key = k
      PROVE  Cardinality(Submitted!AcceptedUnder(k)) <= losses[k]
  <2> DEFINE A == Submitted!AcceptedUnder(k)
  <2>1. r \in Claimants(k) /\ A \subseteq Claimants(k) \ {r}
    BY <1>1, <1>2 DEF HandlerPublishes, Claimants, Owns, Owning, Submitted!AcceptedUnder, ClaimInv, TypeOK
  <2>2. IsFiniteSet(Claimants(k))
    BY RequestsFinite, FS_Subset DEF Claimants
  <2>3. IsFiniteSet(A) /\ Cardinality(A) + 1 <= Cardinality(Claimants(k))
    BY <2>1, <2>2, ShrinkByOne
  <2>4. /\ Cardinality(A) \in Nat /\ Cardinality(Claimants(k)) \in Nat /\ losses[k] \in Nat
        /\ Cardinality(Claimants(k)) + (IF store[k].state = "ABSENT" THEN 1 ELSE 0) <= 1 + losses[k]
    BY <2>2, <2>3, FS_CardinalityType DEF ClaimInv, TypeOK, ClaimsBounded
  <2> HIDE DEF A
  <2>5. Cardinality(A) <= losses[k]
    BY <2>3, <2>4
  <2> QED
    BY <2>5 DEF A
<1>3. /\ reply' = [reply EXCEPT ![r] = Answer(r, 202)]
      /\ sent' \ unconfirmed' = (sent \ unconfirmed) \cup {r}
      /\ UNCHANGED <<req, losses>>
  BY <1>1 DEF HandlerPublishes, HandlerReturns, ClaimInv, TypeOK
<1>4. Submitted!Tell(r, 202) /\ reply[r] = Submitted!Unanswered
  BY <1>1, <1>3 DEF Submitted!Tell, Submitted!Unanswered, NoReply, Answer
<1>5. \A k \in Keys : req[r].key = k => Cardinality(Submitted!AcceptedUnder(k)) <= losses[k]
  BY <1>2
<1>6. (sent \ unconfirmed)' = (sent \ unconfirmed) \cup {r} /\ r \notin sent \ unconfirmed
  BY <1>1, <1>3
<1>7. ASSUME NEW S
      PROVE  Submitted!Cardinality(S) = Cardinality(S)
  BY DEF Submitted!Cardinality, Cardinality
<1>8. Submitted!Accept(r)
  BY <1>1, <1>3, <1>4, <1>5, <1>6, <1>7, Zenon DEF Submitted!Accept
<1> QED
  BY <1>8 DEF Submitted!Next

\* Reserve's GET answers from the record: a conflict with the key's earlier body, a
\* request still under way, or the answer stored for the key.
LEMMA ReadAnswers ==
    ASSUME ClaimInv, CustodyInv, AnswerInv, NEW r \in Requests, ReserveReads(r)
    PROVE  Submitted!Next
<1> DEFINE rec == RecordOf(r)
           k == req[r].key
<1>1. /\ reply[r] = NoReply /\ r \notin sent /\ k \in Keys
      /\ rec.state # "ABSENT" /\ rec \in Record /\ rec = store[k]
  BY DEF ReserveReads, ClaimInv, TypeOK, Stages, SentInOrder, AnswerInv, AnswersInOrder, RecordOf
<1>2. reply' = [reply EXCEPT ![r] = ReplayOf(r, rec)] /\ UNCHANGED <<req, sent, unconfirmed, losses>>
  BY DEF ReserveReads, Finish
<1> HIDE DEF rec
<1>3. CASE rec.hash # req[r].body
  <2>1. Submitted!Conflicting(r)
    BY <1>1, <1>3 DEF Submitted!Conflicting, AnswerInv, HashesWereAsked, Asked
  <2> QED
    BY <1>1, <1>2, <1>3, <2>1, FailureRefuses DEF ReplayOf, ClaimInv
<1>4. CASE rec.hash = req[r].body /\ rec.state = "IN_FLIGHT"
  BY <1>1, <1>2, <1>4, FailureRefuses DEF ReplayOf, ClaimInv
<1>5. CASE rec.hash = req[r].body /\ rec.state = "COMPLETED"
  <2>1. /\ rec.from \in Requests /\ req[rec.from].key = k
        /\ Served(rec.from) /\ reply[rec.from].status = rec.status
    BY <1>1, <1>5 DEF AnswerInv, StoredWasServed
  <2>2. ASSUME losses[k] = 0
        PROVE  req[rec.from] = req[r]
    <3>1. req[rec.from].body = rec.hash
      BY <1>1, <1>5, <2>2 DEF CustodyInv, RecordIsOwners
    <3> QED
      BY <1>5, <2>1, <3>1, SameRequest DEF CustodyInv
  <2>3. reply' = [reply EXCEPT ![r] =
            [status |-> reply[rec.from].status, from |-> rec.from, replay |-> TRUE]]
    BY <1>2, <1>5, <2>1 DEF ReplayOf
  <2>4. Submitted!Replay(r, rec.from)
    BY <1>1, <1>2, <2>1, <2>2, <2>3 DEF Submitted!Replay, Submitted!Unanswered, NoReply, Served
  <2> QED
    BY <2>1, <2>4 DEF Submitted!Next
<1> QED
  BY <1>1, <1>3, <1>4, <1>5 DEF Record

\* What the environment does is an arrival, a refusal, a loss, or invisible.
LEMMA EnvironmentSubmits ==
    ASSUME ClaimInv, AnswerInv, Environment
    PROVE  Submitted!Next \/ UNCHANGED <<req, reply, sent \ unconfirmed, losses>>
<1>1. ASSUME NEW r \in Requests, NEW k \in Keys \cup {NoKey}, NEW b \in Bodies, Arrive(r, k, b)
      PROVE  Submitted!Next
  <2>1. Submitted!Ask(r, k, b)
    BY <1>1 DEF Arrive, AnswerInv, AnswersInOrder, NoReply, Submitted!Ask, Submitted!Unasked, Submitted!Unanswered
  <2> QED
    BY <2>1 DEF Submitted!Next
<1>2. ASSUME NEW r \in Requests, Reject(r)
      PROVE  Submitted!Next
  <2>1. reply[r] = NoReply /\ r \notin sent /\ reply' = [reply EXCEPT ![r] = Answer(r, 400)]
        /\ UNCHANGED <<req, sent, unconfirmed, losses>>
    BY <1>2 DEF Reject, Finish, ClaimInv, SentInOrder, AnswerInv, AnswersInOrder
  <2>2. TypeOK /\ r \in Requests
    BY DEF ClaimInv
  <2>3. sent' \ unconfirmed' = sent \ unconfirmed
    BY <2>1
  <2> QED
    BY <2>1, <2>2, <2>3, FailureRefuses
<1>3. ASSUME NEW r \in Requests, ClientDisconnects(r) \/ ReplicaCrashes(r)
      PROVE  UNCHANGED <<req, reply, sent \ unconfirmed, losses>>
  BY <1>3 DEF ClientDisconnects, ReplicaCrashes
<1>4. ASSUME NEW k \in Keys, RecordLost(k)
      PROVE  Submitted!Next
  <2>1. Submitted!Forget(k)
    BY <1>4 DEF RecordLost, Submitted!Forget
  <2> QED
    BY <2>1 DEF Submitted!Next
<1> QED
  BY <1>1, <1>2, <1>3, <1>4 DEF Environment

\* The middleware, the store and the handler implement Submission: one final answer per
\* request, one acceptance per key and per loss of its record, no failure replayed, and
\* no replay or 422 but against what was asked under the same key.
THEOREM SubmissionImplemented == Spec => ImplementsSubmission
<1>1. Init => Submitted!Init
  BY DEF Init, Submitted!Init, Submitted!Unasked, Submitted!Unanswered, NoReply
<1>2. ClaimInv /\ CustodyInv /\ AnswerInv /\ [Next]_vars
        => [Submitted!Next]_<<req, reply, sent \ unconfirmed, losses>>
  <2> SUFFICES ASSUME ClaimInv, CustodyInv, AnswerInv, [Next]_vars
               PROVE  [Submitted!Next]_<<req, reply, sent \ unconfirmed, losses>>
    OBVIOUS
  <2>1. ASSUME NEW r \in Requests, Serve(r)
        PROVE  Submitted!Next \/ UNCHANGED <<req, reply, sent \ unconfirmed, losses>>
    BY <2>1, QuietServe, RefusingServe, PanickingServe, ReleasingServe, PublishAccepts, ReadAnswers
       DEF Serve, ClaimInv
  <2>2. CASE UNCHANGED vars
    BY <2>2 DEF vars
  <2> QED
    BY <2>1, <2>2, EnvironmentSubmits DEF Next
<1> QED
  BY <1>1, <1>2, ClaimInvHolds, CustodyHolds, AnswersHold, PTL
     DEF Spec, ImplementsSubmission, Submitted!Spec
=============================================================================
