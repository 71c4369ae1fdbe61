------------------------- MODULE IdempotencyProofs -------------------------
(***************************************************************************)
(* What the idempotency layer guarantees for any number of requests, keys  *)
(* and bodies and any combination of faults.                               *)
(***************************************************************************)
EXTENDS Idempotency, FiniteSetTheorems, TLAPS

\* The values the actions build have their types.
LEMMA ValueTypes ==
    ASSUME TypeOK, NEW r \in Requests
    PROVE  /\ \A s \in Statuses : Answer(r, s) \in Reply
           /\ Absent \in Record
           /\ NoReply \in Reply
           /\ InFlight(r) \in Record
           /\ AfterRelease(r) \in Reply
           /\ req[r].key \in Keys => ReplayOf(r, RecordOf(r)) \in Reply
  BY DEF TypeOK, Answer, Reply, Absent, Record, NoReply, InFlight, AfterRelease, ReplayOf,
         RecordOf, Statuses

\* A step of the code serving one request preserves the types.
LEMMA ServeTypes ==
    ASSUME TypeOK, NEW r \in Requests, Serve(r)
    PROVE  TypeOK'
<1> USE ValueTypes DEF TypeOK, Stages
<1>1. CASE ReserveCreates(r)
  BY <1>1 DEF ReserveCreates
<1>2. CASE ReserveAnswerLost(r)
  BY <1>2 DEF ReserveAnswerLost
<1>3. CASE ReserveTaken(r)
  BY <1>3 DEF ReserveTaken
<1>4. CASE ReserveReads(r)
  BY <1>4 DEF ReserveReads, Finish, Statuses
<1>5. CASE ReserveFails(r)
  BY <1>5 DEF ReserveFails, Finish, Statuses
<1>6. CASE HandlerRejects(r)
  BY <1>6 DEF HandlerRejects, HandlerReturns, Statuses
<1>7. CASE HandlerPublishes(r)
  BY <1>7 DEF HandlerPublishes, HandlerReturns, Statuses
<1>8. CASE HandlerPublishFails(r)
  BY <1>8 DEF HandlerPublishFails, HandlerReturns, Statuses
<1>9. CASE HandlerPublishUnconfirmed(r)
  BY <1>9 DEF HandlerPublishUnconfirmed, HandlerReturns, Statuses
<1>10. ASSUME NEW queued \in BOOLEAN, HandlerPanics(r, queued)
       PROVE  TypeOK'
  BY <1>10 DEF HandlerPanics, Finish, Statuses
<1>11. CASE CompleteGets(r)
  <2>1. req[r].key \in Keys /\ RecordOf(r) \in Record
    BY <1>11 DEF CompleteGets, RecordOf
  <2>2. snapshot' \in [Requests -> Bodies \cup {None}]
    BY <1>11, <2>1 DEF CompleteGets, Record
  <2> QED
    BY <1>11, <2>2, <2>1 DEF CompleteGets
<1>12. ASSUME NEW answered \in BOOLEAN, CompleteScript(r, answered)
       PROVE  TypeOK'
  <2>1. req[r].key \in Keys /\ RecordOf(r) \in Record
    BY <1>12 DEF CompleteScript, RecordOf
  <2>2. [state |-> "COMPLETED", hash |-> snapshot[r], owner |-> RecordOf(r).owner,
         status |-> reply[r].status, from |-> r, expires |-> TRUE] \in Record
    BY <2>1 DEF Record, Reply
  <2>3. store' \in [Keys -> Record]
    BY <1>12, <2>1, <2>2 DEF CompleteScript, ApplyComplete, RecordOf
  <2> QED
    BY <1>12, <2>1, <2>3 DEF CompleteScript
<1>13. CASE CompleteFails(r)
  BY <1>13 DEF CompleteFails
<1>14. CASE Release(r)
  BY <1>14 DEF Release, ApplyRelease, Finish, Statuses
<1>15. CASE ReleaseAnswerLost(r)
  BY <1>15 DEF ReleaseAnswerLost, ApplyRelease
<1>16. CASE ReleaseFails(r)
  BY <1>16 DEF ReleaseFails, Finish, Statuses
<1> QED
  BY <1>1, <1>2, <1>3, <1>4, <1>5, <1>6, <1>7, <1>8, <1>9, <1>10, <1>11, <1>12, <1>13, <1>14,
     <1>15, <1>16 DEF Serve

\* A step of the environment preserves the types.
LEMMA EnvironmentTypes ==
    ASSUME TypeOK, Environment
    PROVE  TypeOK'
<1> USE ValueTypes DEF TypeOK, Stages
<1>1. ASSUME NEW r \in Requests, NEW b \in Bodies, NEW k \in Keys \cup {NoKey}, Arrive(r, k, b)
      PROVE  TypeOK'
  BY <1>1 DEF Arrive
<1>2. ASSUME NEW r \in Requests, Reject(r)
      PROVE  TypeOK'
  BY <1>2 DEF Reject, Finish, Statuses
<1>3. ASSUME NEW r \in Requests, ClientDisconnects(r)
      PROVE  TypeOK'
  BY <1>3 DEF ClientDisconnects
<1>4. ASSUME NEW r \in Requests, ReplicaCrashes(r)
      PROVE  TypeOK'
  BY <1>4 DEF ReplicaCrashes
<1>5. ASSUME NEW k \in Keys, RecordLost(k)
      PROVE  TypeOK'
  BY <1>5 DEF RecordLost, Absent, Record, Statuses
<1> QED
  BY <1>1, <1>2, <1>3, <1>4, <1>5 DEF Environment

\* The middleware, the store and the handler keep every variable within its type.
THEOREM TypeCorrect == Spec => []TypeOK
<1>1. Init => TypeOK
  BY DEF Init, TypeOK, Stages, Absent, Record, NoReply, Reply, Statuses
<1>2. TypeOK /\ [Next]_vars => TypeOK'
  <2>1. CASE Next
    BY <2>1, ServeTypes, EnvironmentTypes DEF Next
  <2>2. CASE UNCHANGED vars
    BY <2>2 DEF vars, TypeOK
  <2> QED
    BY <2>1, <2>2
<1> QED
  BY <1>1, <1>2, PTL DEF Spec

----------------------------------------------------------------------------
(***************************************************************************)
(* Duplicates.  DuplicatesAccounted is not inductive: it says nothing of   *)
(* the requests about to be accepted.  ClaimsBounded counts them too,      *)
(* together with the right to reserve a key nobody holds.                  *)
(***************************************************************************)

\* Counting: a finite set that gains at most one element.
LEMMA GrowByOne ==
    ASSUME NEW A, IsFiniteSet(A), NEW x, NEW B, B \subseteq A \cup {x}
    PROVE  IsFiniteSet(B) /\ Cardinality(B) <= Cardinality(A) + 1
<1>1. /\ IsFiniteSet(A \cup {x})
      /\ Cardinality(A) \in Nat
      /\ Cardinality(A \cup {x}) \in Nat
      /\ Cardinality(A \cup {x}) <= Cardinality(A) + 1
  BY FS_AddElement, FS_CardinalityType
<1>2. IsFiniteSet(B) /\ Cardinality(B) <= Cardinality(A \cup {x}) /\ Cardinality(B) \in Nat
  BY <1>1, FS_Subset, FS_CardinalityType
<1> QED
  BY <1>1, <1>2

\* Counting: a finite set that loses an element and gains none.
LEMMA ShrinkByOne ==
    ASSUME NEW A, IsFiniteSet(A), NEW x \in A, NEW B, B \subseteq A \ {x}
    PROVE  IsFiniteSet(B) /\ Cardinality(B) + 1 <= Cardinality(A)
<1>1. /\ IsFiniteSet(A \ {x})
      /\ Cardinality(A) \in Nat
      /\ Cardinality(A \ {x}) = Cardinality(A) - 1
  BY FS_RemoveElement, FS_CardinalityType
<1>2. IsFiniteSet(B) /\ Cardinality(B) <= Cardinality(A \ {x}) /\ Cardinality(B) \in Nat
  BY <1>1, FS_Subset, FS_CardinalityType
<1> QED
  BY <1>1, <1>2

\* Nothing is queued before the handler returns, and what is released was never
\* reported as accepted.
SentInOrder ==
    \A r \in Requests :
        /\ pc[r] \in {"new", "setnx", "setnxRetry", "get", "handler"} => r \notin sent
        /\ pc[r] \in {"release", "releaseRetry"} => r \notin sent \ unconfirmed

\* The inductive invariant behind DuplicatesAccounted.
ClaimInv == TypeOK /\ SentInOrder /\ ClaimsBounded

\* The right to reserve key k.
Free(k) == IF store[k].state = "ABSENT" THEN 1 ELSE 0

\* The three ways a step may move the count of key k: no new claimant and the
\* record no freer; a new claimant for a key that was free; a claimant gone for
\* one that may become free; or a loss.
LEMMA CountStep ==
    ASSUME TypeOK, TypeOK', ClaimsBounded, NEW k \in Keys,
           \/ /\ Claimants(k)' \subseteq Claimants(k)
              /\ Free(k)' <= Free(k)
              /\ losses'[k] = losses[k]
           \/ /\ \E r \in Requests : Claimants(k)' \subseteq Claimants(k) \cup {r}
              /\ Free(k) = 1 /\ Free(k)' = 0
              /\ losses'[k] = losses[k]
           \/ /\ \E r \in Claimants(k) : Claimants(k)' \subseteq Claimants(k) \ {r}
              /\ losses'[k] = losses[k]
           \/ /\ Claimants(k)' \subseteq Claimants(k)
              /\ losses'[k] = losses[k] + 1
    PROVE  Cardinality(Claimants(k)') + Free(k)' <= 1 + losses'[k]
<1>1. IsFiniteSet(Claimants(k)) /\ Claimants(k) \subseteq Requests
  BY RequestsFinite, FS_Subset DEF Claimants
<1>2. /\ Cardinality(Claimants(k)) \in Nat
      /\ losses[k] \in Nat
      /\ Free(k) \in {0, 1} /\ Free(k)' \in {0, 1}
      /\ Cardinality(Claimants(k)) + Free(k) <= 1 + losses[k]
  BY <1>1, FS_CardinalityType DEF TypeOK, ClaimsBounded, Free
<1>3. ASSUME Claimants(k)' \subseteq Claimants(k)
      PROVE  /\ Cardinality(Claimants(k)') <= Cardinality(Claimants(k))
             /\ Cardinality(Claimants(k)') \in Nat
  BY <1>1, <1>3, FS_Subset, FS_CardinalityType
<1>4. ASSUME NEW r \in Requests, Claimants(k)' \subseteq Claimants(k) \cup {r}
      PROVE  /\ Cardinality(Claimants(k)') <= Cardinality(Claimants(k)) + 1
             /\ Cardinality(Claimants(k)') \in Nat
  BY <1>1, <1>4, GrowByOne, FS_CardinalityType
<1>5. ASSUME NEW r \in Claimants(k), Claimants(k)' \subseteq Claimants(k) \ {r}
      PROVE  /\ Cardinality(Claimants(k)') + 1 <= Cardinality(Claimants(k))
             /\ Cardinality(Claimants(k)') \in Nat
  BY <1>1, <1>5, ShrinkByOne, FS_CardinalityType
<1> QED
  BY <1>2, <1>3, <1>4, <1>5

\* Most steps of a request move no right: they add no claimant and free no key.
LEMMA QuietSteps ==
    ASSUME ClaimInv, NEW r \in Requests, NEW k \in Keys,
           \/ ReserveAnswerLost(r)
           \/ ReserveTaken(r)
           \/ ReserveReads(r)
           \/ ReserveFails(r)
           \/ HandlerRejects(r)
           \/ HandlerPublishes(r)
           \/ HandlerPublishFails(r)
           \/ HandlerPublishUnconfirmed(r)
           \/ CompleteGets(r)
           \/ \E answered \in BOOLEAN : CompleteScript(r, answered)
           \/ CompleteFails(r)
           \/ ReleaseFails(r)
           \/ \E queued \in BOOLEAN : HandlerPanics(r, queued)
    PROVE  /\ Claimants(k)' \subseteq Claimants(k)
           /\ Free(k)' <= Free(k)
           /\ losses'[k] = losses[k]
<1> USE DEF ClaimInv, TypeOK, Claimants, Owns, Owning, Free, RecordOf
<1>1. CASE ReserveAnswerLost(r)
  BY <1>1 DEF ReserveAnswerLost, InFlight
<1>2. CASE ReserveTaken(r)
  BY <1>2 DEF ReserveTaken
<1>3. CASE ReserveReads(r)
  BY <1>3 DEF ReserveReads, Finish
<1>4. CASE ReserveFails(r)
  BY <1>4 DEF ReserveFails, Finish
<1>5. CASE HandlerRejects(r)
  BY <1>5 DEF HandlerRejects, HandlerReturns
<1>6. CASE HandlerPublishes(r)
  BY <1>6 DEF HandlerPublishes, HandlerReturns
<1>7. CASE HandlerPublishFails(r)
  BY <1>7 DEF HandlerPublishFails, HandlerReturns
<1>8. CASE HandlerPublishUnconfirmed(r)
  BY <1>8 DEF HandlerPublishUnconfirmed, HandlerReturns
<1>9. CASE CompleteGets(r)
  BY <1>9 DEF CompleteGets
<1>10. ASSUME NEW answered \in BOOLEAN, CompleteScript(r, answered)
       PROVE  /\ Claimants(k)' \subseteq Claimants(k)
              /\ Free(k)' <= Free(k)
              /\ losses'[k] = losses[k]
  BY <1>10 DEF CompleteScript, ApplyComplete
<1>11. CASE CompleteFails(r)
  BY <1>11 DEF CompleteFails
<1>12. CASE ReleaseFails(r)
  BY <1>12 DEF ReleaseFails, Finish
<1>13. ASSUME NEW queued \in BOOLEAN, HandlerPanics(r, queued)
       PROVE  /\ Claimants(k)' \subseteq Claimants(k)
              /\ Free(k)' <= Free(k)
              /\ losses'[k] = losses[k]
  BY <1>13 DEF HandlerPanics, Finish
<1> QED
  BY <1>1, <1>2, <1>3, <1>4, <1>5, <1>6, <1>7, <1>8, <1>9, <1>10, <1>11, <1>12, <1>13

\* Every step keeps the invariant: reserving spends the key's right, releasing
\* returns it, losing the record creates one.
LEMMA ClaimStep == ClaimInv /\ [Next]_vars => ClaimInv'
<1> SUFFICES ASSUME ClaimInv, [Next]_vars
             PROVE  ClaimInv'
  OBVIOUS
<1>1. TypeOK'
  <2>1. CASE Next
    BY <2>1, ServeTypes, EnvironmentTypes DEF Next, ClaimInv
  <2>2. CASE UNCHANGED vars
    BY <2>2 DEF vars, TypeOK, ClaimInv
  <2> QED
    BY <2>1, <2>2
<1>2. SentInOrder'
  <2> USE DEF ClaimInv, TypeOK, SentInOrder
  <2>1. ASSUME NEW r \in Requests, Serve(r)
        PROVE  SentInOrder'
    BY <2>1 DEF Serve, ReserveCreates, ReserveAnswerLost, ReserveTaken, ReserveReads,
                ReserveFails, HandlerRejects, HandlerPublishes, HandlerPublishFails,
                HandlerPublishUnconfirmed, HandlerPanics, CompleteGets, CompleteScript,
                CompleteFails, Release, ReleaseAnswerLost, ReleaseFails, Finish, HandlerReturns
  <2>2. CASE Environment
    BY <2>2 DEF Environment, Arrive, Reject, Finish, ClientDisconnects, ReplicaCrashes, RecordLost
  <2>3. CASE UNCHANGED vars
    BY <2>3 DEF vars
  <2> QED
    BY <2>1, <2>2, <2>3 DEF Next
<1>3. ASSUME NEW k \in Keys
      PROVE  Cardinality(Claimants(k)') + Free(k)' <= 1 + losses'[k]
  <2> DEFINE Quiet == /\ Claimants(k)' \subseteq Claimants(k)
                      /\ Free(k)' <= Free(k)
                      /\ losses'[k] = losses[k]
  <2> USE DEF ClaimInv
  <2>1. ASSUME NEW r \in Requests, ReserveCreates(r)
        PROVE  \/ Quiet
               \/ /\ Claimants(k)' \subseteq Claimants(k) \cup {r}
                  /\ Free(k) = 1 /\ Free(k)' = 0
                  /\ losses'[k] = losses[k]
    BY <2>1 DEF ReserveCreates, TypeOK, Claimants, Owns, Owning, Free, RecordOf, InFlight
  <2>2. ASSUME NEW r \in Requests, Release(r) \/ ReleaseAnswerLost(r)
        PROVE  \/ Quiet
               \/ /\ r \in Claimants(k)
                  /\ Claimants(k)' \subseteq Claimants(k) \ {r}
                  /\ losses'[k] = losses[k]
               \/ Claimants(k)' \subseteq Claimants(k) /\ losses'[k] = losses[k] + 1
    <3> USE DEF Release, ReleaseAnswerLost, ApplyRelease, Finish, TypeOK, Claimants, Owns, Owning,
                Free, RecordOf
    <3>1. CASE req[r].key = k /\ pc[r] = "release"
      BY <2>2, <3>1 DEF SentInOrder
    <3>2. CASE req[r].key = k /\ pc[r] = "releaseRetry"
      BY <2>2, <3>2
    <3>3. CASE req[r].key # k
      BY <2>2, <3>3
    <3> QED
      BY <2>2, <3>1, <3>2, <3>3
  <2>3. CASE Environment
    <3> USE DEF SentInOrder, TypeOK, Claimants, Owns, Owning, Free
    <3>1. ASSUME NEW r \in Requests, NEW b \in Bodies, NEW h \in Keys \cup {NoKey}, Arrive(r, h, b)
          PROVE  Quiet
      BY <3>1, KeysDistinct DEF Arrive
    <3>2. ASSUME NEW r \in Requests, Reject(r)
          PROVE  Quiet
      BY <3>2 DEF Reject, Finish
    <3>3. ASSUME NEW r \in Requests, ClientDisconnects(r) \/ ReplicaCrashes(r)
          PROVE  Quiet
      BY <3>3 DEF ClientDisconnects, ReplicaCrashes
    <3>4. ASSUME NEW h \in Keys, RecordLost(h)
          PROVE  Quiet \/ (Claimants(k)' \subseteq Claimants(k) /\ losses'[k] = losses[k] + 1)
      BY <3>4 DEF RecordLost
    <3> HIDE DEF Quiet, SentInOrder, TypeOK, Claimants, Owns, Owning, Free
    <3>5. Quiet \/ (Claimants(k)' \subseteq Claimants(k) /\ losses'[k] = losses[k] + 1)
      BY <2>3, <3>1, <3>2, <3>3, <3>4 DEF Environment
    <3> QED
      BY <1>1, <3>5, CountStep DEF Quiet
  <2>4. CASE UNCHANGED vars
    <3>1. Quiet
      BY <2>4 DEF vars, Claimants, Owns, Owning, Free, TypeOK
    <3> QED
      BY <1>1, <3>1, CountStep
  <2>5. ASSUME NEW r \in Requests, Serve(r)
        PROVE  Cardinality(Claimants(k)') + Free(k)' <= 1 + losses'[k]
    <3>1. ReserveCreates(r) \/ Release(r) \/ ReleaseAnswerLost(r) \/ Quiet
      BY <2>5, QuietSteps DEF Serve
    <3>2. CASE Quiet
      BY <1>1, <3>2, CountStep
    <3>3. CASE ReserveCreates(r)
      BY <1>1, <2>1, <3>3, CountStep
    <3>4. CASE Release(r) \/ ReleaseAnswerLost(r)
      BY <1>1, <2>2, <3>4, CountStep
    <3> QED
      BY <3>1, <3>2, <3>3, <3>4
  <2> QED
    BY <2>3, <2>4, <2>5 DEF Next
<1>4. ClaimsBounded'
  BY <1>3 DEF ClaimsBounded, Free
<1> QED
  BY <1>1, <1>2, <1>4 DEF ClaimInv

\* The invariant holds in every reachable state.
THEOREM ClaimInvHolds == Spec => []ClaimInv
<1>1. Init => ClaimInv
  <2> SUFFICES ASSUME Init
               PROVE  ClaimInv
    OBVIOUS
  <2>1. TypeOK
    BY DEF Init, TypeOK, Stages, Absent, Record, NoReply, Reply, Statuses
  <2>2. ASSUME NEW k \in Keys
        PROVE  Claimants(k) = {} /\ losses[k] = 0
    BY <2>2 DEF Init, Claimants, Owns, Owning
  <2>3. ClaimsBounded
    BY <2>2, FS_EmptySet DEF ClaimsBounded
  <2> QED
    BY <2>1, <2>3 DEF ClaimInv, SentInOrder, Init
<1> QED
  BY <1>1, ClaimStep, PTL DEF Spec

\* The claims of every key stay within one plus the losses of its record.
THEOREM ClaimsAlwaysBounded == Spec => []ClaimsBounded
<1>1. ClaimInv => ClaimsBounded
  BY DEF ClaimInv
<1> QED
  BY <1>1, ClaimInvHolds, PTL

\* A key is accepted at most once plus once per time its record was taken
\* from under its owner, however many
\* requests carry it and however they interleave, fail, disconnect or crash.
THEOREM DuplicatesBounded == Spec => []DuplicatesAccounted
<1>1. TypeOK /\ ClaimsBounded => DuplicatesAccounted
  <2> SUFFICES ASSUME TypeOK, ClaimsBounded, NEW k \in Keys
               PROVE  Cardinality(Accepted(k)) <= 1 + losses[k]
    BY DEF DuplicatesAccounted
  <2>1. IsFiniteSet(Claimants(k)) /\ Accepted(k) \subseteq Claimants(k)
    BY RequestsFinite, FS_Subset DEF Claimants, Accepted, TypeOK
  <2>2. /\ Cardinality(Accepted(k)) <= Cardinality(Claimants(k))
        /\ Cardinality(Accepted(k)) \in Nat
        /\ Cardinality(Claimants(k)) \in Nat
    BY <2>1, FS_Subset, FS_CardinalityType
  <2> QED
    BY <2>2 DEF ClaimsBounded, TypeOK
<1> QED
  BY <1>1, TypeCorrect, ClaimsAlwaysBounded, PTL

\* QueuedOncePerKey as far as it goes: among the messages whose handler was told they
\* were queued, and under a key Redis never forgot.
QueuedOnceUnlessForgotten ==
    \A r, s \in sent \ unconfirmed :
        (req[r].key = req[s].key /\ req[r].key \in Keys /\ losses[req[r].key] = 0) => r = s

\* What resource_handler.go relies on to mint an id per call fails only through an
\* unconfirmed publish or a forgotten key.
THEOREM QueuedOnce == Spec => []QueuedOnceUnlessForgotten
<1>1. TypeOK /\ DuplicatesAccounted => QueuedOnceUnlessForgotten
  <2> SUFFICES ASSUME TypeOK, DuplicatesAccounted, NEW r \in sent \ unconfirmed, NEW s \in sent \ unconfirmed,
                      req[r].key = req[s].key, req[r].key \in Keys, losses[req[r].key] = 0, r # s
               PROVE  FALSE
    BY DEF QueuedOnceUnlessForgotten
  <2> DEFINE A == Accepted(req[r].key)
  <2>1. IsFiniteSet(A) /\ r \in A /\ s \in A
    BY RequestsFinite, FS_Subset DEF Accepted, TypeOK
  <2>2. Cardinality(A) <= 1
    BY DEF DuplicatesAccounted, TypeOK
  <2> HIDE DEF A
  <2>3. IsFiniteSet(A \ {r}) /\ Cardinality(A \ {r}) + 1 <= Cardinality(A)
    BY <2>1, ShrinkByOne
  <2>4. Cardinality((A \ {r}) \ {s}) + 1 <= Cardinality(A \ {r}) /\ IsFiniteSet((A \ {r}) \ {s})
    BY <2>1, <2>3, ShrinkByOne
  <2> QED
    BY <2>1, <2>2, <2>3, <2>4, FS_CardinalityType
<1> QED
  BY <1>1, TypeCorrect, DuplicatesBounded, PTL

----------------------------------------------------------------------------
(***************************************************************************)
(* Replays.  As long as a key's record was never taken from under its      *)
(* owner, the owner is the only request that can change it.                *)
(***************************************************************************)

\* A request that owns an untouched key finds its own record there.
OwnerHasRecord ==
    \A r \in Requests :
        (Owns(r) /\ losses[req[r].key] = 0) =>
            /\ RecordOf(r).owner = r
            /\ RecordOf(r).state = "IN_FLIGHT" \/ pc[r] = "completeRetry"
            /\ pc[r] = "completeRetry" =>
                  RecordOf(r).state = "COMPLETED" /\ RecordOf(r).status = reply[r].status
            /\ pc[r] \in {"completeScript", "completeRetry"} => snapshot[r] = req[r].body

\* The record of an untouched key stands for the request that reserved it.
RecordIsOwners ==
    \A k \in Keys :
        (store[k].state # "ABSENT" /\ losses[k] = 0) =>
            /\ store[k].owner \in Requests
            /\ req[store[k].owner].key = k /\ req[store[k].owner].body = store[k].hash
            /\ pc[store[k].owner] # "new"
            /\ store[k].expires
            /\ store[k].state = "COMPLETED" => store[k].from = store[k].owner

\* Only finished requests were answered from the store, faithfully if the key is
\* untouched.
ReplaysAreOwners ==
    \A r \in Requests : reply[r].replay =>
        /\ pc[r] = "done" /\ req[r].key \in Keys
        /\ losses[req[r].key] = 0 =>
              reply[r].from \in Requests /\ pc[reply[r].from] # "new" /\ req[reply[r].from] = req[r]

\* The inductive invariant behind ReplayFaithful and CompletedIsFinal.
CustodyInv == TypeOK /\ OwnerHasRecord /\ RecordIsOwners /\ ReplaysAreOwners

\* Two requests with the same key and the same body are the same to the store.
LEMMA SameRequest ==
    ASSUME TypeOK, NEW r \in Requests, NEW s \in Requests,
           req[r].key = req[s].key, req[r].body = req[s].body
    PROVE  req[r] = req[s]
<1> DEFINE Req == [key : Keys \cup {NoKey, None}, body : Bodies \cup {None}]
<1>1. req[r] \in Req /\ req[s] \in Req
  BY DEF TypeOK
<1>2. ASSUME NEW x \in Req, NEW y \in Req, x.key = y.key, x.body = y.body
      PROVE  x = y
  BY <1>2
<1> QED
  BY <1>1, <1>2

\* A step of the code serving one request preserves custody.
LEMMA CustodyServe ==
    ASSUME CustodyInv, NEW r \in Requests, Serve(r)
    PROVE  CustodyInv'
<1>0. TypeOK'
  BY ServeTypes DEF CustodyInv
<1> USE <1>0 DEF CustodyInv, TypeOK, OwnerHasRecord, RecordIsOwners, ReplaysAreOwners, Owns, Owning,
        RecordOf, Record
<1>1. CASE ReserveCreates(r)
  BY <1>1 DEF ReserveCreates, InFlight
<1>2. CASE ReserveAnswerLost(r)
  BY <1>2 DEF ReserveAnswerLost, InFlight
<1>3. CASE ReserveTaken(r)
  BY <1>3 DEF ReserveTaken
<1>4. CASE ReserveReads(r)
  <2>1. OwnerHasRecord' /\ RecordIsOwners'
    BY <1>4 DEF ReserveReads, Finish
  <2>2. req[r].key \in Keys /\ RecordOf(r).state # "ABSENT"
    BY <1>4 DEF ReserveReads
  <2>3. ASSUME losses[req[r].key] = 0
        PROVE  /\ RecordOf(r).owner \in Requests /\ pc[RecordOf(r).owner] # "new"
               /\ req[RecordOf(r).owner].key = req[r].key
               /\ req[RecordOf(r).owner].body = RecordOf(r).hash
               /\ RecordOf(r).state = "COMPLETED" => RecordOf(r).from = RecordOf(r).owner
    BY <2>2, <2>3
  <2>4. ASSUME losses[req[r].key] = 0, RecordOf(r).hash = req[r].body
        PROVE  req[RecordOf(r).owner] = req[r]
    BY <2>3, <2>4, SameRequest
  <2>5. reply' = [reply EXCEPT ![r] = ReplayOf(r, RecordOf(r))] /\ pc' = [pc EXCEPT ![r] = "done"]
        /\ UNCHANGED <<req, losses>>
    BY <1>4 DEF ReserveReads, Finish
  <2>6. ReplayOf(r, RecordOf(r)).replay =>
            /\ ReplayOf(r, RecordOf(r)).from = RecordOf(r).from
            /\ RecordOf(r).hash = req[r].body /\ RecordOf(r).state = "COMPLETED"
    BY <2>2 DEF ReplayOf, Answer
  <2>7. ReplaysAreOwners'
    BY <2>2, <2>3, <2>4, <2>5, <2>6
  <2> QED
    BY <2>1, <2>7
<1>5. CASE ReserveFails(r)
  BY <1>5 DEF ReserveFails, Finish, Answer
<1>6. CASE HandlerRejects(r)
  BY <1>6 DEF HandlerRejects, HandlerReturns, Answer
<1>7. CASE HandlerPublishes(r)
  BY <1>7 DEF HandlerPublishes, HandlerReturns, Answer
<1>8. CASE HandlerPublishFails(r)
  BY <1>8 DEF HandlerPublishFails, HandlerReturns, Answer
<1>9. CASE HandlerPublishUnconfirmed(r)
  BY <1>9 DEF HandlerPublishUnconfirmed, HandlerReturns, Answer
<1>10. CASE CompleteGets(r)
  <2>1. req[r].key \in Keys /\ Owns(r)
    BY <1>10 DEF CompleteGets
  <2>2. losses[req[r].key] = 0 =>
          RecordOf(r).state = "IN_FLIGHT" /\ RecordOf(r).owner = r /\ RecordOf(r).hash = req[r].body
    BY <1>10, <2>1 DEF CompleteGets
  <2>3. OwnerHasRecord'
    BY <1>10, <2>1, <2>2 DEF CompleteGets
  <2>4. RecordIsOwners'
    BY <1>10 DEF CompleteGets
  <2>5. ReplaysAreOwners'
    BY <1>10 DEF CompleteGets
  <2> QED
    BY <2>3, <2>4, <2>5
<1>11. CASE CompleteFails(r)
  BY <1>11 DEF CompleteFails
<1>12. CASE Release(r)
  BY <1>12 DEF Release, ApplyRelease, Finish, AfterRelease, Answer, Absent
<1>13. CASE ReleaseAnswerLost(r)
  BY <1>13 DEF ReleaseAnswerLost, ApplyRelease, Absent
<1>14. CASE ReleaseFails(r)
  BY <1>14 DEF ReleaseFails, Finish, AfterRelease, Answer
<1>15. ASSUME NEW queued \in BOOLEAN, HandlerPanics(r, queued)
       PROVE  CustodyInv'
  <2>1. OwnerHasRecord'
    BY <1>15 DEF HandlerPanics, Finish, Answer
  <2>2. RecordIsOwners'
    BY <1>15 DEF HandlerPanics, Finish, Answer
  <2>3. ReplaysAreOwners'
    BY <1>15 DEF HandlerPanics, Finish, Answer
  <2> QED
    BY <2>1, <2>2, <2>3
<1>16. ASSUME NEW answered \in BOOLEAN, CompleteScript(r, answered)
       PROVE  CustodyInv'
  BY <1>16 DEF CompleteScript, ApplyComplete
<1> HIDE DEF CustodyInv, TypeOK, OwnerHasRecord, RecordIsOwners, ReplaysAreOwners, Owns, Owning,
        RecordOf, Record
<1> QED
  BY <1>1, <1>2, <1>3, <1>4, <1>5, <1>6, <1>7, <1>8, <1>9, <1>10, <1>11, <1>12, <1>13, <1>14, <1>15, <1>16 DEF Serve

\* A step of the environment preserves custody.
LEMMA CustodyEnvironment ==
    ASSUME CustodyInv, Environment
    PROVE  CustodyInv'
<1>0. TypeOK'
  BY EnvironmentTypes DEF CustodyInv
<1> USE <1>0 DEF CustodyInv, TypeOK, OwnerHasRecord, RecordIsOwners, ReplaysAreOwners, Owns, Owning,
        RecordOf, Record
<1>1. ASSUME NEW r \in Requests, NEW k \in Keys \cup {NoKey}, NEW b \in Bodies, Arrive(r, k, b)
      PROVE  CustodyInv'
  BY <1>1, KeysDistinct DEF Arrive
<1>2. ASSUME NEW r \in Requests, Reject(r)
      PROVE  CustodyInv'
  BY <1>2 DEF Reject, Finish, Answer
<1>3. ASSUME NEW r \in Requests, ClientDisconnects(r)
      PROVE  CustodyInv'
  BY <1>3 DEF ClientDisconnects
<1>4. ASSUME NEW r \in Requests, ReplicaCrashes(r)
      PROVE  CustodyInv'
  BY <1>4 DEF ReplicaCrashes
<1>5. ASSUME NEW k \in Keys, RecordLost(k)
      PROVE  CustodyInv'
  BY <1>5 DEF RecordLost, Absent
<1> HIDE DEF CustodyInv, TypeOK, OwnerHasRecord, RecordIsOwners, ReplaysAreOwners, Owns, Owning,
        RecordOf, Record
<1> QED
  BY <1>1, <1>2, <1>3, <1>4, <1>5 DEF Environment

\* Custody holds in every reachable state.
THEOREM CustodyHolds == Spec => []CustodyInv
<1>1. Init => CustodyInv
  BY DEF Init, CustodyInv, TypeOK, Stages, Absent, Record, NoReply, Reply, Statuses, OwnerHasRecord,
         RecordIsOwners, ReplaysAreOwners, Owns, Owning
<1>2. CustodyInv /\ [Next]_vars => CustodyInv'
  <2>1. CustodyInv /\ Next => CustodyInv'
    BY CustodyServe, CustodyEnvironment DEF Next
  <2>2. CustodyInv /\ UNCHANGED vars => CustodyInv'
    BY DEF vars, CustodyInv, TypeOK, OwnerHasRecord, RecordIsOwners, ReplaysAreOwners, Owns, Owning,
           RecordOf
  <2> QED
    BY <2>1, <2>2
<1> QED
  BY <1>1, <1>2, PTL DEF Spec

\* Replays are faithful for every number of requests, bodies and faults, as long
\* as the key's record was not taken away.
THEOREM ReplaysFaithful == Spec => []ReplayFaithful
<1>1. CustodyInv => ReplayFaithful
  BY DEF CustodyInv, ReplaysAreOwners, ReplayFaithful
<1> QED
  BY <1>1, CustodyHolds, PTL

\* CompletesOwnRecord as far as it goes: under a key Redis never forgot.
CompletesOwnUnlessForgotten ==
    \A k \in Keys : (store[k].state = "COMPLETED" /\ losses[k] = 0) => store[k].from = store[k].owner

\* What redis_store.go says of Complete fails only after the record was taken from under
\* its owner: Complete never overwrites a record that stayed where it was.
THEOREM CompletesOwn == Spec => []CompletesOwnUnlessForgotten
<1>1. CustodyInv => CompletesOwnUnlessForgotten
  BY DEF CustodyInv, RecordIsOwners, CompletesOwnUnlessForgotten
<1> QED
  BY <1>1, CustodyHolds, PTL

\* A stored response never changes while the key's record is not taken away.
THEOREM CompletedStays == Spec => CompletedIsFinal
<1> DEFINE Final(k) ==
        (store[k].state = "COMPLETED" /\ losses'[k] = 0) => store'[k] = store[k]
<1>1. ASSUME CustodyInv, Next, NEW k \in Keys, store[k].state = "COMPLETED", losses'[k] = 0
      PROVE  store'[k] = store[k]
  <2>1. ASSUME NEW r \in Requests, NEW answered \in BOOLEAN, CompleteScript(r, answered),
               req[r].key = k, losses[k] = 0
        PROVE  store'[k] = store[k]
    <3>1. /\ pc[r] = "completeRetry" /\ store[k].owner = r /\ store[k].from = r
          /\ store[k].expires = TRUE /\ store[k].status = reply[r].status /\ snapshot[r] = store[k].hash
      BY <1>1, <2>1 DEF CompleteScript, CustodyInv, OwnerHasRecord, RecordIsOwners, Owns, Owning, RecordOf
    <3>2. store'[k] = [state |-> "COMPLETED", hash |-> store[k].hash, owner |-> store[k].owner,
                       status |-> store[k].status, from |-> store[k].from,
                       expires |-> store[k].expires]
      BY <1>1, <2>1, <3>1 DEF CompleteScript, ApplyComplete, RecordOf, CustodyInv, TypeOK
    <3>3. store[k] \in Record
      BY <1>1 DEF CustodyInv, TypeOK
    <3> QED
      BY <1>1, <3>2, <3>3 DEF Record
  <2>2. losses[k] = 0
    BY <1>1 DEF CustodyInv, TypeOK, Next, Environment, Arrive, Reject, Finish, ClientDisconnects,
                ReplicaCrashes, RecordLost, Serve, ReserveCreates, ReserveAnswerLost, ReserveTaken,
                ReserveReads, ReserveFails, HandlerRejects, HandlerPublishes, HandlerPublishFails,
                HandlerPublishUnconfirmed, HandlerPanics, HandlerReturns, CompleteGets,
                CompleteScript, CompleteFails, Release, ReleaseAnswerLost, ApplyRelease, ReleaseFails
  <2>3. ASSUME NEW r \in Requests, NEW answered \in BOOLEAN, CompleteScript(r, answered), req[r].key # k
        PROVE  store'[k] = store[k]
    BY <1>1, <2>3 DEF CompleteScript, ApplyComplete, RecordOf, CustodyInv, TypeOK
  <2>4. ASSUME NEW r \in Requests, Release(r) \/ ReleaseAnswerLost(r)
        PROVE  store'[k] = store[k]
    BY <1>1, <2>4 DEF Release, ReleaseAnswerLost, ApplyRelease, RecordOf, CustodyInv, TypeOK
  <2>5. ASSUME NEW r \in Requests, ReserveCreates(r) \/ ReserveAnswerLost(r)
        PROVE  store'[k] = store[k]
    BY <1>1, <2>5 DEF ReserveCreates, ReserveAnswerLost, RecordOf, CustodyInv, TypeOK
  <2>6. ASSUME NEW h \in Keys, RecordLost(h)
        PROVE  store'[k] = store[k]
    BY <1>1, <2>2, <2>6 DEF RecordLost, CustodyInv, TypeOK
  <2> QED
    BY <1>1, <2>1, <2>2, <2>3, <2>4, <2>5, <2>6
       DEF Next, Environment, Arrive, Reject, Finish, ClientDisconnects, ReplicaCrashes, Serve,
           ReserveTaken, ReserveReads, ReserveFails, HandlerRejects, HandlerPublishes,
           HandlerPublishFails, HandlerPublishUnconfirmed, HandlerPanics, HandlerReturns,
           CompleteGets, CompleteFails, ReleaseFails
<1>2. CustodyInv /\ [Next]_vars => [\A k \in Keys : Final(k)]_vars
  BY <1>1
<1> QED
  BY <1>2, CustodyHolds, PTL DEF Spec, CompletedIsFinal

----------------------------------------------------------------------------
(* A 202 always has a message behind it. *)

\* The inductive invariant behind AcceptedIsQueued: a request about to store its
\* response was answered for itself, and stored 202s are queued too.
QueuedInv ==
    /\ AcceptedIsQueued
    /\ \A r \in Requests : pc[r] \in {"completeGet", "completeScript", "completeRetry"} => reply[r].from = r
    /\ \A k \in Keys : store[k].status = 202 => store[k].from \in sent \ unconfirmed

\* A step of the code serving one request preserves it.
LEMMA QueuedServe ==
    ASSUME ClaimInv, QueuedInv, NEW r \in Requests, Serve(r)
    PROVE  QueuedInv'
<1> USE DEF ClaimInv, SentInOrder, TypeOK, QueuedInv, AcceptedIsQueued, RecordOf
<1>1. CASE ReserveCreates(r)
  BY <1>1 DEF ReserveCreates, InFlight
<1>2. CASE ReserveAnswerLost(r)
  BY <1>2 DEF ReserveAnswerLost, InFlight
<1>3. CASE ReserveTaken(r)
  BY <1>3 DEF ReserveTaken
<1>4. CASE ReserveReads(r)
  BY <1>4 DEF ReserveReads, Finish, ReplayOf, Answer
<1>5. CASE ReserveFails(r)
  BY <1>5 DEF ReserveFails, Finish, Answer
<1>6. CASE HandlerRejects(r)
  BY <1>6 DEF HandlerRejects, HandlerReturns, Answer
<1>7. CASE HandlerPublishes(r)
  BY <1>7 DEF HandlerPublishes, HandlerReturns, Answer
<1>8. CASE HandlerPublishFails(r)
  BY <1>8 DEF HandlerPublishFails, HandlerReturns, Answer
<1>9. CASE HandlerPublishUnconfirmed(r)
  BY <1>9 DEF HandlerPublishUnconfirmed, HandlerReturns, Answer
<1>10. CASE CompleteGets(r)
  BY <1>10 DEF CompleteGets
<1>11. CASE CompleteFails(r)
  BY <1>11 DEF CompleteFails
<1>12. CASE Release(r)
  BY <1>12 DEF Release, ApplyRelease, Finish, AfterRelease, Answer, Absent
<1>13. CASE ReleaseAnswerLost(r)
  BY <1>13 DEF ReleaseAnswerLost, ApplyRelease, Absent
<1>14. CASE ReleaseFails(r)
  BY <1>14 DEF ReleaseFails, Finish, AfterRelease, Answer
<1>15. ASSUME NEW queued \in BOOLEAN, HandlerPanics(r, queued)
       PROVE  QueuedInv'
  <2>1. sent \ unconfirmed \subseteq sent' \ unconfirmed'
    BY <1>15 DEF HandlerPanics
  <2>2. UNCHANGED store /\ (reply' = reply \/ reply' = [reply EXCEPT ![r] = Answer(r, 500)])
    BY <1>15 DEF HandlerPanics, Finish
  <2>3. pc' = [pc EXCEPT ![r] = "done"] \/ pc' = [pc EXCEPT ![r] = "release"]
    BY <1>15 DEF HandlerPanics, Finish
  <2>4. AcceptedIsQueued'
    BY <2>1, <2>2 DEF Answer
  <2>5. \A q \in Requests :
            pc'[q] \in {"completeGet", "completeScript", "completeRetry"} => reply'[q].from = q
    BY <2>2, <2>3 DEF Answer
  <2>6. \A k \in Keys : store'[k].status = 202 => store'[k].from \in sent' \ unconfirmed'
    BY <2>1, <2>2
  <2> QED
    BY <2>4, <2>5, <2>6
<1>16. ASSUME NEW answered \in BOOLEAN, CompleteScript(r, answered)
       PROVE  QueuedInv'
  BY <1>16 DEF CompleteScript, ApplyComplete
<1> HIDE DEF ClaimInv, SentInOrder, TypeOK, QueuedInv, AcceptedIsQueued, RecordOf
<1> QED
  BY <1>1, <1>2, <1>3, <1>4, <1>5, <1>6, <1>7, <1>8, <1>9, <1>10, <1>11, <1>12, <1>13, <1>14, <1>15, <1>16 DEF Serve

\* A client told 202, directly or by replay, has a message on the queue, whatever
\* was lost, repeated or interrupted on the way.
THEOREM AcceptedAlwaysQueued == Spec => []AcceptedIsQueued
<1>1. Init => QueuedInv
  BY DEF Init, QueuedInv, Absent, NoReply, AcceptedIsQueued
<1>2. ClaimInv /\ QueuedInv /\ [Next]_vars => QueuedInv'
  <2>1. ClaimInv /\ QueuedInv /\ Environment => QueuedInv'
    BY DEF ClaimInv, TypeOK, QueuedInv, AcceptedIsQueued, Environment, Arrive, Reject, Finish, Answer,
           ClientDisconnects, ReplicaCrashes, RecordLost, Absent
  <2>2. QueuedInv /\ UNCHANGED vars => QueuedInv'
    BY DEF vars, QueuedInv, AcceptedIsQueued
  <2> QED
    BY <2>1, <2>2, QueuedServe DEF Next
<1>3. QueuedInv => AcceptedIsQueued
  BY DEF QueuedInv
<1> QED
  BY <1>1, <1>2, <1>3, ClaimInvHolds, PTL DEF Spec

----------------------------------------------------------------------------
(***************************************************************************)
(* A failed request frees its key.  Which keys a request may hold has to   *)
(* be known from its arrival on: only its own, and none before SETNX.      *)
(***************************************************************************)

\* Request r holds a reservation under key k.
Holds(r, k) == store[k].state = "IN_FLIGHT" /\ store[k].owner = r

\* What the store may hold for a request that did not reserve yet, or is done.
HoldsInOrder ==
    \A r \in Requests :
        /\ \A k \in Keys : Holds(r, k) => req[r].key = k /\ pc[r] \notin {"new", "setnx", "get"}
        /\ pc[r] \in {"completeGet", "completeScript", "completeRetry"} => reply[r].status < 500

\* The inductive invariant behind FailureFreesKey, when Redis answers.
FreesInv ==
    "redis" \notin Faults =>
        /\ HoldsInOrder
        /\ \A r \in Requests : pc[r] \notin {"setnxRetry", "completeRetry", "releaseRetry"}
        /\ \A r \in Requests : (pc[r] = "done" /\ reply[r].status >= 500) =>
              \A k \in Keys : ~Holds(r, k)

\* A step of the code serving one request keeps it.
LEMMA FreesServe ==
    ASSUME TypeOK, FreesInv, "redis" \notin Faults, NEW r \in Requests, Serve(r)
    PROVE  FreesInv'
<1> USE DEF TypeOK, FreesInv, HoldsInOrder, Holds, RecordOf
<1>1. CASE ReserveCreates(r)
  BY <1>1 DEF ReserveCreates, InFlight
<1>2. CASE ReserveTaken(r)
  BY <1>2 DEF ReserveTaken
<1>3. CASE ReserveReads(r)
  BY <1>3 DEF ReserveReads, Finish, ReplayOf, Answer
<1>4. CASE ReserveFails(r)
  BY <1>4 DEF ReserveFails, Finish, Answer
<1>5. CASE HandlerRejects(r)
  BY <1>5 DEF HandlerRejects, HandlerReturns, Answer
<1>6. CASE HandlerPublishes(r)
  BY <1>6 DEF HandlerPublishes, HandlerReturns, Answer
<1>7. CASE HandlerPublishFails(r)
  BY <1>7, KeysDistinct DEF HandlerPublishFails, HandlerReturns, Answer
<1>8. CASE HandlerPublishUnconfirmed(r)
  BY <1>8, KeysDistinct DEF HandlerPublishUnconfirmed, HandlerReturns, Answer
<1>9. CASE CompleteGets(r)
  BY <1>9 DEF CompleteGets
<1>10. CASE CompleteFails(r)
  <2>1. /\ pc[r] \in {"completeGet", "completeScript", "completeRetry"}
        /\ pc' = [pc EXCEPT ![r] = "done"]
        /\ store' = store /\ req' = req /\ reply' = reply
    BY <1>10 DEF CompleteFails
  <2>2. reply[r].status \in Int /\ ~(reply[r].status >= 500)
    BY <2>1 DEF Reply, Statuses
  <2>3. HoldsInOrder'
    BY <2>1
  <2>4. \A s \in Requests : (pc'[s] = "done" /\ reply'[s].status >= 500) => s # r /\ pc[s] = "done"
    BY <2>1, <2>2
  <2> QED
    BY <2>1, <2>3, <2>4
<1>11. CASE Release(r)
  BY <1>11 DEF Release, ApplyRelease, Finish, AfterRelease, Answer, Absent
<1>12. ASSUME NEW queued \in BOOLEAN, HandlerPanics(r, queued)
       PROVE  FreesInv'
  <2>1. /\ pc[r] = "handler" /\ store' = store /\ req' = req
        /\ \/ pc' = [pc EXCEPT ![r] = "release"] /\ reply' = reply
           \/ req[r].key = NoKey /\ pc' = [pc EXCEPT ![r] = "done"]
              /\ reply' = [reply EXCEPT ![r] = Answer(r, 500)]
    BY <1>12 DEF HandlerPanics, Finish
  <2> QED
    BY <2>1, KeysDistinct
<1>13. ASSUME NEW answered \in BOOLEAN, CompleteScript(r, answered)
       PROVE  FreesInv'
  BY <1>13 DEF CompleteScript, ApplyComplete
<1> HIDE DEF TypeOK, FreesInv, HoldsInOrder, Holds, RecordOf
<1> QED
  BY <1>1, <1>2, <1>3, <1>4, <1>5, <1>6, <1>7, <1>8, <1>9, <1>10, <1>11, <1>12, <1>13
     DEF Serve, ReserveAnswerLost, ReleaseAnswerLost, ReleaseFails

\* A step of the environment keeps it.
LEMMA FreesEnvironment ==
    ASSUME TypeOK, FreesInv, "redis" \notin Faults, Environment
    PROVE  FreesInv'
<1> USE DEF TypeOK, FreesInv, HoldsInOrder, Holds
<1>1. ASSUME NEW r \in Requests, NEW k \in Keys \cup {NoKey}, NEW b \in Bodies, Arrive(r, k, b)
      PROVE  FreesInv'
  BY <1>1 DEF Arrive
<1>2. ASSUME NEW r \in Requests, Reject(r)
      PROVE  FreesInv'
  BY <1>2 DEF Reject, Finish, Answer
<1>3. ASSUME NEW r \in Requests, ClientDisconnects(r) \/ ReplicaCrashes(r)
      PROVE  FreesInv'
  BY <1>3 DEF ClientDisconnects, ReplicaCrashes
<1>4. ASSUME NEW k \in Keys, RecordLost(k)
      PROVE  FreesInv'
  BY <1>4 DEF RecordLost, Absent
<1> HIDE DEF TypeOK, FreesInv, HoldsInOrder, Holds
<1> QED
  BY <1>1, <1>2, <1>3, <1>4 DEF Environment

\* As long as Redis answers, a request that ended with a 5xx - its publish failed, its
\* handler panicked, its client went away - left no reservation behind.
THEOREM FailuresFreeKeys == Spec => []FailureFreesKey
<1>1. Init => FreesInv
  BY DEF Init, FreesInv, HoldsInOrder, Holds, Absent, NoReply
<1>2. TypeOK /\ FreesInv /\ [Next]_vars => FreesInv'
  <2>1. FreesInv /\ UNCHANGED vars => FreesInv'
    BY DEF vars, FreesInv, HoldsInOrder, Holds
  <2>2. TypeOK /\ FreesInv /\ Next => FreesInv'
    BY FreesServe, FreesEnvironment DEF Next, FreesInv
  <2> QED
    BY <2>1, <2>2
<1>3. FreesInv => FailureFreesKey
  BY DEF FreesInv, FailureFreesKey, Holds
<1> QED
  BY <1>1, <1>2, <1>3, TypeCorrect, PTL DEF Spec

=============================================================================
