------------------------- MODULE GitHubClientProofs -------------------------
(***************************************************************************)
(* What the cached GitHub client guarantees for any number of callers and  *)
(* any lifetime of its tokens.                                             *)
(***************************************************************************)
EXTENDS GitHubClient, SequenceTheorems, TLAPS

----------------------------------------------------------------------------
(* The strengthening *)

\* Only the holder of the gate is inside.
GateInv == \A c \in Callers : call[c].stage \in Inside => gate = c

\* The two fields agree except between the two writes, when the client is the newer.
CacheInv ==
    /\ tokenExpiresAt <= client
    /\ tokenExpiresAt = client \/ \E c \in Callers : call[c].stage = "stamp"

\* No client, or one that is due for renewal.
Due == client = 0 \/ ~NotDue(client)

\* What each call knows at its stage.
Knows(c) ==
    /\ call[c].asked <= now
    /\ call[c].stage = "take" => call[c].asked < client - RenewBefore
    /\ call[c].stage \in {"key", "mint"} => Due
    /\ call[c].stage \in {"publish", "stamp"} => call[c].asked < call[c].token - RenewBefore
    /\ call[c].stage = "publish" => client <= call[c].token /\ tokenExpiresAt = client
    /\ call[c].stage = "stamp" => client = call[c].token
    /\ call[c].stage = "returned" => call[c].asked < call[c].result - RenewBefore

IInv == TypeOK /\ GateInv /\ CacheInv /\ \A c \in Callers : Knows(c)

----------------------------------------------------------------------------
(* Types *)

\* The queue keeps its type when its head is taken or one of its elements leaves.
LEMMA ShorterQueue ==
    ASSUME NEW S, NEW q \in Seq(S)
    PROVE  /\ q # <<>> => Head(q) \in S /\ Tail(q) \in Seq(S)
           /\ \A i \in 1..Len(q) : SubSeq(q, 1, i - 1) \o SubSeq(q, i + 1, Len(q)) \in Seq(S)
  OBVIOUS

LEMMA ReleaseTypes ==
    ASSUME gate \in Callers \cup {None}, waiters \in Seq(Callers), Release
    PROVE  gate' \in Callers \cup {None} /\ waiters' \in Seq(Callers)
  BY ShorterQueue DEF Release

\* Writing one stage, or a result, keeps the type of the calls.
LEMMA CallTypes ==
    ASSUME TypeOK, NEW c \in Callers
    PROVE  /\ \A stage \in Stages : Goto(c, stage) => call' \in [Callers -> Call]
           /\ \A m \in Moments : Return(c, m) => call' \in [Callers -> Call]
           /\ call[c].token \in Moments
<1>1. 0 \in Moments /\ "returned" \in Stages
  BY TimesPositive DEF Moments, Stages
<1>2. call \in [Callers -> Call] /\ call[c] \in Call
  BY DEF TypeOK
<1>3. ASSUME NEW stage \in Stages
      PROVE  [call[c] EXCEPT !.stage = stage] \in Call
  BY <1>2 DEF Call
<1>4. ASSUME NEW m \in Moments
      PROVE  [call[c] EXCEPT !.stage = "returned", !.token = 0, !.result = m] \in Call
  BY <1>1, <1>2 DEF Call
<1> QED
  BY <1>2, <1>3, <1>4 DEF Call, Goto, Return

\* A fresh call, and none.
LEMMA NewCallTypes ==
    ASSUME now \in 0..MaxNow
    PROVE  NoCall \in Call /\ [NoCall EXCEPT !.stage = "look", !.asked = now] \in Call
<1>1. 0 \in Moments /\ 0 \in 0..MaxNow /\ {"idle", "look"} \subseteq Stages
  BY TimesPositive DEF Moments, Stages
<1> QED
  BY <1>1 DEF NoCall, Call

LEMMA TypeStep ==
    ASSUME TypeOK, [Next]_vars
    PROVE  TypeOK'
<1> USE DEF TypeOK
<1>1. ASSUME NEW c \in Callers, Ask(c) \/ Finish(c)
      PROVE  TypeOK'
  BY <1>1, NewCallTypes DEF Ask, Finish, fields
<1>2. ASSUME NEW c \in Callers,
             \/ Look(c) \/ Compare(c) \/ CompareThrows(c) \/ Enter(c) \/ Renew(c) \/ KeyCached(c) \/ KeyRead(c)
      PROVE  TypeOK'
  <2>1. call' \in [Callers -> Call]
    BY <1>2, CallTypes DEF Look, Compare, CompareThrows, Enter, Renew, KeyCached, KeyRead, Stages, Inside
  <2> QED
    BY <1>2, <2>1 DEF Look, Compare, CompareThrows, Enter, Renew, KeyCached, KeyRead, fields, Secrets
<1>3. ASSUME NEW c \in Callers, Take(c)
      PROVE  TypeOK'
  BY <1>3, CallTypes DEF Take, fields
<1>4. ASSUME NEW c \in Callers, Wait(c)
      PROVE  TypeOK'
  <2>1. call' \in [Callers -> Call]
    BY <1>4, CallTypes DEF Wait, Stages
  <2> QED
    BY <1>4, <2>1 DEF Wait, fields
<1>5. ASSUME NEW c \in Callers, Recheck(c)
      PROVE  TypeOK'
  BY <1>5, CallTypes, ReleaseTypes DEF Recheck, fields
<1>6. ASSUME NEW c \in Callers, Mint(c)
      PROVE  TypeOK'
  <2>1. now + Lifetime \in Moments /\ "publish" \in Stages
    BY TimesPositive DEF Moments, Stages, Inside
  <2> QED
    BY <1>6, <2>1 DEF Mint, Call, fields
<1>7. ASSUME NEW c \in Callers, Store(c)
      PROVE  TypeOK'
  <2>1. CASE call[c].stage = "publish"
    BY <1>7, <2>1, CallTypes DEF Store, Stages, Inside
  <2>2. CASE call[c].stage = "stamp"
    BY <1>7, <2>2, CallTypes, ReleaseTypes DEF Store
  <2> QED
    BY <1>7, <2>1, <2>2 DEF Store
<1>8. ASSUME NEW c \in Callers, Fail(c)
      PROVE  TypeOK'
  BY <1>8, CallTypes, ReleaseTypes DEF Fail, Stages, fields
<1>9. ASSUME NEW c \in Callers, Cancel(c)
      PROVE  TypeOK'
  <2>1. call' \in [Callers -> Call]
    BY <1>9, CallTypes DEF Cancel, Stages
  <2>2. waiters' \in Seq(Callers)
    BY <1>9, ShorterQueue DEF Cancel
  <2> QED
    BY <1>9, <2>1, <2>2 DEF Cancel, fields
<1>10. CASE Tick
  BY <1>10, TimesPositive DEF Tick, fields
<1>11. ASSUME NEW value \in Secrets, PutSecret(value)
       PROVE  TypeOK'
  BY <1>11 DEF PutSecret, fields
<1>12. CASE UNCHANGED vars
  BY <1>12 DEF vars, fields
<1> QED
  BY <1>1, <1>2, <1>3, <1>4, <1>5, <1>6, <1>7, <1>8, <1>9, <1>10, <1>11, <1>12 DEF Next, Proceed

\* The cache, the gate and the calls keep their types; a text without a PEM header is
\* never kept.
THEOREM TypeCorrect == Spec => []TypeOK
<1>1. Init => TypeOK
  BY TimesPositive DEF Init, TypeOK, NoCall, Call, Stages, Moments, Secrets
<1> QED
  BY <1>1, TypeStep, PTL DEF Spec

----------------------------------------------------------------------------
(* One step *)

\* A step writes one call at most.
LEMMA OthersStay ==
    ASSUME TypeOK, NEW c \in Callers, Ask(c) \/ Proceed(c) \/ Cancel(c), NEW d \in Callers, d # c
    PROVE  call'[d] = call[d] /\ now' = now
  BY DEF TypeOK, Ask, Proceed, Cancel, Look, Compare, Take, CompareThrows, Wait, Enter, Recheck, Renew,
     KeyCached, KeyRead, Mint, Store, Fail, Finish, Goto, Return

\* How a step of c moves it relative to the gate.
LEMMA Moves ==
    ASSUME TypeOK, NEW c \in Callers, Ask(c) \/ Proceed(c) \/ Cancel(c)
    PROVE  \/ call[c].stage \notin Inside /\ call'[c].stage \notin Inside /\ gate' = gate
           \/ call[c].stage \notin Inside /\ call'[c].stage = "wait" /\ gate = None
           \/ gate = c /\ gate' = gate
           \/ call[c].stage \in Inside /\ call'[c].stage \in Inside /\ gate' = gate
           \/ call[c].stage \in Inside /\ call'[c].stage \notin Inside
<1> USE DEF TypeOK, Inside, Call
<1>1. CASE Look(c) \/ Compare(c) \/ Take(c) \/ CompareThrows(c)
  BY <1>1 DEF Look, Compare, Take, CompareThrows, Goto, Return
<1>2. CASE Ask(c) \/ Finish(c)
  <2>1. ASSUME Ask(c)
        PROVE  call'[c].stage = "look"
    BY <2>1 DEF Ask, NoCall
  <2>2. ASSUME Finish(c)
        PROVE  call'[c].stage = "idle"
    BY <2>2 DEF Finish, NoCall
  <2>3. gate' = gate /\ call[c].stage \in {"idle", "returned", "threw"}
    BY <1>2 DEF Ask, Finish
  <2> QED
    BY <1>2, <2>1, <2>2, <2>3
<1>3. CASE Cancel(c)
  <2>1. call'[c].stage = "threw" /\ gate' = gate /\ call[c].stage \in {"look", "compare", "wait"}
    BY <1>3 DEF Cancel, NeedsGate, Goto
  <2> QED
    BY <2>1
<1>4. CASE Wait(c)
  BY <1>4 DEF Wait, NeedsGate, Goto
<1>5. CASE Enter(c)
  BY <1>5 DEF Enter
<1>6. CASE Renew(c) \/ KeyCached(c) \/ KeyRead(c) \/ Mint(c)
  BY <1>6 DEF Renew, KeyCached, KeyRead, Mint, Goto
<1>7. CASE Recheck(c) \/ Fail(c)
  BY <1>7 DEF Recheck, Fail, Goto, Return
<1>8. CASE Store(c)
  BY <1>8 DEF Store, Goto, Return
<1> QED
  BY <1>1, <1>2, <1>3, <1>4, <1>5, <1>6, <1>7, <1>8 DEF Proceed

\* The gate passes on from a call that leaves it; nobody else's step takes it away.
LEMMA GateStep ==
    ASSUME TypeOK, GateInv, [Next]_vars
    PROVE  GateInv'
<1>1. ASSUME NEW c \in Callers, Ask(c) \/ Proceed(c) \/ Cancel(c)
      PROVE  GateInv'
  <2>1. \A d \in Callers \ {c} : call'[d] = call[d]
    BY <1>1, OthersStay
  <2>2. CASE call'[c].stage \notin Inside /\ gate' = gate
    BY <2>1, <2>2 DEF GateInv
  <2>3. CASE gate = c /\ gate' = gate
    BY <2>1, <2>3 DEF GateInv
  <2>4. CASE call'[c].stage = "wait" /\ gate = None
    BY <2>1, <2>4, NoneIsNoCaller DEF GateInv, Inside
  <2>5. CASE call[c].stage \in Inside /\ call'[c].stage \notin Inside
    BY <2>1, <2>5 DEF GateInv
  <2>6. CASE call[c].stage \in Inside /\ gate' = gate
    BY <2>1, <2>6 DEF GateInv
  <2> QED
    BY <1>1, <2>2, <2>3, <2>4, <2>5, <2>6, Moves
<1> QED
  BY <1>1 DEF Next, Tick, PutSecret, vars, GateInv

\* Only the holder of the gate writes the fields, and the client only gets newer.
LEMMA FieldsStep ==
    ASSUME IInv, NEW c \in Callers, Ask(c) \/ Proceed(c) \/ Cancel(c)
    PROVE  /\ client <= client'
           /\ (client' # client \/ tokenExpiresAt' # tokenExpiresAt) => gate = c /\ call[c].stage \in {"publish", "stamp"}
<1>1. CASE Store(c)
  BY <1>1 DEF IInv, TypeOK, Moments, Knows, GateInv, Inside, Store
<1>2. CASE ~Store(c)
  <2>1. client' = client /\ tokenExpiresAt' = tokenExpiresAt
    BY <1>2 DEF Ask, Proceed, Cancel, Look, Compare, Take, CompareThrows, Wait, Enter, Recheck, Renew,
       KeyCached, KeyRead, Mint, Fail, Finish, fields
  <2> QED
    BY <2>1 DEF IInv, TypeOK, Moments
<1> QED
  BY <1>1, <1>2

\* While a call is inside and nobody stands between the two writes, the fields agree.
LEMMA FieldsAgree ==
    ASSUME IInv, NEW c \in Callers, gate = c, call[c].stage # "stamp"
    PROVE  tokenExpiresAt = client
  BY DEF IInv, CacheInv, GateInv, Inside

\* The call that takes the step.
LEMMA OwnKnowledge ==
    ASSUME IInv, NEW c \in Callers, Ask(c) \/ Proceed(c) \/ Cancel(c)
    PROVE  Knows(c)'
<1> USE TimesPositive DEF IInv, TypeOK, Moments, Call
<1>0. call[c].asked \in 0..MaxNow /\ call[c].token \in Moments /\ call[c].result \in Moments /\ Knows(c)
  OBVIOUS
<1>1. CASE Ask(c) \/ Finish(c)
  <2>1. ASSUME Ask(c)
        PROVE  call'[c].stage = "look" /\ call'[c].asked = now /\ now' = now
    BY <2>1 DEF Ask, NoCall
  <2>2. ASSUME Finish(c)
        PROVE  call'[c].stage = "idle" /\ call'[c].asked = 0 /\ now' = now
    BY <2>2 DEF Finish, NoCall
  <2>3. call'[c].stage \in {"look", "idle"} /\ call'[c].asked <= now /\ now' = now
    BY <1>1, <2>1, <2>2
  <2> QED
    BY <2>3 DEF Knows
<1>2. CASE Look(c) \/ CompareThrows(c) \/ Wait(c) \/ Enter(c) \/ Fail(c) \/ Cancel(c)
  <2>1. /\ call'[c].stage \in {"compare", "threw", "wait", "recheck"}
        /\ call'[c].asked = call[c].asked /\ now' = now
    BY <1>2 DEF Look, CompareThrows, Wait, Enter, Fail, Cancel, Goto
  <2> QED
    BY <1>0, <2>1 DEF Knows
<1>3. CASE Compare(c)
  <2>1. call[c].asked < client - RenewBefore
    BY <1>0, <1>3 DEF Compare, NotDue, Knows, CacheInv
  <2> QED
    BY <1>0, <1>3, <2>1 DEF Compare, Goto, Knows, fields
<1>4. CASE Take(c)
  BY <1>0, <1>4 DEF Take, Return, Knows, fields
<1>5. CASE Recheck(c)
  <2>1. call[c].asked < client - RenewBefore
    BY <1>0, <1>5 DEF Recheck, NotDue, Knows, CacheInv
  <2> QED
    BY <1>0, <1>5, <2>1 DEF Recheck, Return, Knows, fields
<1>6. CASE Renew(c)
  <2>1. Due /\ Due'
    BY <1>6, FieldsAgree DEF Renew, GateInv, Inside, Due, NotDue, fields
  <2> QED
    BY <1>0, <1>6, <2>1 DEF Renew, Goto, Knows, fields
<1>7. CASE KeyCached(c) \/ KeyRead(c)
  <2>1. Due' /\ call'[c].stage = "mint" /\ call'[c].asked = call[c].asked /\ now' = now
    BY <1>0, <1>7 DEF KeyCached, KeyRead, Goto, Knows, Due, NotDue, fields
  <2> QED
    BY <1>0, <2>1 DEF Knows
<1>8. CASE Mint(c)
  <2>1. client <= now + Lifetime /\ tokenExpiresAt = client
    BY <1>0, <1>8, FieldsAgree DEF Mint, Knows, Due, NotDue, GateInv, Inside
  <2>2. call'[c].stage = "publish" /\ call'[c].asked = call[c].asked /\ call'[c].token = now + Lifetime
    BY <1>8 DEF Mint
  <2>3. call[c].asked < now + Lifetime - RenewBefore
    BY <1>0 DEF Knows
  <2> QED
    BY <1>0, <1>8, <2>1, <2>2, <2>3 DEF Mint, Knows, fields
<1>9. CASE Store(c)
  <2>1. CASE call[c].stage = "publish"
    <3>1. call'[c] = [call[c] EXCEPT !.stage = "stamp"] /\ client' = call[c].token /\ now' = now
      BY <1>9, <2>1 DEF Store, Goto
    <3>2. /\ call'[c].stage = "stamp" /\ call'[c].asked = call[c].asked
          /\ call'[c].token = call[c].token /\ client' = call'[c].token
      BY <1>0, <3>1
    <3> QED
      BY <1>0, <2>1, <3>1, <3>2 DEF Knows
  <2>2. CASE call[c].stage = "stamp"
    <3>1. /\ call'[c].stage = "returned" /\ call'[c].asked = call[c].asked
          /\ call'[c].result = call[c].token /\ now' = now
      BY <1>9, <2>2 DEF Store, Return
    <3>2. call[c].asked <= now /\ call[c].asked < call[c].token - RenewBefore
      BY <1>0, <2>2 DEF Knows
    <3> QED
      BY <3>1, <3>2 DEF Knows
  <2> QED
    BY <1>9, <2>1, <2>2 DEF Store
<1> QED
  BY <1>1, <1>2, <1>3, <1>4, <1>5, <1>6, <1>7, <1>8, <1>9 DEF Proceed

\* The calls that only watch: the fields change under them at the hands of the holder
\* of the gate, and only for the newer.
LEMMA OthersKnowledge ==
    ASSUME IInv, NEW c \in Callers, Ask(c) \/ Proceed(c) \/ Cancel(c), NEW d \in Callers, d # c
    PROVE  Knows(d)'
<1> USE TimesPositive DEF IInv, TypeOK, Moments, Call
<1>1. call'[d] = call[d] /\ now' = now /\ Knows(d) /\ client <= client'
  BY OthersStay, FieldsStep
<1>2. call[d].stage \in Inside => client' = client /\ tokenExpiresAt' = tokenExpiresAt
  BY FieldsStep DEF GateInv
<1>3. client' \in Moments
  BY TypeStep DEF Next
<1> QED
  BY <1>1, <1>2, <1>3 DEF Knows, Due, NotDue, Inside

\* The fields agree again after the second write.
LEMMA CacheStep ==
    ASSUME IInv, NEW c \in Callers, Ask(c) \/ Proceed(c) \/ Cancel(c)
    PROVE  CacheInv'
<1> USE DEF IInv, TypeOK, Moments, Call
<1>1. CASE Store(c)
  <2>1. CASE call[c].stage = "publish"
    <3>1. call'[c].stage = "stamp" /\ client' = call[c].token /\ tokenExpiresAt' = tokenExpiresAt
      BY <1>1, <2>1 DEF Store, Goto
    <3>2. tokenExpiresAt' <= client'
      BY <2>1, <3>1 DEF Knows
    <3> QED
      BY <3>1, <3>2 DEF CacheInv
  <2>2. CASE call[c].stage = "stamp"
    BY <1>1, <2>2 DEF Store, Knows, CacheInv
  <2> QED
    BY <1>1, <2>1, <2>2 DEF Store
<1>2. CASE ~Store(c)
  <2>1. client' = client /\ tokenExpiresAt' = tokenExpiresAt
    BY <1>2 DEF Ask, Proceed, Cancel, Look, Compare, Take, CompareThrows, Wait, Enter, Recheck, Renew,
       KeyCached, KeyRead, Mint, Fail, Finish, fields
  <2>2. ASSUME NEW d \in Callers, call[d].stage = "stamp"
        PROVE  call'[d].stage = "stamp"
    <3>1. CASE d = c
      BY <1>2, <2>2, <3>1 DEF Ask, Proceed, Cancel, NeedsGate, Look, Compare, Take, CompareThrows, Wait, Enter,
         Recheck, Renew, KeyCached, KeyRead, Mint, Fail, Finish
    <3>2. CASE d # c
      BY <2>2, <3>2, OthersStay
    <3> QED
      BY <3>1, <3>2
  <2> QED
    BY <2>1, <2>2 DEF CacheInv
<1> QED
  BY <1>1, <1>2

LEMMA IInvStep ==
    ASSUME IInv, [Next]_vars
    PROVE  IInv'
<1>1. TypeOK' /\ GateInv'
  BY TypeStep, GateStep DEF IInv
<1>2. ASSUME NEW c \in Callers, Ask(c) \/ Proceed(c) \/ Cancel(c)
      PROVE  CacheInv' /\ \A d \in Callers : Knows(d)'
  BY <1>2, CacheStep, OwnKnowledge, OthersKnowledge
<1>3. CASE Tick
  <2>1. now < now' /\ now \in Int /\ client \in Int
    BY <1>3, TimesPositive DEF Tick, IInv, TypeOK, Moments
  <2> QED
    BY <1>1, <1>3, <2>1, TimesPositive DEF Tick, fields, IInv, TypeOK, Call, CacheInv, Knows, Due, NotDue
<1>4. CASE UNCHANGED vars \/ \E value \in Secrets : PutSecret(value)
  BY <1>1, <1>4 DEF PutSecret, vars, fields, IInv, CacheInv, Knows, Due, NotDue
<1> QED
  BY <1>1, <1>2, <1>3, <1>4 DEF Next, IInv

THEOREM IInvHolds == Spec => []IInv
<1>1. Init => IInv
  BY TimesPositive, NoneIsNoCaller
     DEF Init, IInv, TypeOK, NoCall, Call, Stages, Moments, Secrets, GateInv, CacheInv, Knows, Inside
<1> QED
  BY <1>1, IInvStep, PTL DEF Spec

----------------------------------------------------------------------------
(* The results *)

\* The client a call returns was not due for renewal when the call began.
THEOREM ClientsAreFresh == Spec => []HandsOutFresh
<1>1. IInv => HandsOutFresh
  BY DEF IInv, Knows, HandsOutFresh
<1> QED
  BY <1>1, IInvHolds, PTL

\* A token is only minted when there is no client or the client's own is due.
THEOREM OnlyDueTokensAreReplaced == Spec => MintOnlyWhenDue
<1>1. IInv /\ [Next]_vars =>
          [\A c \in Callers :
              (call[c].stage = "mint" /\ call'[c].stage = "publish") => client = 0 \/ ~NotDue(client)]_vars
  BY DEF IInv, Knows, Due
<1> QED
  BY <1>1, IInvHolds, PTL DEF Spec, MintOnlyWhenDue

----------------------------------------------------------------------------
(***************************************************************************)
(* The gate is never lost.  CallsEnd is liveness and stays with TLC; what  *)
(* it rests on is safety: whoever waits is in the queue or has the gate,   *)
(* and whoever has the gate is on a path that releases it.                 *)
(***************************************************************************)

Queued(c) == \E i \in 1..Len(waiters) : waiters[i] = c

\* The gate and its queue agree with where the calls are: no call waits outside the
\* queue, nobody queues at a free gate, nobody queues twice, and the gate is not held by
\* a call that is through, failed or cancelled.
GateAccounted ==
    /\ gate # None => call[gate].stage \in Inside \cup {"wait"}
    /\ \A c \in Callers : call[c].stage = "wait" => gate = c \/ Queued(c)
    /\ \A i \in 1..Len(waiters) : call[waiters[i]].stage = "wait" /\ waiters[i] # gate
    /\ \A i, j \in 1..Len(waiters) : waiters[i] = waiters[j] => i = j
    /\ waiters # <<>> => gate # None

\* What a queue holds after its head, or one of its elements, has left.
LEMMA QueueTail ==
    ASSUME NEW S, NEW q \in Seq(S), q # <<>>
    PROVE  /\ Len(q) \in Nat \ {0} /\ Head(q) = q[1] /\ Len(Tail(q)) = Len(q) - 1
           /\ \A i \in 1..Len(Tail(q)) : Tail(q)[i] = q[i + 1]
  OBVIOUS

LEMMA QueueWithout ==
    ASSUME NEW S, NEW q \in Seq(S), NEW i \in 1..Len(q)
    PROVE  LET p == SubSeq(q, 1, i - 1) \o SubSeq(q, i + 1, Len(q))
           IN  /\ Len(q) \in Nat /\ Len(p) = Len(q) - 1
               /\ \A j \in 1..Len(q) - 1 : p[j] = q[IF j < i THEN j ELSE j + 1]
<1> DEFINE a == SubSeq(q, 1, i - 1)
           b == SubSeq(q, i + 1, Len(q))
<1>1. Len(q) \in Nat /\ i \in Int
  OBVIOUS
<1>2. a \in Seq(S) /\ Len(a) = i - 1 /\ \A j \in 1..i - 1 : a[j] = q[j]
  BY <1>1, SubSeqProperties
<1>3. b \in Seq(S) /\ Len(b) = Len(q) - i /\ \A j \in 1..Len(q) - i : b[j] = q[i + j]
  BY <1>1, SubSeqProperties
<1> HIDE DEF a, b
<1>4. /\ Len(a \o b) = Len(a) + Len(b)
      /\ \A j \in 1..Len(a) + Len(b) : (a \o b)[j] = IF j <= Len(a) THEN a[j] ELSE b[j - Len(a)]
  BY <1>2, <1>3, ConcatProperties
<1>5. ASSUME NEW j \in 1..Len(q) - 1, j < i
      PROVE  (a \o b)[j] = q[j]
  <2>1. j \in 1..i - 1 /\ j \in 1..Len(a) + Len(b) /\ j <= Len(a)
    BY <1>1, <1>2, <1>3, <1>5
  <2> QED
    BY <1>2, <1>4, <2>1
<1>6. ASSUME NEW j \in 1..Len(q) - 1, ~(j < i)
      PROVE  (a \o b)[j] = q[j + 1]
  <2>1. /\ j \in 1..Len(a) + Len(b) /\ ~(j <= Len(a))
        /\ j - Len(a) \in 1..Len(q) - i /\ i + (j - Len(a)) = j + 1
    BY <1>1, <1>2, <1>3, <1>6
  <2> QED
    BY <1>3, <1>4, <2>1
<1>7. Len(a \o b) = Len(q) - 1
  BY <1>1, <1>2, <1>3, <1>4
<1>8. \A j \in 1..Len(q) - 1 : (a \o b)[j] = q[IF j < i THEN j ELSE j + 1]
  BY <1>5, <1>6
<1> QED
  BY <1>1, <1>7, <1>8, Zenon DEF a, b

\* A step that neither the gate nor its queue takes part in.
LEMMA OutsideAccounted ==
    ASSUME TypeOK, GateAccounted, NEW c \in Callers,
           call[c].stage \notin Inside \cup {"wait"}, call'[c].stage \notin Inside \cup {"wait"},
           \A d \in Callers \ {c} : call'[d] = call[d], UNCHANGED <<gate, waiters>>
    PROVE  GateAccounted'
<1>1. gate # c /\ ~Queued(c)
  BY NoneIsNoCaller DEF GateAccounted, Queued
<1>2. \A i \in 1..Len(waiters) : waiters[i] \in Callers \ {c}
  BY <1>1 DEF TypeOK, Queued
<1> QED
  BY <1>1, <1>2 DEF GateAccounted, Queued, TypeOK

\* A step of the holder that stays on its way through the gate.
LEMMA InsideAccounted ==
    ASSUME TypeOK, GateAccounted, NEW c \in Callers, gate = c, call'[c].stage \in Inside,
           \A d \in Callers \ {c} : call'[d] = call[d], UNCHANGED <<gate, waiters>>
    PROVE  GateAccounted'
<1>1. \A i \in 1..Len(waiters) : waiters[i] \in Callers \ {c}
  BY DEF GateAccounted, TypeOK
<1> QED
  BY <1>1 DEF GateAccounted, Queued, Inside

\* The holder leaves and hands the gate to the head of the queue.
LEMMA LeaveAccounted ==
    ASSUME TypeOK, GateAccounted, NEW c \in Callers, gate = c, Release,
           call'[c].stage \notin Inside \cup {"wait"}, \A d \in Callers \ {c} : call'[d] = call[d]
    PROVE  GateAccounted'
<1>1. \A i \in 1..Len(waiters) : waiters[i] \in Callers \ {c}
  BY DEF GateAccounted, TypeOK
<1>2. CASE waiters = <<>>
  BY <1>1, <1>2 DEF GateAccounted, Queued, Release
<1>3. CASE waiters # <<>>
  <2>1. /\ gate' = waiters[1] /\ waiters' = Tail(waiters)
        /\ Len(waiters) \in Nat \ {0} /\ Len(waiters') = Len(waiters) - 1
        /\ \A i \in 1..Len(waiters') : waiters'[i] = waiters[i + 1]
    BY <1>3, QueueTail DEF Release, TypeOK
  <2>2. \A i \in 1..Len(waiters') : i + 1 \in 1..Len(waiters)
    BY <2>1
  <2>3. call'[gate'].stage = "wait" /\ gate' \in Callers
    BY <1>1, <2>1 DEF GateAccounted
  <2>4. ASSUME NEW d \in Callers, call'[d].stage = "wait"
        PROVE  gate' = d \/ Queued(d)'
    <3>1. PICK i \in 1..Len(waiters) : waiters[i] = d
      BY <2>4 DEF GateAccounted, Queued
    <3>2. CASE i = 1
      BY <2>1, <3>1, <3>2
    <3>3. CASE i # 1
      <4>1. i - 1 \in 1..Len(waiters') /\ waiters'[i - 1] = d
        BY <2>1, <3>1, <3>3
      <4> QED
        BY <4>1 DEF Queued
    <3> QED
      BY <3>2, <3>3
  <2>5. ASSUME NEW i \in 1..Len(waiters')
        PROVE  call'[waiters'[i]].stage = "wait" /\ waiters'[i] # gate'
    BY <1>1, <2>1, <2>2 DEF GateAccounted
  <2>6. ASSUME NEW i \in 1..Len(waiters'), NEW j \in 1..Len(waiters'), waiters'[i] = waiters'[j]
        PROVE  i = j
    <3>1. i + 1 = j + 1
      BY <2>1, <2>2, <2>6 DEF GateAccounted
    <3> QED
      BY <3>1
  <2> QED
    BY <2>3, <2>4, <2>5, <2>6, NoneIsNoCaller DEF GateAccounted
<1> QED
  BY <1>2, <1>3

\* A call that needs the gate takes it or joins the queue at its end.
LEMMA WaitAccounted ==
    ASSUME TypeOK, GateAccounted, NEW c \in Callers, Wait(c)
    PROVE  GateAccounted'
<1>1. /\ call[c].stage \in {"look", "compare"} /\ call'[c].stage = "wait"
      /\ \A d \in Callers \ {c} : call'[d] = call[d]
  BY DEF Wait, NeedsGate, Goto, TypeOK, Call
<1>2. gate # c /\ ~Queued(c) /\ \A i \in 1..Len(waiters) : waiters[i] \in Callers \ {c}
  BY <1>1, NoneIsNoCaller DEF GateAccounted, Queued, Inside, TypeOK
<1>3. CASE gate = None
  <2>1. gate' = c /\ UNCHANGED waiters /\ waiters = <<>> /\ Len(waiters) = 0
    BY <1>3 DEF Wait, GateAccounted
  <2>2. \A d \in Callers : call'[d].stage = "wait" => d = c
    BY <1>1, <1>2, <1>3, <2>1, NoneIsNoCaller DEF GateAccounted, Queued
  <2> QED
    BY <1>1, <2>1, <2>2 DEF GateAccounted
<1>4. CASE gate # None
  <2>1. /\ gate' = gate /\ Len(waiters) \in Nat /\ Len(waiters') = Len(waiters) + 1
        /\ \A i \in 1..Len(waiters) : waiters'[i] = waiters[i]
        /\ waiters'[Len(waiters')] = c
    BY <1>4 DEF Wait, TypeOK
  <2>2. \A i \in 1..Len(waiters') : i \in 1..Len(waiters) \/ i = Len(waiters')
    BY <2>1
  <2>3. \A d \in Callers : Queued(d) => Queued(d)'
    BY <2>1 DEF Queued
  <2>4. Queued(c)'
    BY <2>1 DEF Queued
  <2>5. \A i \in 1..Len(waiters') : call'[waiters'[i]].stage = "wait" /\ waiters'[i] # gate'
    BY <1>1, <1>2, <2>1, <2>2 DEF GateAccounted
  <2>6. \A i, j \in 1..Len(waiters') : waiters'[i] = waiters'[j] => i = j
    BY <1>2, <2>1, <2>2 DEF GateAccounted
  <2>7. gate' # None => call'[gate'].stage \in Inside \cup {"wait"}
    BY <1>1, <1>2, <2>1 DEF GateAccounted, TypeOK
  <2>8. \A d \in Callers : call'[d].stage = "wait" => gate' = d \/ Queued(d)'
    BY <1>1, <2>1, <2>3, <2>4 DEF GateAccounted
  <2> QED
    BY <1>4, <2>1, <2>5, <2>6, <2>7, <2>8 DEF GateAccounted
<1> QED
  BY <1>3, <1>4

\* A call cancelled in the queue leaves it, and nobody else does.
LEMMA CancelAccounted ==
    ASSUME TypeOK, GateAccounted, NEW c \in Callers, call[c].stage = "wait", Cancel(c)
    PROVE  GateAccounted'
<1>1. PICK k \in 1..Len(waiters) :
        waiters[k] = c /\ waiters' = SubSeq(waiters, 1, k - 1) \o SubSeq(waiters, k + 1, Len(waiters))
  BY DEF Cancel, NeedsGate
<1>2. /\ call'[c].stage = "threw" /\ gate' = gate
      /\ \A d \in Callers \ {c} : call'[d] = call[d]
  BY DEF Cancel, Goto, TypeOK, Call
<1> DEFINE old(j) == IF j < k THEN j ELSE j + 1
<1>3. /\ Len(waiters) \in Nat /\ Len(waiters') = Len(waiters) - 1
      /\ \A j \in 1..Len(waiters') : waiters'[j] = waiters[old(j)]
  <2>1. waiters \in Seq(Callers)
    BY DEF TypeOK
  <2> QED
    BY <1>1, <2>1, QueueWithout
<1>4. \A j \in 1..Len(waiters') : old(j) \in 1..Len(waiters) \ {k}
  BY <1>3
<1>5. \A i, j \in 1..Len(waiters') : old(i) = old(j) => i = j
  BY <1>3
<1>6. \A i \in 1..Len(waiters) \ {k} : \E j \in 1..Len(waiters') : old(j) = i
  <2> SUFFICES ASSUME NEW i \in 1..Len(waiters) \ {k}
               PROVE  \E j \in 1..Len(waiters') : old(j) = i
    OBVIOUS
  <2>1. CASE i < k
    <3>1. i \in 1..Len(waiters') /\ old(i) = i
      BY <1>3, <2>1
    <3> QED
      BY <3>1
  <2>2. CASE i > k
    <3>1. i - 1 \in 1..Len(waiters') /\ old(i - 1) = i
      BY <1>3, <2>2
    <3> QED
      BY <3>1
  <2> QED
    BY <1>3, <2>1, <2>2
<1> HIDE DEF old
<1>7. gate # c /\ gate' # c
  BY <1>1, <1>2 DEF GateAccounted
<1>8. ASSUME NEW j \in 1..Len(waiters')
      PROVE  call'[waiters'[j]].stage = "wait" /\ waiters'[j] # gate'
  <2>1. waiters'[j] \in Callers \ {c}
    <3>1. old(j) \in 1..Len(waiters) /\ old(j) # k /\ waiters'[j] = waiters[old(j)]
      BY <1>3, <1>4
    <3>2. waiters[k] = c
      BY <1>1
    <3>3. waiters[old(j)] \in Callers
      BY <3>1 DEF TypeOK
    <3>4. waiters[old(j)] # c
      BY <3>1, <3>2 DEF GateAccounted
    <3> QED
      BY <3>1, <3>3, <3>4
  <2> QED
    BY <1>2, <1>3, <1>4, <2>1 DEF GateAccounted
<1>9. ASSUME NEW d \in Callers, call'[d].stage = "wait"
      PROVE  gate' = d \/ Queued(d)'
  <2>1. d # c
    BY <1>2, <1>9
  <2>2. CASE Queued(d)
    <3>1. PICK i \in 1..Len(waiters) \ {k} : waiters[i] = d
      BY <1>1, <2>1, <2>2 DEF Queued
    <3> QED
      BY <1>3, <1>6, <3>1 DEF Queued
  <2> QED
    BY <1>2, <1>9, <2>1, <2>2 DEF GateAccounted
<1>10. \A i, j \in 1..Len(waiters') : waiters'[i] = waiters'[j] => i = j
  BY <1>3, <1>4, <1>5 DEF GateAccounted
<1>11. gate' # None /\ call'[gate'].stage \in Inside \cup {"wait"}
  BY <1>1, <1>2, <1>7 DEF GateAccounted, TypeOK
<1> QED
  BY <1>8, <1>9, <1>10, <1>11 DEF GateAccounted

\* Whoever waits for the gate is in its queue or has been handed it, and the gate is
\* held only by a call on its way to Release, however calls fail, queue or are cancelled.
THEOREM GateNeverLost == Spec => []GateAccounted
<1>1. Init => GateAccounted
  BY NoneIsNoCaller DEF Init, GateAccounted, NoCall
<1>2. TypeOK /\ GateInv /\ GateAccounted /\ [Next]_vars => GateAccounted'
  <2> SUFFICES ASSUME TypeOK, GateInv, GateAccounted, [Next]_vars
               PROVE  GateAccounted'
    OBVIOUS
  <2>1. ASSUME NEW c \in Callers, Ask(c) \/ Finish(c)
        PROVE  GateAccounted'
    <3>1. call[c].stage \in {"idle", "returned", "threw"} /\ UNCHANGED <<gate, waiters>>
      BY <2>1 DEF Ask, Finish
    <3>2. call'[c].stage \in {"look", "idle"}
      <4>1. NoCall.stage = "idle" /\ [NoCall EXCEPT !.stage = "look", !.asked = now].stage = "look"
        BY DEF NoCall
      <4> QED
        BY <2>1, <4>1, Zenon DEF Ask, Finish, TypeOK
    <3> QED
      BY <2>1, <3>1, <3>2, OthersStay, OutsideAccounted DEF Inside, Proceed
  <2>2. ASSUME NEW c \in Callers, Look(c) \/ Compare(c) \/ Take(c) \/ CompareThrows(c)
        PROVE  GateAccounted'
    <3>1. call[c].stage \in {"look", "compare", "take"} /\ UNCHANGED <<gate, waiters>>
      BY <2>2 DEF Look, Compare, Take, CompareThrows
    <3>2. call'[c].stage \in {"compare", "take", "returned", "threw"}
      BY <2>2 DEF Look, Compare, Take, CompareThrows, Goto, Return, TypeOK, Call
    <3> QED
      BY <2>2, <3>1, <3>2, OthersStay, OutsideAccounted DEF Inside, Proceed
  <2>3. ASSUME NEW c \in Callers,
               Enter(c) \/ Renew(c) \/ KeyCached(c) \/ KeyRead(c) \/ Mint(c)
                   \/ (Store(c) /\ call[c].stage = "publish")
        PROVE  GateAccounted'
    <3>1. gate = c /\ UNCHANGED <<gate, waiters>>
      BY <2>3 DEF Enter, Renew, KeyCached, KeyRead, Mint, Store, GateInv, Inside
    <3>2. call'[c].stage \in Inside
      BY <2>3 DEF Enter, Renew, KeyCached, KeyRead, Mint, Store, Goto, TypeOK, Call, Inside
    <3> QED
      BY <2>3, <3>1, <3>2, OthersStay, InsideAccounted DEF Proceed
  <2>4. ASSUME NEW c \in Callers, Recheck(c) \/ Fail(c) \/ (Store(c) /\ call[c].stage = "stamp")
        PROVE  GateAccounted'
    <3>1. gate = c /\ Release
      BY <2>4 DEF Recheck, Fail, Store, GateInv, Inside
    <3>2. call'[c].stage \in {"returned", "threw"}
      BY <2>4 DEF Recheck, Fail, Store, Goto, Return, TypeOK, Call
    <3> QED
      BY <2>4, <3>1, <3>2, OthersStay, LeaveAccounted DEF Inside, Proceed
  <2>5. ASSUME NEW c \in Callers, Cancel(c), call[c].stage # "wait"
        PROVE  GateAccounted'
    <3>1. /\ call[c].stage \in {"look", "compare"} /\ UNCHANGED <<gate, waiters>>
          /\ call'[c].stage = "threw"
      BY <2>5 DEF Cancel, NeedsGate, Goto, TypeOK, Call
    <3> QED
      BY <2>5, <3>1, OthersStay, OutsideAccounted DEF Inside
  <2>6. CASE Tick \/ UNCHANGED vars \/ \E value \in Secrets : PutSecret(value)
    BY <2>6 DEF Tick, PutSecret, vars, GateAccounted, Queued
  <2>7. ASSUME NEW c \in Callers, Store(c)
        PROVE  call[c].stage \in {"publish", "stamp"}
    BY <2>7 DEF Store
  <2> QED
    BY <2>1, <2>2, <2>3, <2>4, <2>5, <2>6, <2>7, WaitAccounted, CancelAccounted DEF Next, Proceed
<1>3. IInv => TypeOK /\ GateInv
  BY DEF IInv
<1> QED
  BY <1>1, <1>2, <1>3, IInvHolds, PTL DEF Spec
=============================================================================
