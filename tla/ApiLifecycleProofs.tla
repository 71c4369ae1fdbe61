------------------------- MODULE ApiLifecycleProofs -------------------------
(***************************************************************************)
(* What holds of one API process for any set of requests, routes and       *)
(* environments: nobody is cut off by a process that ends well.            *)
(***************************************************************************)
EXTENDS ApiLifecycle, FiniteSetTheorems, TLAPS

\* The routes answered without a service have one of three statuses.
LEMMA ImmediateStatuses == \A t \in DOMAIN Immediate : Immediate[t] \in {200, 204, 404}
  BY DEF Immediate

\* Nothing but main moves the process, and no step changes its environment.
LEMMA ServeKeepsProcess ==
    ASSUME NEW r \in Requests, Serve(r)
    PROVE  UNCHANGED <<env, process>>
  BY DEF Serve, Connect, Drop, Begin, Reserve, Publish, Authenticate, Panic, PanicLate, Settle, Leave

\* A step of one request preserves the types.
LEMMA ServeTypes ==
    ASSUME TypeOK, NEW r \in Requests, Serve(r)
    PROVE  TypeOK'
<1>0. UNCHANGED <<env, stage, step, opened, result, listener, signalled, exit>>
  BY ServeKeepsProcess DEF process
<1> USE <1>0 DEF TypeOK
<1>1. CASE Connect(r)
  BY <1>1 DEF Connect
<1>2. CASE Drop(r)
  BY <1>2 DEF Drop
<1>3. ASSUME NEW t \in Routes, NEW keyed \in BOOLEAN, Begin(r, t, keyed)
      PROVE  TypeOK'
  <2>1. route' \in [Requests -> Routes \cup {"none"}] /\ active' \in Int
    BY <1>3 DEF Begin
  <2>2. CASE t \in DOMAIN Immediate
    <3>1. Immediate[t] \in {200, 204, 404}
      BY <2>2, ImmediateStatuses
    <3> QED
      BY <1>3, <2>1, <2>2, <3>1 DEF Begin, WriteHeader
  <2>3. CASE t \notin DOMAIN Immediate
    BY <1>3, <2>1, <2>3 DEF Begin
  <2> QED
    BY <2>2, <2>3
<1>4. ASSUME NEW answered \in BOOLEAN, Reserve(r, answered)
      PROVE  TypeOK'
  BY <1>4 DEF Reserve, Handled, WriteHeader, Meets
<1>5. ASSUME NEW status \in {202, 400, 500}, Publish(r, status)
      PROVE  TypeOK'
  BY <1>5 DEF Publish, Handled, WriteHeader, Meets
<1>6. ASSUME NEW status \in {200, 201, 400, 401, 500}, Authenticate(r, status)
      PROVE  TypeOK'
  BY <1>6 DEF Authenticate, Handled, WriteHeader
<1>7. CASE Panic(r) \/ PanicLate(r)
  BY <1>7 DEF Panic, PanicLate, Handled, WriteHeader
<1>8. ASSUME NEW answered \in BOOLEAN, Settle(r, answered)
      PROVE  TypeOK'
  BY <1>8 DEF Settle, Meets
<1>9. CASE Leave(r)
  BY <1>9 DEF Leave, Meets
<1> QED
  BY <1>1, <1>2, <1>3, <1>4, <1>5, <1>6, <1>7, <1>8, <1>9 DEF Serve

\* A step of main, the listener or the environment preserves the types.
LEMMA ProcessTypes ==
    ASSUME TypeOK, Main \/ Listen \/ ListenerFails \/ Signal \/ Kill
    PROVE  TypeOK'
<1> USE DEF TypeOK
<1>1. CASE Boot
  BY <1>1 DEF Boot, requests
<1>2. CASE BootFails
  BY <1>2 DEF BootFails, requests
<1>3. CASE Run \/ Notify
  BY <1>3 DEF Run, Notify, requests
<1>4. CASE Listen \/ ListenerFails
  BY <1>4 DEF Listen, ListenerFails, requests
<1>5. CASE ServerError \/ DrainCompletes \/ DrainTimesOut
  BY <1>5 DEF ServerError, DrainCompletes, DrainTimesOut, Return, requests
<1>6. CASE Interrupted
  BY <1>6 DEF Interrupted, requests
<1>7. CASE Close \/ Exit
  BY <1>7 DEF Close, Exit, requests
<1>8. CASE Signal \/ Kill
  <2>1. signalled' \in BOOLEAN
    BY <1>8, Zenon DEF Signal, Kill
  <2>2. stage' \in {"booting", "starting", "serving", "draining", "closing", "exited"}
        /\ exit' \in {"none", "zero", "one", "killed"}
    BY <1>8 DEF Signal, Kill
  <2>3. UNCHANGED <<env, step, opened, result, listener, requests>>
    BY <1>8 DEF Signal, Kill
  <2> QED
    BY <2>1, <2>2, <2>3 DEF requests
<1> QED
  BY <1>1, <1>2, <1>3, <1>4, <1>5, <1>6, <1>7, <1>8 DEF Main

\* Every variable of the life cycle keeps its type.
THEOREM TypeCorrect == Spec => []TypeOK
<1>1. Init => TypeOK
  <2> SUFFICES ASSUME Init PROVE TypeOK
    OBVIOUS
  <2>1. signalled \in BOOLEAN
    BY Zenon DEF Init
  <2> QED
    BY <2>1 DEF Init, TypeOK
<1>2. TypeOK /\ [Next]_vars => TypeOK'
  <2> SUFFICES ASSUME TypeOK, [Next]_vars PROVE TypeOK'
    OBVIOUS
  <2>1. CASE UNCHANGED vars
    BY <2>1 DEF TypeOK, vars, process, requests
  <2>2. CASE Next
    BY <2>2, ServeTypes, ProcessTypes DEF Next
  <2> QED
    BY <2>1, <2>2
<1> QED
  BY <1>1, <1>2, PTL DEF Spec
----------------------------------------------------------------------------
(* A process that ends well cuts nobody off *)

\* How main's stage, Run's result, the listener and the exit go together.
Shape ==
    /\ stage \in {"booting", "starting", "serving", "draining"} => result = "none"
    /\ stage = "closing" => result # "none"
    /\ (stage = "draining" \/ result = "ok") => listener = "closed"
    /\ stage = "booting" => listener = "down" /\ \A r \in Requests : pc[r] = "new"
    /\ stage # "exited" => exit = "none"
    /\ exit = "zero" => result = "ok"

\* What New had to open is open until Run returns.
Wired ==
    /\ stage \in {"starting", "serving", "draining"} =>
          \A s \in Closeable : Needed(s) => s \in opened
    /\ stage = "booting" =>
          \A i \in 1..10 : (i < step /\ Needed(BootOrder[i]) /\ BootOrder[i] \in Closeable)
                               => BootOrder[i] \in opened

\* Only a process with a Redis client has requests that reserve and settle.
KeyedOverRedis ==
    \A r \in Requests :
        (pc[r] \in {"reserve", "settle"} \/ record[r] = "IN_FLIGHT") => Needed("redis")

\* Requests meet what is closed only after Run returned an error.
CutByError == cutOff # {} => result = "error"

\* What comes before step in CloseOrder has been closed.
Released ==
    /\ stage = "closing" => \A i \in 1..5 : i < step => CloseOrder[i] \notin opened
    /\ RunReleases

IInv == TypeOK /\ Shape /\ Wired /\ KeyedOverRedis /\ CutByError /\ CleanHandover /\ Released

\* What is needed is decided for good at the start.
LEMMA NeededStays == ASSUME env' = env PROVE \A s : Needed(s)' = Needed(s)
  BY DEF Needed, Otlp, config

\* A step of one request preserves the invariant: its process stands still.
LEMMA ServeInv ==
    ASSUME IInv, NEW q \in Requests, Serve(q), stage # "exited"
    PROVE  IInv'
<1>0. UNCHANGED <<env, stage, step, opened, result, listener, signalled, exit>>
  BY ServeKeepsProcess DEF process
<1>1. TypeOK'
  BY ServeTypes DEF IInv
<1>2. \A s : Needed(s)' = Needed(s)
  BY <1>0, NeededStays
<1>3. Released' /\ Wired'
  BY <1>0, <1>2 DEF IInv, Released, RunReleases, Wired
\* What one step can do to the request's own fields.
<1>4. /\ \A r \in Requests \ {q} : pc'[r] = pc[r] /\ record'[r] = record[r]
      /\ pc[q] = "new" => listener = "up"
      /\ ~Busy(q) => pc[q] = "new"
  BY DEF Serve, Connect, Drop, Begin, Reserve, Publish, Authenticate, Panic, PanicLate, Settle, Leave,
         Handled, IInv, TypeOK, Busy
<1>5. Shape'
  <2>1. stage # "booting"
    BY <1>4 DEF Serve, Connect, Drop, Begin, Reserve, Publish, Authenticate, Panic, PanicLate, Settle,
                Leave, IInv, Shape
  <2> QED
    BY <1>0, <2>1 DEF IInv, Shape
<1>6. result # "ok"
  BY <1>4 DEF IInv, Shape, CleanHandover
<1>7. CleanHandover'
  BY <1>0, <1>6 DEF CleanHandover
<1>8. KeyedOverRedis'
  <2>1. (pc'[q] \in {"reserve", "settle"} \/ record'[q] = "IN_FLIGHT") => Needed("redis")
    <3>1. CASE Connect(q) \/ Drop(q) \/ Leave(q) \/ PanicLate(q)
      BY <3>1 DEF Connect, Drop, Leave, PanicLate, IInv, TypeOK, KeyedOverRedis
    <3>2. CASE \E t \in Routes, keyed \in BOOLEAN : Begin(q, t, keyed)
      BY <3>2 DEF Begin, IInv, TypeOK, KeyedOverRedis
    <3>3. CASE \E answered \in BOOLEAN : Reserve(q, answered) \/ Settle(q, answered)
      BY <3>3 DEF Reserve, Settle, Handled, IInv, TypeOK, KeyedOverRedis
    <3>4. CASE \/ \E status \in {202, 400, 500} : Publish(q, status)
               \/ \E status \in {200, 201, 400, 401, 500} : Authenticate(q, status)
               \/ Panic(q)
      BY <3>4 DEF Publish, Authenticate, Panic, Handled, IInv, TypeOK, KeyedOverRedis
    <3> QED
      BY <3>1, <3>2, <3>3, <3>4 DEF Serve
  <2> QED
    BY <1>2, <1>4, <2>1 DEF IInv, KeyedOverRedis
<1>9. CutByError'
  <2>1. CASE result = "error"
    BY <1>0, <2>1 DEF CutByError
  <2>2. CASE result # "error"
    <3>1. \A s \in Closeable : Needed(s) => s \in opened
      <4>1. stage \in {"starting", "serving", "draining"}
        BY <1>4, <1>6, <2>2 DEF IInv, TypeOK, Shape, Busy
      <4> QED
        BY <4>1 DEF IInv, Wired
    <3>2. ASSUME NEW answered \in BOOLEAN, Reserve(q, answered) \/ Settle(q, answered)
          PROVE  cutOff' = cutOff
      <4>1. "redis" \in opened
        BY <3>1, <3>2 DEF Reserve, Settle, IInv, KeyedOverRedis, Closeable
      <4> QED
        BY <3>2, <4>1 DEF Reserve, Settle, Meets
    <3>3. ASSUME NEW status \in {202, 400, 500}, Publish(q, status)
          PROVE  cutOff' = cutOff
      <4>1. config.local => "kafka" \in opened
        BY <3>1, <3>3 DEF Publish, ProvisionWired, Needed, Closeable
      <4> QED
        BY <3>3, <4>1 DEF Publish, Meets
    <3>4. CASE Leave(q)
      <4>1. Logs(q) => "logs" \in opened
        BY <3>1 DEF Logs, Needed, Closeable
      <4> QED
        BY <1>0, <3>4, <4>1 DEF Leave, Meets, IInv, CutByError
    <3> QED
      BY <1>0, <3>2, <3>3, <3>4
         DEF Serve, Connect, Drop, Begin, Authenticate, Panic, PanicLate, IInv, CutByError
  <2> QED
    BY <2>1, <2>2
<1> QED
  BY <1>1, <1>3, <1>5, <1>7, <1>8, <1>9 DEF IInv

\* A step of start-up preserves the invariant: it only opens things.
LEMMA BootInv ==
    ASSUME IInv, Boot \/ BootFails \/ Run \/ Notify \/ Listen \/ ListenerFails
    PROVE  IInv'
<1>0. UNCHANGED <<env, result, requests>>
  BY DEF Boot, BootFails, Run, Notify, Listen, ListenerFails
<1>1. TypeOK'
  BY ProcessTypes DEF IInv, Main
<1>2. \A s : Needed(s)' = Needed(s)
  BY <1>0, NeededStays
<1>3. opened \subseteq opened' /\ result = "none"
  BY DEF Boot, BootFails, Run, Notify, Listen, ListenerFails, IInv, TypeOK, Shape
<1>4. Shape'
  BY <1>0, <1>3 DEF Boot, BootFails, Run, Notify, Listen, ListenerFails, IInv, TypeOK, Shape, requests
<1>5. KeyedOverRedis' /\ CutByError' /\ CleanHandover'
  BY <1>0, <1>2, <1>3 DEF IInv, KeyedOverRedis, CutByError, CleanHandover, Busy, requests
<1>6. Len(BootOrder) = 10 /\ \A s \in Closeable : \E i \in 1..10 : BootOrder[i] = s
  BY DEF BootOrder, Closeable
<1>7. Wired'
  <2>1. CASE Boot
    <3>1. /\ stage = "booting" /\ stage' = "booting" /\ step' = step + 1
          /\ Needed(BootOrder[step]) /\ BootOrder[step] \in Closeable => BootOrder[step] \in opened'
      BY <2>1 DEF Boot
    <3>2. ASSUME NEW i \in 1..10, i < step', Needed(BootOrder[i]), BootOrder[i] \in Closeable
          PROVE  BootOrder[i] \in opened'
      <4>1. CASE i = step
        BY <3>1, <3>2, <4>1
      <4>2. CASE i < step
        BY <1>3, <3>1, <3>2, <4>2 DEF IInv, Wired
      <4> QED
        BY <3>1, <3>2, <4>1, <4>2 DEF IInv, TypeOK
    <3> QED
      BY <1>2, <3>1, <3>2 DEF Wired
  <2>2. CASE Run
    <3>1. stage = "booting" /\ stage' = "starting" /\ opened' = opened /\ \A i \in 1..10 : i < step
      BY <1>6, <2>2 DEF Run, IInv, TypeOK
    <3> QED
      BY <1>2, <1>6, <3>1 DEF IInv, Wired
  <2>3. CASE BootFails \/ Notify \/ Listen \/ ListenerFails
    <3>1. /\ opened' = opened /\ step' = step
          /\ stage' \in {"starting", "serving", "draining"} => stage \in {"starting", "serving", "draining"}
          /\ stage' = "booting" => stage = "booting"
      BY <2>3 DEF BootFails, Notify, Listen, ListenerFails
    <3> QED
      BY <1>2, <3>1 DEF IInv, Wired
  <2> QED
    BY <2>1, <2>2, <2>3
<1>8. Released'
  BY <1>0, <1>3 DEF Boot, BootFails, Run, Notify, Listen, ListenerFails, IInv, Shape, Released, RunReleases
<1> QED
  BY <1>1, <1>4, <1>5, <1>7, <1>8 DEF IInv

\* Run's return, a signal and a kill preserve the invariant: nothing is closed yet.
LEMMA RunInv ==
    ASSUME IInv, ServerError \/ Interrupted \/ DrainCompletes \/ DrainTimesOut \/ Signal \/ Kill,
           stage # "exited"
    PROVE  IInv'
<1>0. UNCHANGED <<env, opened, requests>>
  BY DEF ServerError, Interrupted, DrainCompletes, DrainTimesOut, Signal, Kill
<1>1. TypeOK'
  BY ProcessTypes DEF IInv, Main
<1>2. \A s : Needed(s)' = Needed(s)
  BY <1>0, NeededStays
<1>3. result' = result \/ (result = "none" /\ result' = "error" /\ stage' = "closing" /\ step' = 1)
      \/ (result = "none" /\ result' = "ok" /\ DrainCompletes)
  BY DEF ServerError, Interrupted, DrainCompletes, DrainTimesOut, Signal, Kill, Return, IInv, Shape
<1>4. Shape'
  BY <1>0 DEF ServerError, Interrupted, DrainCompletes, DrainTimesOut, Signal, Kill, Return,
              IInv, TypeOK, Shape, requests
<1>5. KeyedOverRedis' /\ CutByError'
  BY <1>0, <1>2, <1>3 DEF IInv, KeyedOverRedis, CutByError, requests
<1>6. CleanHandover'
  <2>1. CASE DrainCompletes
    BY <1>0, <2>1 DEF DrainCompletes, IInv, Shape, CutByError, CleanHandover, Busy, requests
  <2>2. CASE ~DrainCompletes
    BY <1>0, <1>3, <2>2 DEF IInv, CleanHandover, Busy, requests
  <2> QED
    BY <2>1, <2>2
<1>7. Wired'
  <2>1. (stage' \in {"booting", "starting", "serving", "draining"} =>
           stage \in {"booting", "starting", "serving", "draining"} /\ step' = step
           /\ (stage' = "booting" <=> stage = "booting"))
    BY DEF ServerError, Interrupted, DrainCompletes, DrainTimesOut, Signal, Kill, Return, IInv, TypeOK
  <2> QED
    BY <1>0, <1>2, <2>1 DEF IInv, Wired
<1>8. Released'
  BY <1>0 DEF ServerError, Interrupted, DrainCompletes, DrainTimesOut, Signal, Kill, Return,
              IInv, TypeOK, Shape, Released, RunReleases
<1> QED
  BY <1>1, <1>4, <1>5, <1>6, <1>7, <1>8 DEF IInv

\* Closing preserves the invariant: by then the requests no longer need what is
\* closed, or Run has returned an error.
LEMMA CloseInv ==
    ASSUME IInv, Close \/ Exit
    PROVE  IInv'
<1>0. UNCHANGED <<env, result, listener, signalled, requests>>
  BY DEF Close, Exit
<1>1. TypeOK'
  BY ProcessTypes DEF IInv, Main
<1>2. \A s : Needed(s)' = Needed(s)
  BY <1>0, NeededStays
<1>3. KeyedOverRedis' /\ CutByError' /\ CleanHandover'
  BY <1>0, <1>2 DEF IInv, KeyedOverRedis, CutByError, CleanHandover, Busy, requests
<1>4. stage = "closing" /\ stage' \in {"closing", "exited"}
  BY DEF Close, Exit
<1>5. Wired'
  BY <1>4 DEF Wired
<1>6. CASE Exit
  <2>1. UNCHANGED <<opened, step>> /\ stage = "closing" /\ stage' = "exited" /\ result # "none"
    BY <1>6 DEF Exit, IInv, Shape
  <2>2. opened = {}
    <3>1. \A i \in 1..5 : CloseOrder[i] \notin opened
      BY <1>6 DEF Exit, CloseOrder, IInv, TypeOK, Released
    <3>2. \A x \in Closeable : \E i \in 1..5 : CloseOrder[i] = x
      BY DEF Closeable, CloseOrder
    <3> QED
      BY <3>1, <3>2 DEF IInv, TypeOK
  <2>3. Shape' /\ Released'
    BY <1>0, <1>6, <2>1, <2>2 DEF Exit, IInv, TypeOK, Shape, Released, RunReleases
  <2> QED
    BY <1>1, <1>3, <1>5, <2>3 DEF IInv
<1>7. CASE Close
  <2>1. /\ stage = "closing" /\ stage' = "closing" /\ exit' = exit /\ exit = "none" /\ result # "none"
        /\ step \in 1..5 /\ step' = step + 1
        /\ opened' = opened \ {CloseOrder[step]}
    <3>1. Len(CloseOrder) = 5
      BY DEF CloseOrder
    <3> QED
      BY <1>7, <3>1 DEF Close, IInv, TypeOK, Shape
  <2>2. Shape'
    BY <1>0, <2>1 DEF IInv, Shape
  <2>3. Released'
    BY <2>1 DEF IInv, Released, RunReleases
  <2> QED
    BY <1>1, <1>3, <1>5, <2>2, <2>3 DEF IInv
<1> QED
  BY <1>6, <1>7

LEMMA InvHolds == Spec => []IInv
<1>1. Init => IInv
  <2> SUFFICES ASSUME Init PROVE IInv
    OBVIOUS
  <2>1. signalled \in BOOLEAN
    BY Zenon DEF Init
  <2>2. TypeOK
    BY <2>1 DEF Init, TypeOK
  <2>3. Shape /\ Wired /\ KeyedOverRedis /\ CutByError /\ CleanHandover /\ Released
    BY DEF Init, Shape, Wired, KeyedOverRedis, CutByError, CleanHandover, Released, RunReleases
  <2> QED
    BY <2>2, <2>3 DEF IInv
<1>2. IInv /\ [Next]_vars => IInv'
  <2> SUFFICES ASSUME IInv, [Next]_vars PROVE IInv'
    OBVIOUS
  <2>1. CASE UNCHANGED vars
    <3>1. \A s : Needed(s)' = Needed(s)
      BY <2>1, NeededStays DEF vars
    <3> QED
      BY <2>1, <3>1 DEF vars, process, requests, IInv, TypeOK, Shape, Wired, KeyedOverRedis, CutByError,
                        CleanHandover, Busy, Released, RunReleases
  <2>2. CASE Next
    BY <2>2, ServeInv, BootInv, RunInv, CloseInv DEF Next, Main
  <2> QED
    BY <2>1, <2>2
<1> QED
  BY <1>1, <1>2, PTL DEF Spec

\* Once Run has returned without an error no handler is running, and no request ever meets
\* a client, writer or pipeline that was closed, for any number of requests and whatever
\* Redis, the queue and Cognito answer.
THEOREM HandoverIsClean == Spec => []CleanHandover
<1>1. IInv => CleanHandover
  BY DEF IInv
<1> QED
  BY InvHolds, <1>1, PTL

\* Whichever way main leaves Run, it has closed everything when it exits by itself.
THEOREM RunAlwaysReleases == Spec => []RunReleases
<1>1. IInv => RunReleases
  BY DEF IInv, Released
<1> QED
  BY InvHolds, <1>1, PTL

----------------------------------------------------------------------------
(* The gauge and the samples agree with what was served *)

InChainSet == {r \in Requests : InChain(r)}

\* The gauge follows a request that enters or leaves the chain.
LEMMA GaugeFollows ==
    ASSUME TypeOK, active = Cardinality(InChainSet), NEW q \in Requests,
           \/ InChainSet' = InChainSet /\ active' = active
           \/ q \notin InChainSet /\ InChainSet' = InChainSet \cup {q} /\ active' = active + 1
           \/ q \in InChainSet /\ InChainSet' = InChainSet \ {q} /\ active' = active - 1
    PROVE  active' = Cardinality(InChainSet')
<1>1. IsFiniteSet(InChainSet)
  BY RequestsFinite, FS_Subset DEF InChainSet
<1>2. Cardinality(InChainSet) \in Nat
  BY <1>1, FS_CardinalityType
<1>3. q \notin InChainSet => Cardinality(InChainSet \cup {q}) = Cardinality(InChainSet) + 1
  BY <1>1, FS_AddElement
<1>4. q \in InChainSet => Cardinality(InChainSet \ {q}) = Cardinality(InChainSet) - 1
  BY <1>1, FS_RemoveElement
<1> QED
  BY <1>2, <1>3, <1>4

\* What the recorders hold agrees with what the client got, or with a recovered panic.
RecordedAsServed ==
    \A r \in Requests :
        /\ reply[r] = 0 => r \notin panicked
        /\ pc[r] \in {"settle", "leaving"} => reply[r] # 0
        /\ reply[r] # 0 => recorded[r] = (IF r \in panicked THEN 500 ELSE reply[r])
        /\ pc[r] \in {"connected", "reserve", "publish", "auth"} => reply[r] = 0
        /\ pc[r] = "new" => reply[r] = 0
        /\ pc[r] = "done" /\ route[r] # "metrics" => measured[r] = recorded[r] /\ reply[r] # 0

\* The inductive invariant behind SeenAsServed.
SeenInv == active = Cardinality(InChainSet) /\ RecordedAsServed

\* One step of a request moves at most that request in or out of the chain.
LEMMA ServeCounted ==
    ASSUME TypeOK, active = Cardinality(InChainSet), NEW q \in Requests, Serve(q)
    PROVE  active' = Cardinality(InChainSet')
<1> DEFINE Same == InChainSet' = InChainSet /\ active' = active
<1>1. \A r \in Requests \ {q} : pc'[r] = pc[r] /\ route'[r] = route[r]
  BY DEF Serve, Connect, Drop, Begin, Reserve, Publish, Authenticate, Panic, PanicLate, Settle, Leave,
         Handled, TypeOK
<1>2. \/ InChain(q)' = InChain(q) /\ active' = active
      \/ ~InChain(q) /\ InChain(q)' /\ active' = active + 1
      \/ InChain(q) /\ ~InChain(q)' /\ active' = active - 1
  <2>1. CASE Connect(q) \/ Drop(q) \/ PanicLate(q)
    BY <2>1 DEF Connect, Drop, PanicLate, InChain, TypeOK
  <2>2. CASE \E t \in Routes, keyed \in BOOLEAN : Begin(q, t, keyed)
    BY <2>2 DEF Begin, InChain, TypeOK
  <2>3. CASE \E answered \in BOOLEAN : Reserve(q, answered) \/ Settle(q, answered)
    BY <2>3 DEF Reserve, Settle, Handled, InChain, TypeOK
  <2>4. CASE \/ \E status \in {202, 400, 500} : Publish(q, status)
             \/ \E status \in {200, 201, 400, 401, 500} : Authenticate(q, status)
             \/ Panic(q)
    BY <2>4 DEF Publish, Authenticate, Panic, Handled, InChain, TypeOK
  <2>5. CASE Leave(q)
    BY <2>5 DEF Leave, InChain, TypeOK
  <2> QED
    BY <2>1, <2>2, <2>3, <2>4, <2>5 DEF Serve
<1>3. \A r \in Requests \ {q} : InChain(r)' = InChain(r)
  BY <1>1 DEF InChain
<1>4. \/ Same
      \/ q \notin InChainSet /\ InChainSet' = InChainSet \cup {q} /\ active' = active + 1
      \/ q \in InChainSet /\ InChainSet' = InChainSet \ {q} /\ active' = active - 1
  BY <1>2, <1>3 DEF InChainSet
<1> QED
  BY <1>4, GaugeFollows

\* One step of a request keeps what is recorded of it in line with what it was told.
LEMMA ServeRecorded ==
    ASSUME TypeOK, RecordedAsServed, NEW q \in Requests, Serve(q)
    PROVE  RecordedAsServed'
<1> USE DEF TypeOK, RecordedAsServed
<1>1. CASE Connect(q) \/ Drop(q)
  BY <1>1 DEF Connect, Drop
<1>2. ASSUME NEW t \in Routes, NEW keyed \in BOOLEAN, Begin(q, t, keyed)
      PROVE  RecordedAsServed'
  <2>1. CASE t \in DOMAIN Immediate
    <3>1. Immediate[t] \in {200, 204, 404}
      BY <2>1, ImmediateStatuses
    <3> QED
      BY <1>2, <2>1, <3>1 DEF Begin, WriteHeader
  <2>2. CASE t \notin DOMAIN Immediate
    BY <1>2, <2>2 DEF Begin
  <2> QED
    BY <2>1, <2>2
<1>3. ASSUME NEW answered \in BOOLEAN, Reserve(q, answered)
      PROVE  RecordedAsServed'
  BY <1>3 DEF Reserve, Handled, WriteHeader
<1>4. ASSUME NEW status \in {202, 400, 500}, Publish(q, status)
      PROVE  RecordedAsServed'
  BY <1>4 DEF Publish, Handled, WriteHeader
<1>5. ASSUME NEW status \in {200, 201, 400, 401, 500}, Authenticate(q, status)
      PROVE  RecordedAsServed'
  BY <1>5 DEF Authenticate, Handled, WriteHeader
<1>6. CASE Panic(q)
  BY <1>6 DEF Panic, Handled, WriteHeader
<1>7. CASE PanicLate(q)
  BY <1>7 DEF PanicLate, WriteHeader
<1>8. ASSUME NEW answered \in BOOLEAN, Settle(q, answered)
      PROVE  RecordedAsServed'
  BY <1>8 DEF Settle
<1>9. CASE Leave(q)
  BY <1>9 DEF Leave
<1> HIDE DEF TypeOK, RecordedAsServed
<1> QED
  BY <1>1, <1>2, <1>3, <1>4, <1>5, <1>6, <1>7, <1>8, <1>9 DEF Serve

\* The gauge is the number of requests in the chain, and every request but a scrape is
\* measured with what its client got or with the 500 of its recovered panic, for any
\* number of requests and in whatever order they enter, panic and leave.
THEOREM MeasuredAsServed == Spec => []SeenAsServed
<1>1. Init => SeenInv
  <2> SUFFICES ASSUME Init PROVE SeenInv
    OBVIOUS
  <2>1. InChainSet = {}
    BY DEF Init, InChain, InChainSet
  <2> QED
    BY <2>1, FS_EmptySet DEF Init, SeenInv, RecordedAsServed
<1>2. TypeOK /\ SeenInv /\ [Next]_vars => SeenInv'
  <2> SUFFICES ASSUME TypeOK, SeenInv, [Next]_vars PROVE SeenInv'
    OBVIOUS
  <2>1. CASE UNCHANGED requests
    BY <2>1 DEF SeenInv, RecordedAsServed, InChainSet, InChain, requests
  <2>2. ASSUME NEW r \in Requests, Serve(r)
        PROVE  SeenInv'
    BY <2>2, ServeCounted, ServeRecorded DEF SeenInv
  <2>3. CASE Main \/ Listen \/ ListenerFails \/ Signal \/ Kill
    <3>1. UNCHANGED requests
      BY <2>3 DEF Main, Boot, BootFails, Run, Notify, ServerError, Interrupted, DrainCompletes,
                  DrainTimesOut, Close, Exit, Listen, ListenerFails, Signal, Kill
    <3> QED
      BY <2>1, <3>1
  <2> QED
    BY <2>1, <2>2, <2>3 DEF Next, vars
<1>3. SeenInv => SeenAsServed
  BY DEF SeenInv, RecordedAsServed, SeenAsServed, InChainSet
<1> QED
  BY <1>1, <1>2, <1>3, TypeCorrect, PTL DEF Spec

=============================================================================
