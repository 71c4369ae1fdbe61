----------------------- MODULE ScaffoldWorkflowProofs -----------------------
(***************************************************************************)
(* What a scaffold guarantees for any number of requests, workers, names   *)
(* and lapsed reservations.  The task CreateRepository is proved about in  *)
(* CreateRepositoryProofs; every step of the workflow is a step of it.     *)
(***************************************************************************)
EXTENDS ScaffoldWorkflow, CreateRepositoryProofs

----------------------------------------------------------------------------
(* The workflow implements the task. *)

LEMMA StepIsTaskStep ==
    ASSUME [WorkflowNext]_workflowVars
    PROVE  [Next]_vars
<1>1. ASSUME NEW q \in RequestIds, NEW w \in Workers, BeginCreate(w, q)
      PROVE  Next
  BY <1>1 DEF BeginCreate, Next
<1>2. ASSUME NEW w \in Workers, ExecuteCreate(w)
      PROVE  Next
  BY <1>2 DEF ExecuteCreate, Next
<1>3. ASSUME NEW w \in Workers, EndUnreported(w) \/ \E deletes \in BOOLEAN : ReportCreate(w, deletes)
      PROVE  Next
  <2>1. End(w)
    BY <1>3 DEF EndUnreported, ReportCreate
  <2> QED
    BY <2>1 DEF Next
<1>4. ASSUME NEW n \in Names, OutsiderCreates(n)
      PROVE  Next
  BY <1>4 DEF OutsiderCreates, Next
<1>5. ASSUME NEW q \in RequestIds,
             StartScaffold(q) \/ GiveUp(q) \/ Reserve(q) \/ ReserveRefused(q) \/ ReserveFaults(q)
      PROVE  UNCHANGED vars
  BY <1>5 DEF StartScaffold, GiveUp, Reserve, ReserveRefused, ReserveFaults
<1>6. ASSUME NEW o \in outcomes, ReportReserveLost(o) \/ \E deletes \in BOOLEAN : ReportReserve(o, deletes)
      PROVE  UNCHANGED vars
  BY <1>6 DEF ReportReserveLost, ReportReserve
<1>7. ASSUME NEW n \in Names, Lapse(n)
      PROVE  UNCHANGED vars
  BY <1>7 DEF Lapse
<1> QED
  BY <1>1, <1>2, <1>3, <1>4, <1>5, <1>6, <1>7 DEF WorkflowNext, workflowVars

\* Whatever the queue, the state machine and the reservations do, the task
\* CreateRepository behaves as its module says.
THEOREM WorkflowImplementsTask == WorkflowSpec => Spec
<1>1. WorkflowInit => Init
  BY DEF WorkflowInit
<1> QED
  BY <1>1, StepIsTaskStep, PTL DEF WorkflowSpec, Spec

\* What is proved of the task holds in the workflow.
LEMMA TaskInvHolds == WorkflowSpec => []SlotInv
  BY WorkflowImplementsTask, SlotInvHolds, PTL

----------------------------------------------------------------------------
(* Types *)

\* Reports keep the types of the machine and of the messages.
LEMMA ReportTypes ==
    ASSUME machine \in [RequestIds -> MachineStates], messages \subseteq Messages,
           NEW q \in RequestIds, NEW task \in Tasks, NEW succeeds \in BOOLEAN, NEW deletes \in BOOLEAN
    PROVE  /\ Answered(q, task, succeeds) \in [RequestIds -> MachineStates]
           /\ Acknowledged(q, task, succeeds, deletes) \subseteq Messages
<1>1. Message(q, "CreateRepository") \in Messages
  BY DEF Message, Messages, Tasks
<1> QED
  BY <1>1 DEF Answered, Acknowledged, MachineStates, Tasks

OwnTypes ==
    /\ reservations \in [Names -> RequestIds \cup {None}]
    /\ outcomes \subseteq Outcomes
    /\ machine \in [RequestIds -> MachineStates]
    /\ messages \subseteq Messages
    /\ lapses \in 0..MaxLapses
    /\ lapsed \subseteq Names

LEMMA OwnTypesStep ==
    ASSUME OwnTypes, TypeOK, [WorkflowNext]_workflowVars
    PROVE  OwnTypes'
<1>1. ASSUME NEW q \in RequestIds, StartScaffold(q)
      PROVE  OwnTypes'
  BY <1>1 DEF StartScaffold, OwnTypes, Message, Messages, MachineStates, Tasks
<1>2. ASSUME NEW q \in RequestIds, GiveUp(q)
      PROVE  OwnTypes'
  BY <1>2 DEF GiveUp, OwnTypes, MachineStates
<1>3. ASSUME NEW q \in RequestIds, Reserve(q) \/ ReserveFaults(q) \/ ReserveRefused(q)
      PROVE  OwnTypes'
  <2>1. Reserved(q) \in [Names -> RequestIds \cup {None}]
    BY DEF Reserved, OwnTypes
  <2>2. \A b \in BOOLEAN : [req |-> q, reserved |-> b] \in Outcomes
    BY DEF Outcomes
  <2>3. reservations' \in [Names -> RequestIds \cup {None}] /\ outcomes' \subseteq Outcomes
    BY <1>3, <2>1, <2>2 DEF Reserve, ReserveFaults, ReserveRefused, OwnTypes
  <2> QED
    BY <1>3, <2>3 DEF Reserve, ReserveFaults, ReserveRefused, OwnTypes
<1>4. ASSUME NEW o \in outcomes, NEW deletes \in BOOLEAN, ReportReserve(o, deletes)
      PROVE  OwnTypes'
  <2>1. o.req \in RequestIds /\ o.reserved \in BOOLEAN /\ "ReserveName" \in Tasks
    BY DEF OwnTypes, Outcomes, Tasks
  <2>2. /\ Answered(o.req, "ReserveName", o.reserved) \in [RequestIds -> MachineStates]
        /\ Acknowledged(o.req, "ReserveName", o.reserved, deletes) \subseteq Messages
    BY <2>1, ReportTypes DEF OwnTypes
  <2> QED
    BY <1>4, <2>2 DEF ReportReserve, OwnTypes
<1>5. ASSUME NEW o \in outcomes, ReportReserveLost(o)
      PROVE  OwnTypes'
  BY <1>5 DEF ReportReserveLost, OwnTypes
<1>6. ASSUME NEW w \in Workers, NEW deletes \in BOOLEAN, ReportCreate(w, deletes)
      PROVE  OwnTypes'
  <2>1. run[w].req \in RequestIds /\ (run[w].stage = "returned") \in BOOLEAN /\ "CreateRepository" \in Tasks
    BY <1>6 DEF ReportCreate, TypeOK, Tasks
  <2>2. /\ Answered(run[w].req, "CreateRepository", run[w].stage = "returned") \in [RequestIds -> MachineStates]
        /\ Acknowledged(run[w].req, "CreateRepository", run[w].stage = "returned", deletes) \subseteq Messages
    BY <2>1, ReportTypes DEF OwnTypes
  <2> QED
    BY <1>6, <2>2 DEF ReportCreate, OwnTypes
<1>7. ASSUME NEW w \in Workers, NEW q \in RequestIds, BeginCreate(w, q)
      PROVE  OwnTypes'
  BY <1>7 DEF BeginCreate, OwnTypes
<1>8. ASSUME NEW w \in Workers, ExecuteCreate(w) \/ EndUnreported(w)
      PROVE  OwnTypes'
  BY <1>8 DEF ExecuteCreate, EndUnreported, OwnTypes
<1>9. ASSUME NEW n \in Names, Lapse(n) \/ OutsiderCreates(n)
      PROVE  OwnTypes'
  BY <1>9, LapsesBounded DEF Lapse, OutsiderCreates, OwnTypes
<1>10. CASE UNCHANGED workflowVars
  BY <1>10 DEF workflowVars, OwnTypes
<1> QED
  BY <1>1, <1>2, <1>3, <1>4, <1>5, <1>6, <1>7, <1>8, <1>9, <1>10 DEF WorkflowNext

\* The types of the tables, the machine and the queue, besides those of the task.
THEOREM WorkflowTypeCorrect == WorkflowSpec => []WorkflowTypeOK
<1>1. WorkflowInit => OwnTypes
  BY LapsesBounded DEF WorkflowInit, OwnTypes, MachineStates
<1>2. SlotInv /\ OwnTypes /\ [WorkflowNext]_workflowVars => OwnTypes'
  BY OwnTypesStep DEF SlotInv
<1>3. SlotInv /\ OwnTypes => WorkflowTypeOK
  BY DEF SlotInv, OwnTypes, WorkflowTypeOK
<1> QED
  BY <1>1, <1>2, <1>3, TaskInvHolds, PTL DEF WorkflowSpec

----------------------------------------------------------------------------
(* The reservation guards the name. *)

\* An execution keeps the request it began with until it ends.
LEMMA ExecuteKeepsRequest ==
    ASSUME TypeOK, NEW w \in Workers, Execute(w)
    PROVE  \A v \in Workers : run'[v].req = run[v].req
  BY DEF TypeOK, Run, Execute, Claim, ClaimRefused, CreateSucceeds, CreateRefused, FindAdopts, FindMisses,
         Save, Fault, FaultAfterClaim, FaultAfterCreate, FaultAfterSave, Goto

\* Only ReserveName lets a request past it, and then it holds the name.
LEMMA PastReserveStep ==
    ASSUME WorkflowTypeOK, [WorkflowNext]_workflowVars, NEW q \in RequestIds, PastReserve(q)', ~PastReserve(q)
    PROVE  Wants[q] \in Names /\ reservations'[Wants[q]] = q
<1>1. ASSUME NEW p \in RequestIds, StartScaffold(p) \/ GiveUp(p) \/ ReserveRefused(p) \/ ReserveFaults(p)
      PROVE  FALSE
  BY <1>1 DEF StartScaffold, GiveUp, ReserveRefused, ReserveFaults, PastReserve, Message, vars,
              WorkflowTypeOK, MachineStates, Tasks
<1>2. ASSUME NEW p \in RequestIds, Reserve(p)
      PROVE  p = q
  BY <1>2 DEF Reserve, PastReserve, vars
<1>3. ASSUME NEW o \in outcomes, NEW deletes \in BOOLEAN, ReportReserve(o, deletes)
      PROVE  FALSE
  <2>1. o = [req |-> o.req, reserved |-> o.reserved] /\ o.req \in RequestIds /\ o.reserved \in BOOLEAN
    BY DEF WorkflowTypeOK, Outcomes
  <2>2. CASE o.req = q /\ o.reserved
    BY <2>1, <2>2 DEF PastReserve
  <2>3. CASE o.req # q \/ ~o.reserved
    BY <1>3, <2>1, <2>3 DEF ReportReserve, Answered, Acknowledged, PastReserve, Message, vars,
                       WorkflowTypeOK, MachineStates, Tasks
  <2> QED
    BY <2>2, <2>3
<1>4. ASSUME NEW o \in outcomes, ReportReserveLost(o)
      PROVE  FALSE
  BY <1>4 DEF ReportReserveLost, PastReserve, vars
<1>5. ASSUME NEW w \in Workers, NEW p \in RequestIds, BeginCreate(w, p)
      PROVE  FALSE
  BY <1>5 DEF BeginCreate, Begin, Idle, PastReserve, WorkflowTypeOK, TypeOK
<1>6. ASSUME NEW w \in Workers, ExecuteCreate(w)
      PROVE  FALSE
  <2>1. \A v \in Workers : run'[v].req = run[v].req
    BY <1>6, ExecuteKeepsRequest DEF ExecuteCreate, WorkflowTypeOK
  <2> QED
    BY <1>6, <2>1 DEF ExecuteCreate, PastReserve
<1>7. ASSUME NEW w \in Workers, EndUnreported(w) \/ \E deletes \in BOOLEAN : ReportCreate(w, deletes)
      PROVE  FALSE
  <2>1. \A v \in Workers : run'[v].req = q => run[v].req = q
    BY <1>7, OutsidersDistinct DEF EndUnreported, ReportCreate, End, Idle, WorkflowTypeOK, TypeOK
  <2>2. machine'[q] \in {"CreateRepository", "done"} => machine[q] \in {"CreateRepository", "done"}
    BY <1>7 DEF EndUnreported, ReportCreate, Answered, WorkflowTypeOK
  <2>3. messages' \subseteq messages
    BY <1>7 DEF EndUnreported, ReportCreate, Acknowledged
  <2>4. outcomes' = outcomes
    BY <1>7 DEF EndUnreported, ReportCreate
  <2> QED
    BY <2>1, <2>2, <2>3, <2>4 DEF PastReserve, Message
<1>8. ASSUME NEW n \in Names, Lapse(n) \/ OutsiderCreates(n)
      PROVE  FALSE
  BY <1>8 DEF Lapse, OutsiderCreates, ForeignCreates, PastReserve, vars
<1>9. CASE UNCHANGED workflowVars
  BY <1>9 DEF workflowVars, vars, PastReserve
<1>10. ASSUME Reserve(q)
       PROVE  Wants[q] \in Names /\ reservations'[Wants[q]] = q
  BY <1>10 DEF Reserve, MayReserve, Reserved, WorkflowTypeOK
<1> QED
  BY <1>1, <1>2, <1>3, <1>4, <1>5, <1>6, <1>7, <1>8, <1>9, <1>10 DEF WorkflowNext

\* A reservation changes hands only after it lapsed.
LEMMA ReservationStays ==
    ASSUME WorkflowTypeOK, [WorkflowNext]_workflowVars, NEW n \in Names, reservations[n] # None, n \notin lapsed'
    PROVE  reservations'[n] = reservations[n]
<1>1. ASSUME NEW q \in RequestIds, Reserve(q) \/ ReserveFaults(q)
      PROVE  reservations'[n] = reservations[n]
  BY <1>1 DEF Reserve, ReserveFaults, MayReserve, Reserved, WorkflowTypeOK
<1>2. ASSUME NEW k \in Names, Lapse(k)
      PROVE  reservations'[n] = reservations[n]
  BY <1>2 DEF Lapse, WorkflowTypeOK
<1> QED
  BY <1>1, <1>2 DEF WorkflowNext, workflowVars, StartScaffold, GiveUp, ReserveRefused, ReportReserve,
     ReportReserveLost, BeginCreate, ExecuteCreate, ReportCreate, EndUnreported, OutsiderCreates

LEMMA LapsedGrows ==
    ASSUME [WorkflowNext]_workflowVars
    PROVE  lapsed \subseteq lapsed'
  BY DEF WorkflowNext, workflowVars, StartScaffold, GiveUp, Reserve, ReserveRefused, ReserveFaults, ReportReserve,
     ReportReserveLost, BeginCreate, ExecuteCreate, ReportCreate, EndUnreported, Lapse, OutsiderCreates

\* While no reservation of its name has lapsed, only the holder gets past ReserveName.
THEOREM OnlyTheHolderPasses == WorkflowSpec => []ReservationGuards
<1>1. WorkflowInit => ReservationGuards
  BY OutsidersDistinct DEF WorkflowInit, Init, Idle, ReservationGuards, PastReserve
<1>2. WorkflowTypeOK /\ ReservationGuards /\ [WorkflowNext]_workflowVars => ReservationGuards'
  <2> SUFFICES ASSUME WorkflowTypeOK, ReservationGuards, [WorkflowNext]_workflowVars,
                      NEW q \in RequestIds, PastReserve(q)', Wants[q] \notin lapsed'
               PROVE  Wants[q] \in Names /\ reservations'[Wants[q]] = q
    BY DEF ReservationGuards
  <2>1. CASE ~PastReserve(q)
    BY <2>1, PastReserveStep
  <2>2. CASE PastReserve(q)
    <3>1. Wants[q] \in Names /\ reservations[Wants[q]] = q
      BY <2>2, LapsedGrows DEF ReservationGuards
    <3> QED
      BY <3>1, ReservationStays, OutsidersDistinct
  <2> QED
    BY <2>1, <2>2
<1> QED
  BY <1>1, <1>2, WorkflowTypeCorrect, PTL DEF WorkflowSpec

\* Unless a reservation lapsed, the inventory never names another request than the
\* one that holds the reservation.
THEOREM TablesStayInAgreement == WorkflowSpec => []TablesAgree
<1>1. WorkflowInit => TablesAgree
  BY DEF WorkflowInit, Init, NoRecord, TablesAgree
<1>2. /\ WorkflowTypeOK /\ ReservationGuards /\ ReservationGuards' /\ TablesAgree
      /\ [WorkflowNext]_workflowVars
      => TablesAgree'
  <2> SUFFICES ASSUME WorkflowTypeOK, ReservationGuards, ReservationGuards', TablesAgree,
                      [WorkflowNext]_workflowVars,
                      NEW n \in Names, n \notin lapsed', records'[n].owner # None
               PROVE  records'[n].owner = reservations'[n]
    BY DEF TablesAgree
  <2>1. CASE records'[n].owner = records[n].owner
    BY <2>1, LapsedGrows, ReservationStays DEF TablesAgree
  <2>2. CASE records'[n].owner # records[n].owner
    <3>1. PICK w \in Workers : ExecuteCreate(w) /\ run[w].stage = "claim" /\ n = NameOf(w)
                                 /\ records'[n].owner = run[w].req
      <4>1. PICK w \in Workers : ExecuteCreate(w)
        BY <2>2 DEF WorkflowNext, workflowVars, vars, StartScaffold, GiveUp, Reserve, ReserveRefused, ReserveFaults,
           ReportReserve, ReportReserveLost, BeginCreate, Begin, ReportCreate, EndUnreported, End, Lapse,
           OutsiderCreates, ForeignCreates
      <4>2. CASE FaultAfterClaim(w) \/ \E repeated \in BOOLEAN : Claim(w, repeated)
        BY <2>2, <4>1, <4>2 DEF FaultAfterClaim, Claim, ClaimOf, WorkflowTypeOK, TypeOK
      <4>3. CASE Save(w) \/ FaultAfterSave(w)
        BY <2>2, <4>3 DEF Save, FaultAfterSave, MarkCreated, WorkflowTypeOK, TypeOK
      <4> QED
        BY <2>2, <4>1, <4>2, <4>3 DEF ExecuteCreate, Execute, ClaimRefused, CreateSucceeds, CreateRefused,
           FindAdopts, FindMisses, Fault, FaultAfterCreate
    <3>2. run[w].req \in RequestIds /\ Wants[run[w].req] = n
      BY <3>1 DEF NameOf, WorkflowTypeOK, TypeOK
    <3>3. reservations[n] = run[w].req
      BY <3>2, LapsedGrows DEF ReservationGuards, PastReserve
    <3> QED
      BY <3>1, <3>2, <3>3, ReservationStays, OutsidersDistinct
  <2> QED
    BY <2>1, <2>2
<1> QED
  BY <1>1, <1>2, WorkflowTypeCorrect, OnlyTheHolderPasses, PTL DEF WorkflowSpec

----------------------------------------------------------------------------
(* What the state machine is told is true. *)

\* An execution that returned a result is among those that succeeded.
ReturnedInv == \A w \in Workers : run[w].stage = "returned" => run[w].req \in succeeded

DoneInv == \A q \in RequestIds : machine[q] = "done" => q \in succeeded

LEMMA ReturnedStep ==
    ASSUME TypeOK, ReturnedInv, [Next]_vars
    PROVE  ReturnedInv' /\ succeeded \subseteq succeeded'
<1>1. ASSUME NEW w \in Workers, Execute(w)
      PROVE  ReturnedInv' /\ succeeded \subseteq succeeded'
  <2>1. \A v \in Workers \ {w} : run'[v] = run[v]
    BY <1>1 DEF TypeOK, Execute, Claim, ClaimRefused, CreateSucceeds, CreateRefused, FindAdopts, FindMisses,
                Save, Fault, FaultAfterClaim, FaultAfterCreate, FaultAfterSave, Goto
  <2>2. CASE Save(w)
    BY <2>1, <2>2 DEF TypeOK, ReturnedInv, Save, Goto, Run
  <2>3. CASE ~Save(w)
    <3>1. succeeded' = succeeded
      BY <1>1, <2>3 DEF Execute, Claim, ClaimRefused, CreateSucceeds, CreateRefused, FindAdopts, FindMisses,
                        Fault, FaultAfterClaim, FaultAfterCreate, FaultAfterSave
    <3>2. run'[w].stage # "returned"
      BY <1>1, <2>3 DEF TypeOK, Run, Execute, Claim, ClaimRefused, CreateSucceeds, CreateRefused, FindAdopts,
                        FindMisses, Fault, FaultAfterClaim, FaultAfterCreate, FaultAfterSave, Goto
    <3> QED
      BY <2>1, <3>1, <3>2 DEF ReturnedInv
  <2> QED
    BY <2>2, <2>3
<1>2. ASSUME NEW w \in Workers, End(w) \/ \E q \in RequestIds : Begin(w, q)
      PROVE  ReturnedInv' /\ succeeded \subseteq succeeded'
  <2>1. succeeded' = succeeded /\ \A v \in Workers \ {w} : run'[v] = run[v]
    BY <1>2 DEF TypeOK, End, Begin
  <2>2. CASE End(w)
    BY <2>1, <2>2 DEF TypeOK, ReturnedInv, End, Idle
  <2>3. ASSUME NEW q \in RequestIds, Begin(w, q)
        PROVE  run'[w].stage \in {"claim", "threw"}
    BY <2>3 DEF TypeOK, Begin, Idle
  <2> QED
    BY <1>2, <2>1, <2>2, <2>3 DEF ReturnedInv
<1> QED
  BY <1>1, <1>2 DEF Next, vars, ForeignCreates, ReturnedInv

LEMMA DoneStep ==
    ASSUME WorkflowTypeOK, ReturnedInv, DoneInv, [WorkflowNext]_workflowVars
    PROVE  DoneInv'
<1> SUFFICES ASSUME NEW q \in RequestIds, machine'[q] = "done"
             PROVE  q \in succeeded'
  BY DEF DoneInv
<1>1. succeeded \subseteq succeeded'
  BY StepIsTaskStep, ReturnedStep DEF WorkflowTypeOK
<1>2. CASE machine[q] = "done"
  BY <1>1, <1>2 DEF DoneInv
<1>3. CASE machine[q] # "done"
  <2>1. ASSUME NEW p \in RequestIds, StartScaffold(p) \/ GiveUp(p)
        PROVE  FALSE
    BY <1>3, <2>1 DEF StartScaffold, GiveUp, WorkflowTypeOK
  <2>2. ASSUME NEW o \in outcomes, NEW deletes \in BOOLEAN, ReportReserve(o, deletes)
        PROVE  FALSE
    BY <1>3, <2>2 DEF ReportReserve, Answered, WorkflowTypeOK
  <2>3. PICK w \in Workers : \E deletes \in BOOLEAN : ReportCreate(w, deletes)
    BY <1>3, <2>1, <2>2 DEF WorkflowNext, workflowVars, Reserve, ReserveRefused, ReserveFaults, ReportReserveLost,
       BeginCreate, ExecuteCreate, EndUnreported, Lapse, OutsiderCreates
  <2>4. run[w].stage = "returned" /\ run[w].req = q
    BY <1>3, <2>3 DEF ReportCreate, Answered, WorkflowTypeOK
  <2> QED
    BY <1>1, <2>4 DEF ReturnedInv
<1> QED
  BY <1>2, <1>3

\* A scaffold the state machine carried through is the one the inventory names.
THEOREM DoneIsTrue == WorkflowSpec => []DoneOwnsName
<1>1. WorkflowInit => ReturnedInv /\ DoneInv
  BY DEF WorkflowInit, Init, Idle, ReturnedInv, DoneInv
<1>2. /\ WorkflowTypeOK /\ ReturnedInv /\ DoneInv /\ [WorkflowNext]_workflowVars
      => ReturnedInv' /\ DoneInv'
  BY StepIsTaskStep, ReturnedStep, DoneStep DEF WorkflowTypeOK
<1>3. SlotInv /\ DoneInv => DoneOwnsName
  BY DEF SlotInv, SucceededInv, DoneInv, DoneOwnsName
<1> QED
  BY <1>1, <1>2, <1>3, WorkflowTypeCorrect, TaskInvHolds, PTL DEF WorkflowSpec

----------------------------------------------------------------------------
(***************************************************************************)
(* The workflow implements Scaffolding.  Two more facts are needed: no     *)
(* message or execution of the second task is about a request that has not *)
(* passed the first, and a request that succeeded has its repository.      *)
(***************************************************************************)

OrderInv ==
    \A q \in RequestIds :
        Message(q, "CreateRepository") \in messages \/ (\E w \in Workers : run[w].req = q)
            => machine[q] \notin {"new", "ReserveName"}

SucceededHosted == \A q \in succeeded : Wants[q] \in Names /\ host[Wants[q]] # None

\* A machine that has left its first task does not come back to it.
LEMMA MachineAdvances ==
    ASSUME WorkflowTypeOK, [WorkflowNext]_workflowVars, NEW q \in RequestIds,
           machine[q] \notin {"new", "ReserveName"}
    PROVE  machine'[q] \notin {"new", "ReserveName"}
<1>1. ASSUME NEW p \in RequestIds, StartScaffold(p) \/ GiveUp(p)
      PROVE  machine'[q] \notin {"new", "ReserveName"}
  BY <1>1 DEF StartScaffold, GiveUp, WorkflowTypeOK
<1>2. ASSUME NEW o \in outcomes, NEW deletes \in BOOLEAN, ReportReserve(o, deletes)
      PROVE  machine'[q] \notin {"new", "ReserveName"}
  BY <1>2 DEF ReportReserve, Answered, WorkflowTypeOK
<1>3. ASSUME NEW w \in Workers, NEW deletes \in BOOLEAN, ReportCreate(w, deletes)
      PROVE  machine'[q] \notin {"new", "ReserveName"}
  BY <1>3 DEF ReportCreate, Answered, WorkflowTypeOK
<1> QED
  BY <1>1, <1>2, <1>3 DEF WorkflowNext, workflowVars, Reserve, ReserveRefused, ReserveFaults,
     ReportReserveLost, BeginCreate, ExecuteCreate, EndUnreported, Lapse, OutsiderCreates

\* A message of the second task appears when the first is reported to a machine that
\* waits for it.
LEMMA CreateMessages ==
    ASSUME WorkflowTypeOK, [WorkflowNext]_workflowVars, NEW q \in RequestIds,
           Message(q, "CreateRepository") \in messages', Message(q, "CreateRepository") \notin messages
    PROVE  machine'[q] = "CreateRepository"
<1>1. ASSUME NEW p \in RequestIds, StartScaffold(p)
      PROVE  FALSE
  BY <1>1 DEF StartScaffold, Message
<1>2. ASSUME NEW o \in outcomes, NEW deletes \in BOOLEAN, ReportReserve(o, deletes)
      PROVE  machine'[q] = "CreateRepository"
  <2>1. o.req = q /\ machine[q] = "ReserveName" /\ o.reserved
    BY <1>2 DEF ReportReserve, Acknowledged, Message
  <2> QED
    BY <1>2, <2>1 DEF ReportReserve, Answered, WorkflowTypeOK
<1>3. ASSUME NEW w \in Workers, NEW deletes \in BOOLEAN, ReportCreate(w, deletes)
      PROVE  FALSE
  BY <1>3 DEF ReportCreate, Acknowledged
<1> QED
  BY <1>1, <1>2, <1>3 DEF WorkflowNext, workflowVars, GiveUp, Reserve, ReserveRefused, ReserveFaults,
     ReportReserveLost, BeginCreate, ExecuteCreate, EndUnreported, Lapse, OutsiderCreates

\* An execution begins with a message of its task.
LEMMA CreateExecutions ==
    ASSUME WorkflowTypeOK, [WorkflowNext]_workflowVars, NEW q \in RequestIds, NEW v \in Workers,
           run'[v].req = q, run[v].req # q
    PROVE  Message(q, "CreateRepository") \in messages
<1> USE DEF WorkflowTypeOK
<1>1. ASSUME NEW w \in Workers, NEW p \in RequestIds, BeginCreate(w, p)
      PROVE  Message(q, "CreateRepository") \in messages
  <2>1. p = q
    BY <1>1 DEF BeginCreate, Begin, Idle, TypeOK
  <2> QED
    BY <1>1, <2>1 DEF BeginCreate
<1>2. ASSUME NEW w \in Workers, ExecuteCreate(w)
      PROVE  FALSE
  BY <1>2, ExecuteKeepsRequest DEF ExecuteCreate
<1>3. ASSUME NEW w \in Workers, EndUnreported(w) \/ \E deletes \in BOOLEAN : ReportCreate(w, deletes)
      PROVE  FALSE
  <2>1. End(w)
    BY <1>3 DEF EndUnreported, ReportCreate
  <2> QED
    BY <2>1, OutsidersDistinct DEF End, Idle, TypeOK
<1> QED
  BY <1>1, <1>2, <1>3 DEF WorkflowNext, workflowVars, vars, StartScaffold, GiveUp, Reserve, ReserveRefused,
     ReserveFaults, ReportReserve, ReportReserveLost, Lapse, OutsiderCreates, ForeignCreates

LEMMA OrderStep ==
    ASSUME WorkflowTypeOK, OrderInv, [WorkflowNext]_workflowVars
    PROVE  OrderInv'
<1> SUFFICES ASSUME NEW q \in RequestIds,
                    \/ Message(q, "CreateRepository") \in messages'
                    \/ \E w \in Workers : run'[w].req = q
             PROVE  machine'[q] \notin {"new", "ReserveName"}
  BY DEF OrderInv, Message
<1>1. CASE Message(q, "CreateRepository") \in messages \/ \E w \in Workers : run[w].req = q
  BY <1>1, MachineAdvances DEF OrderInv
<1>2. CASE ~(Message(q, "CreateRepository") \in messages \/ \E w \in Workers : run[w].req = q)
  BY <1>2, CreateMessages, CreateExecutions
<1> QED
  BY <1>1, <1>2

\* A request succeeds with its repository on the host, where it stays.
LEMMA SucceededHostedStep ==
    ASSUME SlotInv, SucceededHosted, [Next]_vars
    PROVE  SucceededHosted'
<1> USE DEF SlotInv
<1> SUFFICES ASSUME NEW q \in succeeded'
             PROVE  Wants[q] \in Names /\ host'[Wants[q]] # None
  BY DEF SucceededHosted
<1>1. CASE q \in succeeded
  BY <1>1, HostStays DEF SucceededHosted
<1>2. CASE q \notin succeeded
  <2>1. PICK w \in Workers : Save(w) /\ q = run[w].req
    BY <1>2 DEF Next, vars, Begin, End, ForeignCreates, Execute, Claim, ClaimRefused, CreateSucceeds,
                CreateRefused, FindAdopts, FindMisses, Save, Fault, FaultAfterClaim, FaultAfterCreate,
                FaultAfterSave
  <2>2. Wants[q] \in Names /\ host[Wants[q]] # None
    BY <2>1 DEF Save, ExecutionsInv, NameOf, TypeOK
  <2> QED
    BY <2>2, HostStays
<1> QED
  BY <1>1, <1>2

\* What a step of the workflow may rely on.
ScaffoldInv ==
    /\ WorkflowTypeOK /\ SlotInv /\ ReservationGuards
    /\ ReturnedInv /\ OrderInv /\ SucceededHosted

\* Nothing of the second task happens before the first has passed, and success means
\* that the repository is there.
THEOREM TasksInOrder == WorkflowSpec => []ScaffoldInv
<1>1. WorkflowInit => ReturnedInv /\ OrderInv /\ SucceededHosted
  BY OutsidersDistinct DEF WorkflowInit, Init, Idle, ReturnedInv, OrderInv, SucceededHosted
<1>2. /\ WorkflowTypeOK /\ SlotInv /\ ReturnedInv /\ OrderInv /\ SucceededHosted
      /\ [WorkflowNext]_workflowVars
      => ReturnedInv' /\ OrderInv' /\ SucceededHosted'
  BY StepIsTaskStep, ReturnedStep, OrderStep, SucceededHostedStep DEF WorkflowTypeOK
<1>3. /\ WorkflowTypeOK /\ SlotInv /\ ReservationGuards /\ ReturnedInv /\ OrderInv /\ SucceededHosted
      => ScaffoldInv
  BY DEF ScaffoldInv
<1> QED
  BY <1>1, <1>2, <1>3, WorkflowTypeCorrect, TaskInvHolds, OnlyTheHolderPasses, PTL DEF WorkflowSpec

ScaffoldVars == <<machine, Owners, host, lapsed>>

ScaffoldStep == [Scaffold!Next]_ScaffoldVars

LEMMA InitScaffolds ==
    ASSUME WorkflowInit
    PROVE  Scaffold!Init
  BY DEF WorkflowInit, Init, NoRecord, Owners, Scaffold!Init

\* A report of ReserveName lets a request pass, ends it, or comes too late.
LEMMA ReportReserveScaffolds ==
    ASSUME ScaffoldInv, NEW o \in outcomes, NEW deletes \in BOOLEAN, ReportReserve(o, deletes)
    PROVE  ScaffoldStep
<1> DEFINE q == o.req
<1> USE DEF ScaffoldInv
<1>0. o.req \in RequestIds /\ o.reserved \in BOOLEAN /\ o = [req |-> o.req, reserved |-> o.reserved]
  BY DEF WorkflowTypeOK, Outcomes
<1>1. Owners' = Owners /\ host' = host /\ lapsed' = lapsed
  BY DEF ReportReserve, vars, Owners
<1>2. CASE machine[q] # "ReserveName"
  BY <1>1, <1>2 DEF ReportReserve, Answered, ScaffoldStep, ScaffoldVars
<1>3. CASE machine[q] = "ReserveName" /\ ~o.reserved
  <2>1. machine' = [machine EXCEPT ![q] = "failed"]
    BY <1>3 DEF ReportReserve, Answered
  <2>2. Scaffold!Fail(q)
    BY <1>1, <1>3, <2>1 DEF Scaffold!Fail, Scaffold!Waiting, Scaffold!Goto
  <2> QED
    BY <1>0, <2>2 DEF ScaffoldStep, Scaffold!Next
<1>4. CASE machine[q] = "ReserveName" /\ o.reserved
  <2>1. machine' = [machine EXCEPT ![q] = "CreateRepository"]
    BY <1>4 DEF ReportReserve, Answered
  <2>2. Wants[q] \in lapsed \/ (Wants[q] \in Names /\ reservations[Wants[q]] = q)
    <3>1. [req |-> q, reserved |-> TRUE] \in outcomes
      BY <1>0, <1>4
    <3> QED
      BY <1>0, <3>1 DEF ReservationGuards, PastReserve
  <2>3. Wants[q] \in Names
    BY <2>2 DEF WorkflowTypeOK
  <2>4. ASSUME Wants[q] \notin lapsed,
               NEW rival \in RequestIds \ {q}, Wants[rival] = Wants[q], Scaffold!Passed(rival)
        PROVE  FALSE
    <3>1. reservations[Wants[q]] = rival
      BY <2>4 DEF ReservationGuards, PastReserve, Scaffold!Passed
    <3> QED
      BY <2>2, <2>4, <3>1
  <2>5. Scaffold!Pass(q)
    BY <1>1, <1>4, <2>1, <2>3, <2>4 DEF Scaffold!Pass, Scaffold!Goto
  <2> QED
    BY <1>0, <2>5 DEF ScaffoldStep, Scaffold!Next
<1> QED
  BY <1>0, <1>2, <1>3, <1>4

\* A report of CreateRepository finishes the scaffold, ends it, or comes too late.
LEMMA ReportCreateScaffolds ==
    ASSUME ScaffoldInv, NEW w \in Workers, NEW deletes \in BOOLEAN, ReportCreate(w, deletes)
    PROVE  ScaffoldStep
<1> DEFINE q == run[w].req
<1> USE DEF ScaffoldInv
<1>0. q \in RequestIds
  BY DEF ReportCreate, WorkflowTypeOK, TypeOK
<1>1. Owners' = Owners /\ host' = host /\ lapsed' = lapsed
  BY DEF ReportCreate, End, Owners
<1>2. CASE machine[q] # "CreateRepository"
  BY <1>1, <1>2 DEF ReportCreate, Answered, ScaffoldStep, ScaffoldVars
<1>3. CASE machine[q] = "CreateRepository" /\ run[w].stage # "returned"
  <2>1. machine' = [machine EXCEPT ![q] = "failed"]
    BY <1>3 DEF ReportCreate, Answered
  <2>2. Scaffold!Fail(q)
    BY <1>1, <1>3, <2>1 DEF Scaffold!Fail, Scaffold!Waiting, Scaffold!Goto
  <2> QED
    BY <1>0, <2>2 DEF ScaffoldStep, Scaffold!Next
<1>4. CASE machine[q] = "CreateRepository" /\ run[w].stage = "returned"
  <2>1. machine' = [machine EXCEPT ![q] = "done"]
    BY <1>4 DEF ReportCreate, Answered
  <2>2. q \in succeeded
    BY <1>4 DEF ReturnedInv
  <2>3. Wants[q] \in Names /\ records[Wants[q]].owner = q /\ host[Wants[q]] # None
    BY <2>2 DEF SlotInv, SucceededInv, SucceededHosted
  <2>4. host[Wants[q]] \in RequestIds => host[Wants[q]] = q
    BY <2>3 DEF SlotInv, OwnRepositoryRecorded
  <2>5. host[Wants[q]] \in {q, Foreign}
    BY <2>3, <2>4 DEF SlotInv, TypeOK
  <2>6. Scaffold!Finish(q)
    BY <1>1, <1>4, <2>1, <2>3, <2>5 DEF Scaffold!Finish, Scaffold!Goto, Owners
  <2> QED
    BY <1>0, <2>6 DEF ScaffoldStep, Scaffold!Next
<1> QED
  BY <1>2, <1>3, <1>4

\* A step of an execution gives a free name to its request, creates the repository of
\* a name the request owns, or changes neither.
LEMMA ExecuteScaffolds ==
    ASSUME ScaffoldInv, NEW w \in Workers, ExecuteCreate(w)
    PROVE  ScaffoldStep
<1> DEFINE q == run[w].req
<1> USE DEF ScaffoldInv
<1>0. machine' = machine /\ lapsed' = lapsed /\ Execute(w)
  BY DEF ExecuteCreate
<1>1. run[w].stage \in {"claim", "create", "find", "save"} /\ q \in RequestIds /\ NameOf(w) \in Names
  BY <1>0 DEF Execute, Claim, ClaimRefused, CreateSucceeds, CreateRefused, FindAdopts, FindMisses, Save,
              Fault, FaultAfterClaim, FaultAfterCreate, FaultAfterSave, WorkflowTypeOK, TypeOK
<1>2. machine[q] \notin {"new", "ReserveName"}
  BY <1>1 DEF OrderInv
<1>3. CASE FaultAfterClaim(w) \/ \E repeated \in BOOLEAN : Claim(w, repeated)
  <2>1. /\ records' = [records EXCEPT ![NameOf(w)] = ClaimOf(q)] /\ host' = host
        /\ records[NameOf(w)].owner \in {None, q}
    BY <1>3 DEF FaultAfterClaim, Claim, MayClaim
  <2>2. Owners' = [Owners EXCEPT ![NameOf(w)] = q]
    BY <1>1, <2>1 DEF Owners, ClaimOf, WorkflowTypeOK, TypeOK
  <2>3. CASE records[NameOf(w)].owner = q
    <3>1. Owners' = Owners
      BY <1>1, <2>2, <2>3 DEF Owners
    <3> QED
      BY <1>0, <2>1, <3>1 DEF ScaffoldStep, ScaffoldVars
  <2>4. CASE records[NameOf(w)].owner = None
    <3>1. Scaffold!Own(q)
      BY <1>0, <1>1, <1>2, <2>1, <2>2, <2>4 DEF Scaffold!Own, Owners, NameOf
    <3> QED
      BY <1>1, <3>1 DEF ScaffoldStep, Scaffold!Next
  <2> QED
    BY <2>1, <2>3, <2>4
<1>4. CASE CreateSucceeds(w) \/ FaultAfterCreate(w)
  <2>1. /\ run[w].stage = "create" /\ host[NameOf(w)] = None
        /\ host' = [host EXCEPT ![NameOf(w)] = q] /\ records' = records
    BY <1>4 DEF CreateSucceeds, FaultAfterCreate
  <2>2. records[NameOf(w)].owner = q
    BY <2>1 DEF SlotInv, ExecutionsInv, Claiming
  <2>3. Scaffold!Create(q)
    BY <1>0, <1>1, <2>1, <2>2 DEF Scaffold!Create, Owners, NameOf
  <2> QED
    BY <1>1, <2>3 DEF ScaffoldStep, Scaffold!Next
<1>5. CASE Save(w) \/ FaultAfterSave(w)
  <2>1. /\ host' = host
        /\ \/ records' = records
           \/ /\ records[NameOf(w)].owner = q
              /\ records' = [records EXCEPT ![NameOf(w)] = MarkCreated(q, run[w].repo)]
    BY <1>5 DEF Save, FaultAfterSave
  <2>2. \A n \in Names : records'[n].owner = records[n].owner
    BY <2>1 DEF MarkCreated, WorkflowTypeOK, TypeOK
  <2>3. Owners' = Owners
    BY <2>2 DEF Owners
  <2> QED
    BY <1>0, <2>1, <2>3 DEF ScaffoldStep, ScaffoldVars
<1>6. CASE ClaimRefused(w) \/ CreateRefused(w) \/ FindAdopts(w) \/ FindMisses(w) \/ Fault(w)
  <2>1. records' = records /\ host' = host
    BY <1>6 DEF ClaimRefused, CreateRefused, FindAdopts, FindMisses, Fault
  <2> QED
    BY <1>0, <2>1 DEF ScaffoldStep, ScaffoldVars, Owners
<1> QED
  BY <1>0, <1>3, <1>4, <1>5, <1>6 DEF Execute

LEMMA StepScaffolds ==
    ASSUME ScaffoldInv, [WorkflowNext]_workflowVars
    PROVE  ScaffoldStep
<1> USE DEF ScaffoldStep, ScaffoldVars, Owners
<1>1. ASSUME NEW q \in RequestIds, StartScaffold(q)
      PROVE  ScaffoldStep
  <2>1. Scaffold!Start(q)
    BY <1>1 DEF StartScaffold, vars, Scaffold!Start, Scaffold!Goto
  <2> QED
    BY <2>1 DEF Scaffold!Next
<1>2. ASSUME NEW q \in RequestIds, GiveUp(q)
      PROVE  ScaffoldStep
  <2>1. Scaffold!Fail(q)
    BY <1>2 DEF GiveUp, vars, Tasks, Scaffold!Fail, Scaffold!Waiting, Scaffold!Goto
  <2> QED
    BY <2>1 DEF Scaffold!Next
<1>3. ASSUME NEW n \in Names, Lapse(n)
      PROVE  ScaffoldStep
  <2>1. Scaffold!Lapse(n)
    BY <1>3 DEF Lapse, vars, Scaffold!Lapse
  <2> QED
    BY <2>1 DEF Scaffold!Next
<1>4. ASSUME NEW n \in Names, OutsiderCreates(n)
      PROVE  ScaffoldStep
  <2>1. Scaffold!Intrude(n)
    BY <1>4 DEF OutsiderCreates, ForeignCreates, Scaffold!Intrude
  <2> QED
    BY <2>1 DEF Scaffold!Next
<1>5. ASSUME NEW q \in RequestIds, Reserve(q) \/ ReserveRefused(q) \/ ReserveFaults(q)
      PROVE  ScaffoldStep
  BY <1>5 DEF Reserve, ReserveRefused, ReserveFaults, vars
<1>6. ASSUME NEW o \in outcomes, ReportReserveLost(o)
      PROVE  ScaffoldStep
  BY <1>6 DEF ReportReserveLost, vars
<1>7. ASSUME NEW w \in Workers, EndUnreported(w) \/ \E q \in RequestIds : BeginCreate(w, q)
      PROVE  ScaffoldStep
  BY <1>7 DEF EndUnreported, End, BeginCreate, Begin
<1>8. CASE UNCHANGED workflowVars
  BY <1>8 DEF workflowVars, vars
<1> HIDE DEF ScaffoldStep
<1> QED
  BY <1>1, <1>2, <1>3, <1>4, <1>5, <1>6, <1>7, <1>8, ReportReserveScaffolds, ReportCreateScaffolds,
     ExecuteScaffolds DEF WorkflowNext

\* The scaffolder keeps its promise, for any number of requests, workers, names and
\* lapsed reservations.
THEOREM ScaffoldingImplemented == WorkflowSpec => ImplementsScaffolding
<1>1. ScaffoldInv /\ [WorkflowNext]_workflowVars => [Scaffold!Next]_<<machine, Owners, host, lapsed>>
  BY StepScaffolds DEF ScaffoldStep, ScaffoldVars
<1> QED
  BY <1>1, InitScaffolds, TasksInOrder, PTL DEF WorkflowSpec, ImplementsScaffolding, Scaffold!Spec

=============================================================================
