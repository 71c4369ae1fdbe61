-------------------------- MODULE ScaffoldWorkflow --------------------------
(***************************************************************************)
(* A scaffold from end to end: the task ReserveName (ReserveNameUseCase.cs *)
(* with DynamoDbNameReservationStore.cs), then the task CreateRepository   *)
(* of the module CreateRepository, as the worker loop delivers the two and *)
(* reports their outcomes (the rules checked in TaskQueueWorker).          *)
(*                                                                         *)
(* The state machine, SQS and DynamoDB's TTL are external.  The state      *)
(* machine puts a task message on a queue, waits for the report of its     *)
(* token and may give up; a message is delivered again as long as it is    *)
(* not deleted, also while an earlier delivery is being worked on (one in  *)
(* the dead-letter queue is one that is not delivered any more); a         *)
(* reservation lapses when its TTL ends, whatever has become of the        *)
(* request that made it.                                                   *)
(*                                                                         *)
(* lapsed is a ghost variable: the names whose reservation ever lapsed.    *)
(***************************************************************************)
EXTENDS CreateRepository

CONSTANT MaxLapses  \* bound on the reservations that lapse

ASSUME LapsesBounded == MaxLapses \in Nat

VARIABLES
    reservations,  \* DynamoDB: NAME#app items, each by the request that holds it
    outcomes,      \* outcomes of ReserveName that are still to be reported
    machine,       \* Step Functions: the state each request's execution is in
    messages,      \* SQS: the task messages that are not deleted
    lapses,
    lapsed

workflowVars == <<vars, reservations, outcomes, machine, messages, lapses, lapsed>>

----------------------------------------------------------------------------
(* Values *)

Tasks == {"ReserveName", "CreateRepository"}

Messages == [req : RequestIds, task : Tasks]

Message(q, task) == [req |-> q, task |-> task]

\* What an execution of ReserveName came to: its result, or a ScaffolderException.
Outcomes == [req : RequestIds, reserved : BOOLEAN]

\* A state the execution waits in for its task token, or one it does not leave.
MachineStates == {"new", "done", "failed"} \cup Tasks

\* Mutant: a name whose repository does not exist yet may be taken over.
MayReserveUncreated(q) ==
    /\ Wants[q] \in Names
    /\ reservations[Wants[q]] \in {None, q} \/ host[Wants[q]] = None

\* ConditionExpression of ReserveAsync: a free name, or one this request holds.
\* ApplicationName.Parse throws before a name that does not parse gets that far.
MayReserve(q) == Wants[q] \in Names /\ reservations[Wants[q]] \in {None, q}

Reserved(q) == [reservations EXCEPT ![Wants[q]] = q]

----------------------------------------------------------------------------
(* The state machine *)

StartScaffold(q) ==
    /\ machine[q] = "new"
    /\ machine' = [machine EXCEPT ![q] = "ReserveName"]
    /\ messages' = messages \cup {Message(q, "ReserveName")}
    /\ UNCHANGED <<vars, reservations, outcomes, lapses, lapsed>>

\* The token of the current task times out; its message stays where it is.
GiveUp(q) ==
    /\ machine[q] \in Tasks
    /\ machine' = [machine EXCEPT ![q] = "failed"]
    /\ UNCHANGED <<vars, reservations, outcomes, messages, lapses, lapsed>>

\* The machine of request q after its task reported: the next state, or its end.
Answered(q, task, succeeds) ==
    IF machine[q] # task THEN machine
    ELSE [machine EXCEPT ![q] = IF ~succeeds THEN "failed"
                                ELSE IF task = "ReserveName" THEN "CreateRepository" ELSE "done"]

\* The messages once the report went out: a token that still waits takes it and the
\* worker deletes the message (which may fail), a token that does not leaves it.
Acknowledged(q, task, succeeds, deletes) ==
    IF machine[q] # task THEN messages
    ELSE (messages \ (IF deletes THEN {Message(q, task)} ELSE {}))
            \cup (IF succeeds /\ task = "ReserveName" THEN {Message(q, "CreateRepository")} ELSE {})

----------------------------------------------------------------------------
(* ReserveName *)

\* A delivery is executed: the conditional put takes the name.
Reserve(q) ==
    /\ Message(q, "ReserveName") \in messages
    /\ MayReserve(q)
    /\ reservations' = Reserved(q)
    /\ outcomes' = outcomes \cup {[req |-> q, reserved |-> TRUE]}
    /\ UNCHANGED <<vars, machine, messages, lapses, lapsed>>

\* Mutant: a name that is held is answered like a reservation that was repeated.
ReserveRefusedPasses(q) ==
    /\ Message(q, "ReserveName") \in messages
    /\ ~MayReserve(q)
    /\ outcomes' = outcomes \cup {[req |-> q, reserved |-> Wants[q] \in Names]}
    /\ UNCHANGED <<vars, reservations, machine, messages, lapses, lapsed>>

\* The name does not parse (InvalidApplicationNameException) or another request holds
\* it (NameAlreadyReservedException).
ReserveRefused(q) ==
    /\ Message(q, "ReserveName") \in messages
    /\ ~MayReserve(q)
    /\ outcomes' = outcomes \cup {[req |-> q, reserved |-> FALSE]}
    /\ UNCHANGED <<vars, reservations, machine, messages, lapses, lapsed>>

\* The put took effect but its answer, or the pod, is lost: redelivery.
ReserveFaults(q) ==
    /\ Message(q, "ReserveName") \in messages
    /\ MayReserve(q)
    /\ reservations' = Reserved(q)
    /\ UNCHANGED <<vars, outcomes, machine, messages, lapses, lapsed>>

\* The worker reports the outcome and deletes the message.
ReportReserve(o, deletes) ==
    /\ o \in outcomes
    /\ outcomes' = outcomes \ {o}
    /\ machine' = Answered(o.req, "ReserveName", o.reserved)
    /\ messages' = Acknowledged(o.req, "ReserveName", o.reserved, deletes)
    /\ UNCHANGED <<vars, reservations, lapses, lapsed>>

\* The report fails: the message is left for redelivery.
ReportReserveLost(o) ==
    /\ o \in outcomes
    /\ outcomes' = outcomes \ {o}
    /\ UNCHANGED <<vars, reservations, machine, messages, lapses, lapsed>>

----------------------------------------------------------------------------
(* CreateRepository *)

\* Mutant: a payload without a RequestId is accepted.
BeginAnonymous(w, q) ==
    /\ Message(q, "CreateRepository") \in messages
    /\ run[w].stage = "idle"
    /\ run' = [run EXCEPT ![w] = [Idle EXCEPT !.stage = "claim"]]
    /\ UNCHANGED <<records, host, succeeded, reservations, outcomes, machine, messages, lapses, lapsed>>

\* A delivery of the second task reaches a free worker.
BeginCreate(w, q) ==
    /\ Message(q, "CreateRepository") \in messages
    /\ Begin(w, q)
    /\ UNCHANGED <<reservations, outcomes, machine, messages, lapses, lapsed>>

ExecuteCreate(w) ==
    /\ Execute(w)
    /\ UNCHANGED <<reservations, outcomes, machine, messages, lapses, lapsed>>

\* Mutant: a conflict is reported like a result.
ReportCreateAsSuccess(w, deletes) ==
    /\ run[w].stage \in {"returned", "threw"}
    /\ End(w)
    /\ machine' = Answered(run[w].req, "CreateRepository", TRUE)
    /\ messages' = Acknowledged(run[w].req, "CreateRepository", TRUE, deletes)
    /\ UNCHANGED <<reservations, outcomes, lapses, lapsed>>

\* The worker reports the result or the domain error and deletes the message.
ReportCreate(w, deletes) ==
    /\ run[w].stage \in {"returned", "threw"}
    /\ End(w)
    /\ machine' = Answered(run[w].req, "CreateRepository", run[w].stage = "returned")
    /\ messages' = Acknowledged(run[w].req, "CreateRepository", run[w].stage = "returned", deletes)
    /\ UNCHANGED <<reservations, outcomes, lapses, lapsed>>

\* The execution faulted, or its report fails: the message is left for redelivery.
EndUnreported(w) ==
    /\ End(w)
    /\ UNCHANGED <<reservations, outcomes, machine, messages, lapses, lapsed>>

----------------------------------------------------------------------------
(* DynamoDB, SQS and GitHub *)

\* The TTL of ReserveNameOptions ends: the reservation goes, although its scaffold
\* may be under way or done (nothing ever makes a reservation Confirmed).
Lapse(n) ==
    /\ reservations[n] # None /\ lapses < MaxLapses
    /\ reservations' = [reservations EXCEPT ![n] = None]
    /\ lapses' = lapses + 1
    /\ lapsed' = lapsed \cup {n}
    /\ UNCHANGED <<vars, outcomes, machine, messages>>

OutsiderCreates(n) ==
    /\ ForeignCreates(n)
    /\ UNCHANGED <<reservations, outcomes, machine, messages, lapses, lapsed>>

----------------------------------------------------------------------------
WorkflowInit ==
    /\ Init
    /\ reservations = [n \in Names |-> None]
    /\ outcomes = {}
    /\ machine = [q \in RequestIds |-> "new"]
    /\ messages = {}
    /\ lapses = 0
    /\ lapsed = {}

WorkflowNext ==
    \/ \E q \in RequestIds : \/ StartScaffold(q) \/ GiveUp(q)
                             \/ Reserve(q) \/ ReserveRefused(q) \/ ReserveFaults(q)
    \/ \E o \in outcomes : \/ \E deletes \in BOOLEAN : ReportReserve(o, deletes)
                           \/ ReportReserveLost(o)
    \/ \E w \in Workers : \/ \E q \in RequestIds : BeginCreate(w, q)
                          \/ ExecuteCreate(w)
                          \/ \E deletes \in BOOLEAN : ReportCreate(w, deletes)
                          \/ EndUnreported(w)
    \/ \E n \in Names : Lapse(n) \/ OutsiderCreates(n)

WorkflowSpec == WorkflowInit /\ [][WorkflowNext]_workflowVars

----------------------------------------------------------------------------
(* Properties *)

WorkflowTypeOK ==
    /\ TypeOK
    /\ reservations \in [Names -> RequestIds \cup {None}]
    /\ outcomes \subseteq Outcomes
    /\ machine \in [RequestIds -> MachineStates]
    /\ messages \subseteq Messages
    /\ lapses \in 0..MaxLapses
    /\ lapsed \subseteq Names

\* Requests that are past ReserveName: their next task, or whatever came of it.
PastReserve(q) ==
    \/ machine[q] \in {"CreateRepository", "done"}
    \/ Message(q, "CreateRepository") \in messages
    \/ \E w \in Workers : run[w].req = q
    \/ [req |-> q, reserved |-> TRUE] \in outcomes

\* What the reservation is for: while no reservation of a name has lapsed, only its
\* holder gets past ReserveName, through redeliveries, lost reports, timeouts and
\* messages that arrive late; a rival fails before anything is created.
ReservationGuards ==
    \A q \in RequestIds :
        PastReserve(q) => Wants[q] \in lapsed \/ (Wants[q] \in Names /\ reservations[Wants[q]] = q)

\* The two tables agree on who a name belongs to unless a reservation lapsed: the
\* request with the inventory record holds the reservation.
TablesAgree ==
    \A n \in Names \ lapsed : records[n].owner \in {None, reservations[n]}

\* Also after reservations lapsed, and whatever was reported late or twice: a scaffold
\* the state machine carried through both tasks is the one the inventory names.
DoneOwnsName ==
    \A q \in RequestIds : machine[q] = "done" => q \in succeeded /\ records[Wants[q]].owner = q

\* The request each name belongs to, as the inventory has it.
Owners == [n \in Names |-> records[n].owner]

Scaffold == INSTANCE Scaffolding WITH progress <- machine, owner <- Owners, repository <- host

\* The two tasks, the queue that repeats them and the state machine that gives up on
\* them keep the promise of Scaffolding: a name is owned once, by a request that got
\* past its reservation, and a scaffold that is done has its repository.
ImplementsScaffolding == Scaffold!Spec

=============================================================================
