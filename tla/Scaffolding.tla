---------------------------- MODULE Scaffolding ----------------------------
(***************************************************************************)
(* What the scaffolder promises whoever asks for a repository, without the *)
(* queue, the workers and the two tables' details.  A scaffold ends once,  *)
(* done or failed.  A name belongs to one request for good, and only to    *)
(* one that got past its reservation; a repository is created for its      *)
(* owner only; a scaffold is done when the name is its own and has a       *)
(* repository.  Of two requests for a name, one fails at the reservation,  *)
(* unless a reservation lapsed.                                            *)
(***************************************************************************)
CONSTANTS
    RequestIds,
    Names,
    Wants,       \* the name each request asks for, None for one that does not parse
    Foreign,     \* whoever creates repositories outside the platform
    None

VARIABLES
    progress,    \* where each scaffold is: "new", in one of its two tasks, or ended
    owner,       \* the request each name belongs to
    repository,  \* for whom the repository of each name was created
    lapsed       \* names whose reservation ever lapsed

Waiting(q) == progress[q] \in {"ReserveName", "CreateRepository"}

\* Requests that hold the right to create their name.
Passed(q) == progress[q] \in {"CreateRepository", "done"}

Goto(q, state) == progress' = [progress EXCEPT ![q] = state]

Init ==
    /\ progress = [q \in RequestIds |-> "new"]
    /\ owner = [n \in Names |-> None]
    /\ repository = [n \in Names |-> None]
    /\ lapsed = {}

Start(q) ==
    /\ progress[q] = "new"
    /\ Goto(q, "ReserveName")
    /\ UNCHANGED <<owner, repository, lapsed>>

\* The name is reserved: no rival holds the right to create it.
Pass(q) ==
    /\ progress[q] = "ReserveName"
    /\ Wants[q] \in Names
    /\ Wants[q] \notin lapsed =>
           \A rival \in RequestIds \ {q} : Wants[rival] = Wants[q] => ~Passed(rival)
    /\ Goto(q, "CreateRepository")
    /\ UNCHANGED <<owner, repository, lapsed>>

\* The scaffold is turned down, or given up although its tasks may still run.
Fail(q) ==
    /\ Waiting(q)
    /\ Goto(q, "failed")
    /\ UNCHANGED <<owner, repository, lapsed>>

\* The inventory gives the name to the request, for good.
Own(q) ==
    /\ progress[q] \notin {"new", "ReserveName"}
    /\ Wants[q] \in Names /\ owner[Wants[q]] = None
    /\ owner' = [owner EXCEPT ![Wants[q]] = q]
    /\ UNCHANGED <<progress, repository, lapsed>>

Create(q) ==
    /\ Wants[q] \in Names /\ owner[Wants[q]] = q
    /\ repository[Wants[q]] = None
    /\ repository' = [repository EXCEPT ![Wants[q]] = q]
    /\ UNCHANGED <<progress, owner, lapsed>>

\* The scaffold succeeds: the name is its own and its repository is there, made for it
\* or found where someone outside the platform had put it.
Finish(q) ==
    /\ progress[q] = "CreateRepository"
    /\ Wants[q] \in Names /\ owner[Wants[q]] = q
    /\ repository[Wants[q]] \in {q, Foreign}
    /\ Goto(q, "done")
    /\ UNCHANGED <<owner, repository, lapsed>>

Intrude(n) ==
    /\ repository[n] = None
    /\ repository' = [repository EXCEPT ![n] = Foreign]
    /\ UNCHANGED <<progress, owner, lapsed>>

Lapse(n) ==
    /\ lapsed' = lapsed \cup {n}
    /\ UNCHANGED <<progress, owner, repository>>

Next ==
    \/ \E q \in RequestIds : Start(q) \/ Pass(q) \/ Fail(q) \/ Own(q) \/ Create(q) \/ Finish(q)
    \/ \E n \in Names : Intrude(n) \/ Lapse(n)

Spec == Init /\ [][Next]_<<progress, owner, repository, lapsed>>
=============================================================================
