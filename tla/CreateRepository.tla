-------------------------- MODULE CreateRepository --------------------------
(***************************************************************************)
(* The scaffold task CreateRepository (CreateRepositoryUseCase.cs) with    *)
(* the inventory in DynamoDB (DynamoDbRepositoryRecordStore.cs) and the    *)
(* repository host (OctokitRepositoryHost.cs).                             *)
(*                                                                         *)
(* SQS delivers a task at least once, and two pods overlap during a        *)
(* rollout, so any worker may execute any request at any time, also one    *)
(* that another worker is executing or that was executed before.  Every    *)
(* conditional write and every GitHub call is one atomic step.             *)
(*                                                                         *)
(* succeeded is a ghost variable: the requests for which some execution    *)
(* returned a result.                                                      *)
(***************************************************************************)
EXTENDS Integers, FiniteSets

CONSTANTS
    Workers,     \* executions that can be under way at once
    RequestIds,  \* scaffold requests, one message each
    Names,       \* repository names (the organization is fixed)
    Wants,       \* the name each request asks for; None is one that does not parse
    Foreign,     \* whoever creates repositories outside the platform
    None

ASSUME WantsNames == Wants \in [RequestIds -> Names \cup {None}]
ASSUME OutsidersDistinct ==
    Foreign \notin RequestIds /\ None \notin RequestIds \cup Names /\ Foreign # None

VARIABLES
    records,    \* DynamoDB: REPO#owner/name items
    host,       \* GitHub: who created the repository of each name
    run,        \* what each worker is executing
    succeeded

vars == <<records, host, run, succeeded>>

----------------------------------------------------------------------------
(* Values *)

\* RepositoryRecord; owner is its RequestId, repo the creator of the hosted
\* repository it points at.
Record == [owner : RequestIds \cup {None}, status : {"None", "Claimed", "Created"},
           repo : RequestIds \cup {Foreign, None}]

NoRecord == [owner |-> None, status |-> "None", repo |-> None]

\* RepositoryRecord.Claim and RepositoryRecord.MarkCreated.
ClaimOf(q) == [owner |-> q, status |-> "Claimed", repo |-> None]
MarkCreated(q, repo) == [owner |-> q, status |-> "Created", repo |-> repo]

\* The awaits of ExecuteAsync, and its three ways to end: a result, a domain
\* error (ScaffolderException), any other exception.
Stages == {"idle", "claim", "create", "find", "save", "returned", "threw", "faulted"}

\* held: ClaimAsync answered AlreadyHeldByThisRequest; repo: what will be saved.
Run == [stage : Stages, req : RequestIds \cup {None}, held : BOOLEAN,
        repo : RequestIds \cup {Foreign, None}]

Idle == [stage |-> "idle", req |-> None, held |-> FALSE, repo |-> None]

NameOf(w) == Wants[run[w].req]

Goto(w, stage) == run' = [run EXCEPT ![w].stage = stage]

\* Mutant: a claim that has not reached Created may be taken over.
MayClaimUnfinished(w) ==
    \/ records[NameOf(w)].owner = run[w].req
    \/ records[NameOf(w)].status # "Created"

\* Mutant: an unconditional put.
MayClaimAlways(w) == TRUE

\* ConditionExpression of ClaimAsync: a free slot, or one this request holds.
MayClaim(w) == records[NameOf(w)].owner \in {None, run[w].req}

----------------------------------------------------------------------------
(* One execution *)

\* A delivery of request q reaches a free worker.  A name that does not parse is a
\* domain error (ApplicationName.Parse throws before anything is claimed).
Begin(w, q) ==
    /\ run[w].stage = "idle"
    /\ run' = [run EXCEPT ![w] = [Idle EXCEPT !.stage = IF Wants[q] \in Names THEN "claim" ELSE "threw",
                                            !.req = q]]
    /\ UNCHANGED <<records, host, succeeded>>

\* ClaimAsync: the conditional put succeeds and ALL_OLD tells a first claim from a
\* replayed one.  When the answer is lost the AWS SDK repeats the put, which then
\* finds the claim it wrote itself.
Claim(w, repeated) ==
    /\ run[w].stage = "claim"
    /\ MayClaim(w)
    /\ records' = [records EXCEPT ![NameOf(w)] = ClaimOf(run[w].req)]
    /\ run' = [run EXCEPT ![w].stage = "create",
                          ![w].held = repeated \/ records[NameOf(w)].owner = run[w].req]
    /\ UNCHANGED <<host, succeeded>>

\* ClaimAsync: the condition fails, RepositoryAlreadyExistsException leaves the
\* use case before the host is asked.
ClaimRefused(w) ==
    /\ run[w].stage = "claim"
    /\ ~MayClaim(w)
    /\ Goto(w, "threw")
    /\ UNCHANGED <<records, host, succeeded>>

\* host.CreateAsync creates the repository.
CreateSucceeds(w) ==
    /\ run[w].stage = "create"
    /\ host[NameOf(w)] = None
    /\ host' = [host EXCEPT ![NameOf(w)] = run[w].req]
    /\ run' = [run EXCEPT ![w].stage = "save", ![w].repo = run[w].req]
    /\ UNCHANGED <<records, succeeded>>

\* Mutant: the repository a replayed claim collides with is assumed to be the one
\* this request created, without looking it up.
CreateRefusedAssumesOwn(w) ==
    /\ run[w].stage = "create"
    /\ host[NameOf(w)] # None
    /\ run' = [run EXCEPT ![w].stage = IF run[w].held THEN "save" ELSE "threw",
                          ![w].repo = run[w].req]
    /\ UNCHANGED <<records, host, succeeded>>

\* The name is taken on the host: a replayed claim goes on to look the repository
\* up, a fresh one is a conflict.
CreateRefused(w) ==
    /\ run[w].stage = "create"
    /\ host[NameOf(w)] # None
    /\ Goto(w, IF run[w].held THEN "find" ELSE "threw")
    /\ UNCHANGED <<records, host, succeeded>>

\* host.FindAsync returns the repository and the use case adopts it.
FindAdopts(w) ==
    /\ run[w].stage = "find"
    /\ run' = [run EXCEPT ![w].stage = "save", ![w].repo = host[NameOf(w)]]
    /\ UNCHANGED <<records, host, succeeded>>

\* host.FindAsync returns null although the name is taken (GitHub answers 404, for
\* whatever reason): the conflict is rethrown.
FindMisses(w) ==
    /\ run[w].stage = "find"
    /\ Goto(w, "threw")
    /\ UNCHANGED <<records, host, succeeded>>

\* SaveCreatedAsync, on the condition that the record is still this request's, and
\* the use case returns its result.
Save(w) ==
    /\ run[w].stage = "save"
    /\ IF records[NameOf(w)].owner = run[w].req
       THEN /\ records' = [records EXCEPT ![NameOf(w)] = MarkCreated(run[w].req, run[w].repo)]
            /\ succeeded' = succeeded \cup {run[w].req}
            /\ Goto(w, "returned")
       ELSE /\ Goto(w, "threw")
            /\ UNCHANGED <<records, succeeded>>
    /\ UNCHANGED host

\* The call under way fails with a transient error, is cancelled by a shutdown,
\* or the pod dies: the exception leaves the use case.
Fault(w) ==
    /\ run[w].stage \in {"claim", "create", "find", "save"}
    /\ Goto(w, "faulted")
    /\ UNCHANGED <<records, host, succeeded>>

\* The same, after the call took effect but before its answer arrived.
FaultAfterClaim(w) ==
    /\ run[w].stage = "claim"
    /\ MayClaim(w)
    /\ records' = [records EXCEPT ![NameOf(w)] = ClaimOf(run[w].req)]
    /\ Goto(w, "faulted")
    /\ UNCHANGED <<host, succeeded>>

\* Mutant: the claim is rolled back when CreateAsync throws.
FaultAfterCreateReleases(w) ==
    /\ run[w].stage = "create"
    /\ host[NameOf(w)] = None
    /\ host' = [host EXCEPT ![NameOf(w)] = run[w].req]
    /\ records' = [records EXCEPT ![NameOf(w)] = NoRecord]
    /\ Goto(w, "faulted")
    /\ UNCHANGED succeeded

FaultAfterCreate(w) ==
    /\ run[w].stage = "create"
    /\ host[NameOf(w)] = None
    /\ host' = [host EXCEPT ![NameOf(w)] = run[w].req]
    /\ Goto(w, "faulted")
    /\ UNCHANGED <<records, succeeded>>

FaultAfterSave(w) ==
    /\ run[w].stage = "save"
    /\ records[NameOf(w)].owner = run[w].req
    /\ records' = [records EXCEPT ![NameOf(w)] = MarkCreated(run[w].req, run[w].repo)]
    /\ Goto(w, "faulted")
    /\ UNCHANGED <<host, succeeded>>

\* The worker has dealt with the outcome and is free again.
End(w) ==
    /\ run[w].stage \in {"returned", "threw", "faulted"}
    /\ run' = [run EXCEPT ![w] = Idle]
    /\ UNCHANGED <<records, host, succeeded>>

\* Someone outside the platform creates a repository under the organization.
ForeignCreates(n) ==
    /\ host[n] = None
    /\ host' = [host EXCEPT ![n] = Foreign]
    /\ UNCHANGED <<records, run, succeeded>>

----------------------------------------------------------------------------
Init ==
    /\ records = [n \in Names |-> NoRecord]
    /\ host = [n \in Names |-> None]
    /\ run = [w \in Workers |-> Idle]
    /\ succeeded = {}

\* One step of the execution of worker w.
Execute(w) ==
    \/ \E repeated \in BOOLEAN : Claim(w, repeated)
    \/ ClaimRefused(w)
    \/ CreateSucceeds(w)
    \/ CreateRefused(w)
    \/ FindAdopts(w)
    \/ FindMisses(w)
    \/ Save(w)
    \/ Fault(w)
    \/ FaultAfterClaim(w)
    \/ FaultAfterCreate(w)
    \/ FaultAfterSave(w)

Next ==
    \/ \E w \in Workers, q \in RequestIds : Begin(w, q)
    \/ \E w \in Workers : Execute(w) \/ End(w)
    \/ \E n \in Names : ForeignCreates(n)

Spec == Init /\ [][Next]_vars

----------------------------------------------------------------------------
(* Properties *)

TypeOK ==
    /\ records \in [Names -> Record]
    /\ host \in [Names -> RequestIds \cup {Foreign, None}]
    /\ run \in [Workers -> Run]
    /\ succeeded \subseteq RequestIds
    /\ \A w \in Workers :
          /\ run[w].stage # "idle" => run[w].req \in RequestIds
          /\ run[w].stage \in {"claim", "create", "find", "save"} => NameOf(w) \in Names

\* The platform never has a repository it does not know of: whatever dies between
\* the claim, the creation and the save, a repository created for a request is
\* covered by an inventory record of that same request.
OwnRepositoryRecorded ==
    \A n \in Names : host[n] \in RequestIds => records[n].owner = host[n]

\* Two requests never both succeed for one name, however their deliveries overlap.
OneWinnerPerName ==
    \A p, q \in succeeded : Wants[p] = Wants[q] => p = q

\* A record in status Created points at the repository that is on the host.
CreatedIsHosted ==
    \A n \in Names : records[n].status = "Created" => host[n] # None /\ records[n].repo = host[n]

\* The condition of SaveCreatedAsync never fails: an execution that got as far as
\* saving still owns the slot, even if a twin of the same request rewound it.
SaveNeverRefused ==
    \A w \in Workers : run[w].stage = "save" => records[NameOf(w)].owner = run[w].req

\* Once claimed, a name stays with its request for ever.
OwnerNeverChanges ==
    [][\A n \in Names : records[n].owner # None => records'[n].owner = records[n].owner]_vars

\* What the use case says of a replayed claim that finds its name taken: the repository
\* is the one an earlier attempt of the same request created.
AdoptsOnlyOwn ==
    \A n \in Names : records[n].status = "Created" => records[n].repo = records[n].owner

=============================================================================
