----------------------- MODULE CreateRepositoryProofs -----------------------
(***************************************************************************)
(* What CreateRepository guarantees for any number of workers, requests    *)
(* and names.                                                              *)
(***************************************************************************)
EXTENDS CreateRepository, TLAPS

\* The stages at which an execution holds the claim of its name.
Claiming == {"create", "find", "save"}

\* The strengthening.  A name has one owner for good and a hosted repository never
\* changes hands, so what an execution learnt at one await is still true at the next.
ExecutionsInv ==
    \A w \in Workers :
        /\ run[w].stage \in Claiming => records[NameOf(w)].owner = run[w].req
        /\ run[w].stage \in {"find", "save"} => host[NameOf(w)] # None
        /\ run[w].stage = "save" => run[w].repo = host[NameOf(w)]

SucceededInv == \A q \in succeeded : Wants[q] \in Names /\ records[Wants[q]].owner = q

SlotInv == TypeOK /\ ExecutionsInv /\ SucceededInv /\ OwnRepositoryRecorded /\ CreatedIsHosted

\* The values the actions build have their types.
LEMMA ValueTypes ==
    /\ NoRecord \in Record
    /\ Idle \in Run
    /\ \A q \in RequestIds : ClaimOf(q) \in Record
    /\ \A q \in RequestIds, repo \in RequestIds \cup {Foreign, None} : MarkCreated(q, repo) \in Record
  BY DEF NoRecord, Record, Idle, Run, Stages, ClaimOf, MarkCreated

\* A step of an execution preserves the types.
LEMMA ExecuteTypes ==
    ASSUME TypeOK, NEW w \in Workers, Execute(w)
    PROVE  TypeOK'
<1> USE ValueTypes, OutsidersDistinct DEF TypeOK, Goto, Run, Stages
<1>0. run[w].stage \in {"claim", "create", "find", "save"} =>
          /\ NameOf(w) \in Names
          /\ run[w].req \in RequestIds
  OBVIOUS
<1>1. ASSUME NEW repeated \in BOOLEAN, Claim(w, repeated)
      PROVE  TypeOK'
  <2>1. (repeated \/ records[NameOf(w)].owner = run[w].req) \in BOOLEAN
    OBVIOUS
  <2>2. run' \in [Workers -> Run] /\ records' \in [Names -> Record]
    BY <1>0, <1>1, <2>1 DEF Claim
  <2>3. \A v \in Workers : run'[v].req = run[v].req /\ (v # w => run'[v] = run[v])
    BY <1>1 DEF Claim
  <2>4. \A v \in Workers : NameOf(v)' = NameOf(v)
    BY <2>3 DEF NameOf
  <2> QED
    BY <1>0, <1>1, <2>2, <2>3, <2>4 DEF Claim
<1>2. CASE ClaimRefused(w)
  BY <1>0, <1>2 DEF ClaimRefused, NameOf
<1>3. CASE CreateSucceeds(w)
  BY <1>0, <1>3 DEF CreateSucceeds, NameOf
<1>4. CASE CreateRefused(w)
  BY <1>0, <1>4 DEF CreateRefused, NameOf
<1>5. CASE FindAdopts(w)
  BY <1>0, <1>5 DEF FindAdopts, NameOf
<1>6. CASE FindMisses(w)
  BY <1>0, <1>6 DEF FindMisses, NameOf
<1>7. CASE Save(w)
  BY <1>0, <1>7 DEF Save, NameOf
<1>8. CASE Fault(w)
  BY <1>0, <1>8 DEF Fault, NameOf
<1>9. CASE FaultAfterClaim(w)
  BY <1>0, <1>9 DEF FaultAfterClaim, NameOf
<1>10. CASE FaultAfterCreate(w)
  BY <1>0, <1>10 DEF FaultAfterCreate, NameOf
<1>11. CASE FaultAfterSave(w)
  BY <1>0, <1>11 DEF FaultAfterSave, NameOf
<1> QED
  BY <1>1, <1>2, <1>3, <1>4, <1>5, <1>6, <1>7, <1>8, <1>9, <1>10, <1>11 DEF Execute

\* Every variable keeps its type, and an execution that has claimed has a name.
THEOREM TypeCorrect == Spec => []TypeOK
<1>1. Init => TypeOK
  BY ValueTypes DEF Init, TypeOK, Idle
<1>2. TypeOK /\ [Next]_vars => TypeOK'
  <2> SUFFICES ASSUME TypeOK, [Next]_vars
               PROVE  TypeOK'
    OBVIOUS
  <2>1. ASSUME NEW w \in Workers, NEW q \in RequestIds, Begin(w, q)
        PROVE  TypeOK'
    BY <2>1, ValueTypes DEF Begin, TypeOK, Idle, Run, Stages, NameOf
  <2>2. ASSUME NEW w \in Workers, End(w)
        PROVE  TypeOK'
    BY <2>2, ValueTypes DEF End, TypeOK, Idle, NameOf
  <2>3. ASSUME NEW n \in Names, ForeignCreates(n)
        PROVE  TypeOK'
    BY <2>3 DEF ForeignCreates, TypeOK, NameOf
  <2>4. CASE UNCHANGED vars
    BY <2>4 DEF vars, TypeOK, NameOf
  <2> QED
    BY <2>1, <2>2, <2>3, <2>4, ExecuteTypes DEF Next
<1> QED
  BY <1>1, <1>2, PTL DEF Spec

----------------------------------------------------------------------------
(***************************************************************************)
(* The two facts everything else rests on: a name never changes its owner, *)
(* and a repository on the host never changes its creator.                 *)
(***************************************************************************)

LEMMA OwnerStays ==
    ASSUME TypeOK, [Next]_vars, NEW n \in Names, records[n].owner # None
    PROVE  records'[n].owner = records[n].owner
<1>1. ASSUME NEW w \in Workers, Execute(w)
      PROVE  records'[n].owner = records[n].owner
  BY <1>1 DEF TypeOK, Execute, Claim, ClaimRefused, CreateSucceeds, CreateRefused, FindAdopts, FindMisses,
              Save, Fault, FaultAfterClaim, FaultAfterCreate, FaultAfterSave, MayClaim, ClaimOf, MarkCreated
<1> QED
  BY <1>1 DEF Next, vars, Begin, End, ForeignCreates

LEMMA HostStays ==
    ASSUME TypeOK, [Next]_vars, NEW n \in Names, host[n] # None
    PROVE  host'[n] = host[n]
<1>1. ASSUME NEW w \in Workers, Execute(w)
      PROVE  host'[n] = host[n]
  BY <1>1 DEF TypeOK, Execute, Claim, ClaimRefused, CreateSucceeds, CreateRefused, FindAdopts, FindMisses,
              Save, Fault, FaultAfterClaim, FaultAfterCreate, FaultAfterSave
<1> QED
  BY <1>1 DEF TypeOK, Next, vars, Begin, End, ForeignCreates

\* Once claimed, a name stays with its request for ever.
THEOREM OwnershipIsForGood == Spec => OwnerNeverChanges
<1>1. TypeOK /\ [Next]_vars =>
          [\A n \in Names : records[n].owner # None => records'[n].owner = records[n].owner]_vars
  BY OwnerStays
<1> QED
  BY <1>1, TypeCorrect, PTL DEF Spec, OwnerNeverChanges

----------------------------------------------------------------------------
(***************************************************************************)
(* The inductive invariant.                                                *)
(***************************************************************************)

\* What the executions know: those the step does not concern keep it because
\* owners and creators stay, the one that moves learns it at the step.
LEMMA ExecutionsStep ==
    ASSUME SlotInv, TypeOK', [Next]_vars
    PROVE  ExecutionsInv'
<1> USE OutsidersDistinct DEF SlotInv, Claiming
<1>1. ASSUME NEW v \in Workers, run'[v] = run[v]
      PROVE  /\ run'[v].stage \in Claiming => records'[NameOf(v)'].owner = run'[v].req
             /\ run'[v].stage \in {"find", "save"} => host'[NameOf(v)'] # None
             /\ run'[v].stage = "save" => run'[v].repo = host'[NameOf(v)']
  <2>1. NameOf(v)' = NameOf(v)
    BY <1>1 DEF NameOf
  <2>2. run[v].stage \in Claiming => NameOf(v) \in Names /\ run[v].req \in RequestIds
    BY DEF TypeOK
  <2>3. run[v].stage \in Claiming => records'[NameOf(v)].owner = run[v].req
    BY <2>2, OwnerStays DEF ExecutionsInv
  <2>4. run[v].stage \in {"find", "save"} => host'[NameOf(v)] = host[NameOf(v)]
    BY <2>2, HostStays DEF ExecutionsInv
  <2> QED
    BY <1>1, <2>1, <2>3, <2>4 DEF ExecutionsInv
<1>2. ASSUME NEW w \in Workers, Execute(w)
      PROVE  /\ run'[w].stage \in Claiming => records'[NameOf(w)'].owner = run'[w].req
             /\ run'[w].stage \in {"find", "save"} => host'[NameOf(w)'] # None
             /\ run'[w].stage = "save" => run'[w].repo = host'[NameOf(w)']
  <2> USE <1>2 DEF TypeOK, NameOf, Goto, ExecutionsInv
  <2>1. CASE \E repeated \in BOOLEAN : Claim(w, repeated)
    BY <2>1 DEF Claim, ClaimOf
  <2>2. CASE CreateSucceeds(w)
    BY <2>2 DEF CreateSucceeds
  <2>3. CASE CreateRefused(w)
    BY <2>3 DEF CreateRefused
  <2>4. CASE FindAdopts(w)
    BY <2>4 DEF FindAdopts
  <2>5. CASE \/ ClaimRefused(w) \/ FindMisses(w) \/ Save(w) \/ Fault(w)
             \/ FaultAfterClaim(w) \/ FaultAfterCreate(w) \/ FaultAfterSave(w)
    <3>1. run'[w].stage \in {"threw", "returned", "faulted"}
      BY <2>5 DEF ClaimRefused, FindMisses, Save, Fault, FaultAfterClaim, FaultAfterCreate, FaultAfterSave,
                  Run
    <3> QED
      BY <3>1
  <2> QED
    BY <2>1, <2>2, <2>3, <2>4, <2>5 DEF Execute
<1>3. ASSUME NEW w \in Workers, NEW v \in Workers, v # w, Execute(w)
      PROVE  run'[v] = run[v]
  BY <1>3 DEF TypeOK, Execute, Claim, ClaimRefused, CreateSucceeds, CreateRefused, FindAdopts, FindMisses,
              Save, Fault, FaultAfterClaim, FaultAfterCreate, FaultAfterSave, Goto
<1>4. ASSUME NEW w \in Workers, NEW v \in Workers, run'[v] # run[v],
             End(w) \/ \E q \in RequestIds : Begin(w, q)
      PROVE  run'[v].stage \in {"idle", "claim", "threw"}
  <2>1. CASE End(w)
    BY <1>4, <2>1 DEF TypeOK, End, Idle
  <2>2. ASSUME NEW q \in RequestIds, Begin(w, q)
        PROVE  run'[v].stage \in {"claim", "threw"}
    BY <1>4, <2>2 DEF TypeOK, Begin, Idle
  <2> QED
    BY <1>4, <2>1, <2>2
<1> QED
  BY <1>1, <1>2, <1>3, <1>4 DEF ExecutionsInv, Next, vars, ForeignCreates

\* The requests that succeeded keep their names.
LEMMA SucceededStep ==
    ASSUME SlotInv, [Next]_vars
    PROVE  SucceededInv'
<1> USE OutsidersDistinct DEF SlotInv
<1>1. \A q \in succeeded : Wants[q] \in Names /\ records'[Wants[q]].owner = q
  BY OwnerStays DEF SucceededInv, TypeOK
<1>2. \A q \in succeeded' \ succeeded : \E w \in Workers : Save(w) /\ q = run[w].req
  BY DEF Next, vars, Begin, End, ForeignCreates, Execute, Claim, ClaimRefused, CreateSucceeds, CreateRefused,
         FindAdopts, FindMisses, Save, Fault, FaultAfterClaim, FaultAfterCreate, FaultAfterSave
<1>3. ASSUME NEW w \in Workers, Save(w)
      PROVE  /\ Wants[run[w].req] \in Names
             /\ run[w].req \in succeeded' => records'[Wants[run[w].req]].owner = run[w].req
  <2>1. NameOf(w) \in Names /\ run[w].req \in RequestIds /\ records[NameOf(w)].owner = run[w].req
    BY <1>3 DEF Save, TypeOK, ExecutionsInv, Claiming
  <2> QED
    BY <2>1, OwnerStays DEF NameOf
<1> QED
  BY <1>1, <1>2, <1>3 DEF SucceededInv

\* A repository created for a request lies under that request's record: the one
\* execution that creates it holds the claim.
LEMMA OwnRepositoryStep ==
    ASSUME SlotInv, [Next]_vars
    PROVE  OwnRepositoryRecorded'
<1> USE OutsidersDistinct DEF SlotInv
<1> SUFFICES ASSUME NEW n \in Names, host'[n] \in RequestIds
             PROVE  records'[n].owner = host'[n]
  BY DEF OwnRepositoryRecorded
<1>1. CASE host[n] # None
  BY <1>1, HostStays, OwnerStays DEF OwnRepositoryRecorded
<1>2. CASE host[n] = None
  <2>1. PICK w \in Workers : (CreateSucceeds(w) \/ FaultAfterCreate(w)) /\ n = NameOf(w)
    BY <1>2 DEF Next, vars, Begin, End, ForeignCreates, Execute, Claim, ClaimRefused, CreateSucceeds,
                CreateRefused, FindAdopts, FindMisses, Save, Fault, FaultAfterClaim, FaultAfterCreate,
                FaultAfterSave, TypeOK
  <2>2. records[n].owner = run[w].req /\ run[w].req \in RequestIds
    BY <2>1 DEF CreateSucceeds, FaultAfterCreate, ExecutionsInv, Claiming, TypeOK
  <2>3. host'[n] = run[w].req
    BY <2>1 DEF CreateSucceeds, FaultAfterCreate, TypeOK
  <2> QED
    BY <2>2, <2>3, OwnerStays
<1> QED
  BY <1>1, <1>2

\* A record becomes Created from an execution that holds what is on the host.
LEMMA CreatedStep ==
    ASSUME SlotInv, [Next]_vars
    PROVE  CreatedIsHosted'
<1> USE OutsidersDistinct DEF SlotInv
<1> SUFFICES ASSUME NEW n \in Names, records'[n].status = "Created"
             PROVE  host'[n] # None /\ records'[n].repo = host'[n]
  BY DEF CreatedIsHosted
<1>1. CASE records'[n] = records[n]
  BY <1>1, HostStays DEF CreatedIsHosted
<1>2. CASE records'[n] # records[n]
  <2>1. PICK w \in Workers : (Save(w) \/ FaultAfterSave(w)) /\ n = NameOf(w)
    <3>1. PICK w \in Workers :
              \/ Save(w)
              \/ FaultAfterSave(w)
              \/ FaultAfterClaim(w)
              \/ \E repeated \in BOOLEAN : Claim(w, repeated)
      BY <1>2 DEF Next, vars, Begin, End, ForeignCreates, Execute, ClaimRefused, CreateSucceeds,
                  CreateRefused, FindAdopts, FindMisses, Fault, FaultAfterCreate
    <3>2. ASSUME FaultAfterClaim(w) \/ \E repeated \in BOOLEAN : Claim(w, repeated)
          PROVE  FALSE
      BY <1>2, <3>2 DEF FaultAfterClaim, Claim, ClaimOf, TypeOK
    <3>3. n = NameOf(w)
      BY <1>2, <3>1, <3>2 DEF Save, FaultAfterSave, TypeOK
    <3> QED
      BY <3>1, <3>2, <3>3
  <2>2. records'[n].repo = run[w].repo
    BY <1>2, <2>1 DEF Save, FaultAfterSave, MarkCreated, TypeOK
  <2>3. run[w].repo = host[n] /\ host[n] # None /\ host'[n] = host[n]
    BY <2>1 DEF Save, FaultAfterSave, ExecutionsInv
  <2> QED
    BY <2>2, <2>3
<1> QED
  BY <1>1, <1>2

THEOREM SlotInvHolds == Spec => []SlotInv
<1>1. Init => SlotInv
  BY ValueTypes, OutsidersDistinct DEF Init, SlotInv, TypeOK, Idle, ExecutionsInv, Claiming, SucceededInv,
     OwnRepositoryRecorded, CreatedIsHosted, NoRecord
<1>2. SlotInv /\ TypeOK' /\ [Next]_vars => SlotInv'
  BY ExecutionsStep, SucceededStep, OwnRepositoryStep, CreatedStep DEF SlotInv
<1> QED
  BY <1>1, <1>2, TypeCorrect, PTL DEF Spec

\* The platform never has a repository its inventory does not know of.
THEOREM RepositoriesAreRecorded == Spec => []OwnRepositoryRecorded
<1>1. SlotInv => OwnRepositoryRecorded
  BY DEF SlotInv
<1> QED
  BY <1>1, SlotInvHolds, PTL

\* A record in status Created points at the repository that is on the host.
THEOREM CreatedRecordsAreTrue == Spec => []CreatedIsHosted
<1>1. SlotInv => CreatedIsHosted
  BY DEF SlotInv
<1> QED
  BY <1>1, SlotInvHolds, PTL

\* Two requests never both succeed for one name.
THEOREM NamesHaveOneWinner == Spec => []OneWinnerPerName
<1>1. SlotInv => OneWinnerPerName
  BY DEF SlotInv, SucceededInv, OneWinnerPerName
<1> QED
  BY <1>1, SlotInvHolds, PTL

\* The condition of SaveCreatedAsync never fails.
THEOREM SavesAreNeverRefused == Spec => []SaveNeverRefused
<1>1. SlotInv => SaveNeverRefused
  BY DEF SlotInv, ExecutionsInv, Claiming, SaveNeverRefused
<1> QED
  BY <1>1, SlotInvHolds, PTL

----------------------------------------------------------------------------
(***************************************************************************)
(* How far AdoptsOnlyOwn, which does not hold, can fail: what a replayed   *)
(* claim adopts is an outsider's repository, never another request's.      *)
(***************************************************************************)

AdoptsOwnOrOutsiders ==
    \A n \in Names : records[n].status = "Created" => records[n].repo \in {records[n].owner, Foreign}

\* A Created record points at its owner's repository or at one from outside the
\* platform: CreateRepositoryUseCase never gives one team the repository of another.
THEOREM NeverAdoptsRivals == Spec => []AdoptsOwnOrOutsiders
<1>1. SlotInv => AdoptsOwnOrOutsiders
  <2> SUFFICES ASSUME SlotInv, NEW n \in Names, records[n].status = "Created"
               PROVE  records[n].repo \in {records[n].owner, Foreign}
    BY DEF AdoptsOwnOrOutsiders
  <2>1. host[n] # None /\ records[n].repo = host[n]
    BY DEF SlotInv, CreatedIsHosted
  <2>2. host[n] \in RequestIds \/ host[n] = Foreign
    BY <2>1 DEF SlotInv, TypeOK
  <2>3. host[n] \in RequestIds => records[n].owner = host[n]
    BY DEF SlotInv, OwnRepositoryRecorded
  <2> QED
    BY <2>1, <2>2, <2>3
<1> QED
  BY <1>1, SlotInvHolds, PTL

=============================================================================
