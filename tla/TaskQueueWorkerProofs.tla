------------------------ MODULE TaskQueueWorkerProofs ------------------------
(***************************************************************************)
(* What the worker loop guarantees for any number of pods and messages,    *)
(* any batch size and any maxReceiveCount.                                 *)
(***************************************************************************)
EXTENDS TaskQueueWorker, FiniteSetTheorems, TLAPS

\* What a pod knows when it is about to delete: the token was answered.
DeletingInv == \A p \in Pods : pod[p].stage \in Deleting => token[MsgOf(p)] \in Answered

\* Deliveries that wait in a batch are not dispatched yet and are in no other
\* batch; a delivery to come has a newer receipt than any of them.
BatchInv ==
    /\ \A p \in Pods : \A d \in pod[p].batch : d.receipt <= receives[d.msg] /\ d \notin handled
    /\ \A d \in handled : d.receipt <= receives[d.msg]
    /\ \A p, q \in Pods : p # q => pod[p].batch \cap pod[q].batch = {}

WorkerInv == TypeOK /\ DeletingInv /\ DeletionRule

LEMMA StoppedType == Stopped \in Pod /\ NoDelivery \notin Deliveries
  BY NoDeliveryDistinct DEF Stopped, Pod, Stages, NoDelivery, Deliveries

\* A step of a pod's loop preserves the types.
LEMMA WorkTypes ==
    ASSUME TypeOK, NEW p \in Pods, Work(p)
    PROVE  TypeOK'
<1> USE StoppedType, KindsKnown, LimitsPositive
    DEF TypeOK, Pod, Stages, Reporting, Deleting, Answered, Goto, NextMessage, HostStops
<1>0. pod[p].stage \in {"dispatch"} \cup Reporting \cup Deleting => MsgOf(p) \in Messages
  BY DEF Deliveries, MsgOf
<1>1. CASE Resolve(p)
  BY <1>1 DEF Resolve
<1>2. ASSUME NEW S \in SUBSET Messages, Deliver(S)
      PROVE  /\ queue' \in [Messages -> {"visible", "invisible", "deleted", "dead"}]
             /\ receives' \in [Messages -> 0..MaxReceive]
             /\ {[msg |-> m, receipt |-> receives[m] + 1] : m \in S} \subseteq Deliveries
  BY <1>2 DEF Deliver, Receivable, Deliveries
<1>3. ASSUME NEW S \in SUBSET Messages, Receive(p, S)
      PROVE  TypeOK'
  BY <1>2, <1>3 DEF Receive
<1>4. ASSUME NEW S \in SUBSET Messages, ReceiveLost(p, S)
      PROVE  TypeOK'
  BY <1>2, <1>4 DEF ReceiveLost
<1>5. CASE ReceiveThrows(p)
  BY <1>5 DEF ReceiveThrows, Stopped
<1>6. CASE Exit(p)
  BY <1>6 DEF Exit, Stopped
<1>7. ASSUME NEW d \in pod[p].batch, Skip(p, d)
      PROVE  TypeOK'
  BY <1>7 DEF Skip
<1>8. ASSUME NEW d \in pod[p].batch, Dispatch(p, d)
      PROVE  TypeOK'
  BY <1>8 DEF Dispatch
<1>9. CASE TaskSucceeds(p)
  BY <1>9 DEF TaskSucceeds
<1>10. CASE TaskFails(p)
  BY <1>10 DEF TaskFails
<1>11. CASE TaskThrows(p)
  BY <1>11 DEF TaskThrows
<1>12. CASE Report(p)
  BY <1>0, <1>12 DEF Report
<1>13. CASE ReportRefused(p)
  BY <1>13 DEF ReportRefused
<1>14. ASSUME NEW applied \in BOOLEAN, ReportLost(p, applied)
       PROVE  TypeOK'
  BY <1>0, <1>14 DEF ReportLost
<1>15. CASE Delete(p)
  BY <1>0, <1>15 DEF Delete, ApplyDelete
<1>16. CASE DeleteThrows(p)
  BY <1>0, <1>16 DEF DeleteThrows, ApplyDelete, Stopped
<1> QED
  BY <1>1, <1>3, <1>4, <1>5, <1>6, <1>7, <1>8, <1>9, <1>10, <1>11, <1>12, <1>13, <1>14, <1>15, <1>16
  DEF Work

\* So does a step of Kubernetes, SQS or Step Functions.
LEMMA EnvironmentTypes ==
    ASSUME TypeOK, Environment
    PROVE  TypeOK'
<1> USE StoppedType, LimitsPositive DEF TypeOK, Pod, Stages, Reporting, Deleting, Answered, HostStops
<1>1. ASSUME NEW p \in Pods, Shutdown(p)
      PROVE  TypeOK'
  BY <1>1 DEF Shutdown
<1>2. ASSUME NEW p \in Pods, Kill(p)
      PROVE  TypeOK'
  BY <1>2 DEF Kill, Stopped
<1>3. ASSUME NEW p \in Pods, Restart(p)
      PROVE  TypeOK'
  BY <1>3 DEF Restart
<1>4. ASSUME NEW m \in Messages, VisibilityLapses(m) \/ DeadLetter(m) \/ TokenTimesOut(m)
      PROVE  TypeOK'
  BY <1>4 DEF VisibilityLapses, DeadLetter, TokenTimesOut
<1> QED
  BY <1>1, <1>2, <1>3, <1>4 DEF Environment

\* Every variable keeps its type, and exactly the pods at an await of HandleAsync or
\* FailAsync have a message in hand.
THEOREM TypeCorrect == Spec => []TypeOK
<1>1. Init => TypeOK
  BY StoppedType, KindsKnown, LimitsPositive
  DEF Init, TypeOK, Pod, Stages, Stopped, Answered, Reporting, Deleting, Kinds
<1>2. TypeOK /\ [Next]_vars => TypeOK'
  BY WorkTypes, EnvironmentTypes DEF Next, vars, TypeOK
<1> QED
  BY <1>1, <1>2, PTL DEF Spec

\* The environment stops and starts pods and leaves them alone otherwise.
LEMMA EnvironmentPods ==
    ASSUME TypeOK, Environment, NEW p \in Pods
    PROVE  pod'[p] = pod[p] \/ pod'[p].stage \in {"stopped", "starting"}
<1> USE DEF TypeOK, Pod
<1>1. ASSUME NEW q \in Pods, Shutdown(q)
      PROVE  pod'[p] = pod[p]
  BY <1>1 DEF Shutdown
<1>2. ASSUME NEW q \in Pods, Kill(q)
      PROVE  pod'[p] = pod[p] \/ pod'[p].stage = "stopped"
  BY <1>2 DEF Kill, HostStops, Stopped
<1>3. ASSUME NEW q \in Pods, Restart(q)
      PROVE  pod'[p] = pod[p] \/ pod'[p].stage = "starting"
  BY <1>3 DEF Restart
<1>4. ASSUME NEW m \in Messages, VisibilityLapses(m) \/ DeadLetter(m) \/ TokenTimesOut(m)
      PROVE  pod'[p] = pod[p]
  BY <1>4 DEF VisibilityLapses, DeadLetter, TokenTimesOut
<1> QED
  BY <1>1, <1>2, <1>3, <1>4 DEF Environment

----------------------------------------------------------------------------
(***************************************************************************)
(* The deletion rule.                                                      *)
(***************************************************************************)

\* An answered token stays answered.
LEMMA AnswersStay ==
    ASSUME TypeOK, [Next]_vars, NEW m \in Messages, token[m] \in Answered
    PROVE  token'[m] \in Answered
<1>1. ASSUME NEW p \in Pods, Work(p)
      PROVE  token'[m] \in Answered
  BY <1>1 DEF TypeOK, Work, Resolve, Receive, ReceiveLost, ReceiveThrows, Exit, Skip, Dispatch, TaskSucceeds,
              TaskFails, TaskThrows, Report, ReportRefused, ReportLost, Delete, DeleteThrows, Answered
<1>2. CASE Environment
  BY <1>2 DEF TypeOK, Environment, Shutdown, Kill, Restart, VisibilityLapses, DeadLetter, TokenTimesOut, Answered
<1> QED
  BY <1>1, <1>2 DEF Next, vars

\* A pod comes to delete only by reporting.
LEMMA DeletingStep ==
    ASSUME WorkerInv, [Next]_vars
    PROVE  DeletingInv'
<1> USE DEF WorkerInv
<1> SUFFICES ASSUME NEW p \in Pods, pod'[p].stage \in Deleting
             PROVE  token'[MsgOf(p)'] \in Answered
  BY DEF DeletingInv
<1>1. CASE pod'[p] = pod[p]
  <2>1. MsgOf(p)' = MsgOf(p) /\ MsgOf(p) \in Messages
    BY <1>1 DEF MsgOf, TypeOK, Pod, Deliveries, Deleting
  <2> QED
    BY <1>1, <2>1, AnswersStay DEF DeletingInv
<1>2. CASE pod'[p] # pod[p]
  <2>1. ~ Environment
    BY <1>2, EnvironmentPods DEF Deleting
  <2>2. ASSUME NEW w \in Pods, Work(w), w # p
        PROVE  FALSE
    BY <1>2, <2>2 DEF TypeOK, Work, Resolve, Receive, ReceiveLost, ReceiveThrows, Exit, Skip, Dispatch,
                TaskSucceeds, TaskFails, TaskThrows, Report, ReportRefused, ReportLost, Delete, DeleteThrows,
                Goto, NextMessage, HostStops
  <2>3. Work(p)
    BY <1>2, <2>1, <2>2 DEF Next, vars
  <2>4. Report(p)
    <3> USE DEF TypeOK, Pod, Deleting
    <3>1. ~ (\E d \in pod[p].batch : Skip(p, d) \/ Dispatch(p, d))
      BY DEF Skip, Dispatch
    <3>2. ~ (\E S \in SUBSET Messages : Receive(p, S) \/ ReceiveLost(p, S))
      BY <1>2 DEF Receive, ReceiveLost
    <3>3. ~ (ReceiveThrows(p) \/ Exit(p))
      BY DEF ReceiveThrows, Exit, HostStops, Stopped
    <3>4. ~ (Resolve(p) \/ TaskSucceeds(p) \/ TaskFails(p))
      BY DEF Resolve, TaskSucceeds, TaskFails, Goto
    <3>5. ~ (TaskThrows(p) \/ ReportRefused(p) \/ \E applied \in BOOLEAN : ReportLost(p, applied))
      BY DEF TaskThrows, ReportRefused, ReportLost, NextMessage
    <3>6. ~ (Delete(p) \/ DeleteThrows(p))
      BY DEF Delete, DeleteThrows, NextMessage, HostStops, Stopped
    <3> QED
      BY <2>3, <3>1, <3>2, <3>3, <3>4, <3>5, <3>6 DEF Work
  <2> QED
    BY <2>4 DEF Report, Goto, MsgOf, TypeOK, Pod, Deliveries, Answered, Reporting
<1> QED
  BY <1>1, <1>2

\* Only a pod at Deleting removes a message.
LEMMA RuleStep ==
    ASSUME WorkerInv, [Next]_vars
    PROVE  DeletionRule'
<1> USE DEF WorkerInv
<1> SUFFICES ASSUME NEW m \in Messages, queue'[m] = "deleted"
             PROVE  token'[m] \in Answered
  BY DEF DeletionRule
<1>1. CASE queue[m] = "deleted"
  BY <1>1, AnswersStay DEF DeletionRule
<1>2. CASE queue[m] # "deleted"
  <2>1. PICK p \in Pods : (Delete(p) \/ DeleteThrows(p))
    BY <1>2 DEF TypeOK, Next, vars, Environment, Shutdown, Kill, Restart, VisibilityLapses, DeadLetter,
                TokenTimesOut, Work, Resolve, Receive, ReceiveLost, Deliver, ReceiveThrows, Exit, Skip, Dispatch,
                TaskSucceeds, TaskFails, TaskThrows, Report, ReportRefused, ReportLost
  <2>2. m = MsgOf(p) /\ pod[p].stage \in Deleting
    BY <1>2, <2>1 DEF TypeOK, Delete, DeleteThrows, ApplyDelete
  <2> QED
    BY <2>2, AnswersStay DEF DeletingInv
<1> QED
  BY <1>1, <1>2

\* A message is deleted only once its outcome has reached Step Functions.
THEOREM DeletionRuleHolds == Spec => []DeletionRule
<1>1. Init => DeletingInv /\ DeletionRule
  BY DEF Init, DeletingInv, DeletionRule, Stopped, Deleting
<1>2. WorkerInv /\ [Next]_vars => DeletingInv' /\ DeletionRule'
  BY DeletingStep, RuleStep
<1>3. Spec => [](DeletingInv /\ DeletionRule)
  BY <1>1, <1>2, TypeCorrect, PTL DEF Spec, WorkerInv
<1> QED
  BY <1>3, PTL

----------------------------------------------------------------------------
(***************************************************************************)
(* Deliveries.                                                             *)
(***************************************************************************)

LEMMA BatchStep ==
    ASSUME TypeOK, BatchInv, [Next]_vars
    PROVE  BatchInv'
<1> USE LimitsPositive DEF TypeOK, BatchInv, Pod, Deliveries
<1>1. ASSUME NEW p \in Pods, NEW S \in SUBSET Messages, Receive(p, S)
      PROVE  BatchInv'
  <2> DEFINE New == {[msg |-> m, receipt |-> receives[m] + 1] : m \in S}
  <2>1. \A m \in Messages :
            /\ receives'[m] \in Int /\ receives[m] <= receives'[m]
            /\ m \in S => receives'[m] = receives[m] + 1
    BY <1>1 DEF Receive, Deliver
  <2>2. \A d \in New : d.msg \in Messages /\ d.receipt = receives'[d.msg] /\ d.receipt > receives[d.msg]
    BY <2>1
  <2>3. \A q \in Pods : pod'[q].batch = IF q = p THEN New ELSE pod[q].batch
    BY <1>1 DEF Receive
  <2>4. \A d \in New : d \notin handled /\ \A q \in Pods : d \notin pod[q].batch
    BY <2>2
  <2>5. UNCHANGED handled
    BY <1>1 DEF Receive
  <2>6. \A q \in Pods : \A d \in pod'[q].batch : d.receipt <= receives'[d.msg] /\ d \notin handled'
    <3> SUFFICES ASSUME NEW q \in Pods, NEW d \in pod'[q].batch
                 PROVE  d.receipt <= receives'[d.msg] /\ d \notin handled'
      OBVIOUS
    <3>1. CASE q = p
      <4>1. d \in New
        BY <2>3, <3>1
      <4> HIDE DEF New
      <4> QED
        BY <2>1, <2>2, <2>4, <2>5, <4>1
    <3>2. CASE q # p
      <4>1. d \in pod[q].batch /\ d \in Deliveries
        BY <2>3, <3>2
      <4>2. receives'[d.msg] \in Int
        BY <4>1, <2>1, <1>1 DEF Receive, Deliver
      <4> QED
        BY <2>1, <2>5, <4>1, <4>2
    <3> QED
      BY <3>1, <3>2
  <2>7. \A d \in handled' : d.receipt <= receives'[d.msg]
    BY <2>1, <2>5, <1>1 DEF Receive, Deliver
  <2>8. \A q, r \in Pods : q # r => pod'[q].batch \cap pod'[r].batch = {}
    BY <2>3, <2>4
  <2> QED
    BY <2>6, <2>7, <2>8
<1>2. ASSUME NEW p \in Pods, NEW S \in SUBSET Messages, ReceiveLost(p, S)
      PROVE  BatchInv'
  <2>1. \A m \in Messages : receives[m] <= receives'[m] /\ receives'[m] \in Int
    BY <1>2 DEF ReceiveLost, Deliver
  <2> QED
    BY <1>2, <2>1 DEF ReceiveLost
<1>3. ASSUME NEW p \in Pods, NEW d \in pod[p].batch, Dispatch(p, d)
      PROVE  BatchInv'
  BY <1>3 DEF Dispatch
<1>4. ASSUME NEW p \in Pods, NEW d \in pod[p].batch, Skip(p, d)
      PROVE  BatchInv'
  BY <1>4 DEF Skip
<1>5. ASSUME UNCHANGED <<receives, handled>>,
             \A q \in Pods : pod'[q].batch \in {{}, pod[q].batch}
      PROVE  BatchInv'
  BY <1>5
<1>6. ASSUME NEW p \in Pods,
             \/ Resolve(p) \/ ReceiveThrows(p) \/ Exit(p) \/ TaskSucceeds(p) \/ TaskFails(p) \/ TaskThrows(p)
             \/ Report(p) \/ ReportRefused(p) \/ (\E applied \in BOOLEAN : ReportLost(p, applied))
             \/ Delete(p) \/ DeleteThrows(p) \/ Shutdown(p) \/ Kill(p) \/ Restart(p)
      PROVE  UNCHANGED <<receives, handled>> /\ \A q \in Pods : pod'[q].batch \in {{}, pod[q].batch}
  BY <1>6 DEF Resolve, ReceiveThrows, Exit, TaskSucceeds, TaskFails, TaskThrows, Report, ReportRefused,
              ReportLost, Delete, DeleteThrows, Shutdown, Kill, Restart, Goto, NextMessage, HostStops, Stopped
<1>7. ASSUME NEW m \in Messages, VisibilityLapses(m) \/ DeadLetter(m) \/ TokenTimesOut(m)
      PROVE  BatchInv'
  BY <1>7 DEF VisibilityLapses, DeadLetter, TokenTimesOut
<1>8. CASE UNCHANGED vars
  BY <1>8 DEF vars
<1> HIDE DEF BatchInv, TypeOK
<1> QED
  BY <1>1, <1>2, <1>3, <1>4, <1>5, <1>6, <1>7, <1>8 DEF Next, Work, Environment

\* A delivery is handed to the dispatcher at most once, by one pod.
THEOREM DeliveriesHandledOnce == Spec => DeliveryHandledOnce
<1>1. Init => BatchInv
  BY DEF Init, BatchInv, Stopped
<1>2. Spec => []BatchInv
  BY <1>1, BatchStep, TypeCorrect, PTL DEF Spec
<1> DEFINE Once == \A p \in Pods :
        (pod[p].stage # "dispatch" /\ pod'[p].stage = "dispatch") => pod'[p].current \notin handled
<1>3. TypeOK /\ BatchInv /\ [Next]_vars => [Once]_vars
  <2> SUFFICES ASSUME TypeOK, BatchInv, [Next]_vars, NEW p \in Pods,
                      pod[p].stage # "dispatch", pod'[p].stage = "dispatch"
               PROVE  pod'[p].current \notin handled
    OBVIOUS
  <2>1. PICK d \in pod[p].batch : Dispatch(p, d)
    <3>1. ~ Environment
      BY EnvironmentPods
    <3>2. ASSUME NEW w \in Pods, Work(w)
          PROVE  \E d \in pod[p].batch : Dispatch(p, d)
      <4> USE DEF TypeOK, Pod
      <4>1. ~ (\E S \in SUBSET Messages : Receive(w, S) \/ ReceiveLost(w, S))
        BY DEF Receive, ReceiveLost
      <4>2. ~ (ReceiveThrows(w) \/ Exit(w))
        BY DEF ReceiveThrows, Exit, HostStops, Stopped
      <4>3. ~ (Resolve(w) \/ TaskSucceeds(w) \/ TaskFails(w) \/ Report(w))
        BY DEF Resolve, TaskSucceeds, TaskFails, Report, Goto
      <4>4. ~ (TaskThrows(w) \/ ReportRefused(w) \/ \E applied \in BOOLEAN : ReportLost(w, applied))
        BY DEF TaskThrows, ReportRefused, ReportLost, NextMessage
      <4>5. ~ (Delete(w) \/ DeleteThrows(w))
        BY DEF Delete, DeleteThrows, NextMessage, HostStops, Stopped
      <4>6. ~ (\E d \in pod[w].batch : Skip(w, d))
        BY DEF Skip
      <4>7. PICK d \in pod[w].batch : Dispatch(w, d)
        BY <3>2, <4>1, <4>2, <4>3, <4>4, <4>5, <4>6 DEF Work
      <4>8. w = p
        BY <4>7 DEF Dispatch
      <4> QED
        BY <4>7, <4>8
    <3> QED
      BY <3>1, <3>2 DEF Next, vars
  <2> QED
    BY <2>1 DEF Dispatch, TypeOK, BatchInv
<1> QED
  BY <1>2, <1>3, TypeCorrect, PTL DEF Spec, DeliveryHandledOnce

----------------------------------------------------------------------------
(***************************************************************************)
(* How far HostSurvivesReports, which does not hold, can fail: at one of   *)
(* the four awaits of HandleAsync and FailAsync only.                      *)
(***************************************************************************)

HostStopsAtFailedDelete ==
    [][\A p \in Pods :
          /\ pod[p].stage \in Reporting \cup Deleting /\ pod'[p].stage = "stopped"
          /\ disruptions' = disruptions
          => pod[p].stage = "deleteFailed"]_vars

\* Only the delete that follows a failure report lets an exception out of
\* ExecuteAsync: both reports and the delete after a success survive every failure.
THEOREM OnlyFailedDeleteStops == Spec => HostStopsAtFailedDelete
<1> DEFINE Survives(p) ==
        /\ pod[p].stage \in Reporting \cup Deleting /\ pod'[p].stage = "stopped"
        /\ disruptions' = disruptions
        => pod[p].stage = "deleteFailed"
<1>1. TypeOK /\ [Next]_vars => [\A p \in Pods : Survives(p)]_vars
  <2> SUFFICES ASSUME TypeOK, Next, NEW p \in Pods
               PROVE  Survives(p)
    BY DEF vars
  <2> USE DEF TypeOK, Pod, Reporting, Deleting
  <2>1. ASSUME NEW q \in Pods, Shutdown(q) \/ Kill(q) \/ ReceiveThrows(q)
        PROVE  Survives(p)
    BY <2>1 DEF Shutdown, Kill, ReceiveThrows
  <2>2. ASSUME NEW m \in Messages, VisibilityLapses(m) \/ DeadLetter(m) \/ TokenTimesOut(m)
        PROVE  Survives(p)
    BY <2>2 DEF VisibilityLapses, DeadLetter, TokenTimesOut
  <2>3. ASSUME NEW q \in Pods,
               \/ Restart(q) \/ Resolve(q) \/ Exit(q) \/ TaskSucceeds(q) \/ TaskFails(q)
               \/ \E S \in SUBSET Messages : Receive(q, S) \/ ReceiveLost(q, S)
               \/ \E d \in pod[q].batch : Skip(q, d) \/ Dispatch(q, d)
        PROVE  Survives(p)
    BY <2>3 DEF Restart, Resolve, Exit, TaskSucceeds, TaskFails, Receive, ReceiveLost, Skip, Dispatch,
                Goto, HostStops, Stopped
  <2>4. ASSUME NEW q \in Pods,
               \/ TaskThrows(q) \/ Report(q) \/ ReportRefused(q)
               \/ (\E applied \in BOOLEAN : ReportLost(q, applied)) \/ Delete(q)
        PROVE  Survives(p)
    BY <2>4 DEF TaskThrows, Report, ReportRefused, ReportLost, Delete, Goto, NextMessage
  <2>5. ASSUME NEW q \in Pods, DeleteThrows(q)
        PROVE  Survives(p)
    BY <2>5 DEF DeleteThrows, NextMessage, HostStops, Stopped
  <2> QED
    BY <2>1, <2>2, <2>3, <2>4, <2>5 DEF Next, Work, Environment
<1> QED
  BY <1>1, TypeCorrect, PTL DEF Spec, HostStopsAtFailedDelete

----------------------------------------------------------------------------
(***************************************************************************)
(* The worker implements TaskDelivery.  What is new here: what a pod has   *)
(* in hand was dispatched, and it reports a success only for a task.       *)
(***************************************************************************)

InHandInv ==
    \A p \in Pods :
        /\ pod[p].stage \in {"dispatch"} \cup Reporting \cup Deleting => pod[p].current \in handled
        /\ pod[p].stage = "succeed" => Kind[MsgOf(p)] = "task"

\* Nothing malformed is ever dispatched.
HandledInv == \A d \in handled : Kind[d.msg] # "malformed"

LEMMA InHandWork ==
    ASSUME TypeOK, InHandInv, HandledInv, NEW p \in Pods, Work(p)
    PROVE  InHandInv' /\ HandledInv'
<1> USE DEF TypeOK, InHandInv, HandledInv
<1>1. ASSUME handled' = handled,
             \A q \in Pods :
                 \/ pod'[q].stage = pod[q].stage /\ pod'[q].current = pod[q].current
                 \/ pod'[q].stage \in {"loop", "stopped"}
                 \/ /\ pod'[q].current = pod[q].current
                    /\ pod[q].stage \in {"dispatch"} \cup Reporting
                    /\ pod'[q].stage = "succeed" => Kind[MsgOf(q)] = "task"
      PROVE  InHandInv' /\ HandledInv'
  BY <1>1 DEF MsgOf, Reporting, Deleting
<1>2. CASE \/ Resolve(p) \/ ReceiveThrows(p) \/ Exit(p) \/ TaskSucceeds(p) \/ TaskFails(p) \/ TaskThrows(p)
  BY <1>1, <1>2 DEF Resolve, ReceiveThrows, Exit, TaskSucceeds, TaskFails, TaskThrows, Goto, NextMessage,
                    HostStops, Stopped, Pod
<1>3. ASSUME NEW S \in SUBSET Messages, Receive(p, S) \/ ReceiveLost(p, S)
      PROVE  InHandInv' /\ HandledInv'
  BY <1>1, <1>3 DEF Receive, ReceiveLost, Pod
<1>4. ASSUME NEW d \in pod[p].batch, Skip(p, d)
      PROVE  InHandInv' /\ HandledInv'
  BY <1>1, <1>4 DEF Skip, Pod
<1>5. ASSUME NEW d \in pod[p].batch, Dispatch(p, d)
      PROVE  InHandInv' /\ HandledInv'
  BY <1>5 DEF Dispatch, Pod, MsgOf
<1>6. CASE Report(p) \/ ReportRefused(p) \/ \E applied \in BOOLEAN : ReportLost(p, applied)
  BY <1>1, <1>6 DEF Report, ReportRefused, ReportLost, Goto, NextMessage, Pod
<1>7. CASE Delete(p) \/ DeleteThrows(p)
  BY <1>1, <1>7 DEF Delete, DeleteThrows, NextMessage, HostStops, Stopped, Pod
<1> QED
  BY <1>2, <1>3, <1>4, <1>5, <1>6, <1>7 DEF Work

LEMMA InHandStep ==
    ASSUME TypeOK, InHandInv, HandledInv, [Next]_vars
    PROVE  InHandInv' /\ HandledInv'
<1>1. CASE Environment
  <2>1. handled' = handled
    BY <1>1 DEF Environment, Shutdown, Kill, Restart, VisibilityLapses, DeadLetter, TokenTimesOut
  <2>2. ASSUME NEW p \in Pods
        PROVE  pod'[p] = pod[p] \/ pod'[p].stage \in {"stopped", "starting"}
    BY <1>1, EnvironmentPods
  <2> QED
    BY <2>1, <2>2 DEF InHandInv, HandledInv, MsgOf, Reporting, Deleting
<1>2. CASE UNCHANGED vars
  BY <1>2 DEF vars, InHandInv, HandledInv, MsgOf
<1> QED
  BY <1>1, <1>2, InHandWork DEF Next

\* What a step of the worker may rely on.
TaskInv == TypeOK /\ DeletingInv /\ DeletionRule /\ BatchInv /\ InHandInv /\ HandledInv

\* A pod has in hand only what it dispatched, reports success only of a task, and
\* deletes only what was answered.
THEOREM HandsAreClean == Spec => []TaskInv
<1>1. Init => DeletingInv /\ DeletionRule /\ BatchInv /\ InHandInv /\ HandledInv
  BY DEF Init, DeletingInv, DeletionRule, BatchInv, InHandInv, HandledInv, Stopped, Deleting, Reporting
<1>2. /\ TypeOK /\ DeletingInv /\ DeletionRule /\ BatchInv /\ InHandInv /\ HandledInv /\ [Next]_vars
      => DeletingInv' /\ DeletionRule' /\ BatchInv' /\ InHandInv' /\ HandledInv'
  BY DeletingStep, RuleStep, BatchStep, InHandStep DEF WorkerInv
<1>3. TypeOK /\ DeletingInv /\ DeletionRule /\ BatchInv /\ InHandInv /\ HandledInv => TaskInv
  BY DEF TaskInv
<1> QED
  BY <1>1, <1>2, <1>3, TypeCorrect, PTL DEF Spec

\* The deliveries of one message are told apart by their receipts, of which there are
\* MaxReceive.
LEMMA RunsBounded ==
    ASSUME NEW H \in SUBSET Deliveries, NEW m \in Messages
    PROVE  /\ IsFiniteSet({d \in H : d.msg = m})
           /\ Cardinality({d \in H : d.msg = m}) \in Nat
           /\ Cardinality({d \in H : d.msg = m}) <= MaxReceive
<1> DEFINE D == {d \in H : d.msg = m}
           receiptOf == [d \in D |-> d.receipt]
<1>1. receiptOf \in [D -> 1..MaxReceive]
  BY DEF Deliveries
<1>2. \A d, e \in D : receiptOf[d] = receiptOf[e] => d = e
  BY DEF Deliveries
<1>3. MaxReceive \in Int /\ 1 \in Int /\ MaxReceive >= 1
  BY LimitsPositive
<1>4. IsFiniteSet(1..MaxReceive) /\ Cardinality(1..MaxReceive) = MaxReceive
  <2>1. Cardinality(1..MaxReceive) = IF 1 > MaxReceive THEN 0 ELSE MaxReceive - 1 + 1
    BY <1>3, FS_Interval
  <2>2. IsFiniteSet(1..MaxReceive)
    BY <1>3, FS_Interval
  <2> QED
    BY <2>1, <2>2, <1>3
<1> HIDE DEF receiptOf, D
<1>5. receiptOf \in Injection(D, 1..MaxReceive)
  BY <1>1, <1>2 DEF Injection, IsInjective
<1>6. IsFiniteSet(D) /\ Cardinality(D) <= Cardinality(1..MaxReceive)
  BY <1>4, <1>5, FS_Injection
<1>7. Cardinality(D) \in Nat
  BY <1>6, FS_CardinalityType
<1> QED
  BY <1>4, <1>6, <1>7 DEF D

TaskVars == <<token, Runs, Fate>>

TaskStep == [Task!Next]_TaskVars

\* A dispatched delivery is one more execution of its task, within the bound.
LEMMA DispatchBegins ==
    ASSUME TaskInv, NEW p \in Pods, NEW d \in pod[p].batch, Dispatch(p, d)
    PROVE  TaskStep
<1> DEFINE m == d.msg
<1>1. d \in Deliveries /\ m \in Messages /\ d \notin handled /\ Kind[m] # "malformed"
  BY DEF TaskInv, TypeOK, Pod, Deliveries, BatchInv, Dispatch
<1>2. handled' = handled \cup {d} /\ token' = token /\ Fate' = Fate
  BY DEF Dispatch, Fate
<1>3. handled \in SUBSET Deliveries /\ handled' \in SUBSET Deliveries
  BY <1>1, <1>2 DEF TaskInv, TypeOK
<1>4. {e \in handled' : e.msg = m} = {e \in handled : e.msg = m} \cup {d}
  BY <1>2
<1>5. /\ Cardinality({e \in handled' : e.msg = m}) = Cardinality({e \in handled : e.msg = m}) + 1
      /\ Cardinality({e \in handled : e.msg = m}) \in Nat
  <2> DEFINE H == {e \in handled : e.msg = m}
  <2>1. IsFiniteSet(H) /\ Cardinality(H) \in Nat
    BY <1>1, <1>3, RunsBounded
  <2>2. d \notin H
    BY <1>1
  <2> HIDE DEF H
  <2>3. Cardinality(H \cup {d}) = Cardinality(H) + 1
    BY <2>1, <2>2, FS_AddElement
  <2> QED
    BY <1>4, <2>1, <2>3 DEF H
<1>6. Cardinality({e \in handled' : e.msg = m}) <= MaxReceive
  BY <1>1, <1>3, RunsBounded
<1>7. \A n \in Messages \ {m} : {e \in handled' : e.msg = n} = {e \in handled : e.msg = n}
  BY <1>2
<1>8. Runs' = [Runs EXCEPT ![m] = @ + 1]
  BY <1>1, <1>5, <1>7 DEF Runs
<1>9. Runs[m] < MaxReceive
  <2> DEFINE n == Cardinality({e \in handled : e.msg = m})
             k == Cardinality({e \in handled' : e.msg = m})
  <2>1. Runs[m] = n /\ n \in Nat /\ k = n + 1 /\ k <= MaxReceive /\ MaxReceive \in Nat
    BY <1>1, <1>5, <1>6, LimitsPositive DEF Runs
  <2> HIDE DEF n, k
  <2> QED
    BY <2>1
<1>10. Task!Begin(m)
  BY <1>1, <1>2, <1>8, <1>9 DEF Task!Begin
<1> QED
  BY <1>1, <1>10 DEF TaskStep, Task!Next

\* A task that is reported on was begun.
LEMMA ReportedWasBegun ==
    ASSUME TaskInv, NEW p \in Pods, pod[p].stage \in Reporting \cup Deleting
    PROVE  MsgOf(p) \in Messages /\ Runs[MsgOf(p)] > 0 /\ Kind[MsgOf(p)] # "malformed"
<1>1. pod[p].current \in handled /\ pod[p].current \in Deliveries /\ MsgOf(p) \in Messages
  BY DEF TaskInv, InHandInv, TypeOK, Deliveries, MsgOf
<1>2. Kind[MsgOf(p)] # "malformed"
  BY <1>1 DEF TaskInv, HandledInv, MsgOf
<1> DEFINE D == {d \in handled : d.msg = MsgOf(p)}
<1>3. IsFiniteSet(D) /\ Cardinality(D) \in Nat
  BY <1>1, RunsBounded DEF TaskInv, TypeOK
<1>4. D # {}
  BY <1>1 DEF MsgOf
<1>5. Cardinality(D) > 0
  <2>1. Cardinality(D) # 0
    BY <1>3, <1>4, FS_EmptySet
  <2> HIDE DEF D
  <2> QED
    BY <1>3, <2>1
<1>6. Runs[MsgOf(p)] = Cardinality(D)
  BY <1>1 DEF Runs
<1> QED
  BY <1>1, <1>2, <1>5, <1>6

\* A report that takes effect tells the outcome of a task that was begun.
LEMMA ReportTells ==
    ASSUME TaskInv, NEW p \in Pods, pod[p].stage \in Reporting, token[MsgOf(p)] = "waiting",
           token' = [token EXCEPT ![MsgOf(p)] = IF pod[p].stage = "succeed" THEN "succeeded" ELSE "failed"],
           handled' = handled, queue' = queue
    PROVE  TaskStep
<1> DEFINE m == MsgOf(p)
           outcome == IF pod[p].stage = "succeed" THEN "succeeded" ELSE "failed"
<1>1. m \in Messages /\ Runs[m] > 0
  BY ReportedWasBegun
<1>2. Runs' = Runs /\ Fate' = Fate
  BY DEF Runs, Fate
<1>3. outcome = "succeeded" => Kind[m] = "task"
  BY DEF TaskInv, InHandInv
<1>4. Task!Tell(m, outcome)
  BY <1>1, <1>2, <1>3 DEF Task!Tell
<1> QED
  BY <1>1, <1>4 DEF TaskStep, Task!Next

\* DeleteMessage removes a message whose token was answered, or nothing.
LEMMA DeleteRemoves ==
    ASSUME TaskInv, NEW p \in Pods, pod[p].stage \in Deleting, ApplyDelete(p) \/ queue' = queue,
           token' = token, handled' = handled
    PROVE  TaskStep
<1> DEFINE m == MsgOf(p)
<1>1. m \in Messages /\ token[m] \in Answered
  BY ReportedWasBegun DEF TaskInv, DeletingInv
<1>2. Runs' = Runs
  BY DEF Runs
<1>3. CASE queue' = queue
  BY <1>2, <1>3 DEF TaskStep, TaskVars, Fate
<1>4. CASE queue[m] \in {"visible", "invisible"} /\ queue' = [queue EXCEPT ![m] = "deleted"]
  <2>1. Fate[m] = "pending" /\ Fate' = [Fate EXCEPT ![m] = "deleted"]
    BY <1>1, <1>4 DEF Fate, TaskInv, TypeOK
  <2>2. Task!Remove(m)
    BY <1>1, <1>2, <2>1 DEF Task!Remove, Answered
  <2> QED
    BY <1>1, <2>2 DEF TaskStep, Task!Next
<1> QED
  BY <1>3, <1>4 DEF ApplyDelete

\* Hiding messages from other pods, or showing them again, is no change.
LEMMA HidingIsSilent ==
    ASSUME token' = token, handled' = handled, TaskInv,
           \A m \in Messages : \/ queue'[m] = queue[m]
                               \/ {queue[m], queue'[m]} \subseteq {"visible", "invisible"}
    PROVE  TaskStep
<1>1. Fate' = Fate
  <2>1. \A m \in Messages : queue'[m] \in {"deleted", "dead"} \/ queue[m] \in {"deleted", "dead"}
                                => queue'[m] = queue[m]
    OBVIOUS
  <2> QED
    BY <2>1 DEF Fate
<1> QED
  BY <1>1 DEF TaskStep, TaskVars, Runs

LEMMA WorkDelivers ==
    ASSUME TaskInv, NEW p \in Pods, Work(p)
    PROVE  TaskStep
<1>1. ASSUME NEW S \in SUBSET Messages, Receive(p, S) \/ ReceiveLost(p, S)
      PROVE  TaskStep
  <2>1. /\ token' = token /\ handled' = handled
        /\ S \subseteq Receivable /\ queue' = [m \in Messages |-> IF m \in S THEN "invisible" ELSE queue[m]]
    BY <1>1 DEF Receive, ReceiveLost, Deliver
  <2>2. \A m \in Messages : \/ queue'[m] = queue[m]
                            \/ {queue[m], queue'[m]} \subseteq {"visible", "invisible"}
    BY <2>1 DEF Receivable
  <2> QED
    BY <2>1, <2>2, HidingIsSilent
<1>2. ASSUME NEW d \in pod[p].batch, Dispatch(p, d)
      PROVE  TaskStep
  BY <1>2, DispatchBegins
<1>3. CASE Report(p)
  BY <1>3, ReportTells DEF Report
<1>4. ASSUME NEW applied \in BOOLEAN, ReportLost(p, applied)
      PROVE  TaskStep
  <2>1. CASE applied /\ token[MsgOf(p)] = "waiting"
    BY <1>4, <2>1, ReportTells DEF ReportLost
  <2>2. CASE ~(applied /\ token[MsgOf(p)] = "waiting")
    BY <1>4, <2>2, HidingIsSilent DEF ReportLost
  <2> QED
    BY <2>1, <2>2
<1>5. CASE Delete(p) \/ DeleteThrows(p)
  BY <1>5, DeleteRemoves DEF Delete, DeleteThrows
<1>6. ASSUME \/ Resolve(p) \/ ReceiveThrows(p) \/ Exit(p) \/ TaskSucceeds(p) \/ TaskFails(p) \/ TaskThrows(p)
             \/ ReportRefused(p) \/ \E d \in pod[p].batch : Skip(p, d)
      PROVE  TaskStep
  <2>1. token' = token /\ handled' = handled /\ queue' = queue
    BY <1>6 DEF Resolve, ReceiveThrows, Exit, TaskSucceeds, TaskFails, TaskThrows, ReportRefused, Skip
  <2> QED
    BY <2>1, HidingIsSilent
<1> QED
  BY <1>1, <1>2, <1>3, <1>4, <1>5, <1>6 DEF Work

LEMMA EnvironmentDelivers ==
    ASSUME TaskInv, Environment
    PROVE  TaskStep
<1>1. ASSUME NEW p \in Pods, Shutdown(p) \/ Kill(p) \/ Restart(p)
      PROVE  TaskStep
  <2>1. token' = token /\ handled' = handled /\ queue' = queue
    BY <1>1 DEF Shutdown, Kill, Restart
  <2> QED
    BY <2>1, HidingIsSilent
<1>2. ASSUME NEW m \in Messages, VisibilityLapses(m)
      PROVE  TaskStep
  <2>1. token' = token /\ handled' = handled /\ queue[m] = "invisible"
        /\ queue' = [queue EXCEPT ![m] = "visible"]
    BY <1>2 DEF VisibilityLapses
  <2>2. \A n \in Messages : \/ queue'[n] = queue[n]
                            \/ {queue[n], queue'[n]} \subseteq {"visible", "invisible"}
    BY <2>1 DEF TaskInv, TypeOK
  <2> QED
    BY <2>1, <2>2, HidingIsSilent
<1>3. ASSUME NEW m \in Messages, DeadLetter(m)
      PROVE  TaskStep
  <2>1. Fate[m] = "pending" /\ Fate' = [Fate EXCEPT ![m] = "dead"]
    BY <1>3 DEF DeadLetter, Fate, TaskInv, TypeOK
  <2>2. Task!SetAside(m)
    BY <1>3, <2>1 DEF DeadLetter, Runs, Task!SetAside
  <2> QED
    BY <2>2 DEF TaskStep, Task!Next
<1>4. ASSUME NEW m \in Messages, TokenTimesOut(m)
      PROVE  TaskStep
  <2>1. Task!GiveUp(m)
    BY <1>4 DEF TokenTimesOut, Runs, Fate, Task!GiveUp
  <2> QED
    BY <2>1 DEF TaskStep, Task!Next
<1> QED
  BY <1>1, <1>2, <1>3, <1>4 DEF Environment

\* The worker keeps its promise to the state machine, for any number of pods and
\* messages, any batch size and any maxReceiveCount.
THEOREM TaskDeliveryImplemented == Spec => ImplementsTaskDelivery
<1>1. Init => Task!Init
  <2> SUFFICES ASSUME Init
               PROVE  Task!Init
    OBVIOUS
  <2>1. \A m \in Messages : {d \in handled : d.msg = m} = {}
    BY DEF Init
  <2>2. Runs = [m \in Messages |-> 0]
    BY <2>1, FS_EmptySet DEF Runs
  <2>3. Fate = [m \in Messages |-> "pending"]
    BY DEF Init, Fate
  <2> QED
    BY <2>2, <2>3 DEF Init, Task!Init
<1>2. TaskInv /\ [Next]_vars => [Task!Next]_<<token, Runs, Fate>>
  <2> SUFFICES ASSUME TaskInv, [Next]_vars
               PROVE  TaskStep
    BY DEF TaskStep, TaskVars
  <2>1. CASE UNCHANGED vars
    BY <2>1 DEF vars, TaskStep, TaskVars, Runs, Fate
  <2> QED
    BY <2>1, WorkDelivers, EnvironmentDelivers DEF Next
<1> QED
  BY <1>1, <1>2, HandsAreClean, PTL DEF Spec, ImplementsTaskDelivery, Task!Spec

=============================================================================
