---------------------------- MODULE TaskDelivery ----------------------------
(***************************************************************************)
(* What the worker promises the state machine that queued a task.  The     *)
(* task is executed a bounded number of times; its token is answered at    *)
(* most once, only after an execution, and never with a success for what   *)
(* could not be carried out; its message is removed only once the token    *)
(* was answered, or is set aside.                                          *)
(***************************************************************************)
EXTENDS Integers

CONSTANTS
    Messages,
    Kind,        \* what each message carries: "malformed", "unservable" or a "task"
    MaxRuns

VARIABLES
    answer,      \* the task token of each message
    runs,        \* how often its task was begun
    fate         \* "pending", "deleted" or "dead"

Init ==
    /\ answer = [m \in Messages |-> IF Kind[m] = "malformed" THEN "none" ELSE "waiting"]
    /\ runs = [m \in Messages |-> 0]
    /\ fate = [m \in Messages |-> "pending"]

\* The task is begun, for the first time or again, maybe after it was answered.
Begin(m) ==
    /\ Kind[m] # "malformed"
    /\ runs[m] < MaxRuns
    /\ runs' = [runs EXCEPT ![m] = @ + 1]
    /\ UNCHANGED <<answer, fate>>

Tell(m, outcome) ==
    /\ answer[m] = "waiting"
    /\ runs[m] > 0
    /\ outcome = "succeeded" => Kind[m] = "task"
    /\ answer' = [answer EXCEPT ![m] = outcome]
    /\ UNCHANGED <<runs, fate>>

\* The state machine gives up waiting.
GiveUp(m) ==
    /\ answer[m] = "waiting"
    /\ answer' = [answer EXCEPT ![m] = "timedOut"]
    /\ UNCHANGED <<runs, fate>>

Remove(m) ==
    /\ fate[m] = "pending"
    /\ answer[m] \in {"succeeded", "failed"}
    /\ fate' = [fate EXCEPT ![m] = "deleted"]
    /\ UNCHANGED <<answer, runs>>

SetAside(m) ==
    /\ fate[m] = "pending"
    /\ fate' = [fate EXCEPT ![m] = "dead"]
    /\ UNCHANGED <<answer, runs>>

Next ==
    \E m \in Messages :
        \/ Begin(m)
        \/ \E outcome \in {"succeeded", "failed"} : Tell(m, outcome)
        \/ GiveUp(m)
        \/ Remove(m)
        \/ SetAside(m)

Spec == Init /\ [][Next]_<<answer, runs, fate>>
=============================================================================
