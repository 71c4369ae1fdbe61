------------------------- MODULE MCTaskQueueWorker -------------------------
(* Constants of the TLC runs of TaskQueueWorker: the two pods of a rollout, a
   message that carries a task and one that is skipped. *)
EXTENDS TaskQueueWorker, TLC

CONSTANTS p1, p2, m1, m2

PodSet == {p1, p2}
OneMessage == {m1}
MessageSet == {m1, m2}
KindOf == (m1 :> "task") @@ (m2 :> "malformed")
OneKind == m1 :> "task"
=============================================================================
