------------------------- MODULE MCScaffoldWorkflow -------------------------
(* Constants of the TLC run of ScaffoldWorkflow: two requests that want one
   name; two workers, so that a request can meet its own redelivery or its
   rival. *)
EXTENDS ScaffoldWorkflow, TLC

CONSTANTS w1, w2, q1, q2, n1

WorkerSet == {w1, w2}
RequestSet == {q1, q2}
NameSet == {n1}
WantsSame == (q1 :> n1) @@ (q2 :> n1)

Symmetric == Permutations(WorkerSet) \cup Permutations(RequestSet)
=============================================================================
