------------------------- MODULE MCCreateRepository -------------------------
(* Constants of the TLC runs of CreateRepository: three workers, so that a
   request can meet its own redelivery and a rival request; two requests for
   one name, a third for another and a fourth whose name does not parse. *)
EXTENDS CreateRepository, TLC

CONSTANTS w1, w2, w3, q1, q2, q3, q4, n1, n2

WorkerSet == {w1, w2, w3}
RequestSet == {q1, q2, q3, q4}
NameSet == {n1, n2}
WantsSame == (q1 :> n1) @@ (q2 :> n1) @@ (q3 :> n2) @@ (q4 :> None)

Symmetric == Permutations(WorkerSet)
=============================================================================
