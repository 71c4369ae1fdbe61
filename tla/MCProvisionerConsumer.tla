----------------------- MODULE MCProvisionerConsumer -----------------------
(* Constants of the TLC runs of ProvisionerConsumer: the two pods of a rollout, a
   request with a resource and a message without a template. *)
EXTENDS ProvisionerConsumer, TLC

CONSTANTS c1, c2, m1, m2

ConsumerSet == {c1, c2}
MessageSet == {m1, m2}
BodyOf ==
    (m1 :> [filled |-> Required, resources |-> 1])
    @@ (m2 :> [filled |-> Required \ {"template"}, resources |-> 0])
TopicOrder == <<m2, m1>>
=============================================================================
