--------------------------- MODULE MCIdempotency ---------------------------
(* Constants of the TLC runs of Idempotency: three requests, so that an owner,
   a rival and a late retry can meet on one key. *)
EXTENDS Idempotency, TLC

CONSTANTS r1, r2, r3, k1, good, bad

\* Fault sets.  A disconnect makes Redis and SQS calls fail, which the faults
\* "redis" and "publish" do already, so the run with three requests leaves it out.
ServerFaults == FaultKinds \ {"disconnect"}
RedisAnswers == FaultKinds \ {"redis"}
OnlyLoss == {"loss"}
OnlyUnconfirmed == {"unconfirmed"}

TwoRequests == {r1, r2}
RequestSet == {r1, r2, r3}
KeySet == {k1}
BodySet == {good, bad}
ValidSet == {good}

Symmetric == Permutations(RequestSet)
=============================================================================
