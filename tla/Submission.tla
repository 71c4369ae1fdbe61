----------------------------- MODULE Submission -----------------------------
(***************************************************************************)
(* What POST /v1/provision promises its clients.  A request is answered    *)
(* once, for good: it is accepted, refused, or given the answer an earlier *)
(* request got.  One key is accepted once, and once more each time Redis   *)
(* forgot it.                                                              *)
(***************************************************************************)
EXTENDS Integers, FiniteSets

CONSTANTS
    Requests,
    Keys,
    NoKey,       \* asked without a key: every request stands for itself
    Bodies,
    None

VARIABLES
    asked,       \* key and body of each request
    answer,      \* what each client was told, by whose work, and whether again
    accepted,    \* requests handed to the provisioning queue and reported so
    losses       \* per key, how often it was forgotten

Unasked == [key |-> None, body |-> None]

Unanswered == [status |-> 0, from |-> None, replay |-> FALSE]

AcceptedUnder(k) == {r \in accepted : asked[r].key = k}

Tell(r, status) == answer' = [answer EXCEPT ![r] = [status |-> status, from |-> r, replay |-> FALSE]]

Init ==
    /\ asked = [r \in Requests |-> Unasked]
    /\ answer = [r \in Requests |-> Unanswered]
    /\ accepted = {}
    /\ losses = [k \in Keys |-> 0]

\* A client asks; what it asked never changes.
Ask(r, k, b) ==
    /\ asked[r] = Unasked
    /\ answer[r] = Unanswered
    /\ asked' = [asked EXCEPT ![r] = [key |-> k, body |-> b]]
    /\ UNCHANGED <<answer, accepted, losses>>

\* The request is queued and its client told so: at most once per key, unless the
\* key was forgotten.
Accept(r) ==
    /\ asked[r] # Unasked
    /\ answer[r] = Unanswered
    /\ r \notin accepted
    /\ \A k \in Keys : asked[r].key = k => Cardinality(AcceptedUnder(k)) <= losses[k]
    /\ accepted' = accepted \cup {r}
    /\ Tell(r, 202)
    /\ UNCHANGED <<asked, losses>>

\* The same key was used for another body.
Conflicting(r) ==
    \E o \in Requests : asked[o].key = asked[r].key /\ asked[o].body # asked[r].body

\* The request fails or is turned down, and nothing was accepted for it.  Its key may
\* be forgotten on the way.
Refuse(r, status) ==
    /\ answer[r] = Unanswered
    /\ r \notin accepted
    /\ status = 422 => Conflicting(r)
    /\ Tell(r, status)
    /\ \/ UNCHANGED losses
       \/ \E k \in Keys : asked[r].key = k /\ losses' = [losses EXCEPT ![k] = @ + 1]
    /\ UNCHANGED <<asked, accepted>>

\* The client gets the answer `original` got under the same key.  A failure is never
\* repeated, and the answer fits the body unless the key was forgotten.
Replay(r, original) ==
    /\ answer[r] = Unanswered
    /\ answer[original].status \in {202, 400}
    /\ answer[original].from = original
    /\ asked[original].key = asked[r].key
    /\ asked[r].key \in Keys
    /\ losses[asked[r].key] = 0 => asked[original] = asked[r]
    /\ answer' = [answer EXCEPT ![r] =
          [status |-> answer[original].status, from |-> original, replay |-> TRUE]]
    /\ UNCHANGED <<asked, accepted, losses>>

\* Redis forgets what it holds under a key.
Forget(k) ==
    /\ losses' = [losses EXCEPT ![k] = @ + 1]
    /\ UNCHANGED <<asked, answer, accepted>>

Next ==
    \/ \E r \in Requests :
          \/ \E k \in Keys \cup {NoKey}, b \in Bodies : Ask(r, k, b)
          \/ Accept(r)
          \/ \E status \in {400, 409, 422, 500} : Refuse(r, status)
          \/ \E original \in Requests : Replay(r, original)
    \/ \E k \in Keys : Forget(k)

Spec == Init /\ [][Next]_<<asked, answer, accepted, losses>>
=============================================================================
