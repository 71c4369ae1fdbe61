---------------------------- MODULE GitHubClient ----------------------------
(***************************************************************************)
(* The cached GitHub client of a scaffolder pod                            *)
(* (GitHubAppClientFactory.cs).  GetClientAsync looks at the cache without *)
(* a lock, then once more under a gate, and mints an installation token    *)
(* only if the second look says so.  client and tokenExpiresAt are two     *)
(* fields, read outside the gate while they are being written inside it:   *)
(* each access is a step of its own, in program order (what the runtime    *)
(* gives on the amd64 nodes of the cluster).                               *)
(*                                                                         *)
(* A client stands for its token, and a token for the moment it expires.   *)
(* Time is counted in ticks; 0 is default(DateTimeOffset).  GitHub and     *)
(* Secrets Manager are external: a call to either succeeds or fails.       *)
(***************************************************************************)
EXTENDS Integers, Sequences

CONSTANTS
    Callers,      \* tasks that ask for a client
    Lifetime,     \* of an installation token
    RenewBefore,  \* how long before the end it is renewed
    MaxNow,       \* bound on the clock
    None

ASSUME TimesPositive ==
    Lifetime \in Nat /\ RenewBefore \in Nat /\ MaxNow \in Nat /\ 0 < RenewBefore /\ RenewBefore < Lifetime
ASSUME NoneIsNoCaller == None \notin Callers

VARIABLES
    now,
    secret,          \* Secrets Manager: what the secret holds
    privateKeyPem,   \* the cached key
    client,          \* the cached client, 0 for null
    tokenExpiresAt,
    gate,            \* SemaphoreSlim(1, 1): who is inside
    waiters,         \* its queue, first come first served
    call             \* each caller's call of GetClientAsync

fields == <<privateKeyPem, client, tokenExpiresAt>>
vars == <<now, secret, fields, gate, waiters, call>>

----------------------------------------------------------------------------
(* Values *)

\* "broken": it holds a PEM header but is no private key, truncated or of another kind;
\* "unusable": it does not even hold the header.
Secrets == {"pem", "broken", "unusable"}

Moments == 0..(MaxNow + Lifetime)

\* Inside the gate, in the order of the code.
Inside == {"recheck", "key", "mint", "publish", "stamp"}

Stages == {"idle", "look", "compare", "take", "wait", "returned", "threw"} \cup Inside

\* asked: the clock when the call began; token: the token just minted; result: the
\* client returned.
Call == [stage : Stages, asked : 0..MaxNow, token : Moments, result : Moments]

NoCall == [stage |-> "idle", asked |-> 0, token |-> 0, result |-> 0]

\* The condition of both looks, once the client is known not to be null.
NotDue(expires) == now < expires - RenewBefore

Goto(c, stage) == call' = [call EXCEPT ![c].stage = stage]

Return(c, result) ==
    call' = [call EXCEPT ![c].stage = "returned", ![c].token = 0, ![c].result = result]

\* gate.Release hands the gate to the first waiter, if there is one.
Release ==
    IF waiters = <<>>
    THEN gate' = None /\ UNCHANGED waiters
    ELSE gate' = Head(waiters) /\ waiters' = Tail(waiters)

----------------------------------------------------------------------------
(* GetClientAsync *)

Ask(c) ==
    /\ call[c].stage = "idle"
    /\ call' = [call EXCEPT ![c] = [NoCall EXCEPT !.stage = "look", !.asked = now]]
    /\ UNCHANGED <<now, secret, fields, gate, waiters>>

\* The first look: is there a client ...
Look(c) ==
    /\ call[c].stage = "look" /\ client # 0
    /\ Goto(c, "compare")
    /\ UNCHANGED <<now, secret, fields, gate, waiters>>

\* ... when does its token expire ...
Compare(c) ==
    /\ call[c].stage = "compare"
    /\ tokenExpiresAt # 0 /\ NotDue(tokenExpiresAt)
    /\ Goto(c, "take")
    /\ UNCHANGED <<now, secret, fields, gate, waiters>>

\* ... and the field again, for the return.
Take(c) ==
    /\ call[c].stage = "take"
    /\ Return(c, client)
    /\ UNCHANGED <<now, secret, fields, gate, waiters>>

\* The first client is in place but its expiry is not: subtracting from
\* default(DateTimeOffset) throws.
CompareThrows(c) ==
    /\ call[c].stage = "compare" /\ tokenExpiresAt = 0
    /\ Goto(c, "threw")
    /\ UNCHANGED <<now, secret, fields, gate, waiters>>

\* No client, or one that is due.
NeedsGate(c) ==
    \/ call[c].stage = "look" /\ client = 0
    \/ call[c].stage = "compare" /\ tokenExpiresAt # 0 /\ ~NotDue(tokenExpiresAt)

\* gate.WaitAsync.
Wait(c) ==
    /\ NeedsGate(c)
    /\ Goto(c, "wait")
    /\ IF gate = None
       THEN gate' = c /\ UNCHANGED waiters
       ELSE waiters' = Append(waiters, c) /\ UNCHANGED gate
    /\ UNCHANGED <<now, secret, fields>>

Enter(c) ==
    /\ call[c].stage = "wait" /\ gate = c
    /\ Goto(c, "recheck")
    /\ UNCHANGED <<now, secret, fields, gate, waiters>>

\* The second look: somebody else minted in the meantime.
Recheck(c) ==
    /\ call[c].stage = "recheck"
    /\ client # 0 /\ NotDue(tokenExpiresAt)
    /\ Return(c, client)
    /\ Release
    /\ UNCHANGED <<now, secret, fields>>

\* Mutant: the gate is enough, the second look is left out.
RenewUnchecked(c) ==
    /\ call[c].stage = "recheck"
    /\ Goto(c, "key")
    /\ UNCHANGED <<now, secret, fields, gate, waiters>>

Renew(c) ==
    /\ call[c].stage = "recheck"
    /\ ~(client # 0 /\ NotDue(tokenExpiresAt))
    /\ Goto(c, "key")
    /\ UNCHANGED <<now, secret, fields, gate, waiters>>

\* GetPrivateKeyAsync has the key already ...
KeyCached(c) ==
    /\ call[c].stage = "key" /\ privateKeyPem # None
    /\ Goto(c, "mint")
    /\ UNCHANGED <<now, secret, fields, gate, waiters>>

\* Mutant: the secret is kept before it is looked at.
KeyReadUnchecked(c) ==
    /\ call[c].stage = "key" /\ privateKeyPem = None
    /\ privateKeyPem' = secret
    /\ Goto(c, "mint")
    /\ UNCHANGED <<now, secret, client, tokenExpiresAt, gate, waiters>>

\* ... or reads it and, if it holds a PEM header, keeps it for the life of the pod.
KeyRead(c) ==
    /\ call[c].stage = "key" /\ privateKeyPem = None
    /\ secret # "unusable"
    /\ privateKeyPem' = secret
    /\ Goto(c, "mint")
    /\ UNCHANGED <<now, secret, client, tokenExpiresAt, gate, waiters>>

\* The key signs the JWT, and GitHub issues a token for the organization's installation.
Mint(c) ==
    /\ call[c].stage = "mint" /\ privateKeyPem = "pem"
    /\ call' = [call EXCEPT ![c].stage = "publish", ![c].token = now + Lifetime]
    /\ UNCHANGED <<now, secret, fields, gate, waiters>>

\* Mutant: the gate is released after a success only.
FailHoldsGate(c) ==
    /\ \/ call[c].stage = "key" /\ privateKeyPem = None
       \/ call[c].stage = "mint"
    /\ Goto(c, "threw")
    /\ UNCHANGED <<now, secret, fields, gate, waiters>>

\* Secrets Manager does not answer or holds nothing like a key, ImportFromPem rejects the
\* key that was kept, or GitHub refuses or does not answer: the exception leaves through
\* the finally block.
Fail(c) ==
    /\ \/ call[c].stage = "key" /\ privateKeyPem = None
       \/ call[c].stage = "mint"
    /\ Goto(c, "threw")
    /\ Release
    /\ UNCHANGED <<now, secret, fields>>

\* Mutant: the two fields are written in the other order.
StoreExpiryFirst(c) ==
    \/ /\ call[c].stage = "publish"
       /\ tokenExpiresAt' = call[c].token
       /\ Goto(c, "stamp")
       /\ UNCHANGED <<now, secret, privateKeyPem, client, gate, waiters>>
    \/ /\ call[c].stage = "stamp"
       /\ client' = call[c].token
       /\ Return(c, call[c].token)
       /\ Release
       /\ UNCHANGED <<now, secret, privateKeyPem, tokenExpiresAt>>

\* The two writes: the client, then the expiry of its token.
Store(c) ==
    \/ /\ call[c].stage = "publish"
       /\ client' = call[c].token
       /\ Goto(c, "stamp")
       /\ UNCHANGED <<now, secret, privateKeyPem, tokenExpiresAt, gate, waiters>>
    \/ /\ call[c].stage = "stamp"
       /\ tokenExpiresAt' = call[c].token
       /\ Return(c, call[c].token)
       /\ Release
       /\ UNCHANGED <<now, secret, privateKeyPem, client>>

\* cancellationToken is cancelled before the wait for the gate, or ends it.
Cancel(c) ==
    /\ \/ NeedsGate(c) /\ UNCHANGED waiters
       \/ /\ call[c].stage = "wait"
          /\ \E i \in 1..Len(waiters) :
                /\ waiters[i] = c
                /\ waiters' = SubSeq(waiters, 1, i - 1) \o SubSeq(waiters, i + 1, Len(waiters))
    /\ Goto(c, "threw")
    /\ UNCHANGED <<now, secret, fields, gate>>

\* The caller is done with the client, or with the exception.
Finish(c) ==
    /\ call[c].stage \in {"returned", "threw"}
    /\ call' = [call EXCEPT ![c] = NoCall]
    /\ UNCHANGED <<now, secret, fields, gate, waiters>>

----------------------------------------------------------------------------
(* Around it *)

Tick ==
    /\ now < MaxNow
    /\ now' = now + 1
    /\ UNCHANGED <<secret, fields, gate, waiters, call>>

\* An operator puts a value in the secret.
PutSecret(value) ==
    /\ secret' = value
    /\ UNCHANGED <<now, fields, gate, waiters, call>>
----------------------------------------------------------------------------
Init ==
    /\ now = 0
    /\ secret = "unusable"
    /\ privateKeyPem = None
    /\ client = 0
    /\ tokenExpiresAt = 0
    /\ gate = None
    /\ waiters = <<>>
    /\ call = [c \in Callers |-> NoCall]

\* A step of the code that is bound to come.
Proceed(c) ==
    \/ Look(c) \/ Compare(c) \/ Take(c) \/ CompareThrows(c) \/ Wait(c) \/ Enter(c)
    \/ Recheck(c) \/ Renew(c) \/ KeyCached(c) \/ KeyRead(c) \/ Mint(c) \/ Store(c)
    \/ Fail(c) \/ Finish(c)

Next ==
    \/ \E c \in Callers : Ask(c) \/ Proceed(c) \/ Cancel(c)
    \/ Tick
    \/ \E value \in Secrets : PutSecret(value)

Spec == Init /\ [][Next]_vars

\* Threads run, and every call to GitHub or Secrets Manager ends (both clients have
\* timeouts).
FairSpec == Spec /\ \A c \in Callers : WF_vars(Proceed(c))

----------------------------------------------------------------------------
(* Properties *)

\* What is kept as the key had at least a PEM header: a secret without one is read again
\* by the next call.  A key that is broken behind its header is kept all the same.
TypeOK ==
    /\ now \in 0..MaxNow
    /\ secret \in Secrets
    /\ privateKeyPem \in {None, "pem", "broken"}
    /\ client \in Moments /\ tokenExpiresAt \in Moments
    /\ gate \in Callers \cup {None}
    /\ waiters \in Seq(Callers)
    /\ call \in [Callers -> Call]

\* "Several tasks can queue on a single expiry and only the first should mint": a token
\* is only minted when there is no client or its own token is due, however the calls
\* interleave with each other's writes.
MintOnlyWhenDue ==
    [][\A c \in Callers :
          (call[c].stage = "mint" /\ call'[c].stage = "publish") => client = 0 \/ ~NotDue(client)]_vars

\* "Renew before the installation token actually expires": the client a call returns
\* was not due for renewal when the call began, although the cache is read without
\* the gate while another call writes its two fields.
HandsOutFresh ==
    \A c \in Callers :
        call[c].stage = "returned" => call[c].asked < call[c].result - RenewBefore

\* Every call ends, whatever fails or is cancelled while others queue at the gate.
CallsEnd == \A c \in Callers : call[c].stage = "look" ~> call[c].stage \in {"returned", "threw"}

=============================================================================
