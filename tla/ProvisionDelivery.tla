------------------------- MODULE ProvisionDelivery -------------------------
(***************************************************************************)
(* What the provisioner promises for the requests the API has accepted:    *)
(* each is separated into the halves its body asks for, and leaves the     *)
(* broker only after that, unless it is set aside.  Work may be repeated   *)
(* (delivery is at least once).  What leaves the SQS queue has left it for *)
(* good; a Kafka topic may be read again from an earlier message.          *)
(***************************************************************************)
EXTENDS FiniteSets

CONSTANTS
    Messages,
    Halves       \* the halves of each message's work, {} for one without a meaning

VARIABLES
    transport,   \* "sqs" or "kafka"
    fate,        \* "pending", "acknowledged" or "aside"
    work         \* the <<message, half>> pairs carried out so far

Parts(m) == {m} \X Halves[m]

Init ==
    /\ transport \in {"sqs", "kafka"}
    /\ fate = [m \in Messages |-> "pending"]
    /\ work = {}

\* A message is separated, for the first time or again.
Separate(m) ==
    /\ work' = work \cup Parts(m)
    /\ UNCHANGED <<transport, fate>>

\* Pending messages leave: acknowledged once their work is carried out, or set aside.
Settle ==
    /\ fate' \in [Messages -> {"pending", "acknowledged", "aside"}]
    /\ \A m \in Messages :
          \/ fate'[m] = fate[m]
          \/ fate[m] = "pending" /\ fate'[m] = "aside"
          \/ /\ fate[m] = "pending" /\ fate'[m] = "acknowledged"
             /\ Halves[m] # {} /\ Parts(m) \subseteq work
    /\ UNCHANGED <<transport, work>>

\* Kafka goes back to an earlier message; what was done for the later ones stays done.
Reopen ==
    /\ transport = "kafka"
    /\ \E Again \in SUBSET {m \in Messages : fate[m] # "pending"} :
          fate' = [m \in Messages |-> IF m \in Again THEN "pending" ELSE fate[m]]
    /\ UNCHANGED <<transport, work>>

Next == Settle \/ Reopen \/ \E m \in Messages : Separate(m)

Spec == Init /\ [][Next]_<<transport, fate, work>>
=============================================================================
