---------------------------- MODULE DeliveryQueue ----------------------------
(***************************************************************************)
(* What a table of deliveries promises, whoever fills and empties it: a    *)
(* row is queued once, each attempt that is recorded is counted, the       *)
(* attempts are bounded and a row that was settled is never touched again. *)
(* The webhook queue and the e-mail queue are shown to implement this.     *)
(***************************************************************************)
EXTENDS Naturals

CONSTANTS
    Ids,          \* delivery rows
    MaxAttempts,  \* max_attempts
    None

VARIABLE row      \* for each id None or [status, attempts]

Settled == {"DELIVERED", "FAILED", "CANCELED"}

Init == row = [d \in Ids |-> None]

Enqueue(old, new) ==
    /\ old # None => old.status \in Settled
    /\ new = [status |-> "PENDING", attempts |-> 0]

Attempt(old, new) ==
    /\ old # None /\ new # None
    /\ old.status = "PENDING" /\ new.attempts = old.attempts + 1
    /\ \/ new.status = "PENDING" /\ new.attempts < MaxAttempts
       \/ new.status \in {"DELIVERED", "FAILED"} /\ new.attempts <= MaxAttempts

Cancel(old, new) ==
    /\ old # None
    /\ old.status = "PENDING" /\ new = [old EXCEPT !.status = "CANCELED"]

\* A row that nothing refers to any more may leave the table.
Forget(old, new) ==
    /\ old # None
    /\ old.status \in Settled /\ new = None

\* One transaction may touch several rows.
Next ==
    \A d \in Ids :
        \/ row'[d] = row[d]
        \/ Enqueue(row[d], row'[d])
        \/ Attempt(row[d], row'[d])
        \/ Cancel(row[d], row'[d])
        \/ Forget(row[d], row'[d])

Spec == Init /\ [][Next]_row
=============================================================================
