-------------------------- MODULE WebhookDeliveries --------------------------
(***************************************************************************)
(* The webhook deliveries of one project, the dispatchers that send them   *)
(* and the operators who test the endpoint and replay failed deliveries.   *)
(*                                                                         *)
(* A dispatcher sends a whole batch inside one transaction.  It keeps the  *)
(* rows locked, reads the configuration once, unlocked, and writes every   *)
(* outcome with its commit: a process lost before that has sent what it    *)
(* has sent, and the rows know nothing of it.  Rows are reused once they   *)
(* are settled and neither replayed nor a replay's source, which keeps the *)
(* table finite without bounding what is queued.                           *)
(***************************************************************************)
EXTENDS Naturals, FiniteSets

CONSTANTS
    Ids,          \* rows of quality_webhook_deliveries; fewer than a batch holds
    Dispatchers,  \* dispatcher processes
    MaxAttempts,  \* QUALITY_WEBHOOK_MAX_ATTEMPTS
    None

VARIABLES
    enabled,   \* quality_webhook_configs.enabled
    delivery,  \* quality_webhook_deliveries
    batch      \* for each dispatcher its transaction

vars == <<enabled, delivery, batch>>

Delivery == [status : {"PENDING", "DELIVERED", "FAILED"}, attempts : 0..MaxAttempts,
             available : BOOLEAN, source : Ids \cup {None}]
Batch == [rows : SUBSET Ids, enabled : BOOLEAN]

TypeOK ==
    /\ enabled \in BOOLEAN
    /\ delivery \in [Ids -> Delivery \cup {None}]
    /\ batch \in [Dispatchers -> Batch \cup {None}]

Init ==
    /\ enabled = FALSE
    /\ delivery = [d \in Ids |-> None]
    /\ batch = [w \in Dispatchers |-> None]

Is(d, status) == delivery[d] # None /\ delivery[d].status = status
Replays(d) == {r \in Ids : delivery[r] # None /\ delivery[r].source = d}
Locked(d) == \E w \in Dispatchers : batch[w] # None /\ d \in batch[w].rows

\* A row of the table that is not in use, or that nothing will look at again.
Free(d) ==
    delivery[d] # None =>
        /\ ~Is(d, "PENDING") /\ ~Locked(d)
        /\ Replays(d) = {} /\ delivery[d].source = None

New(source) == [status |-> "PENDING", attempts |-> 0, available |-> TRUE, source |-> source]

-----------------------------------------------------------------------------
\* update_quality_webhook_config, which never looks at the deliveries.
SetEnabled(new) ==
    /\ enabled' = new
    /\ UNCHANGED <<delivery, batch>>

\* The evaluator's notice, or enqueue_quality_webhook_test.
Enqueue(d) ==
    /\ enabled /\ Free(d)
    /\ delivery' = [delivery EXCEPT ![d] = New(None)]
    /\ UNCHANGED <<enabled, batch>>

\* Variant: the replays of the source are not looked for.
ReplayAgain(s, d) ==
    /\ Is(s, "FAILED") /\ ~Locked(s)
    /\ enabled /\ Free(d) /\ d # s
    /\ delivery' = [delivery EXCEPT ![d] = New(s)]
    /\ UNCHANGED <<enabled, batch>>

\* replay_failed_quality_webhook_delivery.
Replay(s, d) ==
    /\ Is(s, "FAILED") /\ ~Locked(s) /\ Replays(s) = {}
    /\ enabled /\ Free(d) /\ d # s
    /\ delivery' = [delivery EXCEPT ![d] = New(s)]
    /\ UNCHANGED <<enabled, batch>>

\* A chain of replays whose last row is settled is forgotten.
ForgetChain(d) ==
    /\ delivery[d] # None /\ delivery[d].source # None
    /\ ~Is(d, "PENDING") /\ ~Locked(d) /\ Replays(d) = {}
    /\ delivery' = [delivery EXCEPT ![d] = None]
    /\ UNCHANGED <<enabled, batch>>

\* _retry_at: the moment of the next attempt has come.
BackoffEnds(d) ==
    /\ Is(d, "PENDING") /\ ~delivery[d].available
    /\ delivery' = [delivery EXCEPT ![d].available = TRUE]
    /\ UNCHANGED <<enabled, batch>>

-----------------------------------------------------------------------------
(* The dispatchers *)

Due(d) == Is(d, "PENDING") /\ delivery[d].available

\* Variant: only rows whose configuration is enabled are selected.
TakeEnabled(w) ==
    LET due == {d \in Ids : Due(d) /\ ~Locked(d)}
    IN  /\ enabled /\ batch[w] = None /\ due # {}
        /\ batch' = [batch EXCEPT ![w] = [rows |-> due, enabled |-> enabled]]
        /\ UNCHANGED <<enabled, delivery>>

\* dispatch_quality_webhook_batch: the select, which skips locked rows.
TakeBatch(w) ==
    LET due == {d \in Ids : Due(d) /\ ~Locked(d)}
    IN  /\ batch[w] = None /\ due # {}
        /\ batch' = [batch EXCEPT ![w] = [rows |-> due, enabled |-> enabled]]
        /\ UNCHANGED <<enabled, delivery>>

Replies == {"accepted", "refused", "busy"}

\* Variant: nothing bounds the attempts.
RetriesForEver(attempts, reply) == reply = "busy"

\* _is_retryable_status: a busy endpoint, an unreachable one and a missing
\* secret are tried again while attempts remain.
Retries(attempts, reply) == reply = "busy" /\ attempts < MaxAttempts

\* The loop's body for one row.
AfterSend(row, seen, reply) ==
    LET attempts == row.attempts + 1
    IN  CASE ~seen -> [row EXCEPT !.attempts = attempts, !.status = "FAILED"]
          [] seen /\ reply = "accepted" ->
                [row EXCEPT !.attempts = attempts, !.status = "DELIVERED"]
          [] seen /\ Retries(attempts, reply) ->
                [row EXCEPT !.attempts = attempts, !.available = FALSE]
          [] OTHER -> [row EXCEPT !.attempts = attempts, !.status = "FAILED"]

\* The sends and the commit.
CommitBatch(w) ==
    /\ batch[w] # None
    /\ \E reply \in [batch[w].rows -> Replies] :
         delivery' = [d \in Ids |-> IF d \in batch[w].rows
                                    THEN AfterSend(delivery[d], batch[w].enabled, reply[d])
                                    ELSE delivery[d]]
    /\ batch' = [batch EXCEPT ![w] = None]
    /\ UNCHANGED enabled

DispatcherLost(w) ==
    /\ batch[w] # None
    /\ batch' = [batch EXCEPT ![w] = None]
    /\ UNCHANGED <<enabled, delivery>>

Next ==
    \/ \E new \in BOOLEAN : SetEnabled(new)
    \/ \E d \in Ids : Enqueue(d) \/ ForgetChain(d) \/ BackoffEnds(d)
    \/ \E s, d \in Ids : Replay(s, d)
    \/ \E w \in Dispatchers : TakeBatch(w) \/ CommitBatch(w) \/ DispatcherLost(w)

Spec == Init /\ [][Next]_vars

Holds(w, d) == batch[w] # None /\ d \in batch[w].rows

\* For the row d: time passes; dispatchers go on polling for a row that is due
\* and that nobody holds, every batch ends, and not every batch with the row is
\* lost.
Fairness(d) ==
    /\ WF_vars(BackoffEnds(d))
    /\ WF_vars(Due(d) /\ ~Locked(d) /\ \E w \in Dispatchers : TakeBatch(w))
    /\ SF_vars(\E w \in Dispatchers : Holds(w, d) /\ CommitBatch(w))
    /\ \A w \in Dispatchers : WF_vars((CommitBatch(w) \/ DispatcherLost(w)))

-----------------------------------------------------------------------------
(* Properties *)

Queue == INSTANCE DeliveryQueue WITH
    row <- [d \in Ids |-> IF delivery[d] = None THEN None
                          ELSE [status |-> delivery[d].status,
                                attempts |-> delivery[d].attempts]]

\* Two dispatchers, lost ones among them, empty the table as one careful
\* worker would: each recorded attempt is counted once, and a settled delivery
\* stays settled.
KeepsQueue == Queue!Spec

\* The replays of a delivery form one line of failed deliveries, each replayed
\* once, that ends in the last replay.
ReplaysFormALine ==
    \A d \in Ids :
        /\ Cardinality(Replays(d)) <= 1
        /\ Replays(d) # {} => Is(d, "FAILED")

\* A queued delivery d is delivered or given up, although endpoints stay
\* busy, dispatchers die in the middle of a batch and the configuration is
\* disabled meanwhile.
DeliverySettles(d) == Is(d, "PENDING") ~> ~Is(d, "PENDING")
=============================================================================
