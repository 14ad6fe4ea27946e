---------------------------- MODULE RunLifecycle ----------------------------
(***************************************************************************)
(* What the control plane promises of Test Runs and runner slots, without  *)
(* the outbox, the broker, the workers' tasks, the clocks and the crashes  *)
(* that RunControl has: a run is created, gets a slot if it needs one, is  *)
(* taken through PREPARING and RUNNING by one worker, and ends once, which *)
(* returns the slot in the same step.  One thing the platform does not     *)
(* exclude is part of the promise: a late cancel that overwrites a status. *)
(***************************************************************************)
EXTENDS Naturals, FiniteSets, RunStates

CONSTANTS Runs, Pooled, Workers, None

VARIABLES
    status,   \* the status of each run
    result,   \* the result recorded for it
    slots,    \* the runs that hold a slot of the pool
    worker,   \* the worker that has claimed a run's slot
    limit     \* the slots the pool offers

vars == <<status, result, slots, worker, limit>>

Init ==
    /\ status = [r \in Runs |-> "ABSENT"]
    /\ result = [r \in Runs |-> None]
    /\ slots = {}
    /\ worker = [r \in Runs |-> None]
    /\ limit \in Nat

Create(r) ==
    /\ status[r] = "ABSENT"
    /\ status' = [status EXCEPT ![r] = "QUEUED"]
    /\ UNCHANGED <<result, slots, worker, limit>>

\* Queued runs get slots, as many as the pool has left.
Grant(G) ==
    /\ \A r \in G : r \in Pooled \ slots /\ status[r] = "QUEUED"
    /\ slots' = slots \cup G
    /\ Cardinality(slots') <= limit
    /\ UNCHANGED <<status, result, worker, limit>>

\* One worker takes the run further; a pooled run needs its slot, which the
\* worker claims with the first step and nobody else can use for the second.
Advance(r, w, to) ==
    /\ to \in Started /\ CanMove(status[r], to)
    /\ r \in Pooled => r \in slots /\ worker[r] = IF to = "PREPARING" THEN None ELSE w
    /\ status' = [status EXCEPT ![r] = to]
    /\ worker' = [worker EXCEPT ![r] = IF r \in Pooled THEN w ELSE @]
    /\ UNCHANGED <<result, slots, limit>>

GiveUpSlots(E) ==
    /\ slots' = slots \ E
    /\ worker' = [r \in Runs |-> IF r \in E THEN None ELSE worker[r]]

\* A run ends with its one result.
Complete(r, outcome) ==
    /\ CanMove(status[r], outcome) /\ result[r] = None /\ outcome \in Terminal
    /\ status' = [status EXCEPT ![r] = outcome]
    /\ result' = [result EXCEPT ![r] = outcome]
    /\ GiveUpSlots({r})
    /\ UNCHANGED limit

\* Runs are canceled before they start, or recovered by the reaper.
Stop(E) ==
    /\ \A r \in E : /\ CanMove(status[r], status'[r])
                    /\ status'[r] \in {"CANCELED", "TIMED_OUT", "INFRA_ERROR"}
    /\ status' = [r \in Runs |-> IF r \in E THEN status'[r] ELSE status[r]]
    /\ GiveUpSlots(E)
    /\ UNCHANGED <<result, limit>>

\* The cancel of a run that was queued when it was looked at.
CancelLate(r) ==
    /\ status[r] # "ABSENT"
    /\ status' = [status EXCEPT ![r] = "CANCELED"]
    /\ GiveUpSlots({r})
    /\ UNCHANGED <<result, limit>>

SetLimit ==
    /\ limit' \in Nat
    /\ UNCHANGED <<status, result, slots, worker>>

Next ==
    \/ \E r \in Runs : \/ Create(r) \/ CancelLate(r)
                       \/ \E to \in Started : \E w \in Workers : Advance(r, w, to)
                       \/ \E outcome \in Terminal : Complete(r, outcome)
    \/ \E E \in SUBSET Runs : Grant(E) \/ Stop(E)
    \/ SetLimit

Spec == Init /\ [][Next]_vars
=============================================================================
