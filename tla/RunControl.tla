----------------------------- MODULE RunControl -----------------------------
(***************************************************************************)
(* The life of Test Runs between the control plane and the Runners: the    *)
(* run row and its slot lease, the transactional outbox and its            *)
(* dispatcher, the Celery broker, the worker tasks that execute a          *)
(* snapshot, the cancel routes and the reliability reaper.                 *)
(*                                                                         *)
(* A database transaction is one action, except the dispatcher's, which    *)
(* sends messages before it commits: while it is open, the rows of the     *)
(* runs it has sent stay locked (FOR UPDATE), so every handler that locks  *)
(* a run row is guarded by ~RowLocked(r), and the pool row stays locked    *)
(* too.  Queries without FOR UPDATE read the committed state.              *)
(*                                                                         *)
(* Wall-clock time is abstracted to the facts the code derives from it:    *)
(* which runs are past timeout_at, which dispatched runs are past the      *)
(* start window, which workers' heartbeats are older than the TTL.         *)
(***************************************************************************)
EXTENDS Naturals, FiniteSets, RunStates

CONSTANTS
    Runs,        \* the runs that are created
    Pooled,      \* those whose environment or target names the runner pool
    Workers,     \* the workers registered in the pool (one worker_key each)
    Slots,       \* their Celery execution slots
    Host,        \* the worker each slot belongs to
    Suitable,    \* run -> workers that pass the capability, isolation and package filters
    Rank,        \* worker -> strength of its execution isolation
    MaxLimit,    \* bound on the pool's max_concurrency
    MaxCopies,   \* bound on the copies of one execute_run message
    BatchSize,   \* rows one reaper sweep recovers at most
    Faults,      \* the kinds of fault that can happen
    CancelRoutes,\* the cancel routes in use, of "single" and "batch"
    Outcomes,    \* the results an execution can end with
    None

FaultKinds == {"crash", "network", "redeliver", "dispatcher", "silence",
               "slow_prepare", "admin"}

ASSUME PoolAssumption ==
    /\ Pooled \subseteq Runs
    /\ IsFiniteSet(Runs) /\ IsFiniteSet(Slots)
    /\ Host \in [Slots -> Workers]
    /\ Suitable \in [Runs -> SUBSET Workers]
    /\ Rank \in [Workers -> Nat]

ASSUME BoundAssumption ==
    /\ MaxLimit \in Nat \ {0}
    /\ MaxCopies \in Nat \ {0}
    /\ BatchSize \in Nat \ {0}
    /\ Faults \subseteq FaultKinds
    /\ CancelRoutes \subseteq {"single", "batch"}
    /\ Outcomes \subseteq Terminal

ASSUME NoneAssumption ==
    None \notin Runs \cup Workers \cup Terminal

VARIABLES
    status,      \* test_runs.status
    result,      \* test_runs.result_document, by its status
    lease,       \* the status of the run's slot lease row, "NONE" without one
    boundTo,     \* runner_slot_leases.worker_id
    userCancel,  \* runs with a run.cancel_requested:<id> outbox row
    reaped,      \* runs the reaper has recovered (it sets cancel_requested)
    seen,        \* what a single-run cancel request read before it locks the row
    overdue,     \* runs whose timeout_at has passed
    unclaimed,   \* dispatched runs whose start window has passed
    silent,      \* workers whose last heartbeat is older than the TTL
    outbox,      \* the run.queued outbox row: "NONE", "PENDING" or "PUBLISHED"
    batch,       \* rows the open dispatch transaction has still to handle
    sent,        \* rows it has handled as published, not yet committed
    msgs,        \* copies of the execute_run message waiting in the queue
    job,         \* the run a slot's task is about
    pc,          \* where the task stands
    hand,        \* the result the task is about to report, by its status
    local,       \* run-result.json in a worker's workspace volume, by its status
    enabled,     \* workers whose status is ACTIVE
    poolOpen,    \* the pool's status is ACTIVE
    limit        \* the pool's max_concurrency

runVars == <<status, result, lease, boundTo, userCancel, reaped>>
clockVars == <<overdue, unclaimed, silent>>
dispatchVars == <<outbox, batch, sent>>
taskVars == <<job, pc, hand, local>>
adminVars == <<enabled, poolOpen, limit>>
vars == <<runVars, seen, clockVars, dispatchVars, msgs, taskVars, adminVars>>

Points == {"idle", "fetched", "preparing", "starting", "executing", "reporting"}
LeaseStates == {"NONE", "ACTIVE", "RELEASED", "EXPIRED"}

TypeOK ==
    /\ status \in [Runs -> Status]
    /\ result \in [Runs -> Terminal \cup {None}]
    /\ lease \in [Runs -> LeaseStates]
    /\ boundTo \in [Runs -> Workers \cup {None}]
    /\ userCancel \subseteq Runs
    /\ reaped \subseteq Runs
    /\ seen \in [Runs -> [status : Status, cancel : BOOLEAN] \cup {None}]
    /\ overdue \subseteq Runs
    /\ unclaimed \subseteq Runs
    /\ silent \subseteq Workers
    /\ outbox \in [Runs -> {"NONE", "PENDING", "PUBLISHED"}]
    /\ batch \subseteq Runs
    /\ sent \subseteq Runs
    /\ msgs \in [Runs -> Nat]
    /\ job \in [Slots -> Runs \cup {None}]
    /\ pc \in [Slots -> Points]
    /\ hand \in [Slots -> Terminal \cup {None}]
    /\ local \in [Workers -> [Runs -> Terminal \cup {None}]]
    /\ enabled \subseteq Workers
    /\ poolOpen \in BOOLEAN
    /\ limit \in 1..MaxLimit

Init ==
    /\ status = [r \in Runs |-> "ABSENT"]
    /\ result = [r \in Runs |-> None]
    /\ lease = [r \in Runs |-> "NONE"]
    /\ boundTo = [r \in Runs |-> None]
    /\ userCancel = {} /\ reaped = {}
    /\ seen = [r \in Runs |-> None]
    /\ overdue = {} /\ unclaimed = {} /\ silent = {}
    /\ outbox = [r \in Runs |-> "NONE"]
    /\ batch = {} /\ sent = {}
    /\ msgs = [r \in Runs |-> 0]
    /\ job = [s \in Slots |-> None]
    /\ pc = [s \in Slots |-> "idle"]
    /\ hand = [s \in Slots |-> None]
    /\ local = [w \in Workers |-> [r \in Runs |-> None]]
    /\ enabled = Workers /\ poolOpen = TRUE /\ limit = MaxLimit

CancelRequested(r) == r \in userCancel \cup reaped
RowLocked(r) == r \in sent
LeaseActive(r) == lease[r] = "ACTIVE"
Copies(r) == msgs[r] + Cardinality({s \in Slots : job[s] = r})

-----------------------------------------------------------------------------
(* Creation and cancellation                                               *)

\* A committed create_run: the row and its outbox entry in one transaction.
CreateRun(r) ==
    /\ status[r] = "ABSENT"
    /\ status' = [status EXCEPT ![r] = "QUEUED"]
    /\ outbox' = [outbox EXCEPT ![r] = "PENDING"]
    /\ UNCHANGED <<result, lease, boundTo, userCancel, reaped, seen, clockVars,
                   batch, sent, msgs, taskVars, adminVars>>

\* The rows a committed cancellation writes: asked get the flag, the event and
\* the outbox row, those of them believed QUEUED are canceled and give up their slot.
ApplyCancel(asked, queued) ==
    /\ userCancel' = userCancel \cup asked
    /\ status' = [r \in Runs |-> IF r \in queued THEN "CANCELED" ELSE status[r]]
    /\ lease' = [r \in Runs |-> IF r \in queued /\ LeaseActive(r)
                                THEN "RELEASED" ELSE lease[r]]
    /\ UNCHANGED <<result, boundTo, reaped>>

\* cancel_runs: the rows are locked by the query that reads them.
CancelBatch(R) ==
    /\ "batch" \in CancelRoutes
    /\ \A r \in R : status[r] # "ABSENT" /\ ~RowLocked(r)
    /\ LET asked == {r \in R : status[r] \in InFlight /\ ~CancelRequested(r)}
       IN  ApplyCancel(asked, {r \in asked : status[r] = "QUEUED"})
    /\ UNCHANGED <<seen, clockVars, dispatchVars, msgs, taskVars, adminVars>>

\* post_run_cancel first loads the row without a lock, for the authorization.
CancelRead(r) ==
    /\ "single" \in CancelRoutes
    /\ status[r] # "ABSENT"
    /\ seen[r] = None
    /\ seen' = [seen EXCEPT ![r] = [status |-> status[r], cancel |-> CancelRequested(r)]]
    /\ UNCHANGED <<runVars, clockVars, dispatchVars, msgs, taskVars, adminVars>>

\* cancel_run: _locked_run waits for the row lock, but the session already holds
\* the object and the query does not repopulate it, so the decision is taken on
\* what CancelRead saw.  A second run.cancel_requested:<id> row breaks the
\* unique key and the transaction is rolled back.
CancelCommit(r) ==
    /\ seen[r] # None
    /\ ~RowLocked(r)
    /\ seen' = [seen EXCEPT ![r] = None]
    /\ IF seen[r].status \in InFlight /\ ~seen[r].cancel /\ r \notin userCancel
       THEN ApplyCancel({r}, IF seen[r].status = "QUEUED" THEN {r} ELSE {})
       ELSE UNCHANGED runVars
    /\ UNCHANGED <<clockVars, dispatchVars, msgs, taskVars, adminVars>>
-----------------------------------------------------------------------------
(* The outbox dispatcher: one transaction over a batch of rows             *)

Healthy == enabled \ silent

\* Of the healthy suitable workers only the strongest isolation class counts.
Eligible(r) ==
    LET fit == Healthy \cap Suitable[r]
    IN  {w \in fit : \A v \in fit : Rank[v] <= Rank[w]}

\* Slots taken in the dispatcher's own view: committed leases and its own inserts.
Taken == {r \in Runs : LeaseActive(r)}
            \cup {r \in sent \cap Pooled : status[r] \in InFlight}

HasCapacity(r) ==
    /\ Cardinality(Taken) < limit
    /\ Cardinality(Taken) < Cardinality({s \in Slots : Host[s] \in Eligible(r)})

\* No CapacityWait is raised: an ACTIVE lease is reused, else a slot must be free.
MayPublish(r) ==
    r \in Pooled => /\ poolOpen
                    /\ Eligible(r) # {}
                    /\ LeaseActive(r) \/ HasCapacity(r)

\* The rows whose available_at has come are any non-empty set of PENDING rows.
DispatchBegin ==
    /\ batch = {} /\ sent = {}
    /\ \E B \in SUBSET {r \in Runs : outbox[r] = "PENDING"} \ {{}} : batch' = B
    /\ UNCHANGED <<runVars, seen, clockVars, outbox, sent, msgs, taskVars, adminVars>>

\* The run is terminal already: the row will be PUBLISHED without a message.
DispatchSkip(r) ==
    /\ r \in batch
    /\ status[r] \in Terminal
    /\ batch' = batch \ {r}
    /\ sent' = sent \cup {r}
    /\ UNCHANGED <<runVars, seen, clockVars, outbox, msgs, taskVars, adminVars>>

\* send_task succeeds: the message is out although nothing is committed yet.
DispatchSend(r) ==
    /\ r \in batch
    /\ status[r] \in InFlight
    /\ MayPublish(r)
    /\ batch' = batch \ {r}
    /\ sent' = sent \cup {r}
    /\ msgs' = [msgs EXCEPT ![r] = @ + 1]
    /\ UNCHANGED <<runVars, seen, clockVars, outbox, taskVars, adminVars>>

\* A CapacityWait, or a broker error: the row stays PENDING for a later attempt.
\* (A lease inserted before the broker error is RELEASED in the same transaction.)
DispatchPostpone(r) ==
    /\ r \in batch
    /\ status[r] \in InFlight
    /\ ~MayPublish(r) \/ "dispatcher" \in Faults
    /\ batch' = batch \ {r}
    /\ UNCHANGED <<runVars, seen, clockVars, outbox, sent, msgs, taskVars, adminVars>>

\* Variant: the rows of runs that have ended meanwhile get their lease, too.
DispatchCommitAll ==
    /\ batch = {} /\ sent # {}
    /\ outbox' = [r \in Runs |-> IF r \in sent THEN "PUBLISHED" ELSE outbox[r]]
    /\ lease' = [r \in Runs |-> IF r \in sent \cap Pooled THEN "ACTIVE" ELSE lease[r]]
    /\ sent' = {}
    /\ UNCHANGED <<status, result, boundTo, userCancel, reaped, seen, clockVars,
                   batch, msgs, taskVars, adminVars>>

DispatchCommit ==
    /\ batch = {} /\ sent # {}
    /\ outbox' = [r \in Runs |-> IF r \in sent THEN "PUBLISHED" ELSE outbox[r]]
    /\ lease' = [r \in Runs |-> IF r \in sent \cap Pooled /\ status[r] \in InFlight
                                THEN "ACTIVE" ELSE lease[r]]
    /\ sent' = {}
    /\ UNCHANGED <<status, result, boundTo, userCancel, reaped, seen, clockVars,
                   batch, msgs, taskVars, adminVars>>

\* The dispatcher dies, or its commit fails: the rows roll back, the messages stay.
\* MaxCopies bounds how often.
DispatchAbort ==
    /\ "dispatcher" \in Faults
    /\ sent # {}
    /\ \A r \in sent : Copies(r) < MaxCopies
    /\ batch' = {} /\ sent' = {}
    /\ UNCHANGED <<runVars, seen, clockVars, outbox, msgs, taskVars, adminVars>>

-----------------------------------------------------------------------------
(* The worker task execute_run, one instance per busy slot                 *)

Task(s, point, outcome) ==
    /\ pc' = [pc EXCEPT ![s] = point]
    /\ hand' = [hand EXCEPT ![s] = outcome]

\* The task ends and its message is acknowledged (task_acks_late).
Acknowledge(s) ==
    /\ job' = [job EXCEPT ![s] = None]
    /\ Task(s, "idle", None)
    /\ UNCHANGED local

\* persist_run_result, then on to the report.
Conclude(s, outcome) ==
    /\ local' = [local EXCEPT ![Host[s]][job[s]] = outcome]
    /\ Task(s, "reporting", outcome)
    /\ UNCHANGED job

Fetch(s, r) ==
    /\ pc[s] = "idle"
    /\ msgs[r] > 0
    /\ msgs' = [msgs EXCEPT ![r] = @ - 1]
    /\ job' = [job EXCEPT ![s] = r]
    /\ Task(s, "fetched", None)
    /\ UNCHANGED <<runVars, seen, clockVars, dispatchVars, local, adminVars>>

\* run_state and the early returns of execute_run: a terminal run is ignored, a
\* result left in the workspace is reported again, a cancellation is reported
\* without being written to the workspace.
ReadState(s) ==
    /\ pc[s] = "fetched"
    /\ LET r == job[s]
            kept == local[Host[s]][r]
       IN  \/ status[r] \in Terminal /\ Acknowledge(s)
           \/ /\ status[r] \in InFlight
              /\ kept # None
              /\ Task(s, "reporting", kept)
              /\ UNCHANGED <<job, local>>
           \/ /\ status[r] \in InFlight
              /\ kept = None
              /\ IF CancelRequested(r)
                 THEN Task(s, "reporting", "CANCELED")
                 ELSE Task(s, "preparing", None)
              /\ UNCHANGED <<job, local>>
    /\ UNCHANGED <<runVars, seen, clockVars, dispatchVars, msgs, adminVars>>

\* Variant: a second worker may take the binding over.
MayBindAnyone(w, r) == r \in Pooled => LeaseActive(r) /\ w \in enabled

\* _bind_runner_slot raises nothing.
MayBind(w, r) ==
    r \in Pooled => /\ LeaseActive(r)
                    /\ w \in enabled
                    /\ boundTo[r] \in {None, w}

\* update_run_status answers without an error.
StatusAccepted(s, target) ==
    LET r == job[s]
    IN  /\ MayBind(Host[s], r)
        /\ status[r] = target \/ CanMove(status[r], target)

\* Variant: the callback does not record its worker.
ApplyStatusUnbound(s, target) ==
    /\ status' = [status EXCEPT ![job[s]] = target]
    /\ UNCHANGED <<boundTo, result, lease, userCancel, reaped, clockVars>>

\* What the accepted callback commits: the status, the binding, the heartbeat.
ApplyStatus(s, target) ==
    LET r == job[s]
        w == Host[s]
    IN  /\ status' = [status EXCEPT ![r] = target]
        /\ boundTo' = [boundTo EXCEPT ![r] = IF r \in Pooled THEN w ELSE @]
        /\ silent' = IF r \in Pooled THEN silent \ {w} ELSE silent
        /\ UNCHANGED <<result, lease, userCancel, reaped, overdue, unclaimed>>

\* One status callback.  Any exception (a 409 or 422, a lost request, a lost
\* response to a committed request) makes execute_run conclude INFRA_ERROR.
ReportStatus(s, here, target, next) ==
    /\ pc[s] = here
    /\ ~RowLocked(job[s])
    /\ \/ /\ StatusAccepted(s, target)
          /\ ApplyStatus(s, target)
          /\ \/ Task(s, next, None) /\ UNCHANGED <<job, local>>
             \/ "network" \in Faults /\ Conclude(s, "INFRA_ERROR")
       \/ /\ ~StatusAccepted(s, target) \/ "network" \in Faults
          /\ Conclude(s, "INFRA_ERROR")
          /\ UNCHANGED <<runVars, clockVars>>
    /\ UNCHANGED <<seen, dispatchVars, msgs, adminVars>>

ReportPreparing(s) == ReportStatus(s, "preparing", "PREPARING", "starting")
ReportRunning(s) == ReportStatus(s, "starting", "RUNNING", "executing")

\* The package catalogue does not hold the snapshot's package: PackageRuntimeUnavailable.
PackageMissing(s) ==
    /\ pc[s] = "starting"
    /\ Conclude(s, "INFRA_ERROR")
    /\ UNCHANGED <<runVars, seen, clockVars, dispatchVars, msgs, adminVars>>

\* The adapter or the isolated executor returns or raises; it reports a
\* cancellation only after polling one (cancel_requested or a CANCELED status).
Execute(s) ==
    /\ pc[s] = "executing"
    /\ \E outcome \in Outcomes :
          /\ outcome = "CANCELED" =>
                CancelRequested(job[s]) \/ status[job[s]] = "CANCELED"
          /\ Conclude(s, outcome)
    /\ UNCHANGED <<runVars, seen, clockVars, dispatchVars, msgs, adminVars>>

\* The task raises: Celery publishes a retry to the same queue before the
\* acknowledgement, or, its retries used up, gives the task up.
Fail(s) ==
    /\ Acknowledge(s)
    /\ \/ msgs' = [msgs EXCEPT ![job[s]] = @ + 1]
       \/ UNCHANGED msgs

\* Variants: the transition is not checked; a later report replaces the result.
ResultAcceptedLate(r, outcome) == result[r] = None
ResultReplaced(r, outcome) == result[r] # None \/ CanMove(status[r], outcome)

\* record_run_result takes a first result the state machine admits.
ResultAccepted(r, outcome) ==
    /\ result[r] = None
    /\ CanMove(status[r], outcome)

\* Variant: a result that comes after the deadline is stored under another status.
ApplyResultDeadline(r, outcome) ==
    /\ status' = [status EXCEPT ![r] = IF r \in overdue THEN "TIMED_OUT" ELSE outcome]
    /\ result' = [result EXCEPT ![r] = outcome]
    /\ lease' = [lease EXCEPT ![r] = IF LeaseActive(r) THEN "RELEASED" ELSE @]
    /\ UNCHANGED <<boundTo, userCancel, reaped>>

ApplyResult(r, outcome) ==
    /\ status' = [status EXCEPT ![r] = outcome]
    /\ result' = [result EXCEPT ![r] = outcome]
    /\ lease' = [lease EXCEPT ![r] = IF LeaseActive(r) THEN "RELEASED" ELSE @]
    /\ UNCHANGED <<boundTo, userCancel, reaped>>

\* report_result.  A recorded result of the same status may be the identical
\* document (answered as success) or another one (a 409), so both are possible.
ReportResult(s) ==
    /\ pc[s] = "reporting"
    /\ ~RowLocked(job[s])
    /\ LET r == job[s]
       IN  \/ /\ ResultAccepted(r, hand[s])
              /\ ApplyResult(r, hand[s])
              /\ \/ Acknowledge(s) /\ UNCHANGED msgs
                 \/ "network" \in Faults /\ Fail(s)
           \/ /\ result[r] = hand[s]
              /\ Acknowledge(s)
              /\ UNCHANGED <<runVars, msgs>>
           \/ /\ ~ResultAccepted(r, hand[s])
              /\ Fail(s)
              /\ UNCHANGED runVars
    /\ UNCHANGED <<seen, clockVars, dispatchVars, adminVars>>

\* The control plane or the object store cannot be reached outside the try block.
CallbackLost(s) ==
    /\ "network" \in Faults
    /\ pc[s] \in {"fetched", "reporting"}
    /\ Fail(s)
    /\ UNCHANGED <<runVars, seen, clockVars, dispatchVars, adminVars>>

\* The worker process dies: its unacknowledged messages return to the queue
\* (task_reject_on_worker_lost), its workspace volume stays.
WorkerCrash(w) ==
    /\ "crash" \in Faults
    /\ LET lost == {s \in Slots : Host[s] = w /\ pc[s] # "idle"}
       IN  /\ lost # {}
           /\ msgs' = [r \in Runs |-> msgs[r] + Cardinality({s \in lost : job[s] = r})]
           /\ job' = [s \in Slots |-> IF s \in lost THEN None ELSE job[s]]
           /\ pc' = [s \in Slots |-> IF s \in lost THEN "idle" ELSE pc[s]]
           /\ hand' = [s \in Slots |-> IF s \in lost THEN None ELSE hand[s]]
    /\ UNCHANGED <<runVars, seen, clockVars, dispatchVars, local, adminVars>>

\* The broker's visibility timeout runs out on a task still being executed.
\* MaxCopies bounds how often.
Redeliver(r) ==
    /\ "redeliver" \in Faults
    /\ \E s \in Slots : job[s] = r
    /\ outbox[r] = "PUBLISHED"
    /\ Copies(r) < MaxCopies
    /\ msgs' = [msgs EXCEPT ![r] = @ + 1]
    /\ UNCHANGED <<runVars, seen, clockVars, dispatchVars, taskVars, adminVars>>

-----------------------------------------------------------------------------
(* Time and heartbeats                                                     *)

\* timeout_at, set when the run leaves QUEUED, passes.
TimeoutPasses(r) ==
    /\ status[r] \in (IF "slow_prepare" \in Faults THEN Started ELSE {"RUNNING"})
    /\ r \notin overdue
    /\ overdue' = overdue \cup {r}
    /\ UNCHANGED <<runVars, seen, unclaimed, silent, dispatchVars, msgs, taskVars, adminVars>>

\* dispatched_at falls behind by the dispatch start timeout.
StartWindowPasses(r) ==
    /\ status[r] = "QUEUED" /\ outbox[r] = "PUBLISHED"
    /\ r \notin unclaimed
    /\ unclaimed' = unclaimed \cup {r}
    /\ UNCHANGED <<runVars, seen, overdue, silent, dispatchVars, msgs, taskVars, adminVars>>

HeartbeatLate(w) ==
    /\ "silence" \in Faults
    /\ w \notin silent
    /\ silent' = silent \cup {w}
    /\ UNCHANGED <<runVars, seen, overdue, unclaimed, dispatchVars, msgs, taskVars, adminVars>>

\* The heartbeat thread runs beside the task, so a busy worker also reports.
Heartbeat(w) ==
    /\ w \in silent
    /\ silent' = silent \ {w}
    /\ UNCHANGED <<runVars, seen, overdue, unclaimed, dispatchVars, msgs, taskVars, adminVars>>

-----------------------------------------------------------------------------
(* The reaper: process_run_reliability, one transaction per sweep           *)

\* Variants: only leased runs time out; only RUNNING runs lose their runner; a
\* stalled dispatch is looked for among the bound leases.
TimedOutLeased == {r \in Runs : /\ status[r] \in Started /\ r \in overdue
                                /\ LeaseActive(r) /\ ~RowLocked(r)}
RunnerLostRunning == {r \in Runs : /\ LeaseActive(r) /\ boundTo[r] \in silent
                                   /\ status[r] = "RUNNING" /\ ~RowLocked(r)}
DispatchStalledBound == {r \in Runs : /\ LeaseActive(r) /\ boundTo[r] \in silent
                                      /\ status[r] = "QUEUED" /\ r \in unclaimed
                                      /\ ~RowLocked(r)}

TimedOut == {r \in Runs : status[r] \in Started /\ r \in overdue /\ ~RowLocked(r)}
RunnerLost == {r \in Runs : /\ LeaseActive(r) /\ boundTo[r] \in silent
                            /\ status[r] \in Started /\ ~RowLocked(r)}
DispatchStalled == {r \in Runs : /\ LeaseActive(r) /\ boundTo[r] = None
                                 /\ status[r] = "QUEUED" /\ r \in unclaimed
                                 /\ ~RowLocked(r)}
Orphaned == {r \in Runs : LeaseActive(r) /\ status[r] \in Terminal}

\* What LIMIT n may select of S.
Selection(S, n) ==
    {T \in SUBSET S : Cardinality(T) = IF Cardinality(S) <= n THEN Cardinality(S) ELSE n}

\* Variants: the lease is left ACTIVE; the lease's status is written to the run.
RecoverKeepsLease(timedOut, failed, orphans) ==
    /\ status' = [r \in Runs |-> IF r \in timedOut THEN "TIMED_OUT"
                                 ELSE IF r \in failed THEN "INFRA_ERROR"
                                 ELSE status[r]]
    /\ reaped' = reaped \cup timedOut \cup failed
    /\ UNCHANGED <<lease, result, boundTo, userCancel>>
RecoverAsExpired(timedOut, failed, orphans) ==
    /\ status' = [r \in Runs |-> IF r \in timedOut \cup failed THEN "EXPIRED" ELSE status[r]]
    /\ reaped' = reaped \cup timedOut \cup failed
    /\ UNCHANGED <<lease, result, boundTo, userCancel>>

\* _recover_run ends the runs of timedOut and failed and expires their leases.
Recover(timedOut, failed, orphans) ==
    /\ status' = [r \in Runs |-> IF r \in timedOut THEN "TIMED_OUT"
                                 ELSE IF r \in failed THEN "INFRA_ERROR"
                                 ELSE status[r]]
    /\ lease' = [r \in Runs |->
                    IF r \in timedOut \cup failed /\ LeaseActive(r) THEN "EXPIRED"
                    ELSE IF r \in orphans THEN "RELEASED" ELSE lease[r]]
    /\ reaped' = reaped \cup timedOut \cup failed
    /\ UNCHANGED <<result, boundTo, userCancel>>

\* The four phases share one batch.  require_run_transition raises out of the
\* sweep when a selected overdue run cannot become TIMED_OUT: everything rolls
\* back, which is no step at all.
Sweep ==
    /\ \E T \in Selection(TimedOut, BatchSize) :
       LET left1 == BatchSize - Cardinality(T)
       IN \E L \in Selection(RunnerLost \ T, left1) :
          LET left2 == left1 - Cardinality(L)
          IN \E D \in Selection(DispatchStalled, left2) :
             LET left3 == left2 - Cardinality(D)
             IN \E O \in Selection(Orphaned, left3) :
                  /\ T \cup L \cup D \cup O # {}
                  /\ \A r \in T : CanMove(status[r], "TIMED_OUT")
                  /\ Recover(T, L \cup D, O)
    /\ UNCHANGED <<seen, clockVars, dispatchVars, msgs, taskVars, adminVars>>

-----------------------------------------------------------------------------
(* Administration of the pool and its workers                              *)

\* Variant: the pool row is written without taking its lock.
PoolRowUnlocked == TRUE

\* update_runner_pool locks the pool row, which an open dispatch holds.
PoolRowFree == sent \cap Pooled = {}

UpdatePool(open, n) ==
    /\ "admin" \in Faults
    /\ PoolRowFree
    /\ poolOpen' = open /\ limit' = n
    /\ UNCHANGED <<runVars, seen, clockVars, dispatchVars, msgs, taskVars, enabled>>

UpdateWorker(w) ==
    /\ "admin" \in Faults
    /\ enabled' = IF w \in enabled THEN enabled \ {w} ELSE enabled \cup {w}
    /\ UNCHANGED <<runVars, seen, clockVars, dispatchVars, msgs, taskVars, poolOpen, limit>>

-----------------------------------------------------------------------------
ControlPlane ==
    \/ \E r \in Runs : CreateRun(r) \/ CancelRead(r) \/ CancelCommit(r)
    \/ \E R \in SUBSET Runs \ {{}} : CancelBatch(R)
    \/ Sweep

DispatchRow(r) == DispatchSkip(r) \/ DispatchSend(r) \/ DispatchPostpone(r)

Dispatcher ==
    \/ DispatchBegin \/ DispatchCommit \/ DispatchAbort
    \/ \E r \in Runs : DispatchRow(r)

WorkerTasks ==
    \/ \E s \in Slots : \E r \in Runs : Fetch(s, r)
    \/ \E s \in Slots : \/ ReadState(s) \/ ReportPreparing(s) \/ PackageMissing(s)
                        \/ ReportRunning(s) \/ Execute(s) \/ ReportResult(s)
                        \/ CallbackLost(s)

Environment ==
    \/ \E w \in Workers : WorkerCrash(w) \/ HeartbeatLate(w) \/ Heartbeat(w) \/ UpdateWorker(w)
    \/ \E r \in Runs : Redeliver(r) \/ TimeoutPasses(r) \/ StartWindowPasses(r)
    \/ \E open \in BOOLEAN, n \in 1..MaxLimit : UpdatePool(open, n)

Next == ControlPlane \/ Dispatcher \/ WorkerTasks \/ Environment

Spec == Init /\ [][Next]_vars

\* scripts/reap_run_reliability.py and scripts/dispatch_outbox.py poll for ever in
\* containers that are restarted; time passes.  Nothing is assumed of the workers.
Fairness ==
    /\ WF_vars(Sweep)
    /\ WF_vars(DispatchCommit \/ \E r \in Runs : DispatchRow(r))
    /\ \A r \in Runs : WF_vars(StartWindowPasses(r))

FairSpec == Spec /\ Fairness

-----------------------------------------------------------------------------
(* Safety                                                                  *)

\* The slot accounting: a pooled run holds its ACTIVE lease from the commit that
\* publishes its message until the transaction that ends it, whichever of the
\* result, a cancel or the reaper that is; never before, never longer.
LeaseFollowsRun ==
    \A r \in Pooled :
        LeaseActive(r) <=> outbox[r] = "PUBLISHED" /\ status[r] \in InFlight

\* The reaper finds the runner of every started pooled run: such a run has a worker
\* bound to its lease, and a queued one has none (so exactly one of the
\* runner_lost and dispatch_stalled queries can ever select a run).
StartedRunIsBound ==
    \A r \in Pooled :
        LeaseActive(r) => (status[r] \in Started <=> boundTo[r] # None)

\* The lease binding fences duplicate deliveries: every slot that got past the
\* PREPARING callback of a pooled run belongs to the worker its lease is bound to.
OneHostPerRun ==
    \A s \in Slots :
        pc[s] \in {"starting", "executing"} /\ job[s] \in Pooled
            => boundTo[job[s]] = Host[s]

\* The recorded result and the status agree, unless a cancel decided on a stale
\* read replaced the status.
ResultMatchesStatus ==
    \A r \in Runs : result[r] # None => status[r] \in {result[r], "CANCELED"}

\* The status only ever follows the transition table and a terminal status stays,
\* whatever callback, redelivery, reaper sweep or batch cancel comes late.  The one
\* exception is the write of a single-run cancel decided on an unlocked read.
LateCallsKeepTheTable ==
    [][\A r \in Runs :
         status'[r] # status[r] /\ status[r] # "ABSENT"
            => CanMove(status[r], status'[r]) \/ CancelCommit(r)]_vars

\* A result, once recorded, is never replaced or removed.
ResultIsImmutable ==
    [][\A r \in Runs : result[r] # None => result'[r] = result[r]]_vars

\* A slot is only granted below the pool's current max_concurrency, although the
\* grant is decided at the send and written at the commit, and an administrator may
\* lower the limit at any time.
GrantsRespectLimit ==
    [][(\E r \in Runs : LeaseActive(r)' /\ ~LeaseActive(r))
         => Cardinality({r \in Runs : LeaseActive(r)}') <= limit']_vars

\* The strengthening that makes the properties above inductive.
\* Every busy slot has a run; a slot about to report has something to report.
TaskShape ==
    \A s \in Slots : /\ (pc[s] = "idle" <=> job[s] = None)
                     /\ (pc[s] = "reporting" => hand[s] \in Terminal)

\* A run exists when its outbox row does; the open transaction and the pending
\* cancel requests are about existing runs.
RowsExist ==
    /\ \A r \in Runs : (status[r] = "ABSENT" <=> outbox[r] = "NONE")
    /\ \A r \in Runs : seen[r] # None => status[r] # "ABSENT"
    /\ \A r \in batch \cup sent : outbox[r] = "PENDING"

\* Until its message is published, a pooled run has no lease and has not started.
UnpublishedIsIdle ==
    \A r \in Pooled : outbox[r] # "PUBLISHED" =>
        lease[r] = "NONE" /\ boundTo[r] = None /\ status[r] \notin Started

LeaseInv ==
    /\ RowsExist
    /\ UnpublishedIsIdle
    /\ LeaseFollowsRun
    /\ StartedRunIsBound
    /\ OneHostPerRun

\* While a grant is decided and not yet committed, the decisions fit the limit.
PendingGrantsFit ==
    (\E r \in sent \cap Pooled : status[r] \in InFlight) => Cardinality(Taken) <= limit

\* RunControl keeps the promise of RunLifecycle: behind the outbox, the broker, the
\* tasks and the faults, every step is one of the few steps a client may observe.
\* A slot is an ACTIVE lease, its worker the one the lease is bound to.
Lifecycle ==
    INSTANCE RunLifecycle WITH
        slots <- {r \in Runs : LeaseActive(r)},
        worker <- [r \in Runs |-> IF LeaseActive(r) THEN boundTo[r] ELSE None]
KeepsLifecycle == Lifecycle!Spec

-----------------------------------------------------------------------------
(* Liveness                                                                *)

\* A run past its frozen timeout ends.
OverdueRunEnds ==
    \A r \in Runs : status[r] \in Started /\ r \in overdue ~> status[r] \in Terminal

\* A dispatched pooled run is claimed or ended; it does not hold a slot in the queue.
DispatchedRunLeavesQueue ==
    \A r \in Pooled :
        outbox[r] = "PUBLISHED" /\ status[r] = "QUEUED" ~> status[r] # "QUEUED"

\* No run stays with a worker that has fallen silent for good.
LostRunnerIsNoticed ==
    \A r \in Pooled : \A w \in Workers :
        ~<>[](boundTo[r] = w /\ w \in silent /\ status[r] \in Started)

-----------------------------------------------------------------------------
(* What the documents say and the code does not do                         *)

\* state_machine.py, "Explicit state transitions for persisted Test Runs": every
\* change of a persisted status is in the table.
StatusFollowsTable ==
    [][\A r \in Runs :
         status'[r] # status[r] /\ status[r] # "ABSENT"
            => CanMove(status[r], status'[r])]_vars
=============================================================================
