------------------------ MODULE RunLifecycle_proofs ------------------------
(***************************************************************************)
(* RunControl implements RunLifecycle: the initial states map to initial   *)
(* states, and every step to a step of the life cycle or to a stutter.     *)
(***************************************************************************)
EXTENDS RunControl_proofs

\* Only runs that name the pool ever hold a slot.
OnlyPooledHold == \A r \in Runs : LeaseActive(r) => r \in Pooled

KeepInv == GrantInv /\ OnlyPooledHold

Held == {r \in Runs : LeaseActive(r)}
Claimant == [r \in Runs |-> IF LeaseActive(r) THEN boundTo[r] ELSE None]

\* The life cycle has the same table.
LEMMA SameTable ==
    /\ \A from, to : Lifecycle!CanMove(from, to) <=> CanMove(from, to)
    /\ Lifecycle!Started = Started /\ Lifecycle!Terminal = Terminal
BY DEF Lifecycle!CanMove, Lifecycle!Allowed, Lifecycle!Status, Lifecycle!InFlight,
       Lifecycle!Terminal, Lifecycle!Started, CanMove, Allowed, Status, InFlight, Terminal, Started

LEMMA SameSize == ASSUME NEW S PROVE Lifecycle!Cardinality(S) = Cardinality(S)
BY Zenon DEF Lifecycle!Cardinality, Cardinality

\* A slot is only ever leased to a run that names the pool.
LEMMA HoldStep == ASSUME KeepInv, [Next]_vars PROVE OnlyPooledHold'
<1>1. CASE DispatchCommit
  BY <1>1 DEF DispatchCommit, OnlyPooledHold, KeepInv, LeaseActive
<1>2. CASE ~DispatchCommit
  BY <1>2, OnlyCommitGrants DEF OnlyPooledHold, KeepInv, GrantInv, AccountInv
<1> QED  BY <1>1, <1>2

\* A step that changes none of the rows a client sees.
LEMMA QuietStep ==
    ASSUME UNCHANGED <<status, result, lease, boundTo>>, limit' \in Nat
    PROVE  Lifecycle!Next
BY DEF Lifecycle!Next, Lifecycle!SetLimit, LeaseActive

\* A transaction that ends the runs of E and leaves them without an ACTIVE lease.
LEMMA GivesUp ==
    ASSUME NEW E \in SUBSET Runs, UNCHANGED boundTo,
           \A r \in E : lease'[r] # "ACTIVE",
           \A r \in Runs \ E : LeaseActive(r)' <=> LeaseActive(r)
    PROVE  Lifecycle!GiveUpSlots(E)
BY DEF Lifecycle!GiveUpSlots, LeaseActive

LEMMA EndingStops ==
    ASSUME TypeInv, TypeInv', NEW E \in SUBSET Runs, UNCHANGED <<result, boundTo, limit>>,
           \A r \in E : /\ CanMove(status[r], status'[r]) /\ lease'[r] # "ACTIVE"
                        /\ status'[r] \in {"CANCELED", "TIMED_OUT", "INFRA_ERROR"},
           \A r \in Runs \ E : status'[r] = status[r] /\ (LeaseActive(r)' <=> LeaseActive(r))
    PROVE  Lifecycle!Next
<1>1. Lifecycle!GiveUpSlots(E)
  BY GivesUp
<1>2. status' = [r \in Runs |-> IF r \in E THEN status'[r] ELSE status[r]]
  BY DEF TypeInv, TypeOK
<1>3. Lifecycle!Stop(E)
  BY <1>1, <1>2, SameTable DEF Lifecycle!Stop
<1> QED  BY <1>3 DEF Lifecycle!Next

-----------------------------------------------------------------------------
(* Step by step                                                            *)

\* create_run.
LEMMA CreationIsCreate ==
    ASSUME KeepInv, NEW q \in Runs, CreateRun(q) PROVE Lifecycle!Next
<1>1. Lifecycle!Create(q)
  BY DEF CreateRun, Lifecycle!Create, adminVars, LeaseActive
<1> QED  BY <1>1 DEF Lifecycle!Next

\* cancel_runs stops queued runs.
LEMMA BatchCancelStops ==
    ASSUME KeepInv, TypeInv', NEW R \in SUBSET Runs, CancelBatch(R) PROVE Lifecycle!Next
<1> DEFINE E == {r \in R : status[r] \in InFlight /\ ~CancelRequested(r) /\ status[r] = "QUEUED"}
<1>1. /\ status' = [r \in Runs |-> IF r \in E THEN "CANCELED" ELSE status[r]]
      /\ lease' = [r \in Runs |-> IF r \in E /\ LeaseActive(r) THEN "RELEASED" ELSE lease[r]]
      /\ UNCHANGED <<result, boundTo, limit>>
  BY DEF CancelBatch, ApplyCancel, adminVars
<1>2. \A r \in E : CanMove(status[r], "CANCELED")
  BY TableEnds
<1>3. \A r \in E : lease'[r] # "ACTIVE"
  BY <1>1 DEF LeaseActive
<1>4. \A r \in Runs \ E : LeaseActive(r)' <=> LeaseActive(r)
  BY <1>1 DEF LeaseActive
<1> HIDE DEF E
<1>5. E \in SUBSET Runs
  BY DEF E
<1> QED  BY <1>1, <1>2, <1>3, <1>4, <1>5, EndingStops DEF KeepInv, GrantInv, AccountInv

\* cancel_run, if it believes the run queued, is the late cancel.
LEMMA SingleCancelIsLate ==
    ASSUME KeepInv, TypeInv', NEW q \in Runs, CancelCommit(q) PROVE Lifecycle!Next
<1> USE DEF KeepInv, GrantInv, AccountInv, TypeInv, TypeOK
<1>1. seen[q] # None /\ UNCHANGED limit
  BY DEF CancelCommit, adminVars
<1>2. CASE UNCHANGED runVars
  BY <1>1, <1>2, QuietStep, BoundAssumption DEF runVars
<1>3. CASE ApplyCancel({q}, {})
  <2>1. UNCHANGED <<status, lease, result, boundTo>>
    BY <1>3 DEF ApplyCancel
  <2> QED  BY <1>1, <2>1, QuietStep, BoundAssumption
<1>4. CASE ApplyCancel({q}, {q})
  <2>1. status[q] # "ABSENT"
    BY <1>1 DEF LeaseInv, RowsExist
  <2>2. /\ status' = [status EXCEPT ![q] = "CANCELED"]
        /\ UNCHANGED <<result, boundTo>>
    BY <1>4 DEF ApplyCancel
  <2>3. /\ lease'[q] # "ACTIVE"
        /\ \A r \in Runs \ {q} : LeaseActive(r)' <=> LeaseActive(r)
    BY <1>4 DEF ApplyCancel, LeaseActive
  <2>4. Lifecycle!GiveUpSlots({q})
    BY <2>2, <2>3, GivesUp
  <2>5. Lifecycle!CancelLate(q)
    BY <1>1, <2>1, <2>2, <2>4 DEF Lifecycle!CancelLate
  <2> QED  BY <2>5 DEF Lifecycle!Next
<1> QED  BY <1>2, <1>3, <1>4 DEF CancelCommit

\* The reaper stops the runs it recovers; it finds no orphaned lease.
LEMMA SweepStops == ASSUME KeepInv, TypeInv', Sweep PROVE Lifecycle!Next
<1> USE DEF KeepInv, GrantInv, AccountInv
<1>1. PICK T, F, O \in SUBSET Runs :
          /\ F \subseteq RunnerLost \cup DispatchStalled
          /\ O \subseteq Orphaned
          /\ \A r \in T : CanMove(status[r], "TIMED_OUT")
          /\ Recover(T, F, O)
  BY SweepFacts
<1>2. O = {}
  BY <1>1 DEF Orphaned, OnlyPooledHold, LeaseInv, LeaseFollowsRun, Terminal, InFlight
<1>3. /\ status' = [r \in Runs |-> IF r \in T THEN "TIMED_OUT"
                                   ELSE IF r \in F THEN "INFRA_ERROR" ELSE status[r]]
      /\ \A r \in T \cup F : lease'[r] # "ACTIVE"
      /\ \A r \in Runs \ (T \cup F) : LeaseActive(r)' <=> LeaseActive(r)
      /\ UNCHANGED <<result, boundTo, limit>>
  BY <1>1, <1>2 DEF Recover, Sweep, LeaseActive, adminVars
<1>4. \A r \in F : CanMove(status[r], "INFRA_ERROR")
  BY <1>1, TableEnds DEF RunnerLost, DispatchStalled, Started, InFlight
<1>5. /\ \A r \in T \cup F : /\ CanMove(status[r], status'[r])
                             /\ status'[r] \in {"CANCELED", "TIMED_OUT", "INFRA_ERROR"}
      /\ \A r \in Runs \ (T \cup F) : status'[r] = status[r]
  BY <1>1, <1>3, <1>4
<1>6. T \cup F \in SUBSET Runs
  OBVIOUS
<1> QED  BY <1>3, <1>5, <1>6, EndingStops

\* The publishing commit grants the slots the open dispatch has decided on.
LEMMA CommitGrants == ASSUME KeepInv, DispatchCommit PROVE Lifecycle!Next
<1> USE DEF KeepInv, GrantInv, AccountInv
<1> DEFINE G == {r \in sent \cap Pooled : status[r] \in InFlight}
<1>1. /\ lease' = [r \in Runs |-> IF r \in G THEN "ACTIVE" ELSE lease[r]]
      /\ UNCHANGED <<status, result, boundTo, limit>>
  BY DEF DispatchCommit, adminVars
<1>2. \A r \in G : /\ r \in Pooled /\ ~LeaseActive(r)
                   /\ status[r] = "QUEUED" /\ boundTo[r] = None
  BY PoolAssumption DEF LeaseInv, RowsExist, UnpublishedIsIdle, LeaseActive, InFlight, Started
<1>3. Held' = Held \cup G
  BY <1>1, PoolAssumption DEF Held, LeaseActive
<1>4. Claimant' = Claimant
  BY <1>1, <1>2 DEF Claimant, LeaseActive
<1>5. CASE G = {}
  <2>1. Held' = Held
    BY <1>3, <1>5
  <2>2. limit' \in Nat
    BY <1>1, BoundAssumption DEF TypeInv, TypeOK
  <2> QED  BY <1>1, <1>4, <2>1, <2>2 DEF Lifecycle!Next, Lifecycle!SetLimit, Held, Claimant
<1>6. CASE G # {}
  <2>1. Held' = Taken
    BY <1>3 DEF Held, Taken
  <2>2. Cardinality(Held') <= limit
    BY <1>6, <2>1 DEF PendingGrantsFit
  <2>3. Lifecycle!Grant(G)
    BY <1>1, <1>2, <1>3, <1>4, <2>2, SameSize DEF Lifecycle!Grant, Held, Claimant
  <2>4. G \in SUBSET Runs
    BY PoolAssumption
  <2> HIDE DEF G
  <2> QED  BY <2>3, <2>4 DEF Lifecycle!Next
<1> QED  BY <1>5, <1>6

\* A status callback advances the run for one worker, or repeats what is so already.
LEMMA CallbackAdvances ==
    ASSUME KeepInv, TypeInv', NEW s \in Slots, ReportPreparing(s) \/ ReportRunning(s)
    PROVE  Lifecycle!Next
<1> USE DEF KeepInv, GrantInv, AccountInv
<1> DEFINE r == job[s]
           w == Host[s]
<1>1. r \in Runs /\ w \in Workers
  BY PoolAssumption
     DEF ReportPreparing, ReportRunning, ReportStatus, TypeInv, TypeOK, TaskShape
<1>2. limit' \in Nat /\ limit' = limit
  BY BoundAssumption
     DEF ReportPreparing, ReportRunning, ReportStatus, adminVars, TypeInv, TypeOK
<1>3. CASE UNCHANGED runVars
  BY <1>2, <1>3, QuietStep DEF runVars
<1>4. CASE ~UNCHANGED runVars
  <2>1. PICK target \in Started : StatusAccepted(s, target) /\ ApplyStatus(s, target)
    BY <1>4 DEF ReportPreparing, ReportRunning, ReportStatus, Started
  <2>2. /\ status' = [status EXCEPT ![r] = target]
        /\ boundTo' = [boundTo EXCEPT ![r] = IF r \in Pooled THEN w ELSE @]
        /\ UNCHANGED <<result, lease>>
        /\ r \in Pooled => LeaseActive(r) /\ boundTo[r] \in {None, w}
        /\ status[r] = target \/ CanMove(status[r], target)
    BY <2>1 DEF StatusAccepted, MayBind, ApplyStatus
  <2>3. r \in Pooled => (status[r] \in Started <=> boundTo[r] # None)
    BY <2>2 DEF LeaseInv, StartedRunIsBound
  <2>4. CASE status[r] = target
    <3>1. r \in Pooled => boundTo[r] = w
      BY <2>2, <2>3, <2>4
    <3>2. UNCHANGED <<status, boundTo>>
      BY <1>1, <2>2, <2>4, <3>1 DEF TypeInv, TypeOK
    <3> QED  BY <1>2, <2>2, <3>2, QuietStep
  <2>5. CASE CanMove(status[r], target)
    <3>1. status[r] = IF target = "PREPARING" THEN "QUEUED" ELSE "PREPARING"
      BY <1>1, <2>1, <2>5, TableFacts DEF Started, TypeInv, TypeOK
    <3>2. r \in Pooled => boundTo[r] = IF target = "PREPARING" THEN None ELSE w
      BY <2>2, <2>3, <3>1 DEF Started
    <3>3. Held' = Held
      BY <2>2 DEF Held, LeaseActive
    <3>4. Claimant' = [Claimant EXCEPT ![r] = IF r \in Pooled THEN w ELSE @]
      BY <1>1, <2>2 DEF Claimant, LeaseActive, OnlyPooledHold, TypeInv, TypeOK
    <3>5. r \in Pooled => /\ r \in Held
                         /\ Claimant[r] = IF target = "PREPARING" THEN None ELSE w
      BY <1>1, <2>2, <3>2 DEF Held, Claimant
    <3>6. Lifecycle!Advance(r, w, target)
      BY <1>2, <2>1, <2>2, <2>5, <3>3, <3>4, <3>5, SameTable
         DEF Lifecycle!Advance, Held, Claimant
    <3> HIDE DEF r, w
    <3> QED  BY <1>1, <2>1, <3>6, SameTable DEF Lifecycle!Next
  <2> QED  BY <2>2, <2>4, <2>5
<1> QED  BY <1>3, <1>4

\* The report of a first result completes the run.
LEMMA ReportCompletes ==
    ASSUME KeepInv, TypeInv', NEW s \in Slots, ReportResult(s) PROVE Lifecycle!Next
<1> USE DEF KeepInv, GrantInv, AccountInv
<1>1. PICK r \in Runs, outcome \in Terminal : r = job[s] /\ outcome = hand[s]
  BY DEF ReportResult, TypeInv, TypeOK, TaskShape
<1>2. limit' \in Nat /\ limit' = limit
  BY BoundAssumption DEF ReportResult, adminVars, TypeInv, TypeOK
<1>3. CASE UNCHANGED runVars
  BY <1>2, <1>3, QuietStep DEF runVars
<1>4. CASE ResultAccepted(r, outcome) /\ ApplyResult(r, outcome)
  <2>1. /\ UNCHANGED boundTo
        /\ {r} \in SUBSET Runs /\ \A q \in {r} : lease'[q] # "ACTIVE"
        /\ \A q \in Runs \ {r} : LeaseActive(q)' <=> LeaseActive(q)
    BY <1>4 DEF ApplyResult, LeaseActive, TypeInv, TypeOK
  <2>2. Lifecycle!GiveUpSlots({r})
    BY <2>1, GivesUp
  <2>3. Lifecycle!Complete(r, outcome)
    BY <1>2, <1>4, <2>2, SameTable DEF ResultAccepted, ApplyResult, Lifecycle!Complete
  <2> QED  BY <2>3, SameTable DEF Lifecycle!Next
<1> QED  BY <1>1, <1>3, <1>4 DEF ReportResult

\* Everything else happens where no client sees it.
LEMMA HiddenSteps ==
    ASSUME TypeInv',
           \/ \E q \in Runs : \/ CancelRead(q) \/ DispatchRow(q) \/ Redeliver(q)
                              \/ TimeoutPasses(q) \/ StartWindowPasses(q)
           \/ DispatchBegin \/ DispatchAbort
           \/ \E s \in Slots : \/ ReadState(s) \/ PackageMissing(s) \/ Execute(s)
                               \/ CallbackLost(s) \/ \E q \in Runs : Fetch(s, q)
           \/ \E w \in Workers : \/ WorkerCrash(w) \/ HeartbeatLate(w) \/ Heartbeat(w)
                                 \/ UpdateWorker(w)
           \/ \E open \in BOOLEAN, n \in 1..MaxLimit : UpdatePool(open, n)
    PROVE  Lifecycle!Next
<1>1. UNCHANGED <<status, result, lease, boundTo>>
  BY DEF CancelRead, DispatchRow, DispatchSkip, DispatchSend, DispatchPostpone, Redeliver,
       TimeoutPasses, StartWindowPasses, DispatchBegin, DispatchAbort, ReadState,
       PackageMissing, Execute, CallbackLost, Fetch, WorkerCrash, HeartbeatLate, Heartbeat,
       UpdateWorker, UpdatePool, runVars
<1>2. limit' \in Nat
  BY BoundAssumption DEF TypeInv, TypeOK
<1> QED  BY <1>1, <1>2, QuietStep

-----------------------------------------------------------------------------
(* The refinement                                                          *)

\* Every step of the detailed system is a step of the life cycle.
LEMMA LifecycleStep ==
    ASSUME KeepInv, [Next]_vars PROVE [Lifecycle!Next]_(Lifecycle!vars)
<1>1. TypeInv'
  BY TypeStep DEF KeepInv, GrantInv, AccountInv
<1>2. CASE UNCHANGED vars
  BY <1>2 DEF vars, runVars, adminVars, Lifecycle!vars, LeaseActive
<1>3. CASE Next
  BY <1>1, <1>3, CreationIsCreate, BatchCancelStops, SingleCancelIsLate, SweepStops, CommitGrants,
     CallbackAdvances, ReportCompletes, HiddenSteps
     DEF Next, ControlPlane, Dispatcher, WorkerTasks, Environment
<1> QED  BY <1>2, <1>3

\* The control plane, its dispatcher, workers and reaper keep the promise of
\* RunLifecycle whatever crashes, duplicates and delays there are: one worker takes
\* a run through its statuses, it ends once, and its slot is held from the grant to
\* that end and never beyond the limit of the pool.
THEOREM LifecycleKept == Spec => KeepsLifecycle
<1>1. Init => KeepInv
  BY InitTypeInv, InitLeaseInv
     DEF Init, KeepInv, GrantInv, AccountInv, PendingGrantsFit, OnlyPooledHold, LeaseActive
<1>2. KeepInv /\ [Next]_vars => KeepInv'
  BY TypeStep, LeaseStep, GrantStep, HoldStep DEF KeepInv, GrantInv, AccountInv
<1>3. Init => Lifecycle!Init
  BY BoundAssumption DEF Init, Lifecycle!Init, LeaseActive
<1>4. KeepInv /\ [Next]_vars => [Lifecycle!Next]_(Lifecycle!vars)
  BY LifecycleStep
<1> QED  BY <1>1, <1>2, <1>3, <1>4, PTL DEF Spec, KeepsLifecycle, Lifecycle!Spec
=============================================================================
