------------------------- MODULE RunControl_proofs -------------------------
(***************************************************************************)
(* Machine-checked proofs about RunControl, for every set of runs, workers *)
(* and slots.  Types come first, then the lease accounting, then what the  *)
(* recorded result and the status have to do with each other.              *)
(***************************************************************************)
EXTENDS RunControl, RunStates_proofs, FiniteSetTheorems, TLAPS

-----------------------------------------------------------------------------
(* The reaper                                                              *)

\* What a sweep does, without the order of its phases: it recovers runs its
\* queries selected, and the overdue ones may become TIMED_OUT.
LEMMA SweepFacts ==
    ASSUME Sweep
    PROVE  \E T, F, O \in SUBSET Runs :
              /\ T \subseteq TimedOut
              /\ F \subseteq RunnerLost \cup DispatchStalled
              /\ O \subseteq Orphaned
              /\ \A r \in T : CanMove(status[r], "TIMED_OUT")
              /\ Recover(T, F, O)
<1>1. PICK T, L, D, O :
              /\ T \in SUBSET TimedOut
              /\ L \in SUBSET (RunnerLost \ T)
              /\ D \in SUBSET DispatchStalled
              /\ O \in SUBSET Orphaned
              /\ \A r \in T : CanMove(status[r], "TIMED_OUT")
              /\ Recover(T, L \cup D, O)
  BY Zenon DEF Sweep, Selection
<1>2. /\ T \subseteq TimedOut
      /\ L \subseteq RunnerLost
      /\ D \subseteq DispatchStalled
      /\ O \subseteq Orphaned
  BY <1>1
<1>3. /\ T \in SUBSET Runs
      /\ L \cup D \in SUBSET Runs
      /\ O \in SUBSET Runs
  BY <1>2 DEF TimedOut, RunnerLost, DispatchStalled, Orphaned
<1>4. L \cup D \subseteq RunnerLost \cup DispatchStalled
  BY <1>2
<1> QED  BY <1>1, <1>2, <1>3, <1>4, Zenon

-----------------------------------------------------------------------------
(* Types                                                                   *)

TypeInv == TypeOK /\ TaskShape

\* The initial rows, queues and slots have their types.
LEMMA InitTypeInv == ASSUME Init PROVE TypeInv
BY PoolAssumption, BoundAssumption, NoneAssumption
   DEF Init, TypeInv, TypeOK, TaskShape, Status, Points, LeaseStates

\* A task that is put somewhere other than into the idle state keeps its slot's shape.
LEMMA ConcludeTypes ==
    ASSUME TypeInv, NEW s \in Slots, job[s] \in Runs, NEW outcome \in Terminal,
           Conclude(s, outcome)
    PROVE  /\ job' \in [Slots -> Runs \cup {None}]
           /\ pc' \in [Slots -> Points]
           /\ hand' \in [Slots -> Terminal \cup {None}]
           /\ local' \in [Workers -> [Runs -> Terminal \cup {None}]]
           /\ TaskShape'
<1>1. Host[s] \in Workers
  BY PoolAssumption
<1>2. local' \in [Workers -> [Runs -> Terminal \cup {None}]]
  BY <1>1 DEF TypeInv, TypeOK, Conclude
<1> QED  BY <1>2, NoneAssumption DEF TypeInv, TypeOK, TaskShape, Conclude, Task, Points

\* Acknowledging frees the slot.
LEMMA AcknowledgeTypes ==
    ASSUME TypeInv, NEW s \in Slots, Acknowledge(s)
    PROVE  /\ job' \in [Slots -> Runs \cup {None}]
           /\ pc' \in [Slots -> Points]
           /\ hand' \in [Slots -> Terminal \cup {None}]
           /\ local' \in [Workers -> [Runs -> Terminal \cup {None}]]
           /\ TaskShape'
BY DEF TypeInv, TypeOK, TaskShape, Acknowledge, Task, Points

\* Raising frees the slot and at most adds one message.
LEMMA FailTypes ==
    ASSUME TypeInv, NEW s \in Slots, job[s] \in Runs, Fail(s)
    PROVE  /\ job' \in [Slots -> Runs \cup {None}]
           /\ pc' \in [Slots -> Points]
           /\ hand' \in [Slots -> Terminal \cup {None}]
           /\ local' \in [Workers -> [Runs -> Terminal \cup {None}]]
           /\ msgs' \in [Runs -> Nat]
           /\ TaskShape'
<1>1. Acknowledge(s)
  BY DEF Fail
<1>2. msgs' \in [Runs -> Nat]
  BY DEF Fail, TypeInv, TypeOK
<1> QED  BY <1>1, <1>2, AcknowledgeTypes

\* Every handler, task step and sweep keeps the rows and the slots well typed.
LEMMA TypeStep == ASSUME TypeInv, [Next]_vars PROVE TypeInv'
<1> USE DEF TypeInv
<1> SUFFICES ASSUME Next PROVE TypeInv'
  BY DEF TypeOK, TaskShape, vars, runVars, clockVars, dispatchVars, taskVars, adminVars
<1>job. ASSUME NEW s \in Slots, pc[s] # "idle" PROVE job[s] \in Runs
  BY <1>job DEF TypeOK, TaskShape
<1>1. ASSUME NEW r \in Runs, CreateRun(r) PROVE TypeInv'
  BY <1>1 DEF CreateRun, TypeOK, TaskShape, Status, InFlight, clockVars, taskVars, adminVars
<1>2. ASSUME NEW R \in SUBSET Runs, CancelBatch(R) PROVE TypeInv'
  BY <1>2 DEF CancelBatch, ApplyCancel, TypeOK, TaskShape, Status, Terminal, LeaseStates,
              clockVars, dispatchVars, taskVars, adminVars
<1>3. ASSUME NEW r \in Runs, CancelRead(r) PROVE TypeInv'
  <2>1. [status |-> status[r], cancel |-> CancelRequested(r)]
            \in [status : Status, cancel : BOOLEAN]
    BY DEF TypeOK, CancelRequested
  <2> QED  BY <1>3, <2>1 DEF CancelRead, TypeOK, TaskShape,
              runVars, clockVars, dispatchVars, taskVars, adminVars
<1>4. ASSUME NEW r \in Runs, CancelCommit(r) PROVE TypeInv'
  <2>1. seen' \in [Runs -> [status : Status, cancel : BOOLEAN] \cup {None}]
    BY <1>4 DEF CancelCommit, TypeOK
  <2>2. /\ status' \in [Runs -> Status]
        /\ lease' \in [Runs -> LeaseStates]
        /\ userCancel' \subseteq Runs
        /\ UNCHANGED <<result, boundTo, reaped>>
    BY <1>4 DEF CancelCommit, ApplyCancel, TypeOK, Status, Terminal, LeaseStates, runVars
  <2> QED  BY <1>4, <2>1, <2>2 DEF CancelCommit, TypeOK, TaskShape,
              clockVars, dispatchVars, taskVars, adminVars
<1>5. CASE Sweep
  <2>1. PICK T, F, O \in SUBSET Runs : Recover(T, F, O)
    BY <1>5, SweepFacts
  <2>2. /\ status' \in [Runs -> Status]
        /\ lease' \in [Runs -> LeaseStates]
        /\ reaped' \subseteq Runs
        /\ UNCHANGED <<result, boundTo, userCancel>>
    BY <2>1 DEF Recover, TypeOK, Status, Terminal, LeaseStates
  <2> QED  BY <1>5, <2>2 DEF Sweep, TypeOK, TaskShape,
              clockVars, dispatchVars, taskVars, adminVars
<1>6. CASE Dispatcher
  <2>1. ASSUME DispatchCommit PROVE TypeInv'
    BY <2>1 DEF DispatchCommit, TypeOK, TaskShape, LeaseStates, clockVars, taskVars, adminVars
  <2>2. ASSUME NEW r \in Runs, DispatchSend(r) PROVE TypeInv'
    BY <2>2 DEF DispatchSend, TypeOK, TaskShape, runVars, clockVars, taskVars, adminVars
  <2>3. ASSUME DispatchBegin \/ DispatchAbort PROVE TypeInv'
    BY <2>3 DEF DispatchBegin, DispatchAbort, TypeOK, TaskShape,
                runVars, clockVars, taskVars, adminVars
  <2>4. ASSUME NEW r \in Runs, DispatchSkip(r) \/ DispatchPostpone(r) PROVE TypeInv'
    BY <2>4 DEF DispatchSkip, DispatchPostpone, TypeOK, TaskShape,
                runVars, clockVars, taskVars, adminVars
  <2> QED  BY <1>6, <2>1, <2>2, <2>3, <2>4 DEF Dispatcher, DispatchRow
<1>7. ASSUME NEW s \in Slots, NEW r \in Runs, Fetch(s, r) PROVE TypeInv'
  <2>1. msgs' \in [Runs -> Nat]
    BY <1>7 DEF Fetch, TypeOK
  <2> QED  BY <1>7, <2>1, NoneAssumption DEF Fetch, Task, TypeOK, TaskShape, Points,
              runVars, clockVars, dispatchVars, adminVars
<1>8. ASSUME NEW s \in Slots, ReadState(s) PROVE TypeInv'
  <2>1. job[s] \in Runs /\ Host[s] \in Workers
    BY <1>8, <1>job, PoolAssumption DEF ReadState
  <2>2. local[Host[s]][job[s]] \in Terminal \cup {None}
    BY <2>1 DEF TypeOK
  <2>3. CASE Acknowledge(s)
    BY <1>8, <2>3, AcknowledgeTypes DEF ReadState, TypeOK,
       runVars, clockVars, dispatchVars, adminVars
  <2>4. CASE /\ UNCHANGED <<job, local>>
             /\ \E out \in Terminal : Task(s, "reporting", out)
    BY <1>8, <2>1, <2>4, NoneAssumption DEF ReadState, Task, TypeOK, TaskShape, Points,
       runVars, clockVars, dispatchVars, adminVars
  <2>5. CASE UNCHANGED <<job, local>> /\ Task(s, "preparing", None)
    BY <1>8, <2>1, <2>5, NoneAssumption DEF ReadState, Task, TypeOK, TaskShape, Points,
       runVars, clockVars, dispatchVars, adminVars
  <2> QED  BY <1>8, <2>2, <2>3, <2>4, <2>5 DEF ReadState, Terminal
<1>9. ASSUME NEW s \in Slots, ReportPreparing(s) \/ ReportRunning(s) PROVE TypeInv'
  <2>1. job[s] \in Runs /\ Host[s] \in Workers
    BY <1>9, <1>job, PoolAssumption DEF ReportPreparing, ReportRunning, ReportStatus
  <2>2. PICK target \in Started, next \in {"starting", "executing"} :
            \/ ApplyStatus(s, target) /\ Task(s, next, None) /\ UNCHANGED <<job, local>>
            \/ ApplyStatus(s, target) /\ Conclude(s, "INFRA_ERROR")
            \/ Conclude(s, "INFRA_ERROR") /\ UNCHANGED <<runVars, clockVars>>
    BY <1>9 DEF ReportPreparing, ReportRunning, ReportStatus, Started
  <2>3. /\ status' \in [Runs -> Status]
        /\ boundTo' \in [Runs -> Workers \cup {None}]
        /\ silent' \subseteq Workers
        /\ UNCHANGED <<result, lease, userCancel, reaped, overdue, unclaimed>>
    BY <2>1, <2>2 DEF ApplyStatus, TypeOK, Status, Started, InFlight, runVars, clockVars
  <2>4. /\ job' \in [Slots -> Runs \cup {None}]
        /\ pc' \in [Slots -> Points]
        /\ hand' \in [Slots -> Terminal \cup {None}]
        /\ local' \in [Workers -> [Runs -> Terminal \cup {None}]]
        /\ TaskShape'
    <3>1. CASE Conclude(s, "INFRA_ERROR")
      BY <2>1, <3>1, ConcludeTypes DEF Terminal
    <3>2. CASE Task(s, next, None) /\ UNCHANGED <<job, local>>
      BY <2>1, <3>2, NoneAssumption DEF Task, TypeOK, TaskShape, Points
    <3> QED  BY <2>2, <3>1, <3>2
  <2>5. UNCHANGED <<seen, dispatchVars, msgs, adminVars>>
    BY <1>9 DEF ReportPreparing, ReportRunning, ReportStatus
  <2> QED  BY <2>3, <2>4, <2>5 DEF TypeOK, dispatchVars, adminVars
<1>10. ASSUME NEW s \in Slots, PackageMissing(s) \/ Execute(s) PROVE TypeInv'
  <2>1. job[s] \in Runs
    BY <1>10, <1>job DEF PackageMissing, Execute
  <2>2. PICK outcome \in Terminal : Conclude(s, outcome)
    BY <1>10, BoundAssumption DEF PackageMissing, Execute, Terminal
  <2> QED  BY <1>10, <2>1, <2>2, ConcludeTypes DEF PackageMissing, Execute, TypeOK,
              runVars, clockVars, dispatchVars, adminVars
<1>11. ASSUME NEW s \in Slots, ReportResult(s) PROVE TypeInv'
  <2>1. job[s] \in Runs /\ hand[s] \in Terminal
    BY <1>11, <1>job DEF ReportResult, TaskShape
  <2>2. /\ status' \in [Runs -> Status]
        /\ result' \in [Runs -> Terminal \cup {None}]
        /\ lease' \in [Runs -> LeaseStates]
        /\ UNCHANGED <<boundTo, userCancel, reaped>>
    BY <1>11, <2>1 DEF ReportResult, ApplyResult, TypeOK, Status, LeaseStates, runVars
  <2>3. \/ Acknowledge(s) /\ UNCHANGED msgs
        \/ Fail(s)
    BY <1>11 DEF ReportResult
  <2> QED  BY <1>11, <2>1, <2>2, <2>3, AcknowledgeTypes, FailTypes DEF ReportResult, TypeOK,
              clockVars, dispatchVars, adminVars
<1>12. ASSUME NEW s \in Slots, CallbackLost(s) PROVE TypeInv'
  <2>1. job[s] \in Runs
    BY <1>12, <1>job DEF CallbackLost
  <2> QED  BY <1>12, <2>1, FailTypes DEF CallbackLost, TypeOK,
              runVars, clockVars, dispatchVars, adminVars
<1>13. ASSUME NEW w \in Workers, WorkerCrash(w) PROVE TypeInv'
  <2> DEFINE lost == {s \in Slots : Host[s] = w /\ pc[s] # "idle"}
             back(r) == Cardinality({s \in lost : job[s] = r})
  <2>1. \A r \in Runs : back(r) \in Nat
    <3>1. ASSUME NEW r \in Runs PROVE back(r) \in Nat
      <4>1. {s \in lost : job[s] = r} \subseteq Slots
        OBVIOUS
      <4> QED  BY <4>1, PoolAssumption, FS_Subset, FS_CardinalityType
    <3> QED  BY <3>1
  <2>2. msgs' = [r \in Runs |-> msgs[r] + back(r)]
    BY <1>13 DEF WorkerCrash
  <2>3. msgs' \in [Runs -> Nat]
    <3> HIDE DEF back
    <3> QED  BY <2>1, <2>2 DEF TypeOK
  <2>4. /\ job' = [s \in Slots |-> IF s \in lost THEN None ELSE job[s]]
        /\ pc' = [s \in Slots |-> IF s \in lost THEN "idle" ELSE pc[s]]
        /\ hand' = [s \in Slots |-> IF s \in lost THEN None ELSE hand[s]]
        /\ UNCHANGED <<runVars, seen, clockVars, dispatchVars, local, adminVars>>
    BY <1>13 DEF WorkerCrash
  <2> QED  BY <2>3, <2>4, NoneAssumption DEF TypeOK, TaskShape, Points,
              runVars, clockVars, dispatchVars, adminVars
<1>14. ASSUME NEW r \in Runs, Redeliver(r) PROVE TypeInv'
  BY <1>14 DEF Redeliver, TypeOK, TaskShape, runVars, clockVars, dispatchVars, taskVars, adminVars
<1>15. ASSUME NEW r \in Runs, TimeoutPasses(r) \/ StartWindowPasses(r) PROVE TypeInv'
  BY <1>15 DEF TimeoutPasses, StartWindowPasses, TypeOK, TaskShape,
               runVars, dispatchVars, taskVars, adminVars
<1>16. ASSUME NEW w \in Workers, HeartbeatLate(w) \/ Heartbeat(w) \/ UpdateWorker(w)
       PROVE  TypeInv'
  BY <1>16 DEF HeartbeatLate, Heartbeat, UpdateWorker, TypeOK, TaskShape,
               runVars, clockVars, dispatchVars, taskVars, adminVars
<1>17. ASSUME NEW open \in BOOLEAN, NEW n \in 1..MaxLimit, UpdatePool(open, n) PROVE TypeInv'
  BY <1>17 DEF UpdatePool, TypeOK, TaskShape, runVars, clockVars, dispatchVars, taskVars
<1> QED
  BY <1>1, <1>2, <1>3, <1>4, <1>5, <1>6, <1>7, <1>8, <1>9, <1>10, <1>11, <1>12, <1>13,
     <1>14, <1>15, <1>16, <1>17 DEF Next, ControlPlane, WorkerTasks, Environment

\* The rows, messages and slots of every reachable state have their types, and a
\* task that is about to report a result has one.
THEOREM TypeCorrect == Spec => []TypeOK /\ []TaskShape
<1>1. Init => TypeInv
  BY InitTypeInv
<1>2. TypeInv /\ [Next]_vars => TypeInv'
  BY TypeStep
<1>3. TypeInv => TypeOK /\ TaskShape
  BY DEF TypeInv
<1> QED  BY <1>1, <1>2, <1>3, PTL DEF Spec

-----------------------------------------------------------------------------
(* The slot lease and the run it belongs to                                *)

AccountInv == TypeInv /\ LeaseInv

\* Before anything is created there is nothing to account for.
LEMMA InitLeaseInv == ASSUME Init PROVE LeaseInv
BY PoolAssumption
   DEF Init, LeaseInv, RowsExist, UnpublishedIsIdle, LeaseFollowsRun, StartedRunIsBound,
       OneHostPerRun, LeaseActive, InFlight, Started

\* A handler that leaves the rows, the outbox, the open dispatch and the slots
\* between the two callbacks alone keeps the lease accounting.
LEMMA LeaseFrame ==
    ASSUME AccountInv,
           UNCHANGED <<status, lease, boundTo, outbox>>,
           \A r \in Runs : seen'[r] # None => seen[r] # None \/ status[r] # "ABSENT",
           \A r \in batch' \cup sent' : r \in Runs /\ outbox[r] = "PENDING",
           \A s \in Slots : pc'[s] \in {"starting", "executing"}
                              => pc[s] = pc'[s] /\ job'[s] = job[s]
    PROVE  LeaseInv'
<1>1. RowsExist'
  BY DEF AccountInv, LeaseInv, RowsExist
<1>2. UnpublishedIsIdle' /\ LeaseFollowsRun' /\ StartedRunIsBound'
  BY DEF AccountInv, LeaseInv, UnpublishedIsIdle, LeaseFollowsRun, StartedRunIsBound, LeaseActive
<1>3. OneHostPerRun'
  BY DEF AccountInv, LeaseInv, OneHostPerRun
<1> QED  BY <1>1, <1>2, <1>3 DEF LeaseInv

\* A transaction that ends the runs of E, gives up their leases, and changes no
\* other run keeps the lease accounting.
LEMMA EndingKeepsLeases ==
    ASSUME AccountInv, NEW E \in SUBSET Runs,
           UNCHANGED <<boundTo, outbox, batch, sent>>,
           \A r \in Runs : seen'[r] # None => seen[r] # None,
           \A r \in E : status[r] # "ABSENT" /\ status'[r] \in Terminal
                          /\ lease'[r] # "ACTIVE"
                          /\ (lease[r] # "ACTIVE" => lease'[r] = lease[r]),
           \A r \in Runs \ E : status'[r] = status[r],
           \A r \in Pooled \ E : lease'[r] = lease[r],
           \A s \in Slots : pc'[s] \in {"starting", "executing"}
                              => pc[s] = pc'[s] /\ job'[s] = job[s]
    PROVE  LeaseInv'
<1> USE PoolAssumption
<1>1. RowsExist'
  BY DEF AccountInv, LeaseInv, RowsExist, TypeInv, TypeOK, Terminal
<1>2. UnpublishedIsIdle'
  BY DEF AccountInv, LeaseInv, UnpublishedIsIdle, Terminal, Started
<1>3. LeaseFollowsRun'
  BY DEF AccountInv, LeaseInv, LeaseFollowsRun, LeaseActive, Terminal, InFlight
<1>4. StartedRunIsBound'
  BY DEF AccountInv, LeaseInv, StartedRunIsBound, LeaseActive
<1>5. OneHostPerRun'
  BY DEF AccountInv, LeaseInv, OneHostPerRun
<1> QED  BY <1>1, <1>2, <1>3, <1>4, <1>5 DEF LeaseInv

\* The publishing commit grants exactly the leases it should.
LEMMA CommitKeepsLeases == ASSUME AccountInv, DispatchCommit PROVE LeaseInv'
<1> USE PoolAssumption DEF AccountInv, LeaseInv
<1>1. /\ outbox' = [r \in Runs |-> IF r \in sent THEN "PUBLISHED" ELSE outbox[r]]
      /\ lease' = [r \in Runs |-> IF r \in sent \cap Pooled /\ status[r] \in InFlight
                                  THEN "ACTIVE" ELSE lease[r]]
      /\ batch = {} /\ sent' = {}
      /\ UNCHANGED <<status, boundTo, seen, batch, pc, job>>
  BY DEF DispatchCommit, taskVars
<1>2. \A r \in sent : outbox[r] = "PENDING"
  BY DEF RowsExist
<1>3. RowsExist'
  BY <1>1, <1>2 DEF RowsExist, TypeInv, TypeOK
<1>4. UnpublishedIsIdle'
  BY <1>1, <1>2 DEF UnpublishedIsIdle, TypeInv, TypeOK
<1>5. LeaseFollowsRun'
  BY <1>1, <1>2 DEF LeaseFollowsRun, UnpublishedIsIdle, LeaseActive
<1>6. StartedRunIsBound'
  BY <1>1, <1>2 DEF StartedRunIsBound, UnpublishedIsIdle, LeaseActive
<1>7. OneHostPerRun'
  BY <1>1 DEF OneHostPerRun
<1> QED  BY <1>3, <1>4, <1>5, <1>6, <1>7

\* A status callback binds the lease it moves, and cannot take a binding over.
LEMMA CallbackKeepsLeases ==
    ASSUME AccountInv, NEW s \in Slots, job[s] \in Runs, NEW target \in Started,
           NEW next \in {"starting", "executing"},
           StatusAccepted(s, target), ApplyStatus(s, target),
           \/ Task(s, next, None) /\ UNCHANGED <<job, local>>
           \/ Conclude(s, "INFRA_ERROR"),
           UNCHANGED <<seen, outbox, batch, sent>>
    PROVE  LeaseInv'
<1> DEFINE r == job[s]
           w == Host[s]
<1> USE PoolAssumption, NoneAssumption
<1>1. w \in Workers /\ w # None /\ status[r] \in InFlight
  BY TableFacts DEF StatusAccepted, AccountInv, TypeInv, TypeOK, InFlight, Started
<1>2. /\ status' = [status EXCEPT ![r] = target]
      /\ boundTo' = [boundTo EXCEPT ![r] = IF r \in Pooled THEN w ELSE @]
      /\ UNCHANGED lease
  BY DEF ApplyStatus
<1>3. r \in Pooled => LeaseActive(r) /\ boundTo[r] \in {None, w}
  BY DEF StatusAccepted, MayBind
<1>4. /\ job' = job
      /\ pc'[s] \in {"starting", "executing", "reporting"}
      /\ \A v \in Slots \ {s} : pc'[v] = pc[v]
  BY DEF Task, Conclude, AccountInv, TypeInv, TypeOK
<1>5. \A q \in Runs \ {r} : status'[q] = status[q] /\ boundTo'[q] = boundTo[q]
  BY <1>2 DEF AccountInv, TypeInv, TypeOK
<1>6. status'[r] = target /\ (r \in Pooled => boundTo'[r] = w)
  BY <1>2 DEF AccountInv, TypeInv, TypeOK
<1>7. RowsExist'
  BY <1>1, <1>5, <1>6 DEF RowsExist, AccountInv, LeaseInv, Started, InFlight
<1>8. UnpublishedIsIdle'
  BY <1>2, <1>3, <1>5, <1>6 DEF UnpublishedIsIdle, LeaseActive, AccountInv, LeaseInv
<1>9. LeaseFollowsRun'
  <2>1. target \in InFlight
    BY DEF Started, InFlight
  <2> QED  BY <1>1, <1>2, <1>5, <1>6, <2>1 DEF LeaseFollowsRun, LeaseActive, AccountInv, LeaseInv
<1>10. StartedRunIsBound'
  BY <1>1, <1>2, <1>5, <1>6 DEF StartedRunIsBound, LeaseActive, AccountInv, LeaseInv
<1>11. OneHostPerRun'
  <2> SUFFICES ASSUME NEW v \in Slots, pc'[v] \in {"starting", "executing"}, job'[v] \in Pooled
               PROVE  boundTo'[job'[v]] = Host[v]
    BY DEF OneHostPerRun
  <2>1. CASE v = s
    BY <1>4, <1>6, <2>1
  <2>2. CASE v # s /\ job[v] = r
    <3>1. boundTo[r] = Host[v]
      BY <1>4, <2>2 DEF OneHostPerRun, AccountInv, LeaseInv
    <3>2. Host[v] = w
      BY <1>3, <1>4, <2>2, <3>1
    <3> QED  BY <1>4, <1>6, <2>2, <3>2
  <2>3. CASE v # s /\ job[v] # r
    BY <1>4, <1>5, <2>3 DEF OneHostPerRun, AccountInv, LeaseInv
  <2> QED  BY <2>1, <2>2, <2>3
<1> QED  BY <1>7, <1>8, <1>9, <1>10, <1>11 DEF LeaseInv

\* Every step of the system keeps the lease accounting.
LEMMA LeaseStep == ASSUME AccountInv, [Next]_vars PROVE LeaseInv'
<1> USE DEF AccountInv
<1> USE PoolAssumption
<1>p. \A r \in batch \cup sent : r \in Runs /\ outbox[r] = "PENDING"
  BY DEF LeaseInv, RowsExist, TypeInv, TypeOK
<1>0. CASE UNCHANGED vars
  <2>1. UNCHANGED <<status, lease, boundTo, outbox, seen, batch, sent, pc, job>>
    BY <1>0 DEF vars, runVars, dispatchVars, taskVars
  <2> QED  BY <1>p, <2>1, LeaseFrame
<1>1. ASSUME NEW q \in Runs, CreateRun(q) PROVE LeaseInv'
  <2> USE DEF LeaseInv
  <2>1. /\ status' = [status EXCEPT ![q] = "QUEUED"]
        /\ outbox' = [outbox EXCEPT ![q] = "PENDING"]
        /\ status[q] = "ABSENT" /\ outbox[q] = "NONE"
        /\ UNCHANGED <<lease, boundTo, seen, batch, sent, pc, job>>
    BY <1>1 DEF CreateRun, taskVars, RowsExist
  <2>2. RowsExist'
    BY <2>1 DEF RowsExist, TypeInv, TypeOK
  <2>3. UnpublishedIsIdle'
    BY <2>1 DEF UnpublishedIsIdle, TypeInv, TypeOK, Started
  <2>4. LeaseFollowsRun' /\ StartedRunIsBound'
    BY <2>1 DEF LeaseFollowsRun, StartedRunIsBound, LeaseActive, UnpublishedIsIdle,
                TypeInv, TypeOK
  <2>5. OneHostPerRun'
    BY <2>1 DEF OneHostPerRun
  <2> QED  BY <2>2, <2>3, <2>4, <2>5
<1>2. ASSUME NEW R \in SUBSET Runs, CancelBatch(R) PROVE LeaseInv'
  <2> DEFINE E == {r \in R : status[r] \in InFlight /\ ~CancelRequested(r)
                               /\ status[r] = "QUEUED"}
  <2>1. /\ status' = [r \in Runs |-> IF r \in E THEN "CANCELED" ELSE status[r]]
        /\ lease' = [r \in Runs |-> IF r \in E /\ LeaseActive(r) THEN "RELEASED" ELSE lease[r]]
        /\ UNCHANGED <<boundTo, outbox, seen, batch, sent, pc, job>>
    BY <1>2 DEF CancelBatch, ApplyCancel, dispatchVars, taskVars
  <2> QED  BY <2>1, EndingKeepsLeases DEF LeaseActive, Terminal
<1>3. ASSUME NEW q \in Runs, CancelRead(q) PROVE LeaseInv'
  <2>1. /\ UNCHANGED <<status, lease, boundTo, outbox, batch, sent, pc, job>>
        /\ \A r \in Runs : seen'[r] # None => seen[r] # None \/ status[r] # "ABSENT"
    BY <1>3 DEF CancelRead, runVars, dispatchVars, taskVars, TypeInv, TypeOK
  <2> QED  BY <1>p, <2>1, LeaseFrame
<1>4. ASSUME NEW q \in Runs, CancelCommit(q) PROVE LeaseInv'
  <2>1. /\ status[q] # "ABSENT"
        /\ \A r \in Runs : seen'[r] # None => seen[r] # None
        /\ UNCHANGED <<boundTo, outbox, batch, sent, pc, job>>
    BY <1>4 DEF CancelCommit, ApplyCancel, dispatchVars, taskVars, runVars, LeaseInv, RowsExist,
                TypeInv, TypeOK
  <2>2. CASE UNCHANGED runVars \/ ApplyCancel({q}, {})
    <3>1. UNCHANGED <<status, lease>>
      BY <2>2 DEF ApplyCancel, runVars, TypeInv, TypeOK
    <3> QED  BY <1>p, <2>1, <3>1, LeaseFrame
  <2>3. CASE ApplyCancel({q}, {q})
    <3> DEFINE E == {q}
    <3>1. \A r \in E : /\ status[r] # "ABSENT" /\ status'[r] \in Terminal
                        /\ lease'[r] # "ACTIVE"
                        /\ (lease[r] # "ACTIVE" => lease'[r] = lease[r])
      BY <2>1, <2>3 DEF ApplyCancel, LeaseActive, Terminal
    <3>2. \A r \in Runs \ E : status'[r] = status[r] /\ lease'[r] = lease[r]
      BY <2>3 DEF ApplyCancel
    <3> HIDE DEF AccountInv
    <3>3. E \in SUBSET Runs
      OBVIOUS
    <3> HIDE DEF E
    <3> QED  BY <2>1, <3>1, <3>2, <3>3, EndingKeepsLeases
  <2> QED  BY <1>4, <2>2, <2>3 DEF CancelCommit
<1>5. CASE Sweep
  <2>1. PICK T, F, O \in SUBSET Runs :
            /\ T \subseteq TimedOut
            /\ F \subseteq RunnerLost \cup DispatchStalled
            /\ O \subseteq Orphaned
            /\ Recover(T, F, O)
    BY <1>5, SweepFacts
  <2>2. O \cap Pooled = {}
    BY <2>1 DEF Orphaned, LeaseInv, LeaseFollowsRun, Terminal, InFlight
  <2>3. \A r \in T \cup F : status[r] \in InFlight
    BY <2>1 DEF TimedOut, RunnerLost, DispatchStalled, Started, InFlight
  <2>4. /\ status' = [r \in Runs |-> IF r \in T THEN "TIMED_OUT"
                                     ELSE IF r \in F THEN "INFRA_ERROR" ELSE status[r]]
        /\ lease' = [r \in Runs |->
                        IF r \in T \cup F /\ LeaseActive(r) THEN "EXPIRED"
                        ELSE IF r \in O THEN "RELEASED" ELSE lease[r]]
        /\ boundTo' = boundTo
    BY <2>1 DEF Recover
  <2>5. UNCHANGED <<outbox, seen, batch, sent, pc, job>>
    BY <1>5 DEF Sweep, dispatchVars, taskVars
  <2>6. \A r \in T \cup F : r \notin O
    BY <2>1, <2>3 DEF Orphaned, InFlight, Terminal
  <2>7. \A r \in T \cup F : /\ status[r] # "ABSENT" /\ status'[r] \in Terminal
                            /\ lease'[r] # "ACTIVE"
                            /\ (lease[r] # "ACTIVE" => lease'[r] = lease[r])
    BY <2>3, <2>4, <2>6 DEF InFlight, Terminal, LeaseActive
  <2>8. \A r \in Runs \ (T \cup F) : status'[r] = status[r]
    BY <2>4
  <2>9. \A r \in Pooled \ (T \cup F) : lease'[r] = lease[r]
    BY <2>2, <2>4
  <2> HIDE DEF AccountInv
  <2> QED  BY <2>4, <2>5, <2>7, <2>8, <2>9, EndingKeepsLeases
<1>6. CASE Dispatcher
  <2>1. CASE DispatchCommit
    BY <2>1, CommitKeepsLeases
  <2>2. ASSUME DispatchBegin \/ DispatchAbort \/ \E r \in Runs : DispatchRow(r) PROVE LeaseInv'
    <3>1. UNCHANGED <<status, lease, boundTo, outbox, seen, pc, job>>
      BY <2>2 DEF DispatchBegin, DispatchAbort, DispatchRow, DispatchSkip, DispatchSend,
                  DispatchPostpone, runVars, taskVars
    <3>2. \A r \in batch' \cup sent' : r \in Runs /\ outbox[r] = "PENDING"
      BY <2>2, <1>p DEF DispatchBegin, DispatchAbort, DispatchRow, DispatchSkip, DispatchSend,
                  DispatchPostpone
    <3> QED  BY <3>1, <3>2, LeaseFrame
  <2> QED  BY <1>6, <2>1, <2>2 DEF Dispatcher
<1>7. ASSUME NEW s \in Slots,
             \/ \E r \in Runs : Fetch(s, r)
             \/ ReadState(s) \/ PackageMissing(s) \/ Execute(s) \/ CallbackLost(s)
      PROVE  LeaseInv'
  <2>1. UNCHANGED <<status, lease, boundTo, outbox, seen, batch, sent>>
    BY <1>7 DEF Fetch, ReadState, PackageMissing, Execute, CallbackLost, runVars, dispatchVars
  <2>2. /\ pc'[s] \notin {"starting", "executing"}
        /\ \A v \in Slots \ {s} : pc'[v] = pc[v] /\ job'[v] = job[v]
    BY <1>7 DEF Fetch, ReadState, PackageMissing, Execute, CallbackLost, Fail, Conclude,
                Acknowledge, Task, TypeInv, TypeOK
  <2> QED  BY <1>p, <2>1, <2>2, LeaseFrame
<1>8. ASSUME NEW s \in Slots, NEW here \in {"preparing", "starting"}, NEW target \in Started,
             NEW next \in {"starting", "executing"}, ReportStatus(s, here, target, next)
      PROVE  LeaseInv'
  <2>1. job[s] \in Runs /\ UNCHANGED <<seen, outbox, batch, sent>>
    BY <1>8 DEF ReportStatus, TypeInv, TypeOK, TaskShape, dispatchVars
  <2>2. CASE /\ Conclude(s, "INFRA_ERROR")
             /\ UNCHANGED <<runVars, clockVars>>
    <3>1. /\ pc'[s] \notin {"starting", "executing"}
          /\ \A v \in Slots \ {s} : pc'[v] = pc[v] /\ job'[v] = job[v]
      BY <2>2 DEF Conclude, Task, TypeInv, TypeOK
    <3>2. UNCHANGED <<status, lease, boundTo>>
      BY <2>2 DEF runVars
    <3> QED  BY <1>p, <2>1, <3>1, <3>2, LeaseFrame
  <2>3. CASE /\ StatusAccepted(s, target)
             /\ ApplyStatus(s, target)
             /\ \/ Task(s, next, None) /\ UNCHANGED <<job, local>>
                \/ Conclude(s, "INFRA_ERROR")
    <3> HIDE DEF AccountInv
    <3> QED  BY <2>1, <2>3, CallbackKeepsLeases
  <2> QED  BY <1>8, <2>2, <2>3 DEF ReportStatus
<1>9. ASSUME NEW s \in Slots, ReportResult(s) PROVE LeaseInv'
  <2> DEFINE r == job[s]
  <2>1. r \in Runs /\ hand[s] \in Terminal
    BY <1>9 DEF ReportResult, TypeInv, TypeOK, TaskShape
  <2>2. /\ pc'[s] \notin {"starting", "executing"}
        /\ \A v \in Slots \ {s} : pc'[v] = pc[v] /\ job'[v] = job[v]
        /\ UNCHANGED <<boundTo, outbox, seen, batch, sent>>
    BY <1>9 DEF ReportResult, ApplyResult, Fail, Acknowledge, Task, TypeInv, TypeOK,
                dispatchVars, runVars
  <2>3. CASE UNCHANGED runVars
    BY <1>p, <2>2, <2>3, LeaseFrame DEF runVars
  <2>4. CASE ResultAccepted(r, hand[s]) /\ ApplyResult(r, hand[s])
    <3>1. status[r] \in InFlight
      BY <2>1, <2>4, TableFacts DEF ResultAccepted, TypeInv, TypeOK
    <3>2. /\ status'[r] = hand[s]
          /\ lease'[r] = IF LeaseActive(r) THEN "RELEASED" ELSE lease[r]
          /\ \A q \in Runs \ {r} : status'[q] = status[q] /\ lease'[q] = lease[q]
      BY <2>1, <2>4 DEF ApplyResult, TypeInv, TypeOK
    <3>3. /\ status[r] # "ABSENT" /\ status'[r] \in Terminal
          /\ lease'[r] # "ACTIVE"
          /\ (lease[r] # "ACTIVE" => lease'[r] = lease[r])
      BY <2>1, <3>1, <3>2 DEF LeaseActive, InFlight
    <3>4. \A v \in Slots : pc'[v] \in {"starting", "executing"}
                              => pc[v] = pc'[v] /\ job'[v] = job[v]
      BY <2>2
    <3> DEFINE E == {r}
    <3>5. /\ E \in SUBSET Runs
          /\ \A q \in E : /\ status[q] # "ABSENT" /\ status'[q] \in Terminal
                          /\ lease'[q] # "ACTIVE"
                          /\ (lease[q] # "ACTIVE" => lease'[q] = lease[q])
          /\ \A q \in Runs \ E : status'[q] = status[q]
          /\ \A q \in Pooled \ E : lease'[q] = lease[q]
      BY <2>1, <3>2, <3>3
    <3> HIDE DEF AccountInv, E
    <3> QED  BY <2>2, <3>4, <3>5, EndingKeepsLeases
  <2> QED  BY <1>9, <2>3, <2>4 DEF ReportResult
<1>10. ASSUME NEW w \in Workers, WorkerCrash(w) PROVE LeaseInv'
  <2>1. UNCHANGED <<status, lease, boundTo, outbox, seen, batch, sent>>
    BY <1>10 DEF WorkerCrash, runVars, dispatchVars
  <2>2. \A s \in Slots : pc'[s] \in {"starting", "executing"}
                              => pc[s] = pc'[s] /\ job'[s] = job[s]
    BY <1>10 DEF WorkerCrash
  <2> QED  BY <1>p, <2>1, <2>2, LeaseFrame
<1>11. ASSUME \/ \E w \in Workers : HeartbeatLate(w) \/ Heartbeat(w) \/ UpdateWorker(w)
              \/ \E r \in Runs : Redeliver(r) \/ TimeoutPasses(r) \/ StartWindowPasses(r)
              \/ \E open \in BOOLEAN, n \in 1..MaxLimit : UpdatePool(open, n)
       PROVE  LeaseInv'
  <2>1. UNCHANGED <<status, lease, boundTo, outbox, seen, batch, sent, pc, job>>
    BY <1>11 DEF HeartbeatLate, Heartbeat, UpdateWorker, Redeliver, TimeoutPasses,
                 StartWindowPasses, UpdatePool, runVars, dispatchVars, taskVars
  <2> QED  BY <1>p, <2>1, LeaseFrame
<1>12. ASSUME NEW s \in Slots, ReportPreparing(s) \/ ReportRunning(s) PROVE LeaseInv'
  BY <1>8, <1>12 DEF ReportPreparing, ReportRunning, Started
<1> QED
  BY <1>0, <1>1, <1>2, <1>3, <1>4, <1>5, <1>6, <1>7, <1>9, <1>10, <1>11, <1>12
     DEF Next, ControlPlane, WorkerTasks, Environment

\* The slot accounting, the binding and the types hold together.
LEMMA AccountInvariant == Spec => []AccountInv
<1>1. Init => AccountInv
  BY InitTypeInv, InitLeaseInv DEF AccountInv
<1>2. AccountInv /\ [Next]_vars => AccountInv'
  BY TypeStep, LeaseStep DEF AccountInv
<1> QED  BY <1>1, <1>2, PTL DEF Spec

\* A pooled run holds its ACTIVE slot lease exactly from the publishing commit to the
\* transaction that ends it.
THEOREM LeaseAccounting == Spec => []LeaseFollowsRun
<1>1. AccountInv => LeaseFollowsRun
  BY DEF AccountInv, LeaseInv
<1> QED  BY AccountInvariant, <1>1, PTL

\* A started pooled run is bound to a worker and a queued one is not, so the reaper
\* can tell a lost runner from a stalled dispatch.
THEOREM RunnersAreKnown == Spec => []StartedRunIsBound
<1>1. AccountInv => StartedRunIsBound
  BY DEF AccountInv, LeaseInv
<1> QED  BY AccountInvariant, <1>1, PTL

\* No other worker gets past the PREPARING callback of a run that is bound.
THEOREM BindingFences == Spec => []OneHostPerRun
<1>1. AccountInv => OneHostPerRun
  BY DEF AccountInv, LeaseInv
<1> QED  BY AccountInvariant, <1>1, PTL

-----------------------------------------------------------------------------
(* The status, the recorded result and the transition table                *)

\* Every change of a persisted status is a row of the table, but for the single-run
\* cancel, which writes CANCELED.
LEMMA StatusSteps ==
    ASSUME TypeInv, [Next]_vars, NEW r \in Runs, status'[r] # status[r], status[r] # "ABSENT"
    PROVE  \/ CanMove(status[r], status'[r])
           \/ CancelCommit(r) /\ status'[r] = "CANCELED"
<1> USE DEF TypeInv
<1>1. ASSUME NEW q \in Runs, CreateRun(q) PROVE FALSE
  BY <1>1 DEF CreateRun, TypeOK
<1>2. ASSUME NEW R \in SUBSET Runs, CancelBatch(R) PROVE CanMove(status[r], status'[r])
  <2>1. status[r] = "QUEUED" /\ status'[r] = "CANCELED"
    BY <1>2 DEF CancelBatch, ApplyCancel
  <2> QED  BY <2>1, TableEnds DEF InFlight
<1>3. ASSUME NEW q \in Runs, CancelCommit(q)
      PROVE  CancelCommit(r) /\ status'[r] = "CANCELED"
  BY <1>3 DEF CancelCommit, ApplyCancel, runVars
<1>4. CASE Sweep
  <2>1. PICK T, F, O \in SUBSET Runs :
            /\ F \subseteq RunnerLost \cup DispatchStalled
            /\ \A q \in T : CanMove(status[q], "TIMED_OUT")
            /\ Recover(T, F, O)
    BY <1>4, SweepFacts
  <2>2. CASE r \in T
    BY <2>1, <2>2 DEF Recover
  <2>3. CASE r \in F \ T
    <3>1. status[r] \in InFlight /\ status'[r] = "INFRA_ERROR"
      BY <2>1, <2>3 DEF Recover, RunnerLost, DispatchStalled, Started, InFlight
    <3> QED  BY <3>1, TableEnds
  <2>4. CASE r \notin T \cup F
    BY <2>1, <2>4 DEF Recover
  <2> QED  BY <2>2, <2>3, <2>4
<1>5. ASSUME NEW s \in Slots, ReportPreparing(s) \/ ReportRunning(s)
      PROVE  CanMove(status[r], status'[r])
  <2>1. job[s] \in Runs
    BY <1>5 DEF ReportPreparing, ReportRunning, ReportStatus, TypeOK, TaskShape
  <2>2. PICK target : StatusAccepted(s, target) /\ ApplyStatus(s, target)
    BY <1>5 DEF ReportPreparing, ReportRunning, ReportStatus, runVars
  <2> QED  BY <2>1, <2>2 DEF StatusAccepted, ApplyStatus, TypeOK
<1>6. ASSUME NEW s \in Slots, ReportResult(s) PROVE CanMove(status[r], status'[r])
  <2>1. job[s] \in Runs
    BY <1>6 DEF ReportResult, TypeOK, TaskShape
  <2>2. ResultAccepted(job[s], hand[s]) /\ ApplyResult(job[s], hand[s])
    BY <1>6 DEF ReportResult, runVars
  <2> QED  BY <2>1, <2>2 DEF ResultAccepted, ApplyResult, TypeOK
<1>7. ASSUME \/ UNCHANGED vars
             \/ \E q \in Runs : \/ CancelRead(q) \/ DispatchRow(q) \/ Redeliver(q)
                                \/ TimeoutPasses(q) \/ StartWindowPasses(q)
             \/ DispatchBegin \/ DispatchCommit \/ DispatchAbort
             \/ \E s \in Slots : \/ ReadState(s) \/ PackageMissing(s) \/ Execute(s)
                                 \/ CallbackLost(s) \/ \E q \in Runs : Fetch(s, q)
             \/ \E w \in Workers : \/ WorkerCrash(w) \/ HeartbeatLate(w) \/ Heartbeat(w)
                                   \/ UpdateWorker(w)
             \/ \E open \in BOOLEAN, n \in 1..MaxLimit : UpdatePool(open, n)
      PROVE  FALSE
  BY <1>7 DEF CancelRead, DispatchRow, DispatchSkip, DispatchSend, DispatchPostpone, Redeliver,
       TimeoutPasses, StartWindowPasses, DispatchBegin, DispatchCommit, DispatchAbort, ReadState,
       PackageMissing, Execute, CallbackLost, Fetch, WorkerCrash, HeartbeatLate, Heartbeat,
       UpdateWorker, UpdatePool, runVars, vars
<1> QED
  BY <1>1, <1>2, <1>3, <1>4, <1>5, <1>6, <1>7
     DEF Next, ControlPlane, Dispatcher, WorkerTasks, Environment

\* Only the report of a first result writes the result column, with the status it writes.
LEMMA ResultSteps ==
    ASSUME TypeInv, [Next]_vars, NEW r \in Runs, result'[r] # result[r]
    PROVE  /\ result[r] = None
           /\ result'[r] = status'[r]
           /\ \E s \in Slots : job[s] = r /\ ReportResult(s)
<1> USE DEF TypeInv
<1>1. ASSUME NEW s \in Slots, ReportResult(s)
      PROVE  job[s] = r /\ result[r] = None /\ result'[r] = status'[r]
  <2>1. job[s] \in Runs
    BY <1>1 DEF ReportResult, TypeOK, TaskShape
  <2>2. ResultAccepted(job[s], hand[s]) /\ ApplyResult(job[s], hand[s])
    BY <1>1 DEF ReportResult, runVars
  <2> QED  BY <2>1, <2>2 DEF ResultAccepted, ApplyResult, TypeOK
<1>2. CASE Sweep
  BY <1>2, SweepFacts DEF Recover
<1>3. ASSUME \/ UNCHANGED vars
             \/ \E q \in Runs : \/ CancelRead(q) \/ DispatchRow(q) \/ Redeliver(q)
                                \/ TimeoutPasses(q) \/ StartWindowPasses(q)
                                \/ CreateRun(q) \/ CancelCommit(q)
             \/ \E R \in SUBSET Runs : CancelBatch(R)
             \/ DispatchBegin \/ DispatchCommit \/ DispatchAbort
             \/ \E s \in Slots : \/ ReadState(s) \/ PackageMissing(s) \/ Execute(s)
                                 \/ CallbackLost(s) \/ \E q \in Runs : Fetch(s, q)
             \/ \E w \in Workers : \/ WorkerCrash(w) \/ HeartbeatLate(w) \/ Heartbeat(w)
                                   \/ UpdateWorker(w)
             \/ \E open \in BOOLEAN, n \in 1..MaxLimit : UpdatePool(open, n)
      PROVE  FALSE
  BY <1>3 DEF CancelRead, DispatchRow, DispatchSkip, DispatchSend, DispatchPostpone, Redeliver,
       TimeoutPasses, StartWindowPasses, DispatchBegin, DispatchCommit, DispatchAbort, ReadState,
       PackageMissing, Execute, CallbackLost, Fetch, WorkerCrash, HeartbeatLate, Heartbeat,
       UpdateWorker, UpdatePool, CreateRun, CancelCommit, CancelBatch, ApplyCancel, runVars, vars
<1>4. ASSUME NEW s \in Slots, ReportPreparing(s) \/ ReportRunning(s) PROVE FALSE
  BY <1>4 DEF ReportPreparing, ReportRunning, ReportStatus, ApplyStatus, runVars
<1> QED
  BY <1>1, <1>2, <1>3, <1>4 DEF Next, ControlPlane, Dispatcher, WorkerTasks, Environment

\* A recorded result and the status never part, except through a stale cancel.
LEMMA ResultStep ==
    ASSUME TypeInv, ResultMatchesStatus, [Next]_vars
    PROVE  ResultMatchesStatus'
<1> SUFFICES ASSUME NEW r \in Runs, result'[r] # None
             PROVE  status'[r] \in {result'[r], "CANCELED"}
  BY DEF ResultMatchesStatus
<1>1. CASE result'[r] # result[r]
  BY <1>1, ResultSteps
<1>2. CASE result'[r] = result[r]
  <2>1. status[r] \in Terminal /\ status[r] \in {result[r], "CANCELED"}
    BY <1>2 DEF ResultMatchesStatus, TypeInv, TypeOK, Terminal
  <2>2. status[r] # "ABSENT" /\ \A to : ~CanMove(status[r], to)
    <3>1. status[r] \notin InFlight /\ status[r] # "ABSENT" /\ status[r] \in Status
      BY <2>1 DEF Terminal, InFlight, Status
    <3> QED  BY <3>1, TableFacts
  <2>3. status'[r] # status[r] => status'[r] = "CANCELED"
    BY <2>2, StatusSteps
  <2> QED  BY <1>2, <2>1, <2>3
<1> QED  BY <1>1, <1>2

\* The result document and the status of a run agree for ever, whichever of the worker,
\* the canceler and the reaper comes last.
THEOREM ResultAgreement == Spec => []ResultMatchesStatus
<1>1. Init => TypeInv /\ ResultMatchesStatus
  BY InitTypeInv DEF Init, ResultMatchesStatus
<1>2. TypeInv /\ ResultMatchesStatus /\ [Next]_vars => (TypeInv /\ ResultMatchesStatus)'
  BY TypeStep, ResultStep
<1> QED  BY <1>1, <1>2, PTL DEF Spec

\* record_run_result never replaces a stored result, and update_run_status, the reaper
\* and cancel_runs never leave the transition table.
THEOREM TransitionDiscipline == Spec => ResultIsImmutable /\ LateCallsKeepTheTable
<1>1. Init => TypeInv
  BY InitTypeInv
<1>2. TypeInv /\ [Next]_vars => TypeInv'
  BY TypeStep
<1>3. TypeInv /\ [Next]_vars
        => [\A r \in Runs : result[r] # None => result'[r] = result[r]]_vars
  BY ResultSteps
<1>4. TypeInv /\ [Next]_vars
        => [\A r \in Runs :
              status'[r] # status[r] /\ status[r] # "ABSENT"
                 => CanMove(status[r], status'[r]) \/ CancelCommit(r)]_vars
  BY StatusSteps
<1> QED  BY <1>1, <1>2, <1>3, <1>4, PTL DEF Spec, ResultIsImmutable, LateCallsKeepTheTable

-----------------------------------------------------------------------------
(* The pool's limit                                                        *)

GrantInv == AccountInv /\ PendingGrantsFit

\* Outside the publishing commit no lease becomes ACTIVE.
LEMMA OnlyCommitGrants ==
    ASSUME TypeInv, [Next]_vars, ~DispatchCommit, NEW r \in Runs, LeaseActive(r)'
    PROVE  LeaseActive(r)
<1> USE DEF TypeInv, LeaseActive
<1>1. CASE Sweep
  BY <1>1, SweepFacts DEF Recover
<1>2. ASSUME \/ UNCHANGED vars
             \/ \E q \in Runs : \/ CancelRead(q) \/ DispatchRow(q) \/ Redeliver(q)
                                \/ TimeoutPasses(q) \/ StartWindowPasses(q)
                                \/ CreateRun(q) \/ CancelCommit(q)
             \/ \E R \in SUBSET Runs : CancelBatch(R)
             \/ DispatchBegin \/ DispatchAbort
             \/ \E s \in Slots : \/ ReadState(s) \/ PackageMissing(s) \/ Execute(s)
                                 \/ CallbackLost(s) \/ \E q \in Runs : Fetch(s, q)
             \/ \E w \in Workers : \/ WorkerCrash(w) \/ HeartbeatLate(w) \/ Heartbeat(w)
                                   \/ UpdateWorker(w)
             \/ \E open \in BOOLEAN, n \in 1..MaxLimit : UpdatePool(open, n)
      PROVE  lease'[r] \in {lease[r], "RELEASED"}
  BY <1>2 DEF CancelRead, DispatchRow, DispatchSkip, DispatchSend, DispatchPostpone, Redeliver,
       TimeoutPasses, StartWindowPasses, DispatchBegin, DispatchAbort, ReadState,
       PackageMissing, Execute, CallbackLost, Fetch, WorkerCrash, HeartbeatLate, Heartbeat,
       UpdateWorker, UpdatePool, CreateRun, CancelCommit, CancelBatch, ApplyCancel, runVars, vars
<1>3. ASSUME NEW s \in Slots, ReportPreparing(s) \/ ReportRunning(s) \/ ReportResult(s)
      PROVE  lease'[r] \in {lease[r], "RELEASED"}
  BY <1>3 DEF ReportPreparing, ReportRunning, ReportStatus, ApplyStatus, ReportResult, ApplyResult,
       runVars, TypeOK
<1> QED
  BY <1>1, <1>2, <1>3 DEF Next, ControlPlane, Dispatcher, WorkerTasks, Environment

\* The slots taken, as the dispatcher sees them, are finitely many.
LEMMA TakenFinite ==
    ASSUME NEW S \in SUBSET Runs
    PROVE  IsFiniteSet(S) /\ Cardinality(S) \in Nat
           /\ \A T \in SUBSET S : Cardinality(T) \in Nat /\ Cardinality(T) <= Cardinality(S)
<1>1. IsFiniteSet(S)
  BY PoolAssumption, FS_Subset
<1>2. ASSUME NEW T \in SUBSET S
      PROVE  Cardinality(T) \in Nat /\ Cardinality(T) <= Cardinality(S)
  BY <1>1, FS_Subset, FS_CardinalityType
<1> QED  BY <1>1, <1>2, FS_CardinalityType

\* A step that opens no slot, sends nothing and leaves the limit keeps the pending
\* grants within it.
LEMMA PendingFrame ==
    ASSUME GrantInv, [Next]_vars, ~DispatchCommit, UNCHANGED <<sent, limit>>
    PROVE  PendingGrantsFit'
<1>1. ASSUME NEW r \in sent, status'[r] \in InFlight PROVE status[r] \in InFlight
  <2>1. r \in Runs /\ status[r] \in Status /\ status[r] # "ABSENT"
    BY DEF GrantInv, AccountInv, TypeInv, TypeOK, LeaseInv, RowsExist
  <2>2. CASE status'[r] = status[r]
    BY <1>1, <2>2
  <2>3. CASE CanMove(status[r], status'[r])
    BY <2>1, <2>3, TableFacts
  <2>4. status'[r] # "CANCELED"
    BY <1>1 DEF InFlight
  <2> QED  BY <2>1, <2>2, <2>3, <2>4, StatusSteps DEF GrantInv, AccountInv
<1>2. \A r \in Runs : LeaseActive(r)' => LeaseActive(r)
  BY OnlyCommitGrants DEF GrantInv, AccountInv
<1>3. Taken' \in SUBSET Taken
  BY <1>1, <1>2 DEF Taken
<1>4. Taken \in SUBSET Runs
  BY DEF Taken, GrantInv, AccountInv, TypeInv, TypeOK
<1>5. /\ Cardinality(Taken') \in Nat /\ Cardinality(Taken) \in Nat
      /\ Cardinality(Taken') <= Cardinality(Taken)
  BY <1>3, <1>4, TakenFinite
<1>6. limit \in Nat
  BY BoundAssumption DEF GrantInv, AccountInv, TypeInv, TypeOK
<1> SUFFICES ASSUME \E r \in sent \cap Pooled : status'[r] \in InFlight
             PROVE  Cardinality(Taken') <= limit
  BY DEF PendingGrantsFit
<1>7. Cardinality(Taken) <= limit
  BY <1>1 DEF GrantInv, PendingGrantsFit
<1> QED  BY <1>5, <1>6, <1>7

\* A send is decided with a slot to spare.
LEMMA SendFits == ASSUME GrantInv, NEW q \in Runs, DispatchSend(q) PROVE PendingGrantsFit'
<1> USE PoolAssumption DEF GrantInv, AccountInv
<1>1. /\ sent' = sent \cup {q} /\ q \in batch
      /\ UNCHANGED <<status, lease, limit>>
      /\ MayPublish(q)
  BY DEF DispatchSend, runVars, adminVars
<1>2. Taken \in SUBSET Runs /\ limit \in Nat
  BY BoundAssumption DEF Taken, TypeInv, TypeOK
<1>3. IsFiniteSet(Taken) /\ Cardinality(Taken) \in Nat
  BY <1>2, TakenFinite
<1>4. CASE q \in Pooled
  <2>1. ~LeaseActive(q)
    BY <1>1, <1>4 DEF LeaseInv, RowsExist, LeaseFollowsRun
  <2>2. Cardinality(Taken) < limit
    BY <1>1, <1>4, <2>1 DEF MayPublish, HasCapacity
  <2>3. Taken' \subseteq Taken \cup {q}
    BY <1>1 DEF Taken, LeaseActive
  <2>4. /\ IsFiniteSet(Taken \cup {q})
        /\ Cardinality(Taken \cup {q}) \in {Cardinality(Taken), Cardinality(Taken) + 1}
    BY <1>3, FS_AddElement
  <2>5. Cardinality(Taken \cup {q}) <= limit /\ Cardinality(Taken \cup {q}) \in Nat
    BY <1>2, <1>3, <2>2, <2>4
  <2>6. Cardinality(Taken') <= Cardinality(Taken \cup {q}) /\ Cardinality(Taken') \in Nat
    BY <2>3, <2>4, FS_Subset, FS_CardinalityType
  <2>7. Cardinality(Taken') <= limit'
    BY <1>1, <1>2, <2>5, <2>6
  <2> QED  BY <2>7 DEF PendingGrantsFit
<1>5. CASE q \notin Pooled
  <2>1. Taken' = Taken /\ sent' \cap Pooled = sent \cap Pooled
    BY <1>1, <1>5 DEF Taken, LeaseActive
  <2> QED  BY <1>1, <2>1 DEF PendingGrantsFit
<1> QED  BY <1>4, <1>5

\* Every step keeps the grants of the open dispatch within the limit.
LEMMA GrantStep == ASSUME GrantInv, [Next]_vars PROVE PendingGrantsFit'
<1>1. CASE DispatchCommit \/ DispatchAbort
  BY <1>1 DEF DispatchCommit, DispatchAbort, PendingGrantsFit
<1>2. ASSUME NEW q \in Runs, DispatchSend(q) PROVE PendingGrantsFit'
  BY <1>2, SendFits
<1>3. ASSUME NEW q \in Runs, DispatchSkip(q) PROVE PendingGrantsFit'
  <2>1. /\ sent' = sent \cup {q} /\ status[q] \notin InFlight
        /\ UNCHANGED <<status, lease, limit>>
    BY <1>3 DEF DispatchSkip, runVars, adminVars, Terminal, InFlight
  <2>2. /\ Taken' = Taken
        /\ (\E r \in sent' \cap Pooled : status'[r] \in InFlight)
             <=> (\E r \in sent \cap Pooled : status[r] \in InFlight)
    BY <2>1 DEF Taken, LeaseActive
  <2> QED  BY <2>1, <2>2 DEF PendingGrantsFit, GrantInv
<1>4. ASSUME NEW open \in BOOLEAN, NEW n \in 1..MaxLimit, UpdatePool(open, n)
      PROVE  PendingGrantsFit'
  BY <1>4 DEF UpdatePool, PoolRowFree, PendingGrantsFit, dispatchVars
<1>5. ASSUME ~DispatchCommit,
             \/ UNCHANGED vars
             \/ \E q \in Runs : \/ CancelRead(q) \/ DispatchPostpone(q) \/ Redeliver(q)
                                \/ TimeoutPasses(q) \/ StartWindowPasses(q)
                                \/ CreateRun(q) \/ CancelCommit(q)
             \/ \E R \in SUBSET Runs : CancelBatch(R)
             \/ DispatchBegin \/ Sweep
             \/ \E s \in Slots : \/ ReadState(s) \/ PackageMissing(s) \/ Execute(s)
                                 \/ ReportPreparing(s) \/ ReportRunning(s) \/ ReportResult(s)
                                 \/ CallbackLost(s) \/ \E q \in Runs : Fetch(s, q)
             \/ \E w \in Workers : \/ WorkerCrash(w) \/ HeartbeatLate(w) \/ Heartbeat(w)
                                   \/ UpdateWorker(w)
      PROVE  PendingGrantsFit'
  <2>1. UNCHANGED <<sent, limit>>
    BY <1>5 DEF CancelRead, DispatchPostpone, Redeliver, TimeoutPasses, StartWindowPasses,
       DispatchBegin, ReadState, PackageMissing, Execute, ReportPreparing, ReportRunning,
       ReportStatus, ReportResult, CallbackLost, Fetch, WorkerCrash, HeartbeatLate, Heartbeat,
       UpdateWorker, CreateRun, CancelCommit, CancelBatch, Sweep, dispatchVars, adminVars, vars
  <2> QED  BY <1>5, <2>1, PendingFrame
<1> QED
  BY <1>1, <1>2, <1>3, <1>4, <1>5
     DEF Next, ControlPlane, Dispatcher, DispatchRow, WorkerTasks, Environment

\* The commit of a dispatch batch never raises the number of ACTIVE leases above the
\* pool's max_concurrency of that moment.
THEOREM GrantsWithinLimit == Spec => GrantsRespectLimit
<1>1. Init => GrantInv
  BY InitTypeInv, InitLeaseInv DEF GrantInv, AccountInv, PendingGrantsFit, Init
<1>2. GrantInv /\ [Next]_vars => GrantInv'
  BY TypeStep, LeaseStep, GrantStep DEF GrantInv, AccountInv
<1>3. GrantInv /\ [Next]_vars
        => [(\E r \in Runs : LeaseActive(r)' /\ ~LeaseActive(r))
              => Cardinality({r \in Runs : LeaseActive(r)}') <= limit']_vars
  <2> SUFFICES ASSUME GrantInv, [Next]_vars, NEW q \in Runs, LeaseActive(q)', ~LeaseActive(q)
               PROVE  Cardinality({r \in Runs : LeaseActive(r)}') <= limit'
    BY DEF vars, runVars, LeaseActive
  <2>1. DispatchCommit
    BY OnlyCommitGrants DEF GrantInv, AccountInv
  <2>2. /\ lease' = [r \in Runs |-> IF r \in sent \cap Pooled /\ status[r] \in InFlight
                                    THEN "ACTIVE" ELSE lease[r]]
        /\ limit' = limit
    BY <2>1 DEF DispatchCommit, adminVars
  <2>3. {r \in Runs : LeaseActive(r)}' = Taken
    BY <2>2, PoolAssumption DEF Taken, LeaseActive
  <2>4. q \in sent \cap Pooled /\ status[q] \in InFlight
    BY <2>2 DEF LeaseActive
  <2> QED  BY <2>2, <2>3, <2>4 DEF GrantInv, PendingGrantsFit
<1> QED  BY <1>1, <1>2, <1>3, PTL DEF Spec, GrantsRespectLimit
=============================================================================
