-------------------------- MODULE Schedules_proofs --------------------------
(***************************************************************************)
(* Machine-checked proofs about Schedules, for any clients, scheduler      *)
(* processes, due times, cron periods, grace and quotas.                   *)
(***************************************************************************)
EXTENDS Schedules, FiniteSetTheorems, TLAPS

-----------------------------------------------------------------------------
(* Due times and rows                                                      *)

\* next_after lies strictly after the moment it is given.
LEMMA NextAfterIsLater ==
    ASSUME NEW t \in Nat, NEW period \in Nat \ {0}
    PROVE  NextAfter(t, period) \in Nat /\ t < NextAfter(t, period)
<1>1. /\ t \div period \in Nat /\ t % period \in 0..(period - 1)
      /\ t = period * (t \div period) + (t % period)
  OBVIOUS
<1> DEFINE q == t \div period
<1>2. (q + 1) * period = period * q + period
  BY <1>1
<1> QED  BY <1>1, <1>2 DEF NextAfter

\* A due time that a sweep settles is a moment, and the next one lies after
\* what the sweep has seen.
LEMMA AdvanceMovesOn ==
    ASSUME TypeOK, NEW p \in Callers, txn[p] # None, schedule.status = "ACTIVE",
           schedule.next <= txn[p].moment, schedule.next # None, Advance(p)
    PROVE  /\ schedule.next \in Moments
           /\ schedule' \in Schedule
           /\ schedule'.next \in Nat /\ txn[p].moment < schedule'.next
           /\ schedule'.status = "ACTIVE" /\ schedule' = [schedule EXCEPT !.next = schedule'.next]
<1>0. txn[p] \in Txn
  BY DEF TypeOK
<1>1. txn[p].moment \in Nat /\ txn[p].moment <= MaxTime /\ MaxTime \in Nat
  BY <1>0, ScheduleBounds DEF Txn, Moments
<1>4. /\ schedule \in Schedule /\ schedule.next \in Nat
      /\ schedule.period \in Nat \ {0}
  BY ScheduleBounds DEF TypeOK, Schedule
<1> DEFINE n == NextAfter(txn[p].moment, schedule.period)
<1>2. n \in Nat /\ txn[p].moment < n
  BY <1>1, <1>4, NextAfterIsLater
<1>3. schedule' = [schedule EXCEPT !.next = n]
  BY DEF Advance
<1> HIDE DEF n
<1> QED  BY <1>1, <1>2, <1>3, <1>4 DEF Schedule, Moments

\* The rows that an admitted run adds are well typed.
LEMMA InsertRunTypes ==
    ASSUME TypeOK, NEW r \in RunIds, NEW use \in Uses, NEW full \in BOOLEAN,
           InsertRun(r, use, full)
    PROVE  run' \in [RunIds -> Run] /\ today' \in Nat
BY DEF InsertRun, TypeOK, Run

-----------------------------------------------------------------------------
(* Types                                                                   *)

\* Only an active schedule has a due time.
ActiveIsDue == schedule.next # None <=> schedule.status = "ACTIVE"

\* A client's call and a scheduler's sweep differ in what they do.
CallKinds ==
    \A c \in Callers : txn[c] # None =>
        /\ txn[c].use = "due" <=> c \in Sweepers
        /\ txn[c].step = "listed" => c \in Sweepers

RowsInv == TypeOK /\ ActiveIsDue /\ CallKinds

-----------------------------------------------------------------------------
(* What the locks keep                                                     *)

\* The schedule's row has one holder at a time.
ScheduleRowInv ==
    \A c, d \in Callers :
        InProgress(c) /\ InProgress(d)
            /\ txn[c].use \in {"manual", "due"} /\ txn[d].use \in {"manual", "due"}
        => c = d

\* The project's row has one holder at a time, and what the holder has counted
\* is still true.
ProjectRowInv ==
    \A c \in Callers : txn[c] # None /\ txn[c].step = "counted" =>
        /\ QuotaLeft
        /\ \A d \in Callers : txn[d] # None /\ txn[d].step = "counted" => c = d

\* A sweep in progress settles the due time it has found, which nobody else
\* can settle meanwhile.
SweepInv ==
    \A p \in Callers : InProgress(p) /\ txn[p].use = "due" =>
        StillDue(p) /\ firing[schedule.next] = None

LockInv == RowsInv /\ ScheduleRowInv /\ ProjectRowInv /\ SweepInv

-----------------------------------------------------------------------------
(* What firings and runs say of each other                                 *)

\* Nothing fires ahead of the clock.
PastInv ==
    /\ \A c \in Callers : txn[c] # None => txn[c].moment <= now
    /\ \A t \in Moments : firing[t] # None => t <= now

\* The run of a key that is being used is not there yet.
NewKeyInv == \A k \in Keys : txn[k] # None => ~Present(k)

\* The runs named by due times are the sweeps' and no others.
NamesInv == \A r \in RunIds : Present(r) => (run[r].use = "due" <=> r \in Moments)

FiringInv ==
    \A t \in Moments : firing[t] # None =>
        /\ firing[t].status = "TRIGGERED" <=> firing[t].run # None
        /\ firing[t].run # None =>
              /\ Present(firing[t].run)
              /\ run[firing[t].run].use = IF Automatic(t) THEN "due" ELSE "manual"
              /\ Automatic(t) => firing[t].run = t

Fires(t, r) == firing[t] # None /\ firing[t].run = r
FiredOnceInv ==
    \A r \in RunIds : Present(r) /\ run[r].use \in {"manual", "due"} =>
        \E t \in Moments : Fires(t, r) /\ \A u \in Moments : Fires(u, r) => u = t

AgreeInv == LockInv /\ NewKeyInv /\ NamesInv /\ FiringInv /\ FiredOnceInv

-----------------------------------------------------------------------------
(* Activation                                                              *)

Earned == \E r \in RunIds : run[r].passed /\ run[r].full
Validates ==
    \/ \E r \in RunIds : Present(r) /\ run[r].use = "validation"
    \/ \E c \in Callers : txn[c] # None /\ txn[c].use = "validation"

\* A validation that is still being admitted counts as well: its package may be
\* activated by an earlier run before it is inserted.
EarnedInv == package \in {"ACTIVE", "DEPRECATED"} /\ Validates => Earned

-----------------------------------------------------------------------------
(* Every step keeps the rows well typed                                    *)

\* A sweep that holds the schedule's row has found it due.
LEMMA SweepIsDue ==
    ASSUME LockInv, NEW p \in Sweepers, InProgress(p)
    PROVE  /\ p \in Callers /\ txn[p] # None
           /\ schedule.status = "ACTIVE" /\ schedule.next # None
           /\ schedule.next <= txn[p].moment
           /\ firing[schedule.next] = None
BY DEF LockInv, SweepInv, RowsInv, CallKinds, ActiveIsDue, InProgress, StillDue, Callers

\* Settling a due time keeps the schedule and its firings well typed.
LEMMA SettleTypes ==
    ASSUME RowsInv, NEW p \in Callers, txn[p] # None, StillDue(p), Advance(p),
           NEW status \in {"TRIGGERED", "SKIPPED", "BLOCKED"}, NEW r \in RunIds \cup {None}
    PROVE  /\ schedule.next \in Moments /\ schedule' \in Schedule
           /\ schedule'.next # None /\ schedule'.status = "ACTIVE"
           /\ RecordFiring(status, r) => firing' \in [Moments -> Firing \cup {None}]
<1>1. schedule.status = "ACTIVE" /\ schedule.next # None /\ schedule.next <= txn[p].moment
  BY DEF StillDue, RowsInv, ActiveIsDue
<1>2. /\ schedule.next \in Moments /\ schedule' \in Schedule
      /\ schedule'.next \in Nat /\ schedule'.status = "ACTIVE"
  BY <1>1, AdvanceMovesOn DEF RowsInv
<1>3. schedule'.next # None
  BY <1>2, ScheduleBounds
<1>4. RecordFiring(status, r) => firing' \in [Moments -> Firing \cup {None}]
  <2>1. [status |-> status, run |-> r] \in Firing
    BY DEF Firing
  <2>2. firing \in [Moments -> Firing \cup {None}]
    BY DEF RowsInv, TypeOK
  <2> QED  BY <2>1, <2>2 DEF RecordFiring
<1> QED  BY <1>1, <1>2, <1>3, <1>4

LEMMA PackageRows == ASSUME RowsInv, PackageStep PROVE RowsInv'
<1> USE DEF RowsInv, TypeOK, ActiveIsDue, CallKinds
<1>1. ASSUME NEW outcome \in {"VERIFIED", "REJECTED"}, RecordVerification(outcome) PROVE RowsInv'
  BY <1>1 DEF RecordVerification
<1>2. ASSUME NEW r \in RunIds, Activate(r) PROVE RowsInv'
  BY <1>2 DEF Activate
<1>3. CASE Deprecate \/ Revoke
  BY <1>3 DEF Deprecate, Revoke
<1> QED  BY <1>1, <1>2, <1>3 DEF PackageStep

\* A call that begins, or ends without a write.
LEMMA BeginRows ==
    ASSUME RowsInv, NEW c \in Callers, NEW use \in Uses, NEW step \in {"listed", "checked", "counted"},
           NEW moment \in Moments, NEW full \in BOOLEAN, Begin(c, use, step, moment, full),
           use = "due" <=> c \in Sweepers, step = "listed" => c \in Sweepers,
           UNCHANGED <<now, packageVars, schedule, firing, run, quota, today>>
    PROVE  RowsInv'
BY DEF Begin, RowsInv, TypeOK, ActiveIsDue, CallKinds, Txn, packageVars

LEMMA EndRows ==
    ASSUME RowsInv, NEW c \in Callers, End(c),
           schedule' \in Schedule, firing' \in [Moments -> Firing \cup {None}],
           run' \in [RunIds -> Run], today' \in Nat, ActiveIsDue',
           UNCHANGED <<now, packageVars, quota>>
    PROVE  RowsInv'
BY DEF End, RowsInv, TypeOK, CallKinds, packageVars

LEMMA ScheduleRows == ASSUME RowsInv, ScheduleStep PROVE RowsInv'
<1> SUFFICES ASSUME NEW status \in {"ACTIVE", "PAUSED", "ARCHIVED"}, NEW period \in Periods,
                    NEW policy \in {"SKIP", "FIRE_ONCE"},
                    \/ CreateSchedule(status, period, policy)
                    \/ \E given \in SUBSET {"status", "cron", "resources"} :
                         UpdateSchedule([status |-> status, period |-> period,
                                         policy |-> policy, next |-> None], given)
             PROVE  RowsInv'
  BY DEF ScheduleStep
<1> USE DEF RowsInv
<1>1. now \in Nat /\ period \in Nat \ {0} /\ None \notin Nat
  BY ScheduleBounds DEF TypeOK, Moments
<1>2. NextAfter(now, period) \in Nat
  BY <1>1, NextAfterIsLater
<1>3. CASE CreateSchedule(status, period, policy)
  BY <1>1, <1>2, <1>3 DEF CreateSchedule, TypeOK, ActiveIsDue, CallKinds, Schedule, packageVars
<1>4. ASSUME NEW given \in SUBSET {"status", "cron", "resources"},
             UpdateSchedule([status |-> status, period |-> period,
                             policy |-> policy, next |-> None], given)
      PROVE  RowsInv'
  <2> DEFINE due == IF status # "ACTIVE" THEN None
                    ELSE IF schedule.next = None \/ given \cap {"status", "cron"} # {}
                      THEN NextAfter(now, period)
                    ELSE schedule.next
  <2>1. schedule' = [status |-> status, period |-> period, policy |-> policy, next |-> due]
    BY <1>4 DEF UpdateSchedule
  <2>2. due \in Nat \cup {None} /\ (due # None <=> status = "ACTIVE")
    BY <1>1, <1>2 DEF TypeOK, Schedule
  <2> HIDE DEF due
  <2>3. schedule' \in Schedule /\ ActiveIsDue'
    BY <2>1, <2>2 DEF Schedule, ActiveIsDue
  <2>4. UNCHANGED <<now, packageVars, firing, run, quota, today, txn>>
    BY <1>4 DEF UpdateSchedule
  <2> QED  BY <2>3, <2>4 DEF TypeOK, CallKinds, packageVars
<1> QED  BY <1>3, <1>4

\* What a caller may look up in its transaction.
LEMMA TxnFields ==
    ASSUME RowsInv, NEW c \in Callers, txn[c] # None
    PROVE  /\ txn[c] \in Txn /\ txn[c].use \in Uses /\ txn[c].full \in BOOLEAN
           /\ txn[c].moment \in Moments /\ txn[c].step \in {"listed", "checked", "counted"}
           /\ c \in Keys => txn[c].use # "due"
BY ScheduleBounds DEF RowsInv, TypeOK, Txn, CallKinds

\* A call that gets a lock.
LEMMA StepRows ==
    ASSUME RowsInv, NEW c \in Callers, txn[c] # None, NEW step \in {"checked", "counted"},
           txn' = [txn EXCEPT ![c].step = step],
           UNCHANGED <<now, packageVars, schedule, firing, run, quota, today>>
    PROVE  RowsInv'
<1>1. txn' = [txn EXCEPT ![c] = [txn[c] EXCEPT !.step = step]]
  BY DEF RowsInv, TypeOK
<1>2. txn[c] \in Txn
  BY TxnFields
<1>3. txn' \in [Callers -> Txn \cup {None}]
  BY <1>1, <1>2 DEF RowsInv, TypeOK, Txn
<1>4. CallKinds'
  BY <1>1, <1>2 DEF RowsInv, TypeOK, CallKinds, Txn
<1> QED  BY <1>3, <1>4 DEF RowsInv, TypeOK, ActiveIsDue, packageVars

LEMMA ClientRows == ASSUME RowsInv, ClientStep PROVE RowsInv'
<1> SUFFICES ASSUME NEW k \in Keys,
                    \/ \E full \in BOOLEAN :
                         \/ CountOrdinary(k, full)
                         \/ \E source \in RunIds : CountRerun(k, source, full)
                    \/ CheckManual(k) \/ CheckValidation(k) \/ TakeProject(k)
                    \/ CommitClient(k) \/ Abandon(k)
             PROVE  RowsInv'
  BY DEF ClientStep
<1>1. k \in Callers /\ k \notin Sweepers /\ k \in RunIds
  BY ScheduleBounds DEF Callers, RunIds
<1>2. 0 \in Moments /\ now \in Moments
  BY ScheduleBounds DEF RowsInv, TypeOK, Moments
<1> HIDE DEF RowsInv
<1>3. ASSUME NEW full \in BOOLEAN, CountOrdinary(k, full) PROVE RowsInv'
  BY <1>1, <1>2, <1>3, BeginRows DEF CountOrdinary, Uses
<1>4. ASSUME NEW full \in BOOLEAN, NEW source \in RunIds, CountRerun(k, source, full) PROVE RowsInv'
  BY <1>1, <1>2, <1>4, BeginRows DEF CountRerun, Uses
<1>5. CASE CheckManual(k)
  BY <1>1, <1>2, <1>5, BeginRows DEF CheckManual, Uses
<1>6. CASE CheckValidation(k)
  BY <1>1, <1>2, <1>6, BeginRows DEF CheckValidation, Uses
<1>7. CASE TakeProject(k)
  BY <1>1, <1>7, StepRows DEF TakeProject
<1>8. CASE CommitClient(k)
  <2>1. txn[k] # None /\ InsertRun(k, txn[k].use, txn[k].full)
    BY <1>8 DEF CommitClient
  <2>2. run' \in [RunIds -> Run] /\ today' \in Nat
    BY <1>1, <2>1, TxnFields, InsertRunTypes DEF RowsInv
  <2>3. firing' \in [Moments -> Firing \cup {None}]
    <3>1. [status |-> "TRIGGERED", run |-> k] \in Firing
      BY <1>1 DEF Firing
    <3>2. firing \in [Moments -> Firing \cup {None}]
      BY DEF RowsInv, TypeOK
    <3> QED  BY <1>8, <3>1, <3>2 DEF CommitClient
  <2>4. End(k) /\ UNCHANGED <<now, packageVars, schedule, quota>>
    BY <1>8 DEF CommitClient
  <2>5. schedule' \in Schedule /\ ActiveIsDue'
    BY <2>4 DEF RowsInv, TypeOK, ActiveIsDue
  <2> QED  BY <1>1, <2>2, <2>3, <2>4, <2>5, EndRows
<1>9. CASE Abandon(k)
  BY <1>1, <1>9, EndRows DEF Abandon, RowsInv, TypeOK, ActiveIsDue
<1> QED  BY <1>3, <1>4, <1>5, <1>6, <1>7, <1>8, <1>9

\* A step of a sweep that settles a due time moves the schedule on.
Settles(p) ==
    /\ Advance(p) /\ End(p)
    /\ \/ UNCHANGED firing
       \/ \E status \in {"TRIGGERED", "SKIPPED", "BLOCKED"}, r \in RunIds \cup {None} : RecordFiring(status, r)
    /\ UNCHANGED <<now, packageVars, quota>>

LEMMA SettleRows ==
    ASSUME RowsInv, NEW p \in Callers, txn[p] # None, StillDue(p), Settles(p),
           run' \in [RunIds -> Run], today' \in Nat
    PROVE  RowsInv'
<1>1. firing' \in [Moments -> Firing \cup {None}]
  <2>1. CASE UNCHANGED firing
    BY <2>1 DEF RowsInv, TypeOK
  <2>2. ASSUME NEW status \in {"TRIGGERED", "SKIPPED", "BLOCKED"}, NEW r \in RunIds \cup {None},
               RecordFiring(status, r)
        PROVE  firing' \in [Moments -> Firing \cup {None}]
    BY <2>2, SettleTypes DEF Settles
  <2> QED  BY <2>1, <2>2 DEF Settles
<1>2. schedule' \in Schedule /\ schedule'.next # None /\ schedule'.status = "ACTIVE"
  BY SettleTypes DEF Settles
<1> QED  BY <1>1, <1>2, EndRows DEF Settles, ActiveIsDue

\* What the settling steps have in common.
LEMMA SettlesIs ==
    ASSUME LockInv, NEW p \in Sweepers,
           \/ DueKnown(p) \/ DueSkipped(p) \/ DueRefused(p) \/ DueRejected(p) \/ CommitDue(p)
    PROVE  /\ p \in Callers /\ txn[p] # None /\ txn[p] \in Txn
           /\ StillDue(p) /\ schedule.next \in Moments /\ schedule.status = "ACTIVE"
           /\ Settles(p)
           /\ CommitDue(p) \/ UNCHANGED <<run, today>>
<1>1. RowsInv /\ p \in Callers
  BY DEF LockInv, Callers
<1>2. txn[p] # None /\ StillDue(p)
  <2>1. CASE DueKnown(p) \/ DueSkipped(p) \/ DueRefused(p)
    BY <2>1 DEF DueKnown, DueSkipped, DueRefused, Fresh, Listed
  <2>2. CASE DueRejected(p) \/ CommitDue(p)
    BY <2>2, SweepIsDue DEF DueRejected, CommitDue, StillDue
  <2> QED  BY <2>1, <2>2
<1>3. Advance(p)
  BY DEF DueKnown, DueSkipped, DueRefused, DueRejected, CommitDue
<1>4. schedule.next \in Moments
  BY <1>1, <1>2, <1>3, AdvanceMovesOn DEF RowsInv, ActiveIsDue, StillDue
<1>5. Settles(p)
  <2>1. CASE DueKnown(p)
    BY <2>1 DEF DueKnown, Settles
  <2>2. CASE DueSkipped(p)
    BY <2>2 DEF DueSkipped, Settles
  <2>3. CASE DueRefused(p) \/ DueRejected(p)
    BY <2>3 DEF DueRefused, DueRejected, Settles
  <2>4. CASE CommitDue(p)
    BY <1>4, <2>4 DEF CommitDue, Settles, RunIds
  <2> QED  BY <2>1, <2>2, <2>3, <2>4
<1>6. CommitDue(p) \/ UNCHANGED <<run, today>>
  BY DEF DueKnown, DueSkipped, DueRefused, DueRejected
<1>7. schedule.status = "ACTIVE" /\ txn[p] \in Txn
  BY <1>1, <1>2, TxnFields DEF StillDue
<1> QED  BY <1>1, <1>2, <1>4, <1>5, <1>6, <1>7

LEMMA SweepRows == ASSUME LockInv, NEW p \in Sweepers, SweepStep(p) PROVE RowsInv'
<1>1. RowsInv /\ p \in Callers
  BY DEF LockInv, Callers
<1>2. /\ schedule \in Schedule /\ firing \in [Moments -> Firing \cup {None}]
      /\ run \in [RunIds -> Run] /\ today \in Nat /\ now \in Moments /\ ActiveIsDue
  BY <1>1 DEF RowsInv, TypeOK
<1>3. CASE ListDue(p)
  BY <1>1, <1>2, <1>3, BeginRows DEF ListDue, Uses
<1>4. CASE DueIgnored(p)
  BY <1>1, <1>2, <1>4, EndRows DEF DueIgnored, ActiveIsDue
<1>5. CASE DueKnown(p) \/ DueSkipped(p) \/ DueRefused(p) \/ DueRejected(p)
  <2>1. UNCHANGED <<run, today>>
    BY <1>5 DEF DueKnown, DueSkipped, DueRefused, DueRejected
  <2> QED  BY <1>1, <1>2, <1>5, <2>1, SettlesIs, SettleRows
<1>6. CASE CheckDue(p)
  BY <1>1, <1>6, StepRows DEF CheckDue, Fresh, Listed
<1>7. CASE TakeProject(p)
  BY <1>1, <1>7, StepRows DEF TakeProject
<1>8. CASE CommitDue(p)
  <2>1. schedule.next \in Moments
    BY <1>8, SettlesIs
  <2>2. run' \in [RunIds -> Run] /\ today' \in Nat
    BY <1>1, <1>8, <2>1, InsertRunTypes DEF CommitDue, RowsInv, RunIds, Uses
  <2> QED  BY <1>1, <1>8, <2>2, SettlesIs, SettleRows
<1> QED  BY <1>3, <1>4, <1>5, <1>6, <1>7, <1>8 DEF SweepStep, SettleDue

LEMMA OtherRows ==
    ASSUME RowsInv,
           \/ \E p \in Sweepers \ Reliable : Abandon(p)
           \/ \E r \in RunIds, status \in {"PASSED", "FAILED"} : EndRun(r, status) \/ CancelPassed(r)
           \/ \E q \in Quotas : SetQuota(q)
           \/ NewDay \/ Tick \/ UNCHANGED vars
    PROVE  RowsInv'
<1>1. ASSUME NEW p \in Sweepers \ Reliable, Abandon(p) PROVE RowsInv'
  BY <1>1, EndRows DEF Abandon, RowsInv, TypeOK, ActiveIsDue, Callers
<1>2. ASSUME NEW r \in RunIds, NEW status \in {"PASSED", "FAILED"},
             EndRun(r, status) \/ CancelPassed(r) PROVE RowsInv'
  <2>1. run' \in [RunIds -> Run]
    BY <1>2 DEF EndRun, CancelPassed, RowsInv, TypeOK, Run
  <2> QED  BY <1>2, <2>1 DEF EndRun, CancelPassed, RowsInv, TypeOK, ActiveIsDue, CallKinds, packageVars
<1>3. ASSUME NEW q \in Quotas, SetQuota(q) PROVE RowsInv'
  BY <1>3 DEF SetQuota, RowsInv, TypeOK, ActiveIsDue, CallKinds, packageVars
<1>4. CASE NewDay
  BY <1>4 DEF NewDay, RowsInv, TypeOK, ActiveIsDue, CallKinds, packageVars
<1>5. CASE Tick
  BY <1>5, ScheduleBounds DEF Tick, RowsInv, TypeOK, ActiveIsDue, CallKinds, packageVars, Moments
<1>6. CASE UNCHANGED vars
  BY <1>6 DEF vars, RowsInv, TypeOK, ActiveIsDue, CallKinds, packageVars
<1> QED  BY <1>1, <1>2, <1>3, <1>4, <1>5, <1>6

-----------------------------------------------------------------------------
(* Every step keeps the locks                                              *)

\* A step that ends a call writes only what the call has locked.
LEMMA EndLocks ==
    ASSUME LockInv, NEW c \in Callers, End(c), UNCHANGED quota,
           (txn[c] # None /\ txn[c].step = "counted") \/ UNCHANGED <<run, today>>,
           \/ InProgress(c) /\ txn[c].use \in {"manual", "due"}
           \/ ~ScheduleLocked
           \/ UNCHANGED <<schedule, firing>>
    PROVE  ScheduleRowInv' /\ ProjectRowInv' /\ SweepInv'
<1>1. txn' = [txn EXCEPT ![c] = None] /\ txn \in [Callers -> Txn \cup {None}]
  BY DEF End, LockInv, RowsInv, TypeOK
<1>2. txn'[c] = None /\ \A d \in Callers : d # c => txn'[d] = txn[d]
  BY <1>1
<1>3. ScheduleRowInv'
  BY <1>2 DEF LockInv, ScheduleRowInv, InProgress
<1>4. ProjectRowInv'
  <2>1. CASE txn[c] # None /\ txn[c].step = "counted"
    BY <1>2, <2>1 DEF LockInv, ProjectRowInv
  <2>2. CASE UNCHANGED <<run, today>>
    BY <1>2, <2>2 DEF LockInv, ProjectRowInv, QuotaLeft, InFlightRuns
  <2> QED  BY <2>1, <2>2
<1>5. SweepInv'
  <2>1. CASE (InProgress(c) /\ txn[c].use \in {"manual", "due"}) \/ ~ScheduleLocked
    BY <1>2, <2>1 DEF LockInv, ScheduleRowInv, SweepInv, InProgress, ScheduleLocked
  <2>2. CASE UNCHANGED <<schedule, firing>>
    BY <1>2, <2>2 DEF LockInv, SweepInv, InProgress, StillDue
  <2> QED  BY <2>1, <2>2
<1> QED  BY <1>3, <1>4, <1>5

LEMMA BeginLocks ==
    ASSUME LockInv, NEW c \in Callers, NEW use \in Uses, NEW step \in {"listed", "checked", "counted"},
           NEW moment \in Moments, NEW full \in BOOLEAN, Begin(c, use, step, moment, full),
           txn[c] = None,
           use = "due" => step = "listed",
           use = "manual" => ~ScheduleLocked,
           step = "counted" => ~ProjectLocked /\ QuotaLeft,
           UNCHANGED <<now, packageVars, schedule, firing, run, quota, today>>
    PROVE  ScheduleRowInv' /\ ProjectRowInv' /\ SweepInv'
<1> DEFINE call == [use |-> use, step |-> step, moment |-> moment, full |-> full]
<1>1. txn'[c] = call /\ \A d \in Callers : d # c => txn'[d] = txn[d]
  BY DEF Begin, LockInv, RowsInv, TypeOK
<1>2. call.use = use /\ call.step = step
  OBVIOUS
<1> HIDE DEF call
<1>3. ScheduleRowInv'
  BY <1>1, <1>2 DEF LockInv, ScheduleRowInv, InProgress, ScheduleLocked
<1>4. QuotaLeft' = QuotaLeft
  BY DEF QuotaLeft, InFlightRuns
<1>5. ProjectRowInv'
  BY <1>1, <1>2, <1>4 DEF LockInv, ProjectRowInv, ProjectLocked
<1>6. SweepInv'
  BY <1>1, <1>2 DEF LockInv, SweepInv, InProgress, StillDue
<1> QED  BY <1>3, <1>5, <1>6

LEMMA StepLocks ==
    ASSUME LockInv, NEW c \in Callers, txn[c] # None, NEW step \in {"checked", "counted"},
           txn' = [txn EXCEPT ![c].step = step],
           step = "checked" => ~ScheduleLocked /\ StillDue(c) /\ firing[schedule.next] = None,
           step = "counted" => InProgress(c) /\ ~ProjectLocked /\ QuotaLeft,
           UNCHANGED <<now, packageVars, schedule, firing, run, quota, today>>
    PROVE  ScheduleRowInv' /\ ProjectRowInv' /\ SweepInv'
<1>0. txn[c] \in Txn
  BY TxnFields DEF LockInv
<1>1. /\ txn'[c] = [txn[c] EXCEPT !.step = step]
      /\ \A d \in Callers : d # c => txn'[d] = txn[d]
  BY DEF LockInv, RowsInv, TypeOK
<1>2. txn'[c].step = step /\ txn'[c].use = txn[c].use /\ txn'[c].moment = txn[c].moment
  BY <1>0, <1>1 DEF Txn
<1>3. ScheduleRowInv'
  BY <1>1, <1>2 DEF LockInv, ScheduleRowInv, InProgress, ScheduleLocked
<1>4. QuotaLeft' = QuotaLeft
  BY DEF QuotaLeft, InFlightRuns
<1>5. ProjectRowInv'
  <2>1. CASE step = "counted"
    BY <1>1, <1>2, <1>4, <2>1 DEF LockInv, ProjectRowInv, ProjectLocked
  <2>2. CASE step = "checked"
    BY <1>1, <1>2, <1>4, <2>2 DEF LockInv, ProjectRowInv
  <2> QED  BY <2>1, <2>2
<1>6. SweepInv'
  BY <1>1, <1>2 DEF LockInv, SweepInv, InProgress, StillDue
<1> QED  BY <1>3, <1>5, <1>6

LEMMA ClientLocks == ASSUME LockInv, ClientStep PROVE ScheduleRowInv' /\ ProjectRowInv' /\ SweepInv'
<1> DEFINE Goal == ScheduleRowInv' /\ ProjectRowInv' /\ SweepInv'
<1> SUFFICES ASSUME NEW k \in Keys,
                    \/ \E full \in BOOLEAN :
                         \/ CountOrdinary(k, full)
                         \/ \E source \in RunIds : CountRerun(k, source, full)
                    \/ CheckManual(k) \/ CheckValidation(k) \/ TakeProject(k)
                    \/ CommitClient(k) \/ Abandon(k)
             PROVE  Goal
  BY DEF ClientStep
<1>1. k \in Callers /\ 0 \in Moments /\ now \in Moments
  BY ScheduleBounds DEF Callers, Moments, LockInv, RowsInv, TypeOK
<1>2. ASSUME NEW full \in BOOLEAN, CountOrdinary(k, full) PROVE Goal
  BY <1>1, <1>2, BeginLocks DEF CountOrdinary, Uses
<1>3. ASSUME NEW full \in BOOLEAN, NEW source \in RunIds, CountRerun(k, source, full) PROVE Goal
  BY <1>1, <1>3, BeginLocks DEF CountRerun, Uses
<1>4. CASE CheckManual(k)
  BY <1>1, <1>4, BeginLocks DEF CheckManual, Uses
<1>5. CASE CheckValidation(k)
  BY <1>1, <1>5, BeginLocks DEF CheckValidation, Uses
<1>6. CASE TakeProject(k)
  BY <1>1, <1>6, StepLocks DEF TakeProject, Admits, InProgress
<1>7. CASE CommitClient(k)
  BY <1>1, <1>7, EndLocks DEF CommitClient, InProgress
<1>8. CASE Abandon(k)
  BY <1>1, <1>8, EndLocks DEF Abandon
<1> QED  BY <1>2, <1>3, <1>4, <1>5, <1>6, <1>7, <1>8

LEMMA SweepLocks ==
    ASSUME LockInv, NEW p \in Sweepers, SweepStep(p)
    PROVE  ScheduleRowInv' /\ ProjectRowInv' /\ SweepInv'
<1>1. p \in Callers /\ now \in Moments
  BY DEF Callers, LockInv, RowsInv, TypeOK
<1>2. CASE ListDue(p)
  BY <1>1, <1>2, BeginLocks DEF ListDue, Uses
<1>3. CASE DueIgnored(p) \/ DueKnown(p) \/ DueSkipped(p) \/ DueRefused(p)
  BY <1>1, <1>3, EndLocks DEF DueIgnored, DueKnown, DueSkipped, DueRefused, Fresh, Listed
<1>4. CASE CheckDue(p)
  BY <1>1, <1>4, StepLocks DEF CheckDue, Fresh, Listed
<1>5. CASE TakeProject(p)
  BY <1>1, <1>5, StepLocks DEF TakeProject, Admits, InProgress
<1>6. CASE DueRejected(p) \/ CommitDue(p)
  <2>1. InProgress(p) /\ txn[p] # None /\ txn[p].use = "due"
    BY <1>1, <1>6 DEF DueRejected, CommitDue, InProgress, LockInv, RowsInv, CallKinds
  <2> QED  BY <1>1, <1>6, <2>1, EndLocks DEF DueRejected, CommitDue
<1> QED  BY <1>2, <1>3, <1>4, <1>5, <1>6 DEF SweepStep, SettleDue

\* Edits wait for the schedule's row, settings for the project's; a run that
\* ends makes room.
LEMMA OtherLocks ==
    ASSUME LockInv,
           \/ PackageStep \/ ScheduleStep
           \/ \E p \in Sweepers \ Reliable : Abandon(p)
           \/ \E r \in RunIds, status \in {"PASSED", "FAILED"} : EndRun(r, status) \/ CancelPassed(r)
           \/ \E q \in Quotas : SetQuota(q)
           \/ NewDay \/ Tick \/ UNCHANGED vars
    PROVE  ScheduleRowInv' /\ ProjectRowInv' /\ SweepInv'
<1> DEFINE Goal == ScheduleRowInv' /\ ProjectRowInv' /\ SweepInv'
<1>1. ASSUME UNCHANGED <<schedule, firing, run, quota, today, txn>> PROVE Goal
  BY <1>1 DEF LockInv, ScheduleRowInv, ProjectRowInv, SweepInv, InProgress, QuotaLeft,
              InFlightRuns, StillDue
<1>2. CASE PackageStep \/ Tick \/ UNCHANGED vars
  BY <1>1, <1>2 DEF PackageStep, RecordVerification, Activate, Deprecate, Revoke, Tick, vars
<1>3. CASE ScheduleStep
  <2>1. UNCHANGED <<firing, run, quota, today, txn>>
    BY <1>3 DEF ScheduleStep, CreateSchedule, UpdateSchedule
  <2>2. ScheduleRowInv' /\ ProjectRowInv'
    BY <2>1 DEF LockInv, ScheduleRowInv, ProjectRowInv, InProgress, QuotaLeft, InFlightRuns
  <2>3. ~ScheduleLocked \/ schedule.status = "NONE"
    BY <1>3 DEF ScheduleStep, CreateSchedule, UpdateSchedule
  <2>4. SweepInv'
    BY <2>1, <2>3 DEF LockInv, SweepInv, InProgress, StillDue, ScheduleLocked
  <2> QED  BY <2>2, <2>4
<1>4. ASSUME NEW p \in Sweepers \ Reliable, Abandon(p) PROVE Goal
  BY <1>4, EndLocks DEF Abandon, Callers
<1>5. ASSUME NEW r \in RunIds, NEW status \in {"PASSED", "FAILED"},
             EndRun(r, status) \/ CancelPassed(r) PROVE Goal
  <2>1. UNCHANGED <<schedule, firing, quota, today, txn>>
    BY <1>5 DEF EndRun, CancelPassed
  <2>2. ScheduleRowInv' /\ SweepInv'
    BY <2>1 DEF LockInv, ScheduleRowInv, SweepInv, InProgress, StillDue
  <2>3. IsFiniteSet(InFlightRuns)
    <3>1. IsFiniteSet(RunIds)
      <4>1. IsFiniteSet(Moments) /\ IsFiniteSet(Keys)
        BY ScheduleBounds, FS_Interval DEF Moments
      <4> QED  BY <4>1, FS_Union DEF RunIds
    <3> QED  BY <3>1, FS_Subset DEF InFlightRuns
  <2>4. InFlightRuns' \subseteq InFlightRuns
    BY <1>5 DEF EndRun, CancelPassed, InFlightRuns, LockInv, RowsInv, TypeOK, Run
  <2>5. /\ Cardinality(InFlightRuns') <= Cardinality(InFlightRuns)
        /\ Cardinality(InFlightRuns) \in Nat /\ Cardinality(InFlightRuns') \in Nat
    BY <2>3, <2>4, FS_Subset, FS_CardinalityType
  <2>6. quota.inFlight \in Nat
    BY ScheduleBounds DEF LockInv, RowsInv, TypeOK
  <2>7. QuotaLeft => QuotaLeft'
    BY <2>1, <2>5, <2>6 DEF QuotaLeft
  <2>8. ProjectRowInv'
    BY <2>1, <2>7 DEF LockInv, ProjectRowInv
  <2> QED  BY <2>2, <2>8
<1>6. CASE NewDay \/ \E q \in Quotas : SetQuota(q)
  <2>1. UNCHANGED <<schedule, firing, txn>> /\ ~ProjectLocked
    BY <1>6 DEF NewDay, SetQuota
  <2> QED  BY <2>1 DEF LockInv, ScheduleRowInv, ProjectRowInv, SweepInv, InProgress, StillDue,
                       ProjectLocked
<1> QED  BY <1>2, <1>3, <1>4, <1>5, <1>6

LEMMA LockStep == ASSUME LockInv, [Next]_vars PROVE LockInv'
<1>1. CASE PackageStep \/ ScheduleStep
  BY <1>1, PackageRows, ScheduleRows, OtherLocks DEF LockInv
<1>2. CASE ClientStep
  BY <1>2, ClientRows, ClientLocks DEF LockInv
<1>3. ASSUME NEW p \in Sweepers, SweepStep(p) PROVE LockInv'
  BY <1>3, SweepRows, SweepLocks DEF LockInv
<1>4. CASE \/ \E p \in Sweepers \ Reliable : Abandon(p)
           \/ \E r \in RunIds, status \in {"PASSED", "FAILED"} : EndRun(r, status) \/ CancelPassed(r)
           \/ \E q \in Quotas : SetQuota(q)
           \/ NewDay \/ Tick \/ UNCHANGED vars
  BY <1>4, OtherRows, OtherLocks DEF LockInv
<1> QED  BY <1>1, <1>2, <1>3, <1>4 DEF Next

LEMMA LockInit == ASSUME Init PROVE LockInv
<1>1. 0 \in Moments /\ None \notin Nat
  BY ScheduleBounds DEF Moments
<1>2. schedule \in Schedule /\ schedule.next = None /\ schedule.status = "NONE"
  BY DEF Init, Schedule
<1>3. run \in [RunIds -> Run]
  BY DEF Init, Run, Uses
<1>4. TypeOK
  BY <1>1, <1>2, <1>3 DEF Init, TypeOK
<1>5. \A c \in Callers : txn[c] = None
  BY DEF Init
<1> QED  BY <1>2, <1>4, <1>5 DEF LockInv, RowsInv, ActiveIsDue, CallKinds, ScheduleRowInv,
                                 ProjectRowInv, SweepInv, InProgress

\* The rows stay well typed, whatever the callers do and whenever they stop.
THEOREM ScheduleTypes == Spec => []TypeOK
<1>1. Init => LockInv
  BY LockInit
<1>2. LockInv /\ [Next]_vars => LockInv'
  BY LockStep
<1>3. LockInv => TypeOK
  BY DEF LockInv, RowsInv
<1> QED  BY <1>1, <1>2, <1>3, PTL DEF Spec

\* A run becomes present only by a commit under the project's lock, and what
\* the lock's holder counted still holds then.
THEOREM QuotasAreKept == Spec => AdmissionsRespectQuota
<1> DEFINE Admitted == (\E r \in RunIds : ~Present(r) /\ Present(r)') => QuotaLeft
<1>1. ASSUME LockInv, Next PROVE Admitted
  <2>1. ASSUME NEW c \in Callers, CommitClient(c) \/ CommitDue(c) PROVE QuotaLeft
    BY <1>1, <2>1 DEF CommitClient, CommitDue, InProgress, LockInv, ProjectRowInv
  <2>2. ASSUME NEW r \in RunIds, ~Present(r), Present(r)',
               NEW s \in RunIds, NEW status \in {"PASSED", "FAILED"},
             EndRun(s, status) \/ CancelPassed(s)
        PROVE  FALSE
    BY <1>1, <2>2 DEF EndRun, CancelPassed, Present, LockInv, RowsInv, TypeOK, Run
  <2>3. ASSUME UNCHANGED run PROVE Admitted
    BY <2>3 DEF Present
  <2>4. CASE PackageStep \/ ScheduleStep \/ NewDay \/ Tick
    <3>1. CASE PackageStep \/ NewDay \/ Tick
      BY <2>3, <3>1 DEF PackageStep, RecordVerification, Activate, Deprecate, Revoke, NewDay, Tick
    <3>2. ASSUME ScheduleStep PROVE UNCHANGED run
      BY <3>2 DEF ScheduleStep, CreateSchedule, UpdateSchedule
    <3> QED  BY <2>3, <2>4, <3>1, <3>2
  <2>5. CASE ClientStep
    BY <2>1, <2>3, <2>5 DEF ClientStep, CountOrdinary, CountRerun, CheckManual, CheckValidation,
                            TakeProject, Abandon, Callers
  <2>6. ASSUME NEW p \in Sweepers, SweepStep(p) PROVE Admitted
    BY <2>1, <2>3, <2>6 DEF SweepStep, SettleDue, ListDue, DueIgnored, DueKnown, DueSkipped,
                            DueRefused, CheckDue, DueRejected, TakeProject, Callers
  <2>7. CASE \E p \in Sweepers \ Reliable : Abandon(p)
    BY <2>3, <2>7 DEF Abandon
  <2>8. CASE \E r \in RunIds, status \in {"PASSED", "FAILED"} : EndRun(r, status) \/ CancelPassed(r)
    BY <2>2, <2>8
  <2>9. CASE \E q \in Quotas : SetQuota(q)
    BY <2>3, <2>9 DEF SetQuota
  <2> QED  BY <1>1, <2>4, <2>5, <2>6, <2>7, <2>8, <2>9 DEF Next
<1>2. LockInv /\ [Next]_vars => [Admitted]_vars
  BY <1>1
<1>3. Init => LockInv
  BY LockInit
<1>4. LockInv /\ [Next]_vars => LockInv'
  BY LockStep
<1> QED  BY <1>2, <1>3, <1>4, PTL DEF Spec, AdmissionsRespectQuota

-----------------------------------------------------------------------------
(* Firings and runs                                                        *)

\* What a firing may hold.
LEMMA FiringFields ==
    ASSUME TypeOK, NEW t \in Moments, firing[t] # None
    PROVE  firing[t].run \in RunIds \cup {None} /\ firing[t].status \in {"TRIGGERED", "SKIPPED", "BLOCKED"}
BY DEF TypeOK, Firing

\* An admitted run and the firing it is recorded with.
LEMMA RunIsFired ==
    ASSUME AgreeInv, NEW r \in RunIds, ~Present(r), NEW use \in {"manual", "due"}, NEW full \in BOOLEAN,
           InsertRun(r, use, full), use = "due" <=> r \in Moments,
           NEW m \in Moments, firing[m] = None, use = "due" => m = r,
           firing' = [firing EXCEPT ![m] = [status |-> "TRIGGERED", run |-> r]]
    PROVE  NamesInv' /\ FiringInv' /\ FiredOnceInv'
<1> DEFINE fired == [status |-> "TRIGGERED", run |-> r]
           row == [status |-> "OPEN", use |-> use, full |-> full, passed |-> FALSE]
<1>1. TypeOK /\ NamesInv /\ FiringInv /\ FiredOnceInv
  BY DEF AgreeInv, LockInv, RowsInv
<1>2. /\ firing'[m] = fired /\ \A t \in Moments : t # m => firing'[t] = firing[t]
      /\ run'[r] = row /\ \A s \in RunIds : s # r => run'[s] = run[s]
  BY <1>1 DEF TypeOK, InsertRun
<1>3. /\ fired.status = "TRIGGERED" /\ fired.run = r /\ fired # None
      /\ row.status = "OPEN" /\ row.use = use
  <2>1. fired \in Firing
    BY DEF Firing
  <2> QED  BY <2>1, NoneIsNoFiring
<1> HIDE DEF fired, row
<1>4. r # None /\ (use = "due" <=> r \notin Keys) /\ None \notin Keys
  BY ScheduleBounds DEF RunIds
<1>5. \A t \in Moments : firing[t] # None => firing[t].run # r
  BY <1>1, ScheduleBounds DEF FiringInv, Present, RunIds
<1>6. NamesInv'
  BY <1>1, <1>2, <1>3 DEF NamesInv, Present
<1>7. FiringInv'
  <2> SUFFICES ASSUME NEW t \in Moments, firing'[t] # None
               PROVE  /\ firing'[t].status = "TRIGGERED" <=> firing'[t].run # None
                      /\ firing'[t].run # None =>
                            /\ Present(firing[t].run)'
                            /\ run'[firing'[t].run].use = IF Automatic(t)' THEN "due" ELSE "manual"
                            /\ Automatic(t)' => firing'[t].run = t
    BY DEF FiringInv
  <2>1. CASE t = m
    BY <1>2, <1>3, <1>4, <2>1 DEF Automatic, Present
  <2>2. CASE t # m
    <3>1. firing'[t] = firing[t] /\ firing[t] # None /\ firing[t].run # r
      BY <1>2, <1>5, <2>2
    <3>2. firing[t].run \in RunIds \cup {None}
      BY <1>1, <3>1, FiringFields
    <3>3. firing[t].run # None => run'[firing[t].run] = run[firing[t].run]
      BY <1>2, <3>1, <3>2
    <3> QED  BY <1>1, <3>1, <3>3 DEF FiringInv, Automatic, Present
  <2> QED  BY <2>1, <2>2
<1>8. FiredOnceInv'
  <2> SUFFICES ASSUME NEW s \in RunIds, Present(s)', run'[s].use \in {"manual", "due"}
               PROVE  \E t \in Moments : Fires(t, s)' /\ \A u \in Moments : Fires(u, s)' => u = t
    BY DEF FiredOnceInv
  <2>1. CASE s = r
    BY <1>2, <1>3, <1>5, <2>1 DEF Fires
  <2>2. CASE s # r
    <3>1. Present(s) /\ run[s].use \in {"manual", "due"}
      BY <1>2, <2>2 DEF Present
    <3>2. \A t \in Moments : Fires(t, s)' <=> Fires(t, s)
      BY <1>2, <1>3, <2>2 DEF Fires
    <3> QED  BY <1>1, <3>1, <3>2 DEF FiredOnceInv
  <2> QED  BY <2>1, <2>2
<1> QED  BY <1>6, <1>7, <1>8

\* A run that is not made for the schedule.
LEMMA RunIsNotFired ==
    ASSUME AgreeInv, NEW r \in Keys, ~Present(r), NEW use \in {"ordinary", "validation"}, NEW full \in BOOLEAN,
           InsertRun(r, use, full), UNCHANGED firing
    PROVE  NamesInv' /\ FiringInv' /\ FiredOnceInv'
<1> DEFINE row == [status |-> "OPEN", use |-> use, full |-> full, passed |-> FALSE]
<1>1. TypeOK /\ NamesInv /\ FiringInv /\ FiredOnceInv
  BY DEF AgreeInv, LockInv, RowsInv
<1>2. run'[r] = row /\ \A s \in RunIds : s # r => run'[s] = run[s]
  BY <1>1 DEF TypeOK, InsertRun, RunIds
<1>3. row.use = use /\ use # "due" /\ use # "manual" /\ r \notin Moments
  BY ScheduleBounds
<1> HIDE DEF row
<1>4. \A t \in Moments : firing[t] # None => firing[t].run # r
  BY <1>1, ScheduleBounds DEF FiringInv, Present, RunIds
<1>5. NamesInv'
  BY <1>1, <1>2, <1>3 DEF NamesInv, Present
<1>6. \A t \in Moments : firing[t] # None /\ firing[t].run # None =>
          run'[firing[t].run] = run[firing[t].run]
  BY <1>1, <1>2, <1>4, FiringFields
<1>7. FiringInv'
  BY <1>1, <1>6 DEF FiringInv, Automatic, Present
<1>8. FiredOnceInv'
  BY <1>1, <1>2, <1>3 DEF FiredOnceInv, Fires, Present
<1> QED  BY <1>5, <1>7, <1>8

\* A due time that gets no run.
LEMMA FiringWithoutRun ==
    ASSUME AgreeInv, NEW m \in Moments, firing[m] = None, NEW status \in {"SKIPPED", "BLOCKED"},
           firing' = [firing EXCEPT ![m] = [status |-> status, run |-> None]], UNCHANGED run
    PROVE  NamesInv' /\ FiringInv' /\ FiredOnceInv'
<1> DEFINE fired == [status |-> status, run |-> None]
<1>1. TypeOK /\ NamesInv /\ FiringInv /\ FiredOnceInv
  BY DEF AgreeInv, LockInv, RowsInv
<1>2. firing'[m] = fired /\ \A t \in Moments : t # m => firing'[t] = firing[t]
  BY <1>1 DEF TypeOK
<1>3. fired.status # "TRIGGERED" /\ fired.run = None /\ None \notin RunIds
  BY ScheduleBounds
<1> HIDE DEF fired
<1>4. NamesInv'
  BY <1>1 DEF NamesInv, Present
<1>5. FiringInv'
  BY <1>1, <1>2, <1>3 DEF FiringInv, Automatic, Present
<1>6. FiredOnceInv'
  <2>1. \A t \in Moments, s \in RunIds : Fires(t, s)' <=> Fires(t, s)
    BY <1>2, <1>3 DEF Fires
  <2> QED  BY <1>1, <2>1 DEF FiredOnceInv, Present
<1> QED  BY <1>4, <1>5, <1>6

\* The run named by a due time that has not been fired is not there.
LEMMA DueRunIsNew ==
    ASSUME AgreeInv, NEW t \in Moments, firing[t] = None
    PROVE  ~Present(t)
<1> SUFFICES ASSUME Present(t) PROVE FALSE
  OBVIOUS
<1>1. t \in RunIds /\ t \notin Keys /\ t # None
  BY ScheduleBounds DEF RunIds
<1>2. run[t].use = "due"
  BY <1>1 DEF AgreeInv, NamesInv
<1>3. PICK u \in Moments : Fires(u, t)
  BY <1>1, <1>2 DEF AgreeInv, FiredOnceInv
<1> QED  BY <1>1, <1>3 DEF AgreeInv, FiringInv, Fires, Automatic

LEMMA AgreeClient == ASSUME AgreeInv, ClientStep PROVE NewKeyInv' /\ NamesInv' /\ FiringInv' /\ FiredOnceInv'
<1> DEFINE Goal == NewKeyInv' /\ NamesInv' /\ FiringInv' /\ FiredOnceInv'
<1> SUFFICES ASSUME NEW k \in Keys,
                    \/ \E full \in BOOLEAN :
                         \/ CountOrdinary(k, full)
                         \/ \E source \in RunIds : CountRerun(k, source, full)
                    \/ CheckManual(k) \/ CheckValidation(k) \/ TakeProject(k)
                    \/ CommitClient(k) \/ Abandon(k)
             PROVE  Goal
  BY DEF ClientStep
<1>1. /\ TypeOK /\ RowsInv /\ NewKeyInv /\ NamesInv /\ FiringInv /\ FiredOnceInv
      /\ k \in Callers /\ k \in RunIds /\ k \notin Moments
  BY ScheduleBounds DEF AgreeInv, LockInv, RowsInv, Callers, RunIds
<1>2. ASSUME UNCHANGED <<run, firing>>, \A c \in Keys : txn'[c] # None => txn[c] # None \/ ~Present(c)
      PROVE  Goal
  BY <1>1, <1>2 DEF NewKeyInv, NamesInv, FiringInv, FiredOnceInv, Fires, Automatic, Present
<1>3. ASSUME NEW full \in BOOLEAN,
             CountOrdinary(k, full) \/ \E source \in RunIds : CountRerun(k, source, full)
      PROVE  Goal
  BY <1>1, <1>2, <1>3 DEF CountOrdinary, CountRerun, Begin, TypeOK, Callers
<1>4. CASE CheckManual(k) \/ CheckValidation(k)
  BY <1>1, <1>2, <1>4 DEF CheckManual, CheckValidation, Begin, TypeOK, Callers
<1>5. CASE TakeProject(k) \/ Abandon(k)
  BY <1>1, <1>2, <1>5 DEF TakeProject, Abandon, InProgress, End, TypeOK, Callers
<1>6. CASE CommitClient(k)
  <2>1. /\ txn[k] # None /\ ~Present(k) /\ InsertRun(k, txn[k].use, txn[k].full)
        /\ txn[k].use \in {"ordinary", "validation", "manual"} /\ txn[k].full \in BOOLEAN
        /\ txn[k].moment \in Moments
    BY <1>1, <1>6, TxnFields DEF CommitClient, NewKeyInv, Uses
  <2>2. NewKeyInv'
    BY <1>1, <1>6, <2>1 DEF CommitClient, InsertRun, End, NewKeyInv, Present, TypeOK, Callers
  <2>3. NamesInv' /\ FiringInv' /\ FiredOnceInv'
    <3>1. CASE txn[k].use = "manual"
      BY <1>1, <1>6, <2>1, <3>1, RunIsFired DEF CommitClient
    <3>2. CASE txn[k].use # "manual"
      BY <1>1, <1>6, <2>1, <3>2, RunIsNotFired DEF CommitClient
    <3> QED  BY <3>1, <3>2
  <2> QED  BY <2>2, <2>3
<1> QED  BY <1>3, <1>4, <1>5, <1>6

LEMMA AgreeSweep ==
    ASSUME AgreeInv, NEW p \in Sweepers, SweepStep(p)
    PROVE  NewKeyInv' /\ NamesInv' /\ FiringInv' /\ FiredOnceInv'
<1> DEFINE Goal == NewKeyInv' /\ NamesInv' /\ FiringInv' /\ FiredOnceInv'
<1>1. /\ LockInv /\ TypeOK /\ NewKeyInv /\ NamesInv /\ FiringInv /\ FiredOnceInv
      /\ p \in Callers /\ p \notin Keys
  BY ScheduleBounds DEF AgreeInv, LockInv, RowsInv, Callers
<1>2. \A k \in Keys : txn'[k] = txn[k]
  BY <1>1 DEF SweepStep, SettleDue, ListDue, DueIgnored, DueKnown, DueSkipped, DueRefused, CheckDue,
              DueRejected, TakeProject, CommitDue, Begin, End, TypeOK, Callers
<1>3. ASSUME UNCHANGED run PROVE NewKeyInv'
  BY <1>1, <1>2, <1>3 DEF NewKeyInv, Present
<1>4. CASE ListDue(p) \/ DueIgnored(p) \/ DueKnown(p) \/ CheckDue(p) \/ TakeProject(p)
  <2>1. UNCHANGED <<run, firing>>
    BY <1>4 DEF ListDue, DueIgnored, DueKnown, CheckDue, TakeProject
  <2> QED  BY <1>1, <1>3, <2>1 DEF NamesInv, FiringInv, FiredOnceInv, Fires, Automatic, Present
<1>5. CASE DueSkipped(p) \/ DueRefused(p) \/ DueRejected(p)
  <2>1. schedule.next \in Moments /\ firing[schedule.next] = None /\ UNCHANGED run
    BY <1>1, <1>5, SettlesIs, SweepIsDue DEF DueSkipped, DueRefused, DueRejected, Fresh
  <2>2. PICK status \in {"SKIPPED", "BLOCKED"} : RecordFiring(status, None)
    BY <1>5 DEF DueSkipped, DueRefused, DueRejected
  <2> QED  BY <1>3, <2>1, <2>2, FiringWithoutRun DEF RecordFiring
<1>6. CASE CommitDue(p)
  <2>1. schedule.next \in Moments /\ firing[schedule.next] = None
    BY <1>1, <1>6, SettlesIs, SweepIsDue DEF CommitDue
  <2>2. schedule.next \in RunIds /\ ~Present(schedule.next) /\ schedule.next \notin Keys
    BY <2>1, DueRunIsNew, ScheduleBounds DEF RunIds
  <2>3. NamesInv' /\ FiringInv' /\ FiredOnceInv'
    BY <1>6, <2>1, <2>2, RunIsFired DEF CommitDue, RecordFiring
  <2>4. NewKeyInv'
    BY <1>1, <1>2, <1>6, <2>2 DEF CommitDue, InsertRun, NewKeyInv, Present, TypeOK, RunIds
  <2> QED  BY <2>3, <2>4
<1> QED  BY <1>4, <1>5, <1>6 DEF SweepStep, SettleDue

LEMMA AgreeOther ==
    ASSUME AgreeInv,
           \/ PackageStep \/ ScheduleStep
           \/ \E p \in Sweepers \ Reliable : Abandon(p)
           \/ \E r \in RunIds, status \in {"PASSED", "FAILED"} : EndRun(r, status) \/ CancelPassed(r)
           \/ \E q \in Quotas : SetQuota(q)
           \/ NewDay \/ Tick \/ UNCHANGED vars
    PROVE  NewKeyInv' /\ NamesInv' /\ FiringInv' /\ FiredOnceInv'
<1>1. TypeOK /\ NewKeyInv /\ NamesInv /\ FiringInv /\ FiredOnceInv
  BY DEF AgreeInv, LockInv, RowsInv
<1>2. UNCHANGED firing /\ \A k \in Keys : txn'[k] # None => txn[k] # None
  <2>1. CASE PackageStep \/ NewDay \/ Tick \/ UNCHANGED vars
    BY <2>1 DEF PackageStep, RecordVerification, Activate, Deprecate, Revoke, NewDay, Tick, vars
  <2>2. CASE ScheduleStep
    BY <2>2 DEF ScheduleStep, CreateSchedule, UpdateSchedule
  <2>3. CASE \E p \in Sweepers \ Reliable : Abandon(p)
    BY <1>1, <2>3 DEF Abandon, End, TypeOK, Callers
  <2>4. CASE \/ \E r \in RunIds, status \in {"PASSED", "FAILED"} : EndRun(r, status) \/ CancelPassed(r)
             \/ \E q \in Quotas : SetQuota(q)
    BY <2>4 DEF EndRun, CancelPassed, SetQuota
  <2> QED  BY <2>1, <2>2, <2>3, <2>4
<1>3. \A r \in RunIds : (Present(r)' <=> Present(r)) /\ run'[r].use = run[r].use
  <2>1. ASSUME NEW s \in RunIds, NEW status \in {"PASSED", "FAILED"},
             EndRun(s, status) \/ CancelPassed(s)
        PROVE  \A r \in RunIds : (Present(r)' <=> Present(r)) /\ run'[r].use = run[r].use
    BY <1>1, <2>1 DEF EndRun, CancelPassed, Present, TypeOK, Run
  <2>2. CASE UNCHANGED run
    BY <2>2 DEF Present
  <2>3. CASE PackageStep \/ NewDay \/ Tick \/ UNCHANGED vars
    BY <2>2, <2>3 DEF PackageStep, RecordVerification, Activate, Deprecate, Revoke, NewDay, Tick, vars
  <2>4. CASE ScheduleStep
    BY <2>2, <2>4 DEF ScheduleStep, CreateSchedule, UpdateSchedule
  <2>5. CASE (\E p \in Sweepers \ Reliable : Abandon(p)) \/ \E q \in Quotas : SetQuota(q)
    BY <2>2, <2>5 DEF Abandon, SetQuota
  <2> QED  BY <2>1, <2>3, <2>4, <2>5
<1>4. NewKeyInv'
  BY <1>1, <1>2, <1>3 DEF NewKeyInv, RunIds
<1>5. NamesInv'
  BY <1>1, <1>3 DEF NamesInv
<1>6. FiringInv'
  BY <1>1, <1>2, <1>3, FiringFields DEF FiringInv, Automatic
<1>7. FiredOnceInv'
  BY <1>1, <1>2, <1>3 DEF FiredOnceInv, Fires
<1> QED  BY <1>4, <1>5, <1>6, <1>7

LEMMA AgreeStep == ASSUME AgreeInv, [Next]_vars PROVE AgreeInv'
<1>1. LockInv'
  BY LockStep DEF AgreeInv
<1>2. CASE ClientStep
  BY <1>1, <1>2, AgreeClient DEF AgreeInv
<1>3. ASSUME NEW p \in Sweepers, SweepStep(p) PROVE AgreeInv'
  BY <1>1, <1>3, AgreeSweep DEF AgreeInv
<1>4. CASE \/ PackageStep \/ ScheduleStep
           \/ \E p \in Sweepers \ Reliable : Abandon(p)
           \/ \E r \in RunIds, status \in {"PASSED", "FAILED"} : EndRun(r, status) \/ CancelPassed(r)
           \/ \E q \in Quotas : SetQuota(q)
           \/ NewDay \/ Tick \/ UNCHANGED vars
  BY <1>1, <1>4, AgreeOther DEF AgreeInv
<1> QED  BY <1>2, <1>3, <1>4 DEF Next

LEMMA AgreeInit == ASSUME Init PROVE AgreeInv
<1>1. \A r \in RunIds : ~Present(r)
  BY DEF Init, Present
<1>2. \A t \in Moments : firing[t] = None
  BY DEF Init
<1>3. \A k \in Keys : txn[k] = None
  BY DEF Init, Callers
<1> QED  BY <1>1, <1>2, <1>3, LockInit DEF AgreeInv, NewKeyInv, NamesInv, FiringInv, FiredOnceInv

LEMMA AgreeIsEnough == ASSUME AgreeInv PROVE FiringsAgreeWithRuns
<1>1. ASSUME NEW r \in RunIds, Present(r), run[r].use \in {"manual", "due"}
      PROVE  Cardinality({t \in Moments : firing[t] # None /\ firing[t].run = r}) = 1
  <2>1. PICK t \in Moments : Fires(t, r) /\ \A u \in Moments : Fires(u, r) => u = t
    BY <1>1 DEF AgreeInv, FiredOnceInv
  <2>2. {u \in Moments : firing[u] # None /\ firing[u].run = r} = {t}
    BY <2>1 DEF Fires
  <2> QED  BY <2>2, FS_Singleton
<1> QED  BY <1>1 DEF AgreeInv, FiringInv, FiringsAgreeWithRuns

\* Every firing and its run tell the same story, and every run made for the
\* schedule is told once.
THEOREM FiringsAndRunsAgree == Spec => []FiringsAgreeWithRuns
<1>1. Init => AgreeInv
  BY AgreeInit
<1>2. AgreeInv /\ [Next]_vars => AgreeInv'
  BY AgreeStep
<1>3. AgreeInv => FiringsAgreeWithRuns
  BY AgreeIsEnough
<1> QED  BY <1>1, <1>2, <1>3, PTL DEF Spec

-----------------------------------------------------------------------------
(* The next due time                                                       *)

FollowInv == LockInv /\ PastInv /\ NextFollowsFirings

\* A call that begins or ends, or gets a lock, dates nothing ahead of the clock.
LEMMA CallsInThePast ==
    ASSUME LockInv, PastInv, NEW c \in Callers, UNCHANGED now,
           \/ End(c)
           \/ /\ txn[c] # None
              /\ \E step \in {"checked", "counted"} : txn' = [txn EXCEPT ![c].step = step]
           \/ \E use \in Uses, step \in {"listed", "checked", "counted"}, moment \in {0, now}, full \in BOOLEAN :
                Begin(c, use, step, moment, full)
    PROVE  \A d \in Callers : txn'[d] # None => txn'[d].moment <= now'
<1>1. TypeOK /\ now \in Nat /\ 0 <= now
  BY ScheduleBounds DEF LockInv, RowsInv, TypeOK, Moments
<1>2. \A d \in Callers : d # c => txn'[d] = txn[d]
  BY <1>1 DEF TypeOK, End, Begin
<1>3. txn'[c] # None => txn'[c].moment <= now'
  <2>1. CASE End(c)
    BY <1>1, <2>1 DEF TypeOK, End
  <2>2. ASSUME NEW step \in {"checked", "counted"}, txn[c] # None, txn' = [txn EXCEPT ![c].step = step]
        PROVE  txn'[c].moment <= now'
    BY <1>1, <2>2 DEF TypeOK, Txn, PastInv
  <2>3. ASSUME NEW use \in Uses, NEW step \in {"listed", "checked", "counted"}, NEW moment \in {0, now},
               NEW full \in BOOLEAN, Begin(c, use, step, moment, full)
        PROVE  txn'[c].moment <= now'
    BY <1>1, <2>3 DEF TypeOK, Begin
  <2> QED  BY <2>1, <2>2, <2>3
<1> QED  BY <1>2, <1>3 DEF PastInv

\* Settling a due time moves the schedule past it.
LEMMA FollowSettle ==
    ASSUME FollowInv, NEW p \in Sweepers,
           \/ DueKnown(p) \/ DueSkipped(p) \/ DueRefused(p) \/ DueRejected(p) \/ CommitDue(p)
    PROVE  PastInv' /\ NextFollowsFirings'
<1>1. LockInv /\ TypeOK /\ PastInv /\ NextFollowsFirings /\ now \in Nat
  BY DEF FollowInv, LockInv, RowsInv, TypeOK, Moments
<1>2. /\ p \in Callers /\ txn[p] # None /\ StillDue(p) /\ schedule.next \in Moments
      /\ schedule.status = "ACTIVE" /\ Settles(p) /\ txn[p] \in Txn
  BY <1>1, SettlesIs
<1>3. schedule.next <= txn[p].moment /\ txn[p].moment <= now /\ txn[p].moment \in Nat /\ schedule.next \in Nat
  BY <1>1, <1>2 DEF StillDue, PastInv, Txn, Moments
<1>4. schedule'.next \in Nat /\ txn[p].moment < schedule'.next /\ schedule'.status = "ACTIVE"
  BY <1>1, <1>2, <1>3, ScheduleBounds, AdvanceMovesOn DEF Settles
<1>5. UNCHANGED firing \/ \E row : firing' = [firing EXCEPT ![schedule.next] = row]
  BY <1>2 DEF Settles, RecordFiring
<1>6. \A t \in Moments : t # schedule.next => firing'[t] = firing[t]
  BY <1>1, <1>5 DEF TypeOK
<1>7. PastInv'
  <2>1. \A d \in Callers : txn'[d] # None => txn'[d].moment <= now'
    BY <1>1, <1>2, CallsInThePast DEF Settles
  <2>2. \A t \in Moments : firing'[t] # None => t <= now'
    BY <1>1, <1>2, <1>3, <1>6 DEF PastInv, Settles, Moments
  <2> QED  BY <2>1, <2>2 DEF PastInv
<1>8. \A t \in Moments : firing'[t] # None /\ Automatic(t)' => t < schedule'.next
  <2> SUFFICES ASSUME NEW t \in Moments, firing'[t] # None, Automatic(t)' PROVE t < schedule'.next
    OBVIOUS
  <2>1. CASE t = schedule.next
    BY <1>3, <1>4, <2>1
  <2>2. CASE t # schedule.next
    <3>1. t < schedule.next
      BY <1>1, <1>2, <1>6, <2>2, ScheduleBounds DEF NextFollowsFirings, Automatic
    <3> QED  BY <1>3, <1>4, <3>1 DEF Moments
  <2> QED  BY <2>1, <2>2
<1>9. schedule'.next # None
  BY <1>4, ScheduleBounds
<1> QED  BY <1>4, <1>7, <1>8, <1>9 DEF NextFollowsFirings

\* Steps that leave the schedule and its firings alone.
LEMMA FollowQuiet ==
    ASSUME FollowInv, UNCHANGED <<now, schedule, firing>>,
           \A d \in Callers : txn'[d] # None => txn'[d].moment <= now'
    PROVE  PastInv' /\ NextFollowsFirings'
BY DEF FollowInv, PastInv, NextFollowsFirings, Automatic

LEMMA FollowClient == ASSUME FollowInv, ClientStep PROVE PastInv' /\ NextFollowsFirings'
<1> DEFINE Goal == PastInv' /\ NextFollowsFirings'
<1> SUFFICES ASSUME NEW k \in Keys,
                    \/ \E full \in BOOLEAN :
                         \/ CountOrdinary(k, full)
                         \/ \E source \in RunIds : CountRerun(k, source, full)
                    \/ CheckManual(k) \/ CheckValidation(k) \/ TakeProject(k)
                    \/ CommitClient(k) \/ Abandon(k)
             PROVE  Goal
  BY DEF ClientStep
<1>1. LockInv /\ RowsInv /\ TypeOK /\ PastInv /\ k \in Callers
  BY DEF FollowInv, LockInv, RowsInv, Callers
<1>2. ASSUME NEW full \in BOOLEAN,
             CountOrdinary(k, full) \/ \E source \in RunIds : CountRerun(k, source, full)
      PROVE  Goal
  <2>1. Begin(k, "ordinary", "counted", 0, full) /\ UNCHANGED <<now, schedule, firing>>
    BY <1>2 DEF CountOrdinary, CountRerun
  <2> QED  BY <1>1, <2>1, CallsInThePast, FollowQuiet DEF Uses
<1>3. CASE CheckManual(k)
  BY <1>1, <1>3, CallsInThePast, FollowQuiet DEF CheckManual, Uses
<1>4. CASE CheckValidation(k)
  BY <1>1, <1>4, CallsInThePast, FollowQuiet DEF CheckValidation, Uses
<1>5. CASE TakeProject(k)
  BY <1>1, <1>5, CallsInThePast, FollowQuiet DEF TakeProject
<1>6. CASE Abandon(k)
  BY <1>1, <1>6, CallsInThePast, FollowQuiet DEF Abandon
<1>7. CASE CommitClient(k)
  <2>1. End(k) /\ UNCHANGED <<now, schedule>> /\ txn[k] # None
    BY <1>7 DEF CommitClient
  <2>2. \A d \in Callers : txn'[d] # None => txn'[d].moment <= now'
    BY <1>1, <2>1, CallsInThePast
  <2>3. CASE UNCHANGED firing
    BY <2>1, <2>2, <2>3, FollowQuiet
  <2>4. CASE ~UNCHANGED firing
    <3> DEFINE m == txn[k].moment
               row == [status |-> "TRIGGERED", run |-> k]
    <3>1. m \in Moments /\ m <= now
      BY <1>1, <2>1, TxnFields DEF PastInv
    <3>2. firing' = [firing EXCEPT ![m] = row]
      BY <1>7, <2>4 DEF CommitClient
    <3>3. row.run \in Keys
      OBVIOUS
    <3> HIDE DEF m, row
    <3>4. firing'[m] = row /\ \A t \in Moments : t # m => firing'[t] = firing[t]
      BY <1>1, <3>1, <3>2 DEF TypeOK
    <3>5. \A t \in Moments : firing'[t] # None => t <= now'
      BY <1>1, <2>1, <3>1, <3>4 DEF PastInv
    <3>6. NextFollowsFirings'
      BY <2>1, <3>3, <3>4 DEF FollowInv, NextFollowsFirings, Automatic
    <3> QED  BY <2>2, <3>5, <3>6 DEF PastInv
  <2> QED  BY <2>3, <2>4
<1> QED  BY <1>2, <1>3, <1>4, <1>5, <1>6, <1>7

LEMMA FollowSweep == ASSUME FollowInv, NEW p \in Sweepers, SweepStep(p) PROVE PastInv' /\ NextFollowsFirings'
<1>1. LockInv /\ PastInv /\ p \in Callers
  BY DEF FollowInv, Callers
<1>2. CASE ListDue(p)
  BY <1>1, <1>2, CallsInThePast, FollowQuiet DEF ListDue, Uses
<1>3. CASE DueIgnored(p)
  BY <1>1, <1>3, CallsInThePast, FollowQuiet DEF DueIgnored
<1>4. CASE CheckDue(p)
  BY <1>1, <1>4, CallsInThePast, FollowQuiet DEF CheckDue, Fresh, Listed
<1>5. CASE TakeProject(p)
  BY <1>1, <1>5, CallsInThePast, FollowQuiet DEF TakeProject
<1> QED  BY <1>2, <1>3, <1>4, <1>5, FollowSettle DEF SweepStep, SettleDue

\* A schedule that is created, resumed or given another period is due ahead of
\* the clock, and so ahead of every firing.
LEMMA FollowSchedule == ASSUME FollowInv, ScheduleStep PROVE PastInv' /\ NextFollowsFirings'
<1>1. /\ UNCHANGED <<now, firing, txn>>
      /\ \/ schedule'.next \in {None, schedule.next}
         \/ \E period \in Periods : schedule'.next = NextAfter(now, period)
  BY DEF ScheduleStep, CreateSchedule, UpdateSchedule
<1>2. PastInv'
  BY <1>1 DEF FollowInv, PastInv
<1>3. ActiveIsDue'
  BY ScheduleRows DEF FollowInv, LockInv, RowsInv
<1>4. now \in Nat /\ None \notin Nat
  BY ScheduleBounds DEF FollowInv, LockInv, RowsInv, TypeOK, Moments
<1>5. ASSUME NEW t \in Moments, firing'[t] # None, Automatic(t)', schedule'.next # None
      PROVE  t < schedule'.next
  <2>1. CASE schedule'.next \in {None, schedule.next}
    BY <1>1, <1>5, <2>1 DEF FollowInv, NextFollowsFirings, Automatic
  <2>2. ASSUME NEW period \in Periods, schedule'.next = NextAfter(now, period) PROVE t < schedule'.next
    <3>1. now < NextAfter(now, period) /\ NextAfter(now, period) \in Nat
      BY <1>4, NextAfterIsLater, ScheduleBounds
    <3>2. t <= now /\ t \in Nat
      BY <1>1, <1>5 DEF FollowInv, PastInv, Moments
    <3> QED  BY <1>4, <2>2, <3>1, <3>2
  <2> QED  BY <1>1, <2>1, <2>2
<1> QED  BY <1>2, <1>3, <1>5 DEF NextFollowsFirings, ActiveIsDue

LEMMA FollowOther ==
    ASSUME FollowInv,
           \/ PackageStep
           \/ \E p \in Sweepers \ Reliable : Abandon(p)
           \/ \E r \in RunIds, status \in {"PASSED", "FAILED"} : EndRun(r, status) \/ CancelPassed(r)
           \/ \E q \in Quotas : SetQuota(q)
           \/ NewDay \/ Tick \/ UNCHANGED vars
    PROVE  PastInv' /\ NextFollowsFirings'
<1>1. CASE PackageStep \/ NewDay \/ UNCHANGED vars
  <2>1. UNCHANGED <<now, schedule, firing, txn>>
    BY <1>1 DEF PackageStep, RecordVerification, Activate, Deprecate, Revoke, NewDay, vars
  <2> QED  BY <2>1 DEF FollowInv, PastInv, NextFollowsFirings, Automatic
<1>2. ASSUME NEW p \in Sweepers \ Reliable, Abandon(p) PROVE PastInv' /\ NextFollowsFirings'
  BY <1>2, CallsInThePast, FollowQuiet DEF Abandon, FollowInv, Callers
<1>3. CASE \/ \E r \in RunIds, status \in {"PASSED", "FAILED"} : EndRun(r, status) \/ CancelPassed(r)
           \/ \E q \in Quotas : SetQuota(q)
  <2>1. UNCHANGED <<now, schedule, firing, txn>>
    BY <1>3 DEF EndRun, CancelPassed, SetQuota
  <2> QED  BY <2>1 DEF FollowInv, PastInv, NextFollowsFirings, Automatic
<1>4. CASE Tick
  <2>1. now \in Nat /\ \A c \in Callers : txn[c] # None => txn[c].moment \in Nat
    BY TxnFields DEF FollowInv, LockInv, RowsInv, TypeOK, Moments
  <2>2. UNCHANGED <<schedule, firing, txn>> /\ now' = now + 1
    BY <1>4 DEF Tick
  <2> QED  BY <2>1, <2>2 DEF FollowInv, PastInv, NextFollowsFirings, Automatic, Moments
<1> QED  BY <1>1, <1>2, <1>3, <1>4

LEMMA FollowStep == ASSUME FollowInv, [Next]_vars PROVE FollowInv'
<1>1. LockInv'
  BY LockStep DEF FollowInv
<1> QED  BY <1>1, FollowClient, FollowSweep, FollowSchedule, FollowOther DEF Next, FollowInv

\* With any number of scheduler processes and any edits, the schedule never
\* comes back to a due time that was fired, blocked or skipped.
THEOREM ScheduleMovesOn == Spec => []NextFollowsFirings
<1>1. Init => FollowInv
  BY LockInit DEF Init, FollowInv, PastInv, NextFollowsFirings
<1>2. FollowInv /\ [Next]_vars => FollowInv'
  BY FollowStep
<1>3. FollowInv => NextFollowsFirings
  BY DEF FollowInv
<1> QED  BY <1>1, <1>2, <1>3, PTL DEF Spec

-----------------------------------------------------------------------------
(* Activation                                                              *)

\* A pass is reported by the end of a run, whose status only a cancel changes since.
PassedInv ==
    \A r \in RunIds :
        /\ run[r].passed => run[r].status \in {"PASSED", "FAILED"}
        /\ run[r].status = "PASSED" => run[r].passed

ServiceInv == AgreeInv /\ PassedInv /\ EarnedInv

\* A pass that was reported is never taken back: no run is replaced, and a cancel
\* leaves the result document.
LEMMA PassedStays ==
    ASSUME AgreeInv, PassedInv, Next
    PROVE  /\ PassedInv'
           /\ \A r \in RunIds :
                 run[r].passed => run'[r].passed /\ run'[r].full = run[r].full
<1>1. LockInv /\ TypeOK /\ NewKeyInv
  BY DEF AgreeInv, LockInv, RowsInv
<1> DEFINE Kept == /\ PassedInv'
                   /\ \A r \in RunIds :
                         run[r].passed => run'[r].passed /\ run'[r].full = run[r].full
<1>2. CASE UNCHANGED run
  BY <1>2 DEF PassedInv
<1>3. CASE PackageStep \/ NewDay \/ Tick
  BY <1>2, <1>3 DEF PackageStep, RecordVerification, Activate, Deprecate, Revoke, NewDay, Tick
<1>4. CASE ScheduleStep
  BY <1>2, <1>4 DEF ScheduleStep, CreateSchedule, UpdateSchedule
<1>5. ASSUME NEW k \in Keys, CommitClient(k) PROVE Kept
  <2>1. k \in RunIds /\ ~Present(k)
    BY <1>1, <1>5 DEF CommitClient, NewKeyInv, RunIds
  <2> QED  BY <1>1, <1>5, <2>1 DEF CommitClient, InsertRun, Present, TypeOK, PassedInv
<1>6. CASE ClientStep
  BY <1>2, <1>5, <1>6 DEF ClientStep, CountOrdinary, CountRerun, CheckManual, CheckValidation, TakeProject, Abandon
<1>7. ASSUME NEW p \in Sweepers, CommitDue(p) PROVE Kept
  <2>1. schedule.next \in Moments /\ firing[schedule.next] = None
    BY <1>1, <1>7, SettlesIs, SweepIsDue DEF CommitDue
  <2>2. schedule.next \in RunIds /\ ~Present(schedule.next)
    BY <2>1, DueRunIsNew DEF RunIds
  <2> QED  BY <1>1, <1>7, <2>2 DEF CommitDue, InsertRun, Present, TypeOK, PassedInv
<1>8. ASSUME NEW p \in Sweepers, SweepStep(p) PROVE Kept
  BY <1>2, <1>7, <1>8 DEF SweepStep, SettleDue, ListDue, DueIgnored, DueKnown, DueSkipped, DueRefused,
                          CheckDue, DueRejected, TakeProject
<1>9. ASSUME NEW s \in RunIds, NEW status \in {"PASSED", "FAILED"},
             EndRun(s, status) \/ CancelPassed(s) PROVE Kept
  BY <1>1, <1>9 DEF EndRun, CancelPassed, TypeOK, Run, PassedInv
<1>10. CASE (\E p \in Sweepers \ Reliable : Abandon(p)) \/ \E q \in Quotas : SetQuota(q)
  BY <1>2, <1>10 DEF Abandon, SetQuota
<1> QED  BY <1>3, <1>4, <1>6, <1>8, <1>9, <1>10 DEF Next

\* A validation is admitted only for a draft.
LEMMA ValidationsAreOfDrafts ==
    ASSUME AgreeInv, Next, Validates', ~Validates
    PROVE  package' = "DRAFT"
<1>1. LockInv /\ TypeOK
  BY DEF AgreeInv, LockInv, RowsInv
<1>2. ASSUME \A r \in RunIds : Present(r)' /\ run'[r].use = "validation" =>
                                   Validates \/ (Present(r) /\ run[r].use = "validation"),
             \A c \in Callers : txn'[c] # None /\ txn'[c].use = "validation" =>
                                   txn[c] # None /\ txn[c].use = "validation"
      PROVE  FALSE
  BY <1>2 DEF Validates
<1>3. ASSUME NEW c \in Callers, End(c), UNCHANGED run PROVE FALSE
  BY <1>1, <1>2, <1>3 DEF End, TypeOK, Present
<1>4. ASSUME NEW c \in Callers, NEW use \in Uses \ {"validation"}, NEW step, NEW moment, NEW full,
             Begin(c, use, step, moment, full), UNCHANGED run
      PROVE  FALSE
  <2>1. txn'[c].use = use /\ \A d \in Callers : d # c => txn'[d] = txn[d]
    BY <1>1, <1>4 DEF Begin, TypeOK
  <2> QED  BY <1>2, <1>4, <2>1 DEF Present
<1>5. ASSUME NEW c \in Callers, txn[c] # None, NEW step, txn' = [txn EXCEPT ![c].step = step], UNCHANGED run
      PROVE  FALSE
  <2>1. txn'[c].use = txn[c].use /\ \A d \in Callers : d # c => txn'[d] = txn[d]
    BY <1>1, <1>5, TxnFields DEF TypeOK, Txn, LockInv
  <2> QED  BY <1>2, <1>5, <2>1 DEF Present
<1>6. ASSUME NEW c \in Callers, txn[c] # None, End(c), NEW r \in RunIds, NEW use, NEW full, InsertRun(r, use, full),
             use = "validation" => txn[c].use = "validation"
      PROVE  FALSE
  <2>1. run'[r].use = use /\ \A s \in RunIds : s # r => run'[s] = run[s]
    BY <1>1, <1>6 DEF InsertRun, TypeOK
  <2>2. \A s \in RunIds : Present(s)' /\ run'[s].use = "validation" =>
                              Validates \/ (Present(s) /\ run[s].use = "validation")
    BY <1>6, <2>1 DEF Present, Validates
  <2>3. \A d \in Callers : txn'[d] # None /\ txn'[d].use = "validation" => txn[d] # None /\ txn[d].use = "validation"
    BY <1>1, <1>6 DEF End, TypeOK
  <2> QED  BY <1>2, <2>2, <2>3
<1>7. ASSUME UNCHANGED <<run, txn>> PROVE FALSE
  BY <1>2, <1>7 DEF Present
<1>8. CASE PackageStep \/ NewDay \/ Tick \/ \E q \in Quotas : SetQuota(q)
  BY <1>7, <1>8 DEF PackageStep, RecordVerification, Activate, Deprecate, Revoke, NewDay, Tick, SetQuota
<1>9. CASE ScheduleStep
  BY <1>7, <1>9 DEF ScheduleStep, CreateSchedule, UpdateSchedule
<1>10. ASSUME NEW k \in Keys,
             \/ \E full \in BOOLEAN :
                  \/ CountOrdinary(k, full)
                  \/ \E source \in RunIds : CountRerun(k, source, full)
             \/ CheckManual(k) \/ CheckValidation(k) \/ TakeProject(k)
             \/ CommitClient(k) \/ Abandon(k)
      PROVE  package' = "DRAFT"
  <2>0. k \in Callers /\ k \in RunIds
    BY DEF Callers, RunIds
  <2>1. CASE \E full \in BOOLEAN :
                  \/ CountOrdinary(k, full)
                  \/ \E source \in RunIds : CountRerun(k, source, full)
    BY <1>4, <2>0, <2>1 DEF CountOrdinary, CountRerun, Uses
  <2>2. CASE CheckManual(k)
    BY <1>4, <2>0, <2>2 DEF CheckManual, Uses
  <2>3. CASE CheckValidation(k)
    BY <2>3 DEF CheckValidation, packageVars
  <2>4. CASE TakeProject(k)
    BY <1>5, <2>0, <2>4 DEF TakeProject
  <2>5. CASE CommitClient(k)
    BY <1>6, <2>0, <2>5 DEF CommitClient
  <2>6. CASE Abandon(k)
    BY <1>3, <2>0, <2>6 DEF Abandon
  <2> QED  BY <1>10, <2>1, <2>2, <2>3, <2>4, <2>5, <2>6
<1>11. ASSUME NEW p \in Sweepers, SweepStep(p) PROVE FALSE
  <2>0. p \in Callers
    BY DEF Callers
  <2>1. CASE ListDue(p)
    BY <1>4, <2>0, <2>1 DEF ListDue, Uses
  <2>2. CASE DueIgnored(p)
    BY <1>3, <2>0, <2>2 DEF DueIgnored
  <2>3. CASE CheckDue(p) \/ TakeProject(p)
    BY <1>5, <2>0, <2>3 DEF CheckDue, Fresh, Listed, TakeProject
  <2>4. CASE DueKnown(p) \/ DueSkipped(p) \/ DueRefused(p) \/ DueRejected(p)
    BY <1>3, <2>0, <2>4 DEF DueKnown, DueSkipped, DueRefused, DueRejected
  <2>5. CASE CommitDue(p)
    <3>1. schedule.next \in RunIds
      BY <1>1, <2>5, SettlesIs DEF RunIds
    <3> QED  BY <1>6, <2>0, <2>5, <3>1 DEF CommitDue, InProgress
  <2> QED  BY <1>11, <2>1, <2>2, <2>3, <2>4, <2>5 DEF SweepStep, SettleDue
<1>12. ASSUME NEW p \in Sweepers, Abandon(p) PROVE FALSE
  BY <1>3, <1>12 DEF Abandon, Callers
<1>13. ASSUME NEW r \in RunIds, NEW status \in {"PASSED", "FAILED"},
             EndRun(r, status) \/ CancelPassed(r) PROVE FALSE
  <2>1. UNCHANGED txn /\ \A s \in RunIds : (Present(s)' <=> Present(s)) /\ run'[s].use = run[s].use
    BY <1>1, <1>13 DEF EndRun, CancelPassed, TypeOK, Run, Present
  <2> QED  BY <1>2, <2>1
<1> QED  BY <1>8, <1>9, <1>10, <1>11, <1>12, <1>13 DEF Next, ClientStep

\* A package comes into service out of a draft by its activation.
LEMMA ServiceBegins ==
    ASSUME PassedInv, Next, package' \in {"ACTIVE", "DEPRECATED"}
    PROVE  package \in {"ACTIVE", "DEPRECATED"} \/ Earned
<1>1. CASE UNCHANGED package
  BY <1>1
<1>2. CASE PackageStep
  BY <1>2 DEF PackageStep, RecordVerification, Activate, Deprecate, Revoke, PassedInv, Earned
<1>3. CASE ScheduleStep
  BY <1>1, <1>3 DEF ScheduleStep, CreateSchedule, UpdateSchedule, packageVars
<1>4. CASE ClientStep
  BY <1>1, <1>4 DEF ClientStep, CountOrdinary, CountRerun, CheckManual, CheckValidation, TakeProject,
                    CommitClient, Abandon, packageVars
<1>5. ASSUME NEW p \in Sweepers, SweepStep(p) PROVE UNCHANGED package
  BY <1>5 DEF SweepStep, SettleDue, ListDue, DueIgnored, DueKnown, DueSkipped, DueRefused,
              CheckDue, DueRejected, TakeProject, CommitDue, packageVars
<1>6. CASE \/ \E p \in Sweepers \ Reliable : Abandon(p)
           \/ \E r \in RunIds, status \in {"PASSED", "FAILED"} : EndRun(r, status) \/ CancelPassed(r)
           \/ \E q \in Quotas : SetQuota(q)
           \/ NewDay \/ Tick
  BY <1>1, <1>6 DEF Abandon, EndRun, CancelPassed, SetQuota, NewDay, Tick, packageVars
<1> QED  BY <1>1, <1>2, <1>3, <1>4, <1>5, <1>6 DEF Next

LEMMA ServiceStep == ASSUME ServiceInv, [Next]_vars PROVE ServiceInv'
<1>1. AgreeInv'
  BY AgreeStep DEF ServiceInv
<1>2. CASE UNCHANGED vars
  BY <1>1, <1>2 DEF ServiceInv, PassedInv, EarnedInv, Validates, Earned, Present, vars, packageVars
<1>3. ASSUME Next PROVE PassedInv'
  BY <1>3, PassedStays DEF ServiceInv
<1>4. ASSUME Next, package' \in {"ACTIVE", "DEPRECATED"}, Validates' PROVE Earned'
  <2>1. Validates
    BY <1>4, ValidationsAreOfDrafts DEF ServiceInv
  <2>2. Earned
    BY <1>4, <2>1, ServiceBegins DEF ServiceInv, EarnedInv
  <2> QED  BY <1>4, <2>2, PassedStays DEF ServiceInv, Earned
<1> QED  BY <1>1, <1>2, <1>3, <1>4 DEF ServiceInv, EarnedInv

\* A package that went through validation is in service only with a full run
\* whose result document says PASSED, whatever a late cancel makes of its status.
THEOREM ActivationsAreEarned == Spec => []ActivationEarned
<1>1. Init => ServiceInv
  <2>1. Init => ~Validates
    BY DEF Init, Validates, Present
  <2>2. Init => PassedInv
    BY DEF Init, PassedInv
  <2> QED  BY <2>1, <2>2, AgreeInit DEF ServiceInv, EarnedInv
<1>2. ServiceInv /\ [Next]_vars => ServiceInv'
  BY ServiceStep
<1>3. ServiceInv => ActivationEarned
  BY DEF ServiceInv, EarnedInv, Validates, Earned, ActivationEarned
<1> QED  BY <1>1, <1>2, <1>3, PTL DEF Spec
=============================================================================
