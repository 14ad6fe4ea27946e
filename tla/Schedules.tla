------------------------------ MODULE Schedules ------------------------------
(***************************************************************************)
(* One regression schedule, the automation package it names, and the       *)
(* admission of runs under the project's quotas.                           *)
(*                                                                         *)
(* A call that creates a run reads the package, never locking it, takes    *)
(* the project's row, counts, inserts and commits.  A call for the         *)
(* schedule (a sweep or a manual trigger) holds the schedule's row         *)
(* throughout.  Calls in progress are in txn; every other operation is one *)
(* transaction on locked rows and one action.  Deprecation, which reads    *)
(* the schedules without locking them, is one action as well: a schedule   *)
(* resumed between its read and its commit ends in the state that a        *)
(* resume after it reaches, since resuming does not look at the package.   *)
(*                                                                         *)
(* Time is counted in ticks.  A cron expression with its time zone is a    *)
(* period.  The schedule's target, environment and baseline may turn       *)
(* unusable at any time, which is a choice wherever they are validated.    *)
(***************************************************************************)
EXTENDS Naturals, FiniteSets

CONSTANTS
    Keys,       \* idempotency keys of clients
    Sweepers,   \* scheduler processes
    Reliable,   \* the scheduler process that is kept running, as a set
    MaxTime,    \* bound on the clock
    Grace,      \* misfire_grace_seconds
    Periods,    \* cron expressions, by the distance of their due times
    Quotas,     \* settings of the execution policy
    None

Moments == 0..MaxTime
Callers == Sweepers \cup Keys
\* A client's key names its run; a due time names the run of its sweep.
RunIds == Keys \cup Moments

ASSUME ScheduleBounds ==
    /\ MaxTime \in Nat /\ Grace \in Nat
    /\ Periods \subseteq Nat \ {0}
    /\ Quotas \subseteq [inFlight : Nat \ {0}, daily : Nat \ {0}]
    /\ Reliable \subseteq Sweepers /\ Sweepers \cap Keys = {}
    \* _scheduled_idempotency_key: no client uses a key of the scheduler.
    /\ IsFiniteSet(Keys) /\ Keys \cap Moments = {} /\ None \notin Nat \cup RunIds

VARIABLES
    now,        \* the clock
    package,    \* automation_packages.status
    chain,      \* automation_packages.supply_chain_status
    schedule,   \* the regression_schedules row
    firing,     \* regression_schedule_firings, unique by scheduled_for
    run,        \* test_runs of the project
    quota,      \* the project's execution policy
    today,      \* test_runs rows created since midnight UTC
    txn         \* calls in progress

packageVars == <<package, chain>>
vars == <<now, packageVars, schedule, firing, run, quota, today, txn>>

Uses == {"ordinary", "validation", "manual", "due"}
\* passed: the run has a result document and that says PASSED.
Run == [status : {"ABSENT", "OPEN", "PASSED", "FAILED"}, use : Uses, full : BOOLEAN,
        passed : BOOLEAN]
Firing == [status : {"TRIGGERED", "SKIPPED", "BLOCKED"}, run : RunIds \cup {None}]
\* A row is never NULL.
ASSUME NoneIsNoFiring == None \notin Firing
Schedule == [status : {"NONE", "ACTIVE", "PAUSED", "ARCHIVED"}, next : Nat \cup {None},
             period : Periods, policy : {"SKIP", "FIRE_ONCE"}]
\* A sweep that has listed the schedule; a call past its look at the package;
\* a call that holds the project's row.
Txn == [use : Uses, step : {"listed", "checked", "counted"}, moment : Moments, full : BOOLEAN]

TypeOK ==
    /\ now \in Moments
    /\ package \in {"DRAFT", "ACTIVE", "DEPRECATED", "REVOKED"}
    /\ chain \in {"PENDING", "VERIFIED", "REJECTED", "LEGACY"}
    /\ schedule \in Schedule
    /\ firing \in [Moments -> Firing \cup {None}]
    /\ run \in [RunIds -> Run]
    /\ quota \in Quotas /\ today \in Nat
    /\ txn \in [Callers -> Txn \cup {None}]

\* The package has just been registered: a draft, or directly as an ACTIVE one.
Init ==
    /\ now = 0
    /\ \/ package = "DRAFT" /\ chain = "PENDING"
       \/ package = "ACTIVE" /\ chain = "LEGACY"
    /\ schedule \in [status : {"NONE"}, next : {None}, period : Periods, policy : {"SKIP"}]
    /\ firing = [t \in Moments |-> None]
    /\ run = [r \in RunIds |-> [status |-> "ABSENT", use |-> "ordinary", full |-> FALSE,
                              passed |-> FALSE]]
    /\ quota \in Quotas /\ today = 0
    /\ txn = [c \in Callers |-> None]

-----------------------------------------------------------------------------
(* The package *)

\* SUPPLY_CHAIN_EXECUTABLE_STATUSES.
Executable == chain \in {"LEGACY", "VERIFIED"}
Usable == package = "ACTIVE" /\ Executable

\* A new verification report; a report seen before changes nothing.
RecordVerification(outcome) ==
    /\ chain' = outcome
    /\ UNCHANGED <<now, package, schedule, firing, run, quota, today, txn>>

\* Variant: any full run that has ended will do.
ActivateEnded(r) ==
    /\ package = "DRAFT" /\ chain = "VERIFIED"
    /\ run[r].status \in {"PASSED", "FAILED"} /\ run[r].full
    /\ package' = "ACTIVE"
    /\ UNCHANGED <<now, chain, schedule, firing, run, quota, today, txn>>

\* activate_automation_package.
Activate(r) ==
    /\ package = "DRAFT" /\ chain = "VERIFIED"
    /\ run[r].status = "PASSED" /\ run[r].full
    /\ package' = "ACTIVE"
    /\ UNCHANGED <<now, chain, schedule, firing, run, quota, today, txn>>

\* deprecate_automation_package.
Deprecate ==
    /\ package = "ACTIVE" /\ schedule.status # "ACTIVE"
    /\ package' = "DEPRECATED"
    /\ UNCHANGED <<now, chain, schedule, firing, run, quota, today, txn>>

\* revoke_automation_package.
Revoke ==
    /\ package # "REVOKED"
    /\ package' = "REVOKED"
    /\ UNCHANGED <<now, chain, schedule, firing, run, quota, today, txn>>

-----------------------------------------------------------------------------
(* The schedule *)

InProgress(c) == txn[c] # None /\ txn[c].step # "listed"
ScheduleLocked == \E c \in Callers : InProgress(c) /\ txn[c].use \in {"manual", "due"}

\* CronExpression.next_after: the first due time strictly after t.
NextAfter(t, period) == (t \div period + 1) * period

\* create_regression_schedule.
CreateSchedule(status, period, policy) ==
    /\ schedule.status = "NONE" /\ Usable
    /\ schedule' = [status |-> status, period |-> period, policy |-> policy,
                    next |-> IF status = "ACTIVE" THEN NextAfter(now, period) ELSE None]
    /\ UNCHANGED <<now, packageVars, firing, run, quota, today, txn>>

\* update_regression_schedule: the resources are looked at only when the
\* payload names one of them.
UpdateSchedule(new, given) ==
    /\ schedule.status # "NONE" /\ ~ScheduleLocked
    /\ schedule.status = "ARCHIVED" => new.status = "ARCHIVED"
    /\ "resources" \in given => Usable
    /\ "status" \notin given => new.status = schedule.status
    /\ "cron" \notin given => new.period = schedule.period
    /\ schedule' =
         [new EXCEPT !.next =
            IF new.status # "ACTIVE" THEN None
            ELSE IF schedule.next = None \/ given \cap {"status", "cron"} # {}
              THEN NextAfter(now, new.period)
            ELSE schedule.next]
    /\ UNCHANGED <<now, packageVars, firing, run, quota, today, txn>>

-----------------------------------------------------------------------------
(* Admission *)

Present(r) == run[r].status # "ABSENT"
InFlightRuns == {r \in RunIds : run[r].status = "OPEN"}
\* _enforce_execution_policy.
QuotaLeft ==
    /\ Cardinality(InFlightRuns) < quota.inFlight
    /\ today < quota.daily

\* _locked_project, held up to the commit.
ProjectLocked == \E c \in Callers : txn[c] # None /\ txn[c].step = "counted"

Begin(c, use, step, moment, full) ==
    txn' = [txn EXCEPT ![c] = [use |-> use, step |-> step, moment |-> moment, full |-> full]]
End(c) == txn' = [txn EXCEPT ![c] = None]

\* What a run covers matters as long as it can activate a draft; a package in
\* service never is a draft again.
Covers(full) == full => package = "DRAFT"

\* create_run with an ordinary caller, which needs an ACTIVE package, or a
\* governed one, which may use a draft: the package is read under the
\* project's lock.
CountOrdinary(k, full) ==
    /\ txn[k] = None /\ ~Present(k)
    /\ ~ProjectLocked /\ QuotaLeft
    /\ package \in {"ACTIVE", "DRAFT"} /\ Executable
    /\ Covers(full) /\ Begin(k, "ordinary", "counted", 0, full)
    /\ UNCHANGED <<now, packageVars, schedule, firing, run, quota, today>>

\* create_rerun: a deprecated package will do, and so will a draft.
CountRerun(k, source, full) ==
    /\ txn[k] = None /\ ~Present(k)
    /\ run[source].status \in {"PASSED", "FAILED"}
    /\ full => run[source].full
    /\ ~ProjectLocked /\ QuotaLeft
    /\ package # "REVOKED" /\ Executable
    /\ Covers(full) /\ Begin(k, "ordinary", "counted", 0, full)
    /\ UNCHANGED <<now, packageVars, schedule, firing, run, quota, today>>

\* create_automation_package_validation_run reads the package first.
CheckValidation(k) ==
    /\ txn[k] = None /\ ~Present(k)
    /\ package = "DRAFT" /\ chain = "VERIFIED"
    /\ Begin(k, "validation", "checked", 0, TRUE)
    /\ UNCHANGED <<now, packageVars, schedule, firing, run, quota, today>>

\* trigger_regression_schedule up to create_run.
CheckManual(k) ==
    /\ txn[k] = None /\ ~Present(k)
    /\ schedule.status \in {"ACTIVE", "PAUSED"} /\ ~ScheduleLocked
    /\ Usable
    /\ Begin(k, "manual", "checked", now, FALSE)
    /\ UNCHANGED <<now, packageVars, schedule, firing, run, quota, today>>

\* create_run reads the package once more, except that the row object a
\* validation call still holds is not read again.
Admits(c) == QuotaLeft /\ (txn[c].use # "validation" => Usable)

\* Variant: the quota is counted without the project's lock.
TakeProjectUnlocked(c) ==
    /\ txn[c] # None /\ txn[c].step = "checked"
    /\ Admits(c)
    /\ txn' = [txn EXCEPT ![c].step = "counted"]
    /\ UNCHANGED <<now, packageVars, schedule, firing, run, quota, today>>

\* create_run of a call that has looked at the package already.
TakeProject(c) ==
    /\ txn[c] # None /\ txn[c].step = "checked"
    /\ ~ProjectLocked /\ Admits(c)
    /\ txn' = [txn EXCEPT ![c].step = "counted"]
    /\ UNCHANGED <<now, packageVars, schedule, firing, run, quota, today>>

InsertRun(r, use, full) ==
    /\ run' = [run EXCEPT ![r] = [status |-> "OPEN", use |-> use, full |-> full,
                                  passed |-> FALSE]]
    /\ today' = today + 1

\* The commit of a client's call.  A second firing of the same moment breaks
\* the unique constraint, and the whole call is rolled back (Abandon).
CommitClient(k) ==
    /\ txn[k] # None /\ txn[k].step = "counted"
    /\ InsertRun(k, txn[k].use, txn[k].full)
    /\ \/ /\ txn[k].use = "manual" /\ firing[txn[k].moment] = None
          /\ firing' = [firing EXCEPT ![txn[k].moment] =
                          [status |-> "TRIGGERED", run |-> k]]
       \/ txn[k].use # "manual" /\ UNCHANGED firing
    /\ End(k)
    /\ UNCHANGED <<now, packageVars, schedule, quota>>

\* An error, a refusal for the quota, a lost connection: nothing is written.
Abandon(c) ==
    /\ InProgress(c)
    /\ End(c)
    /\ UNCHANGED <<now, packageVars, schedule, firing, run, quota, today>>

\* update_execution_policy.
SetQuota(q) ==
    /\ ~ProjectLocked
    /\ quota' = q
    /\ UNCHANGED <<now, packageVars, schedule, firing, run, today, txn>>

-----------------------------------------------------------------------------
(* The sweep of a scheduler process *)

Overdue == schedule.status = "ACTIVE" /\ schedule.next <= now

\* process_due_schedules: the moment is fixed, the schedule listed unlocked.
ListDue(p) ==
    /\ txn[p] = None
    /\ Overdue
    /\ Begin(p, "due", "listed", now, FALSE)
    /\ UNCHANGED <<now, packageVars, schedule, firing, run, quota, today>>

Listed(p) == txn[p] # None /\ txn[p].step = "listed" /\ ~ScheduleLocked
StillDue(p) == schedule.status = "ACTIVE" /\ schedule.next <= txn[p].moment
Missed(p) == txn[p].moment - schedule.next > Grace
Skips(p) == Missed(p) /\ schedule.policy = "SKIP"

Advance(p) == schedule' = [schedule EXCEPT !.next = NextAfter(txn[p].moment, schedule.period)]
RecordFiring(status, r) ==
    firing' = [firing EXCEPT ![schedule.next] = [status |-> status, run |-> r]]

\* Somebody else was faster, or the schedule was changed.
DueIgnored(p) ==
    /\ Listed(p) /\ ~StillDue(p)
    /\ End(p)
    /\ UNCHANGED <<now, packageVars, schedule, firing, run, quota, today>>

\* Variant: the moment was settled, and that is all.
DueKnownStays(p) ==
    /\ Listed(p) /\ StillDue(p) /\ firing[schedule.next] # None
    /\ End(p)
    /\ UNCHANGED <<now, packageVars, schedule, firing, run, quota, today>>

\* A firing of that moment exists.
DueKnown(p) ==
    /\ Listed(p) /\ StillDue(p) /\ firing[schedule.next] # None
    /\ Advance(p) /\ End(p)
    /\ UNCHANGED <<now, packageVars, firing, run, quota, today>>

Fresh(p) == Listed(p) /\ StillDue(p) /\ firing[schedule.next] = None

\* Variant: a skipped misfire does not move the schedule on.
DueSkippedStays(p) ==
    /\ Fresh(p) /\ Skips(p)
    /\ RecordFiring("SKIPPED", None) /\ End(p)
    /\ UNCHANGED <<now, packageVars, schedule, run, quota, today>>

DueSkipped(p) ==
    /\ Fresh(p) /\ Skips(p)
    /\ RecordFiring("SKIPPED", None) /\ Advance(p) /\ End(p)
    /\ UNCHANGED <<now, packageVars, run, quota, today>>

\* Variant: a refused firing is given the status of a failed run.
DueRefusedFailed(p) ==
    /\ Fresh(p) /\ ~Skips(p)
    /\ RecordFiring("FAILED", None) /\ Advance(p) /\ End(p)
    /\ UNCHANGED <<now, packageVars, run, quota, today>>

\* _validate_resources refuses.
DueRefused(p) ==
    /\ Fresh(p) /\ ~Skips(p)
    /\ RecordFiring("BLOCKED", None) /\ Advance(p) /\ End(p)
    /\ UNCHANGED <<now, packageVars, run, quota, today>>

CheckDue(p) ==
    /\ Fresh(p) /\ ~Skips(p) /\ Usable
    /\ txn' = [txn EXCEPT ![p].step = "checked"]
    /\ UNCHANGED <<now, packageVars, schedule, firing, run, quota, today>>

\* Variant: the firing keeps the status it was created with.
DueRejectedTriggered(p) ==
    /\ p \in Sweepers /\ InProgress(p) /\ txn[p].step = "checked"
    /\ ~ProjectLocked /\ ~Admits(p)
    /\ RecordFiring("TRIGGERED", None) /\ Advance(p) /\ End(p)
    /\ UNCHANGED <<now, packageVars, run, quota, today>>

\* create_run raises: the firing is kept as BLOCKED.
DueRejected(p) ==
    /\ InProgress(p) /\ txn[p].step = "checked"
    /\ ~ProjectLocked /\ ~Admits(p)
    /\ RecordFiring("BLOCKED", None) /\ Advance(p) /\ End(p)
    /\ UNCHANGED <<now, packageVars, run, quota, today>>

CommitDue(p) ==
    /\ InProgress(p) /\ txn[p].step = "counted"
    /\ InsertRun(schedule.next, "due", FALSE)
    /\ RecordFiring("TRIGGERED", schedule.next) /\ Advance(p) /\ End(p)
    /\ UNCHANGED <<now, packageVars, quota>>

SettleDue(p) ==
    \/ DueIgnored(p) \/ DueKnown(p) \/ DueSkipped(p) \/ DueRefused(p)
    \/ CheckDue(p) \/ DueRejected(p) \/ TakeProject(p) \/ CommitDue(p)

-----------------------------------------------------------------------------
(* Runs and time *)

\* record_run_result or any other end.  Whether a run passed matters as long
\* as it can activate a draft; FAILED stands for every status that does not count.
EndRun(r, status) ==
    /\ run[r].status = "OPEN"
    /\ status = "PASSED" => run[r].full /\ package = "DRAFT"
    /\ run' = [run EXCEPT ![r].status = status, ![r].passed = status = "PASSED"]
    /\ UNCHANGED <<now, packageVars, schedule, firing, quota, today, txn>>

\* cancel_run decides on the row post_run_cancel loaded before the row's lock was
\* free: a run seen QUEUED that has passed since is written CANCELED and keeps its
\* result document.  (Over any other run such a cancel changes nothing that
\* EndRun would not.)
CancelPassed(r) ==
    /\ run[r].status = "PASSED"
    /\ run' = [run EXCEPT ![r].status = "FAILED"]
    /\ UNCHANGED <<now, packageVars, schedule, firing, quota, today, txn>>

\* Midnight UTC.  A run counted before it is dated before it.
NewDay ==
    /\ today > 0 /\ ~ProjectLocked
    /\ today' = 0
    /\ UNCHANGED <<now, packageVars, schedule, firing, run, quota, txn>>

Tick ==
    /\ now < MaxTime
    /\ now' = now + 1
    /\ UNCHANGED <<packageVars, schedule, firing, run, quota, today, txn>>

-----------------------------------------------------------------------------

PackageStep ==
    \/ \E outcome \in {"VERIFIED", "REJECTED"} : RecordVerification(outcome)
    \/ \E r \in RunIds : Activate(r)
    \/ Deprecate \/ Revoke

ScheduleStep ==
    \E status \in {"ACTIVE", "PAUSED", "ARCHIVED"}, period \in Periods, policy \in {"SKIP", "FIRE_ONCE"} :
        \/ status # "ARCHIVED" /\ CreateSchedule(status, period, policy)
        \/ \E given \in SUBSET {"status", "cron", "resources"} :
             UpdateSchedule([status |-> status, period |-> period, policy |-> policy, next |-> None], given)

ClientStep ==
    \E k \in Keys :
        \/ \E full \in BOOLEAN :
             \/ CountOrdinary(k, full)
             \/ \E source \in RunIds : CountRerun(k, source, full)
        \/ CheckManual(k) \/ CheckValidation(k) \/ TakeProject(k) \/ CommitClient(k) \/ Abandon(k)

SweepStep(p) == ListDue(p) \/ SettleDue(p)

Next ==
    \/ PackageStep \/ ScheduleStep \/ ClientStep
    \/ \E p \in Sweepers : SweepStep(p)
    \/ \E p \in Sweepers \ Reliable : Abandon(p)
    \/ \E r \in RunIds, status \in {"PASSED", "FAILED"} : EndRun(r, status) \/ CancelPassed(r)
    \/ \E q \in Quotas : SetQuota(q)
    \/ NewDay \/ Tick

Spec == Init /\ [][Next]_vars

\* PostgreSQL grants a row lock in the order of waiting, so a scheduler
\* process that keeps running gets each lock it waits for; a transaction in
\* progress does not stay open for ever.
Fairness ==
    /\ \A p \in Reliable : SF_vars(SweepStep(p))
    /\ \A c \in Callers \ Reliable : WF_vars(Abandon(c))
FairSpec == Spec /\ Fairness

-----------------------------------------------------------------------------
(* Properties *)

\* The firing is a scheduler's, not a client's.
Automatic(t) == firing[t].run \notin Keys

\* Firings and runs agree, whichever step fails: a TRIGGERED firing has a run
\* and only such a one has; the run of a sweep is the one named by its due
\* time; every run made for the schedule has exactly one firing ("at most one
\* firing and one Run per due time", M7.3).
FiringsAgreeWithRuns ==
    /\ \A t \in Moments : firing[t] # None =>
          /\ firing[t].status = "TRIGGERED" <=> firing[t].run # None
          /\ firing[t].run # None =>
                /\ Present(firing[t].run)
                /\ run[firing[t].run].use = IF Automatic(t) THEN "due" ELSE "manual"
                /\ Automatic(t) => firing[t].run = t
    /\ \A r \in RunIds : Present(r) /\ run[r].use \in {"manual", "due"} =>
          Cardinality({t \in Moments : firing[t] # None /\ firing[t].run = r}) = 1

\* The next due time moves past everything that was fired, blocked or
\* skipped, with any number of scheduler processes and any edits in between,
\* and only an active schedule has one.
NextFollowsFirings ==
    /\ schedule.next # None <=> schedule.status = "ACTIVE"
    /\ schedule.next # None =>
          \A t \in Moments : firing[t] # None /\ Automatic(t) => t < schedule.next

\* A package that has been through validation is in service only with a run of
\* every enabled case whose result document says PASSED, whatever reruns and late
\* cancels do to the runs; the status of that run may be CANCELED by then
\* (activate_automation_package, _request_cancel).
ActivationEarned ==
    package \in {"ACTIVE", "DEPRECATED"} /\ (\E r \in RunIds : Present(r) /\ run[r].use = "validation")
        => \E r \in RunIds : run[r].passed /\ run[r].full

\* A run is inserted only while the project is below both quotas, although
\* clients and scheduler processes admit runs concurrently
\* (_enforce_execution_policy under _locked_project).
AdmissionsRespectQuota ==
    [][(\E r \in RunIds : ~Present(r) /\ Present(r)') => QuotaLeft]_vars

\* A schedule does not stay behind the clock for ever: some process fires,
\* skips or blocks what is due, or an edit moves the due time
\* (scripts/schedule_regressions.py --watch).
ScheduleCatchesUp == Overdue ~> ~Overdue

\* What docs/milestones/M9.1-automation-package-lifecycle.md:20 promises of a
\* DEPRECATED package: no schedule may refer to it any more, an active one has
\* to be paused or changed first.
NoScheduleOnDeprecated ==
    package = "DEPRECATED" => schedule.status # "ACTIVE"
=============================================================================
