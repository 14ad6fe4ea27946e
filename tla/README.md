# Formal models of the TOP TestOps platform

These TLA+ modules sit beside the control plane (`apps/api`) and the runner
service (`services/worker`) of the platform. They model the parts where several
processes write the same state: the life of a Test Run and its runner slot, the
governance of case changes up to a released baseline, the regression schedules
with the quotas and packages they depend on, and around them alerts, outgoing
deliveries, identity and access, the isolated execution of a run, its live view,
the runner adapters and the AI chat. TLC checks small instances; TLAPS proves
every invariant and every safety property of steps that the passing runs check, for
every value of the constants. Source paths below start at `src/`; `M7.3` and the
like are the files of `docs/milestones`.

1. [The system](#1-the-system)
2. [Modules and the code they model](#2-modules-and-the-code-they-model)
3. [Runs, bounds and fairness](#3-runs-bounds-and-fairness)
4. [What the runs found](#4-what-the-runs-found)
5. [Proofs](#5-proofs)
6. [Not modelled, and why](#6-not-modelled-and-why)
7. [Plan](#7-plan)
8. [Running it](#8-running-it)

## 1. The system

Everything that persists is in one PostgreSQL database (READ COMMITTED, row
locks by `SELECT ... FOR UPDATE`). The API is synchronous request handlers; next
to it, separate containers poll the database in a loop (`scripts/*.py --watch`),
and Celery workers receive task messages through Redis. A worker never touches
the database: it calls back over HTTP. So a step of the system is a transaction,
a message, a callback or a poll, and what is hard is their order.

| Part | State | Operations | Talks to | Hard behaviour | What makes it correct |
|---|---|---|---|---|---|
| Run states (`state_machine.py`, contracts) | `test_runs.status` | transition table | everything that writes a status | - | terminal statuses stay |
| Run control (`services.py`, `routes.py`) | run row, result document, cancel flag, slot lease | create, cancel (one or many), status callback, result callback | workers by callback, dispatcher by outbox rows | late and repeated callbacks; a result, a cancel and the reaper ending one run | one end per run, lease released with it, immutable result |
| Outbox dispatcher (`worker/outbox.py`, `scripts/dispatch_outbox.py`) | `outbox_events`, `runner_slot_leases` | one batch per transaction | broker, pool rows | a message leaves before its transaction commits; capacity read before the lease is written | leases stay within `max_concurrency`; no run with a lease and no message |
| Reaper (`reliability_services.py`) | run rows, leases | sweep: timeouts, lost runners, stalled dispatches, orphaned leases | run rows, change requests | competes with callbacks for rows; one transaction for the batch | every overdue or abandoned run ends |
| Worker task (`worker/tasks.py`, `celery_app.py`) | the task, `run-result.json` in the workspace volume | execute, report, retry; heartbeat thread | control plane by HTTP | crash, redelivery, retry, lost responses | one worker executes and reports a run |
| Runner pools (`services.py`) | pool limit and status, worker status and heartbeat | edit, enable, heartbeat | dispatcher, binding | the limit changes while leases are granted | grants respect the limit |
| Case governance (`governance.py`) | change requests, baselines, approvals, `validation_status` | draft, edit, validate, submit, review, regress, publish | runs (created here, reported by run control and the reaper) | `create_run` commits in the middle of a governance call; a result is applied to a request read without a lock | released = reviewed by another person + fully regressed, for that snapshot |
| Regression schedules (`schedule_services.py`, `cron.py`) | schedule, firings | create, edit, trigger, sweep | packages, admission, runs | several sweepers; misfires; a firing whose run is refused | one firing and at most one run per due time; the schedule keeps up |
| Execution admission (`services.py`) | execution policy; counts over runs | check under the project's lock, edit the policy | every creator of runs | counted before the insert | no admission above a quota |
| Automation packages (`services.py`, `supply_chain_*.py`) | package status, verification status | register, verify, validate, activate, deprecate, revoke | admission, schedules | the package changes under a call in progress | in service only after verification and a full pass |
| Quality alerts (`quality_alert_services.py`, `quality_webhook_services.py`) | webhook configuration with its silence, one alert state per metric | evaluate, configure, silence, acknowledge | webhook deliveries | evaluators and calls lock rows in opposite order; a silence set during an evaluation; lost evaluators | the level that counts as notified is what the last notice said; no notice is repeated, and at rest the notices catch up |
| Quality webhooks (`worker/quality_webhooks.py`, `quality_webhook_services.py`) | deliveries, attempts | queue a test, dispatch a batch, retry, replay | external endpoints | the batch is sent inside one transaction | attempts bounded, one replay chain per failure, every delivery settled |
| Run e-mails (`run_email_services.py`, `worker/run_emails.py`) | preference, e-mail deliveries | change the preference, enqueue at a run's end, dispatch | SMTP | the preference changes while a run ends or a batch is being sent | what was cancelled or sent stays so |
| Identity (`identity.py`, `identity_routes.py`) | users, roles, sessions, the bootstrap marker | bootstrap, log in, roles, disable, reset, revoke | every route | no call locks anything | one bootstrap; one active administrator remains |
| Access (`identity.py`, the route modules) | project members | authorise each route, edit members | every route | over a hundred routes each name their own permission | no role writes beyond its duties |
| Supply chain envelopes (`supply_chain_auth.py`, `supply_chain_operations.py`) | verifier keys, nonces, reports | accept a report, rotate keys | packages | replay, rotation | a report counts once |
| Git release sync (`release_sync.py`) | packages, change requests | compare a manifest, register | governance, packages | repeated sync | idempotent |
| Execution isolation (`worker/*_execution.py`, `isolated_executor.py`, `tasks.py`) | a subprocess, container or Kubernetes Job; workspace files | reclaim, create, verify, watch, collect, clean up, report | run control by callbacks, object storage | crash and redelivery at every step; resources, files and orphans an earlier attempt left | what was reported from a workspace is repeated from it; events before the result; isolation claimed only where verified |
| Live view (`live_view.py`, `worker/live_view_*.py`, `viewer_gateway.py`) | registration and one-time tickets in Redis | publish, issue, redeem, unpublish | VNC proxy | a redelivered run's sessions overlap | a ticket is used once; a late cleanup takes nothing away |
| Runner adapters (`runners/*`) | workspace, child process, case results | prepare, execute cases or rounds, cancel | browsers, devices, customers' projects | crash, redelivery, retry rounds, cancels between cases | cases that change data run once; every result is accounted for |
| AI chat (`ai_chat_services.py`, `ai_routes.py`) | conversations and messages | ask, answer in request or background, delete | model providers | the model is asked between transactions, by several callers | one answer per question, nothing overwritten |
| Others | quality analytics, AI analysis and model providers, configuration, migrations, frontend, infrastructure | | | | |

How they meet: `create_run` writes a run and its `run.queued` outbox row in one
transaction. The dispatcher turns the row into a Celery message and, for a pooled
run, a lease. The worker's callbacks bind the lease to the worker, move the run
and end it. Cancels and the reaper end it as well. When a run that validates a
change request ends, the same transaction writes the request's
`validation_status`. Schedules and package validation are callers of `create_run`.
`PROJECT.json` lists, under `hazards`, each place where this goes wrong in a way
a test hardly reaches, with the property that watches it.

## 2. Modules and the code they model

```
RunStates ──┬── RunLifecycle          (what run control promises)
            ├── RunControl ──┬── MCRunControl        (instances for TLC)
            │   (implements  └── RunControl_proofs ── RunLifecycle_proofs
            │    RunLifecycle)
            ├── Governance ──┬── MCGovernance
            │                └── Governance_proofs
            └── RunStates_proofs (used by RunControl_proofs)
Schedules ──┬── MCSchedules
            └── Schedules_proofs

DeliveryQueue ──┬── WebhookDeliveries ──┐
 (implemented   └── RunEmails ──────────┤
  by both)                              ├── MCPlatform
QualityAlerts, Identity, Access, ───────┤
Execution, LiveView, Runners,           │
Conversations ──────────────────────────┘

MCPlatform ── Notices_proofs ── Platform_proofs
Execution ─── Execution_proofs ── (an instance in) Platform_proofs
```

Definitions marked `Variant:` in the modules are not part of the models. Each is
a plausible mistake in the code, kept next to the definition it would replace, to
show that some property notices it.

### RunStates

The status values and `ALLOWED_RUN_TRANSITIONS` of `state_machine.py`. `ABSENT`
stands for a run whose row does not exist yet.

### RunControl

State: the run row (`status`, `result` by its status, `userCancel`, `reaped`,
together `cancel_requested`), the lease row (`lease`, `boundTo`), the `run.queued`
outbox row, the dispatcher's open transaction (`batch`, `sent`), the queue
(`msgs`), per Celery slot the task and where it stands (`job`, `pc`, `hand`), the
result files in the workspaces (`local`), pool and workers (`enabled`, `poolOpen`,
`limit`), and three facts the code derives from the clock (`overdue`,
`unclaimed`, `silent`).

A transaction is one action. Two are not:

- *Dispatch.* `dispatch_outbox_batch` sends each message before the transaction
  commits, so `DispatchBegin`, `DispatchSkip`/`DispatchSend`/`DispatchPostpone`
  per row, `DispatchCommit` and `DispatchAbort` are separate. A row it has sent
  stays locked (`RowLocked`), as does the pool row (`PoolRowFree`); readers
  without `FOR UPDATE` see the committed state.
- *Single cancel.* `post_run_cancel` loads the run for the authorization
  (`CancelRead`); `cancel_run` then waits for the row lock, but its query returns
  the object the session already holds (`CancelCommit` uses `seen`). The batch
  cancel's first read takes the lock (`CancelBatch`).

`execute_run` is followed statement by statement: `Fetch`, `ReadState` (with the
result file of an earlier attempt), `ReportPreparing`, `PackageMissing`,
`ReportRunning`, `Execute`, `ReportResult`; `Conclude` is what its `except`
clauses come to and `Fail` is Celery's retry. `WorkerCrash`, `Redeliver`,
`CallbackLost` and the network branch of `ReportStatus` are the faults; `Faults`
says which of them happen. `Sweep` is one reaper pass: four queries in order, one
batch size, one transaction. Redis is outside the repository: it keeps messages
until they are acknowledged and may deliver one again.

### RunLifecycle

What run control promises, in a page: a run is created, gets a slot if it needs
one, is advanced by one worker, and ends once, giving the slot back in the same
step; grants stay within the limit. The late cancel of section 4 is one of its
actions, since the code does it. `RunControl` implements it (`KeepsLifecycle`)
under the mapping: a run holds a slot when its lease is ACTIVE, and its worker is
the one that lease is bound to. Outbox, broker, tasks, clocks and crashes have no
counterpart.

### Governance

One change request: its status, author, number of snapshots (`revision`), what
each snapshot asks of validation (`content`: no case, some, or all need
execution), baseline statuses, `validation_status`, the linked run, approvals,
and the runs created for it. The actions are the routes of `governance.py`.
Three pieces of code do not hold a lock from read to commit and are split:
`create_validation_run` (`StartValidation` up to the commit inside `create_run`,
then `LinkRun`; `LinkLost` is a process lost in between), the ends of runs
(`EndReads`, `EndCommits`), and the single cancel (`CancelRead`, `CancelCommit`),
which writes CANCELED over whatever the run has become since it was read, also
over PASSED. So a status does not last; `outcome` keeps what the run's end reported
(the result document or the recovery event), which no cancel touches and which is
what a PASSED that `publish_change_request` reads has come from. SQLAlchemy writes a column only when the
value differs from the remembered one; `linking` and `closing` keep what was
remembered where that decides the outcome. `ImportRelease` is what
`apply_git_release` does to the request: an administrator's draft with the
release's cases.

### Schedules

One schedule, its package, the quotas, and all runs of the project. A sweep lists
due schedules without a lock (`ListDue`), then settles one under its lock
(`DueIgnored`, `DueKnown`, `DueSkipped`, `DueRefused`, `CheckDue`, `DueRejected`,
`CommitDue`). A client's call checks the package (`CheckManual`,
`CheckValidation`), takes the project's row and counts (`TakeProject`,
`CountOrdinary`, `CountRerun`), and commits or is rolled back (`CommitClient`,
`Abandon`). Calls in progress are in `txn`; the two row locks are derived from it.
A run keeps whether its result said PASSED (`passed`) beside its status, as the
single cancel may overwrite the latter (`CancelPassed`). A cron expression with its
time zone is a period in ticks (`NextAfter` is the
first due time strictly later); the schedule's target, environment and baseline
may be unusable at any time, which is a choice wherever `_validate_resources`
runs. A due run's idempotency key is made of schedule and due time, so its id is
the due time.

### DeliveryQueue, WebhookDeliveries, RunEmails

`DeliveryQueue` is the promise of both outgoing queues: a row is queued once, its
attempts are counted and bounded, and once settled it stays so. The two modules
have the tables as the code keeps them and implement it (`KeepsQueue`). A
dispatcher is `TakeBatch` (the rows it could lock, the configuration as it was
then), `CommitBatch` (`AfterSend` says what each reply comes to) or
`DispatcherLost`: everything it sent is sent and not recorded. Tests, replays and
the configuration, respectively the preference and the ends of runs, are the
other actions. `RunEmails.EndRun` reads the preference and `CommitEnd` inserts
the rows, as nothing is locked in between; a run the reaper ends (`ReapRun`)
queues nothing.

### QualityAlerts

One project: `signal` is what the quality comparison says now, `alert` the state
rows, `config` the configuration with its silence. `told` is no state of the code
but its history: the status of the last notice queued for a metric, which no edit
unsays, and whether the configuration was activated anew since. An activation
(`update_quality_webhook_config` with another `enabled` or minimum level; another
endpoint is none) makes the platform forget the level it counts as notified, while receivers still remember it: one that heard CRITICAL
hears nothing of the recovery if the metric is STABLE by then. M8.3:29-30 and
M8.4:16 describe this; it is why the properties speak of a new activation. An
evaluation is `Select` (the configuration's row, locked), `LockStates`
and `Evaluate` (decision, rows, commit); a call is `TakeProject` and its answer.
Their row locks are derived from `evaluation` and `call`; when they wait for each
other the database ends one (`BreakDeadlock`). Clocks appear as the side of now
on which a stored moment lies (`due`, `cooling`, `silenced`).

### Identity, Access

`Identity`: users, live sessions, the bootstrap marker, and each call as its read
(`Begin...`, `CheckUpdate`) and its commit, since none locks a row. `Access`: each
route as the permission it needs and the kind of state it writes, transcribed
from the route modules by resource (`PoolRoutes` ... `MemberRoutes`); a request is
authorised, others edit the members, it is answered.

### Execution

One task from delivery to report, in each isolated mode. The worker's program
counter follows `execute_run` and `execute` of the executor: `Receive` (run state,
leftover result), `Prepare`, `ReclaimContainer`/`ReclaimJob` (one resource at a
time), `Create`, `VerifyContainer`/`VerifyPod`, event forwarding and watching,
collecting files, cleaning up, `Keep`, `Replay`, `Upload`, `Report`. The workload
(`child`) runs on its own. `Crash` loses the worker, and `CrashAlone` the pool
process only, which leaves a SUBPROCESS child as an orphan that goes on writing.

The module is about one workspace. Deliveries to it come one after another, also
after the task has ended (`Redeliver`), and find what the earlier ones left. A
copy of the task that another worker receives meanwhile has another workspace: it
finds no result, PREPARING is refused to it, and it reports INFRA_ERROR, which is
`EndElsewhere` here and a task of its own in `RunControl`. A copy in the same
workspace (a process of the same worker, or a worker with the same volume) keeps
that result in it as well (`CopyReceived`, `CopyKeeps`). Not modelled is the copy
that reports PREPARING while the first delivery has not got past it: the callback is
idempotent (`services.py:2327`), so both go on and execute the run.

### LiveView, Runners, Conversations

`LiveView`: two executors of one run (a redelivery overlaps the first cleanup),
the key both publish under, tickets, and gateways that consume one and then
connect. `Runners`: one run in the Playwright, legacy Pytest or Android adapter,
case by case or round by round, with the child process that outlives a dead
worker; a report that cannot be read or a result that cannot be written ends it
with INFRA_ERROR (`ChildFails`, `WriteFails`); `executed` counts how often the platform had a case executed, so the
rounds a legacy project repeats by itself belong to one execution.
`Conversations`: one conversation, its messages by sequence number, and callers
that load it, ask the model without a lock, and write what they got; `Restart`
loses all background tasks.

## 3. Runs, bounds and fairness

Passing runs:

| Run | Question | Instance | Distinct states |
|---|---|---|---|
| `RunSingle` | do lease, binding, status and result of one run stay consistent through every fault? | 1 pooled run, 2 workers of different isolation with a slot each, both cancel routes, at most 2 copies of a message, all faults but pool edits | 288,100 |
| `RunPool` | are slots granted only below the limit? | 2 pooled runs, limit 1 or 2, pool and worker edits, a dispatcher that fails | 1,561,152 (symmetric) |
| `RunLiveness` | do overdue, unclaimed and abandoned runs end? | a pooled and an unpooled run, silent workers, batch cancel | 156,248 |
| `Governance` | is a release earned by this snapshot? | 1 request, 2 snapshots, 2 runs that pass, break down, time out or are cancelled, a tester, a reviewer and an administrator with both roles | 2,532,136 (symmetric) |
| `Schedules` | one firing and run per due time, within the quotas, and no schedule left behind? | 3 ticks, period 1, 2 sweepers, 1 client key, two quota settings | 293,718 |
| `Platform` | do the components around the run control keep their promises? | below, 1 event | 202,946 |

`Platform` checks ten modules in one run. They share no state, so `focus` chooses
at the start which of them moves, and the reachable states are those of the nine
components (both queues, alerts, identity, access, execution, live view, adapters,
chat) next to each other, not their product. `Platform.cfg` gives the sizes as
constants, bounds included, so the proofs hold for all of them. The instances: 1 metric with all
calls and one evaluator; 3 webhook deliveries, 2 dispatchers and 2 attempts; one
run, one test message, one address and 2 dispatchers of e-mails; 2 users and 2
concurrent calls; 2 members and an administrator; each isolated mode with 1 event;
2 executors, 1 ticket and 2 gateways; each adapter with 2 cases of every tag; 2
callers and 2 questions.

Properties, by run:

- `RunSingle`: `LeaseFollowsRun` (a pooled run holds its lease exactly from the
  publishing commit to the transaction that ends it), `StartedRunIsBound`,
  `OneHostPerRun` (the binding fences duplicate deliveries off),
  `ResultMatchesStatus`, `LateCallsKeepTheTable` (whatever comes late, the
  status follows the table; the only exception is the single cancel of section 4),
  `KeepsLifecycle` (every step is one the life cycle allows),
  and the type invariant.
- `RunPool`: `GrantsRespectLimit` (the check at the send still
  holds at the commit, under concurrent edits).
- `RunLiveness`: `OverdueRunEnds`, `DispatchedRunLeavesQueue`,
  `LostRunnerIsNoticed`.
- `Governance`: `BaselinesFollowRequest`, `ReleaseEarned`,
  `ValidationWasReported`, `ReleaseIsFinal`, `ReviewedContentIsFrozen`, types.
- `Schedules`: `FiringsAgreeWithRuns`, `NextFollowsFirings`, `ActivationEarned`,
  `AdmissionsRespectQuota`, `ScheduleCatchesUp`, types.
- `Platform`, alerts: `ReceiverKnowsTheAlert`, `QuietWhileSilenced` (also when the
  silence is set during an evaluation), `ConsecutiveNoticesDiffer`, `NoticesCatchUp`
  (at rest the last notice speaks of the status, or no level counts as notified any
  more; also after a deadlock and a lost evaluator).
- `Platform`, queues: `QueuesAreKept` (both implement `DeliveryQueue`),
  `ReplaysFormALine`, `DeliverySettles`.
- `Platform`, users: `BootstrapOnce`; `DutiesAreKept` (whatever role a request was
  authorised with, its route writes only what the table of core permissions gives
  that role).
- `Platform`, a run's execution: `EvidenceWasVerified`, `EventsPrecedeResult`,
  `RetriesRepeatTheReport` (through every crash, redelivery, lost answer and leftover),
  `MutatingRunsOnce`, `ResultsAreEarned`, `ShownRunStaysPublished`.
- `Platform`, chat: `AnswersAreKept`. And `TypesOK`, which says among types that a
  live-view ticket becomes one connection at most.

Why the bounds are enough to be interesting. Two workers and two copies of a
message are the least with which a duplicate delivery meets the first one on
another worker; a retry, a crash and a redelivery each make a copy, and more
copies repeat the same meeting. Two runs and a limit of one make them compete for
a slot; the limit of two lets an administrator lower it in between. Two snapshots
let approval, validation and regression of the old one arrive after the edit; two
runs let the validation and the regression interleave, or two validations of
different snapshots. The price of two keys is that a release that needed a
validation uses both, so a rerun after such a release's runs is not in the
instance. Three ticks with no grace give an on-time firing and a misfire; a
second sweeper with an older `now` is the case M7.3:85 says was never tested. A
period of one makes every tick due: longer periods only change which ticks are.

In `Platform`, one metric is enough for the alerts, whose states are independent
and locked together; three deliveries let two dispatchers hold different batches
and a replay be replayed; two attempts are a retry and a last one. Two calls are
the least that read the same rows and both commit. A crash may come at every step
of the one task, and as often as it likes; one event tells a replayed log
from one that was not, and the proofs are for any number. `Governance.cfg` lets results say PASSED
or INFRA_ERROR (any run may be given up) and runs time out or be cancelled; FAILED
would be a third outcome that is not PASSED. Two cases of every tag let a round repeat one and not the other, and
a cancel fall between them. Two questions and two callers let a sequence number
be taken twice.

`EventsPrecedeResult` is stated for executions that no orphan writes to: a
SUBPROCESS child that survives its worker (`CrashAlone`) goes on writing events and
a result into the directory the next delivery reports from. The container modes
have no such case. `RetriesRepeatTheReport` leaves out copies of the task in the
same workspace too, which replace the kept result by their INFRA_ERROR
(`tasks.py:334`). It does not say that all reports of a run agree, and they do not:
a copy on another worker reports INFRA_ERROR after or before the executing one
reports its verdict, and the control plane keeps the first
(`ResultMatchesStatus` and `ResultIsImmutable` of `RunControl`).

Deadlock is checked in all passing runs but `Governance`, and switched off there
and in `GovernanceRace`, where a published request is the end. In `Platform` the
four components that really end (a task, a view, an adapter's run, a deleted
conversation) have `Rest`.

Fairness:

- `RunControl`: weak fairness of `Sweep`, of the dispatcher's rows and commit, and
  of the start window passing. The reaper and the dispatcher are loops in
  containers that are restarted (`scripts/reap_run_reliability.py`,
  `scripts/dispatch_outbox.py`, `compose.yaml`); a transaction once opened goes on
  or is rolled back. Nothing is assumed of workers, messages or heartbeats: they
  may all stop. `RunLiveness` leaves out `slow_prepare`, that is, it assumes no
  run outlives its timeout in PREPARING: section 4 shows that the property fails
  without this assumption.
- `Schedules`: strong fairness of one sweeper's step, as PostgreSQL grants a row
  lock to waiters in turn, so a process that keeps polling is not passed over for
  ever; weak fairness of `Abandon` for other callers, as a connection that does
  not commit is closed and rolled back in the end. Clients, administrators and the
  second sweeper need do nothing. The clock's bound stops time, so
  `ScheduleCatchesUp` is about each value it takes.
- `QualityAlerts`: weak fairness of time passing, of the evaluator's poll (a
  restarted loop, `scripts/evaluate_quality_alerts.py`); strong fairness of the
  evaluation's steps, so
  that an evaluator that is lost or chosen as the deadlock's victim again and again
  is in the end not, and of the cooldown's end, which configuration edits may
  disable meanwhile. People need do nothing.
- `WebhookDeliveries`, for the row `d1` (rows are alike): weak fairness of its
  backoff's end, of each batch ending somehow and of some dispatcher taking a row
  that stays due and free (the dispatcher is a loop in a restarted container); strong
  fairness of some batch with the row committing, so
  dispatchers may be lost any number of times but not always with this row.

## 4. What the runs found

Each run below finds its property violated; the property states a sentence of the
repository, quoted in `PROJECT.json`.

- `RunStaleCancel` / `StatusFollowsTable`: the single cancel decides on the row it
  read before the lock; a run seen QUEUED that has started or ended since is
  written CANCELED (`services.py:2616`).
- `RunOverdue` / `OverdueRunEnds`: the table has no PREPARING to TIMED_OUT row,
  so one run that times out while PREPARING makes every sweep raise and roll back;
  no other run is recovered either (`reliability_services.py:122`).
- `GovernanceRace` / `SubmittedIsValidated`: an edit between the two transactions
  of a validation request; the old snapshot's pass lets the new one be submitted
  (`governance.py:599`). `ReleaseEarned` is unaffected, as publication asks for a
  full regression of the snapshot itself.
- `ScheduleResume` / `NoScheduleOnDeprecated`: resuming a paused schedule does not
  look at its package (`schedule_services.py:220`).
- `LastAdministrator` / `AdministratorRemains`: two administrators who demote or
  disable each other both count two and both commit (`identity.py:348`).
- `StaleAddress` / `NoMailToOldAddress`: a run that ends while its user changes the
  preference queues its notice for the old address (`run_email_services.py:256`).

## 5. Proofs

TLAPS checks every proof with no statement taken on trust beyond the assumptions
of the modules, which TLC evaluates in the runs of the module:

- `RunControl`: `PoolAssumption` (finite runs and slots; hosts, suitability and
  ranks are functions of the right type), `BoundAssumption` (positive bounds,
  outcomes are terminal statuses), `NoneAssumption`.
- `Governance`: `RoleAssumption` (administrators have both roles),
  `GovernanceBounds`.
- `Schedules`: `ScheduleBounds` (times, periods and quotas are numbers, a period and
  a quota at least 1 as the schemas demand; clients do not use the idempotency keys
  `_scheduled_idempotency_key` makes of due times) and `NoneIsNoFiring`.
- `MCPlatform`: `PlatformBounds` (bounds are numbers; `*_MAX_ATTEMPTS` is at least 1,
  `worker/quality_webhooks.py:73`, `worker/run_emails.py:50`), `KeysDiffer` (the
  `dedupe_key` of a run's e-mail and of a test message have different prefixes),
  `NamesDiffer` (the services' credentials are no user's; a session's id is none of
  the model's words for a used or an absent ticket), `NoneIsNull` (`None`, SQL's
  NULL, is not a value of the columns and rows it stands in for).
  `Execution_proofs` states what it needs of these as `Bounds`, a hypothesis of its
  theorems that `Platform_proofs!SameBounds` discharges.

| Theorem | Says, for any constants | Argument |
|---|---|---|
| `RunControl_proofs!TypeCorrect` | `TypeOK` and `TaskShape` | inductive together: a reporting slot has something to report, which the type of `result` needs |
| `LeaseAccounting` | `LeaseFollowsRun` | see below |
| `RunnersAreKnown` | `StartedRunIsBound` | from the same invariant |
| `BindingFences` | `OneHostPerRun` | from the same invariant |
| `ResultAgreement` | `ResultMatchesStatus` | each status change leaves the result alone or writes both; a recorded result blocks the next |
| `TransitionDiscipline` | `LateCallsKeepTheTable`, `ResultIsImmutable` | case analysis of `Next` under the type invariant |
| `GrantsWithinLimit` | `GrantsRespectLimit` | see below |
| `RunLifecycle_proofs!LifecycleKept` | `KeepsLifecycle` | see below |
| `Governance_proofs!GovernanceTypes` | `TypeOK` | with: the request exists exactly when it has a snapshot |
| `ReleasesAreEarned` | `ReleaseEarned` | see below |
| `SnapshotsFollowRequest` | `BaselinesFollowRequest` | a part of the same invariant |
| `OutcomesWereReported` | `ValidationWasReported` | a part of the same invariant: an outcome is written once, with the request, and no cancel rewrites it (`OutcomesEnd`) |
| `ReleasesAreFinal`, `ApprovedContentStays` | `ReleaseIsFinal`, `ReviewedContentIsFrozen` | an approved snapshot's request is CANDIDATE or PUBLISHED, where no action edits |
| `Schedules_proofs!ScheduleTypes` | `TypeOK` | with: only an active schedule has a due time; the locks below |
| `QuotasAreKept` | `AdmissionsRespectQuota` | see below |
| `FiringsAndRunsAgree` | `FiringsAgreeWithRuns` | see below |
| `ScheduleMovesOn` | `NextFollowsFirings` | nothing fires ahead of the clock (`PastInv`), and `NextAfter` lies strictly after what it is given |
| `ActivationsAreEarned` | `ActivationEarned` | with: a validation that is still being admitted counts as one (`EarnedInv`); a pass is the run's for good, whatever is written over its status (`PassedInv`) |
| `Notices_proofs!AlertsAgree` | `ReceiverKnowsTheAlert` | see below |
| `NoticesDiffer` | `ConsecutiveNoticesDiffer` | see below |
| `SilenceIsKept` | `QuietWhileSilenced` | an evaluation under way knows of every silence that is set (`SilenceSeen`) |
| `ReplaysInLine` | `ReplaysFormALine` | a row is replayed in the transaction that has locked it, found it FAILED and found no replay of it |
| `QueuesImplemented` | `QueuesAreKept` | see below |
| `Platform_proofs!AllTyped` | `TypesOK` | all components' invariants together |
| `EvidenceIsVerified`, `EventsComeFirst`, `OneResultPerWorkspace` | `EvidenceWasVerified`, `EventsPrecedeResult`, `RetriesRepeatTheReport` | see below |
| `OneBootstrap` | `BootstrapOnce` | whoever creates or edits is a user already (`CallersExist`) |
| `DutiesHold` | `DutiesAreKept` | by the routes: what a route writes is a duty of every role with its permission |
| `DisplayStays` | `ShownRunStaysPublished` | each step that deletes the key compares first, or finds the display gone |
| `MutatingOnce`, `ResultsEarned` | `MutatingRunsOnce`, `ResultsAreEarned` | see below |
| `AnswersKept` | `AnswersAreKept` | see below |

*Leases.* `LeaseFollowsRun` alone is not inductive: the dispatch commit creates a
lease for every row in `sent`, so one must know those rows are still PENDING and
exist (`RowsExist`), and that a pooled run without a published row has neither
started nor a lease (`UnpublishedIsIdle`): otherwise the commit could reactivate a
released lease or a message sent early could start the run. The conjunction is
`LeaseInv`; it is preserved by actions that leave the rows alone (`LeaseFrame`),
that end runs (`EndingKeepsLeases`), by the commit (`CommitKeepsLeases`) and by
the callbacks (`CallbackKeepsLeases`), and `LeaseStep` sorts the actions under
these lemmas.

*Grants.* The limit is tested at the send and the lease written at the commit. The
missing fact is `PendingGrantsFit`: while the open transaction has decided a
grant, decided and committed leases together fit the limit. It survives because
the pool row is locked whenever it says anything, and other transactions can only
end runs. `TakenFinite` supplies the finiteness the cardinalities need.

*Refinement.* Each action is taken to a step of `RunLifecycle` or a stutter, under
the invariants above and one more, that only runs which name the pool hold slots
(`OnlyPooledHold`). The invariants do the work: `LeaseFollowsRun` leaves the
reaper no orphaned lease to release, `StartedRunIsBound` makes a repeated callback
a stutter, `UnpublishedIsIdle` makes what a commit grants a queued run without a
worker, and `PendingGrantsFit` keeps it within the limit.

*Releases.* A run that passed may be CANCELED by now, so neither `ReleaseEarned` nor
`ValidationWasReported` can rest on statuses: both speak of the `outcome` a run's end
reported, and `PassStays` and `ReportStays` say that no step takes one back. `GovInv`
adds that a closing run is still in flight (`ClosingInFlight`: nothing reports
twice), that a run which is over has reported its status or was cancelled
(`OutcomesEnd`), that only validation runs are linked to the request or
report to it (`ValidationsLinked`), that a CANDIDATE or PUBLISHED request has an approval by
somebody else of its current snapshot (`ApprovalGiven`), and that such an approval
implies one of the two statuses (`ApprovalsClose`: so nobody edits what was
approved).

*Schedules.* What the locks give is an invariant of its own (`LockInv`): the
schedule's row and the project's row have one holder each, what the holder of the
project's row has counted still leaves the quota (`ProjectRowInv`), and a sweep in
progress settles a due time that is still the schedule's and has no firing
(`SweepInv`). The quota property is its second part read at the step that inserts.
For firings and runs one must add whose run is whose: a client's key in use names no
run yet (`NewKeyInv`), due times name the sweeps' runs and no others (`NamesInv`),
each firing points to its run and each run to exactly one firing (`FiringInv`,
`FiredOnceInv`).

*Alerts.* `DecisionAgrees` is the heart: whatever row and history agree on before
(`Agree`), a notice `decide_quality_alert_event` decides on leaves a level that agrees
with that notice, and the notice differs from the one before unless an activation
came between. The first half carries `AlertsAgree`, with the configuration that must
exist while `_evaluate_project` runs; the second is `NoticesDiffer`. `EvaluatedRow`
lifts the lemma to the row an evaluation writes, and the calls that edit the
configuration change what qualifies and reset the level together.

*Queues.* A dispatcher's rows are PENDING and its own (`WebhooksHeld`, `MailsHeld`),
a PENDING row has an attempt left, and a run that has not ended has queued no
e-mail. Each step is classified row by row (`RowStep`, `MailStep`) as one of the
moves of `DeliveryQueue` or none, and `QueuesImplemented` reads the abstract step
off the classification.

*Execution.* `Execution_proofs` proves three invariants on top of each other. The
evidence needs where the task is and what exists then (`PlaceInv`), and that a child
process lives only while it is watched or is an orphan (`ChildInv`). The events
need `TimelineInv`: from the replay on, the control plane has what the workspace
holds. The reports need `SentInv`: while nobody else writes to the workspace, nothing
is executed after a report, and the kept result is the one that was reported. `Platform_proofs` takes the theorems over by
`Deeds == INSTANCE Execution_proofs`: `SameActions` identifies the actions of the
two instances and `SameTask` the specifications.

*Adapters.* `executed[c] <= 1` is not inductive: a child left behind by a dead worker
may still execute. `HeadroomInv` counts what is still to come with what was, by
round: a case in a child's hands and not yet reported has an execution left
(`Most`), and in the first round none has been executed before. What makes it hold
is that only a new directory leads to `ready`, and that there nothing has been
executed (`NewInv`). `PreflightInv` and `ResultInv` say the same of the preflight
and of the results.

*Conversations.* `RepliesInv` says that answers name questions before them, each
another one. So the answers map one-to-one into the questions, which bounds the
messages by twice the questions (`MessagesBounded`), and a question answered in the
meantime has exactly one answer when a second caller comes to save its own.

*What the proofs changed.* Two definitions had overlapping arms in a CASE, where TLC
takes the first and TLA+ allows any: the alert's new notice in `QualityAlerts` and the
role that authorises a request in `Access`. Both are disjoint now. The room for a
question in `Conversations` counts the questions as a set.

The strengthenings were checked by TLC as invariants of the small instances before
they were proved.

Only model-checked: the liveness properties (`OverdueRunEnds`,
`DispatchedRunLeavesQueue`, `LostRunnerIsNoticed`, `ScheduleCatchesUp`,
`NoticesCatchUp`, `DeliverySettles`), as fairness and `ENABLED` are
outside the prover, and the violated properties of section 4.

## 6. Not modelled, and why

- *Inside modelled parts.* Case-run rows, artifacts and audit rows written
  together with a run's end (no property reads them); `run.cancel_requested`
  messages (the task does nothing, `tasks.py:341`); the composition of case
  documents; several requests, packages, schedules, projects or conversations at
  once; registration of pools and workers; the run snapshot; payloads, signatures,
  password hashes and tokens; the options of a container or Job, which are one
  creation and one verification; the steps and assertions inside a case.
- *Behaviour the code has that no property judges*, because no document says what
  is right: a queued validation run that is cancelled leaves the request's
  `validation_status`; a duplicate task refused by the binding concludes
  INFRA_ERROR for a run another worker executes, and in the same workspace replaces
  the kept result; a redelivered task that finds the
  run cancelled reports without replaying its events; a cancel noticed while an
  Android round is announced does not stop the round; an isolated result refused
  for its evidence stays in the workspace until it is replaced; a login that
  verified the old password opens its session after a reset; webhooks of one metric
  may arrive out of order; a restarted API leaves background questions PENDING.
- *Supply chain envelopes.* Signatures, nonces and key rotation end in the pass or
  fail a verification report has in `Schedules`.
- *Git release sync.* The comparison of manifests is data and the package half
  repeats the registration of a package; the change request is `ImportRelease`.
- *Quality analytics, AI analysis of a run.* Read-only: they compute an answer from
  committed rows and store nothing. The signal of the alerts is any value.
- *Model providers.* Single-row edits by an administrator under one key.
- *Object storage, the API's half.* Signed addresses of stored objects.
- *Configuration, HTTP plumbing, metrics, contracts, migrations, frontend,
  infrastructure.* Wiring, presentation and one-off conversions without shared
  state of their own.

## 7. Plan

Done, in the order of what the platform rests on: `RunStates`, `RunControl`, the
`RunLifecycle` it implements, and their proofs; `Governance` and its proofs;
`Schedules` and the ten modules of `Platform`, with theirs. Worth doing next:

1. An abstract specification of the regression schedule (each due time is settled
   once, by a run or a reason), and the refinement by `Schedules`.
2. One for the worker's task (what a workspace has reported it reports again, after
   its events), implemented by `Execution`, and the copy that passes PREPARING together
   with the first delivery.
3. The steps of the liveness arguments that are safety: what a sweep in
   progress keeps true until it commits.

## 8. Running it

```
tlc -workers 2 -config RunSingle.cfg MCRunControl     # likewise the other runs;
# PROJECT.json names the module of each
tlapm RunLifecycle_proofs.tla    # likewise RunStates_proofs, RunControl_proofs,
# Governance_proofs, Schedules_proofs, Execution_proofs, Notices_proofs, Platform_proofs
```
