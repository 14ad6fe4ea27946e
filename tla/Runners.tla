------------------------------- MODULE Runners -------------------------------
(***************************************************************************)
(* One run in a Runner adapter that the worker hosts itself (IN_PROCESS):  *)
(* the Playwright engine that executes case by case, and the legacy Pytest *)
(* and Android runners that hand their cases to a child process and read   *)
(* its report.                                                             *)
(*                                                                         *)
(* The worker may die at any step.  The broker delivers the task again, to *)
(* a process that remembers nothing; the workspace outlives it, and so     *)
(* does a child process that is still executing.                           *)
(***************************************************************************)
EXTENDS Naturals

CONSTANTS
    N,     \* cases of the run
    None

Cases == 1..N
Adapters == {"WEB", "LEGACY", "ANDROID"}

\* mutating stands for mutating, destructive, persistent; plain has no tag.
Tags == {"disabled", "plain", "readonly", "mutating"}
Outcomes == {"PASSED", "FAILED", "INFRA_ERROR", "SKIPPED"}

\* disabled and canceled are SKIPPED results with that reason.
Results == Outcomes \cup {"disabled", "canceled"}
Verdicts == {"PASSED", "FAILED", "INFRA_ERROR", "CANCELED"}

VARIABLES
    adapter,    \* the adapter of the run's automation package
    tag,        \* the tag of each case that matters
    asked,      \* cancel_requested
    workspace,  \* whether the run's directory exists
    preflight,  \* whether the customer preflight of the run has passed
    executed,   \* how often the platform had each case executed; what a legacy
                \* project repeats by itself is part of one execution
    child,      \* the cases a child process executes, or None
    report,     \* what it has reported
    pc,         \* where the adapter is
    next,       \* the case whose turn it is
    round,      \* the round of the child process
    canceled,   \* the adapter's own flag
    result,     \* case_results so far
    verdict     \* the status of the RunResult

run == <<adapter, tag>>
target == <<preflight, executed, child, report>>
memory == <<pc, next, round, canceled, result>>
vars == <<run, asked, workspace, target, memory, verdict>>

TypeOK ==
    /\ adapter \in Adapters /\ tag \in [Cases -> Tags]
    /\ asked \in BOOLEAN /\ workspace \in BOOLEAN /\ preflight \in BOOLEAN
    /\ executed \in [Cases -> 0..2]
    /\ child \in (SUBSET Cases) \cup {None}
    /\ report \in [Cases -> Outcomes \cup {None}]
    /\ pc \in {"idle", "ready", "cases", "case", "round", "child", "conclude", "done"}
    /\ next \in 1..(N + 1) /\ round \in 1..2 /\ canceled \in BOOLEAN
    /\ result \in [Cases -> Results \cup {None}]
    /\ verdict \in Verdicts \cup {None}

Enabled == {c \in Cases : tag[c] # "disabled"}

Nothing == [c \in Cases |-> None]
Fresh == next' = 1 /\ round' = 1 /\ canceled' = FALSE /\ result' = Nothing

Init ==
    /\ adapter \in Adapters /\ tag \in [Cases -> Tags] /\ Enabled # {}
    /\ asked = FALSE /\ workspace = FALSE /\ preflight = FALSE
    /\ executed = [c \in Cases |-> 0]
    /\ child = None /\ report = Nothing
    /\ pc = "idle" /\ next = 1 /\ round = 1 /\ canceled = FALSE /\ result = Nothing
    /\ verdict = None

-----------------------------------------------------------------------------
(* The worker *)

RequestCancel ==
    /\ ~asked /\ asked' = TRUE
    /\ UNCHANGED <<run, workspace, target, memory, verdict>>

Crash ==
    /\ pc \notin {"idle", "done"}
    /\ pc' = "idle" /\ Fresh
    /\ UNCHANGED <<run, asked, workspace, target, verdict>>

Rest(status) == [c \in Cases |-> IF c \in Enabled THEN status ELSE "disabled"]

\* _recovery_result for an adapter that refuses the run.
Recover ==
    /\ pc' = "done" /\ verdict' = "INFRA_ERROR" /\ result' = Rest("INFRA_ERROR")
    /\ UNCHANGED <<next, round, canceled>>

\* The job is valid and its directory is new: no run enters one that an
\* earlier attempt has left.
Enters ==
    /\ ~workspace /\ workspace' = TRUE
    /\ pc' = "ready" /\ UNCHANGED <<next, round, canceled, result, verdict>>

Prepare(a) ==
    /\ adapter = a /\ pc = "idle"
    /\ \/ Enters
       \/ UNCHANGED workspace /\ Recover
    /\ UNCHANGED <<run, asked, target>>

PrepareWeb == Prepare("WEB")
PrepareLegacy == Prepare("LEGACY")
PrepareAndroid == Prepare("ANDROID")

\* prepare in the legacy adapter: the customer's project is copied into the new
\* directory, and with it the cases as a workbook.
CopyFails ==
    /\ adapter = "LEGACY" /\ pc = "idle"
    /\ ~workspace /\ workspace' = TRUE /\ Recover
    /\ UNCHANGED <<run, asked, target>>

\* What the worker's reporter does at case_started: it asks for the cancel and
\* tells the adapter; the question may fail.
Notices == canceled' \in {canceled, canceled \/ asked}

\* execute's handler of an exception, in the adapters with a child process.
FailAll ==
    /\ pc' = "conclude"
    /\ result' = Rest(IF canceled THEN "canceled" ELSE "INFRA_ERROR")
    /\ UNCHANGED <<next, round, canceled>>

-----------------------------------------------------------------------------
(* WebPlaywrightAdapter *)

\* _remaining_infra_results.
FailRemaining ==
    /\ pc' = "conclude"
    /\ result' = [c \in Cases |-> IF result[c] = None THEN Rest("INFRA_ERROR")[c] ELSE result[c]]
    /\ UNCHANGED <<next, round, canceled>>

\* The secrets and the browser.
StartBrowser ==
    /\ adapter = "WEB" /\ pc = "ready"
    /\ \/ pc' = "cases" /\ UNCHANGED <<next, round, canceled, result>>
       \/ FailRemaining
    /\ UNCHANGED <<run, asked, workspace, target, verdict>>

Yield(status) == result' = [result EXCEPT ![next] = status] /\ next' = next + 1

\* The loop's head.
SkipCase ==
    /\ pc = "cases" /\ next <= N /\ (canceled \/ next \notin Enabled)
    /\ Yield(IF canceled THEN "canceled" ELSE "disabled")
    /\ UNCHANGED <<run, asked, workspace, target, pc, round, canceled, verdict>>

\* _execute_case up to the page.
StartCase ==
    /\ pc = "cases" /\ next <= N /\ ~canceled /\ next \in Enabled
    /\ Notices
    /\ IF canceled' THEN pc' = "cases" /\ Yield("canceled")
       ELSE pc' = "case" /\ UNCHANGED <<next, result>>
    /\ UNCHANGED <<run, asked, workspace, target, round, verdict>>

\* The engine runs the case's steps and its assertions, or breaks down.
CaseOutcomes == {"PASSED", "FAILED", "INFRA_ERROR"}

FinishCase ==
    /\ pc = "case" /\ pc' = "cases"
    /\ executed' = [executed EXCEPT ![next] = @ + 1]
    /\ \E status \in CaseOutcomes : Yield(status)
    /\ UNCHANGED <<run, asked, workspace, preflight, child, report, round, canceled, verdict>>

\* The browser's context or the event log fails between or after the cases.
BrowserBreaks ==
    /\ pc = "cases" /\ FailRemaining
    /\ UNCHANGED <<run, asked, workspace, target, verdict>>

EndCases ==
    /\ pc = "cases" /\ next > N /\ pc' = "conclude"
    /\ UNCHANGED <<run, asked, workspace, target, next, round, canceled, result, verdict>>

-----------------------------------------------------------------------------
(* The child processes *)

\* SubprocessCommandRunner.run up to the wait.
Launch(cases) == child' = cases /\ report' = Nothing /\ UNCHANGED <<preflight, executed>>

\* The child executes a case; it is outside this repository.  One left behind
\* by a dead worker goes on.
ChildExecutes(c) ==
    /\ child # None /\ c \in child /\ report[c] = None
    /\ executed' = [executed EXCEPT ![c] = @ + 1]
    /\ \E status \in Outcomes : report' = [report EXCEPT ![c] = status]
    /\ UNCHANGED <<run, asked, workspace, preflight, child, memory, verdict>>

\* LegacyPytestAdapter.execute: all cases are announced before the child is.
StartLegacy ==
    /\ adapter = "LEGACY" /\ pc = "ready"
    /\ Notices
    /\ IF canceled'
       THEN pc' = "conclude" /\ result' = Rest("canceled") /\ UNCHANGED <<child, report>>
       ELSE pc' = "child" /\ UNCHANGED result /\ child' = Enabled /\ report' = Nothing
    /\ UNCHANGED <<run, asked, workspace, preflight, executed, next, round, verdict>>

\* The secrets, the child's environment or the event log.
LegacyFails ==
    /\ adapter = "LEGACY" /\ pc = "ready" /\ FailAll
    /\ UNCHANGED <<run, asked, workspace, target, verdict>>

\* A child that ends by itself has reported each case; one that is killed at its
\* time limit, or dies, has not.
Complete == \A c \in child : report[c] # None

\* The report is missing, cannot be read or parsed, or a bad exit code speaks
\* against one without failures.
ChildFails ==
    /\ pc = "child" /\ child # None
    /\ child' = None /\ FailAll
    /\ UNCHANGED <<run, asked, workspace, preflight, executed, report, verdict>>

Reported == [c \in Cases |-> IF c \in child THEN report[c]
                             ELSE IF c \in Enabled THEN result[c] ELSE "disabled"]

\* _parse_results.
ReadLegacy ==
    /\ adapter = "LEGACY" /\ pc = "child" /\ child # None /\ Complete
    /\ result' = Reported /\ pc' = "conclude" /\ child' = None
    /\ UNCHANGED <<run, asked, workspace, preflight, executed, report, next, round,
                   canceled, verdict>>

-----------------------------------------------------------------------------
(* AndroidAppiumAdapter *)

\* _requires_preflight.
NeedsPreflight == \E c \in Cases : tag[c] = "mutating"

\* The secrets, the preflight or the log, before the child executes.
AndroidFails ==
    /\ adapter = "ANDROID" /\ pc \in {"ready", "round"} /\ FailAll
    /\ UNCHANGED <<run, asked, workspace, target, verdict>>

\* _run_preflight; one that fails is AndroidFails.
StartAndroid ==
    /\ adapter = "ANDROID" /\ pc = "ready" /\ pc' = "round"
    /\ preflight' = (preflight \/ NeedsPreflight)
    /\ UNCHANGED <<run, asked, workspace, executed, child, report, next, round, canceled,
                   result, verdict>>

\* Variant: a failed case is repeated whatever it does to the product.
RetriesAll(results) == {c \in Enabled : results[c] \in {"FAILED", "INFRA_ERROR"}}

\* _is_retryable.
Retries(results) ==
    {c \in Enabled : tag[c] = "readonly" /\ results[c] \in {"FAILED", "INFRA_ERROR"}}

RoundCases == IF round = 1 THEN Enabled ELSE Retries(result)

\* _run_round up to the command.  A cancel that is noticed while the round is
\* announced does not stop it any more.
StartRound ==
    /\ adapter = "ANDROID" /\ pc = "round" /\ pc' = "child"
    /\ Notices
    /\ Launch(RoundCases)
    /\ UNCHANGED <<run, asked, workspace, next, round, result, verdict>>

\* _read_allure_records, the results of the round and what they entail.
ReadAllure ==
    /\ adapter = "ANDROID" /\ pc = "child" /\ child # None /\ Complete
    /\ result' = Reported /\ child' = None
    /\ IF round = 1 /\ Retries(Reported) # {} /\ ~canceled
       THEN pc' = "round" /\ round' = 2
       ELSE pc' = "conclude" /\ UNCHANGED round
    /\ UNCHANGED <<run, asked, workspace, preflight, executed, report, next, canceled, verdict>>

-----------------------------------------------------------------------------
Has(status) == \E c \in Cases : result[c] = status

\* Variant: the cases alone decide.
VerdictOfCases ==
    CASE Has("INFRA_ERROR") -> "INFRA_ERROR"
      [] Has("FAILED") /\ ~Has("INFRA_ERROR") -> "FAILED"
      [] OTHER -> "PASSED"

\* _terminal_status.
Verdict ==
    CASE canceled -> "CANCELED"
      [] ~canceled /\ Has("INFRA_ERROR") -> "INFRA_ERROR"
      [] ~canceled /\ ~Has("INFRA_ERROR") /\ Has("FAILED") -> "FAILED"
      [] OTHER -> "PASSED"

\* execute raises outside its handlers, as the event log or the result cannot be
\* written: the worker concludes without what the adapter knows.
WriteFails ==
    /\ pc \in {"ready", "conclude"} /\ Recover
    /\ UNCHANGED <<run, asked, workspace, target>>

\* The result is written, which ends the adapter's part.
Conclude ==
    /\ pc = "conclude" /\ pc' = "done" /\ verdict' = Verdict
    /\ UNCHANGED <<run, asked, workspace, target, next, round, canceled, result>>

Next ==
    \/ RequestCancel \/ Crash
    \/ PrepareWeb \/ PrepareLegacy \/ PrepareAndroid \/ CopyFails
    \/ StartBrowser \/ SkipCase \/ StartCase \/ FinishCase \/ BrowserBreaks \/ EndCases
    \/ StartLegacy \/ LegacyFails \/ ChildFails \/ ReadLegacy
    \/ \E c \in Cases : ChildExecutes(c)
    \/ StartAndroid \/ AndroidFails \/ StartRound \/ ReadAllure
    \/ WriteFails \/ Conclude

Spec == Init /\ [][Next]_vars

-----------------------------------------------------------------------------
(* Properties *)

\* A case that changes data is executed at most once, whatever fails, is
\* retried, crashes or is delivered again ("write, delete and persistent cases
\* are not rerun automatically"), and on a device only after the preflight.
MutatingRunsOnce ==
    \A c \in Cases :
        tag[c] = "mutating" =>
            /\ executed[c] <= 1
            /\ executed[c] = 1 /\ adapter = "ANDROID" => preflight

\* A final result has one result per case; one that PASSED was executed, and
\* cases that a cancel skipped never leave a run that looks complete.
ResultsAreEarned ==
    verdict # None =>
        \A c \in Cases :
            /\ result[c] # None
            /\ result[c] = "PASSED" => executed[c] > 0
            /\ result[c] = "canceled" => verdict = "CANCELED"
=============================================================================
