------------------------------ MODULE Execution ------------------------------
(***************************************************************************)
(* One run's task in one workspace: the isolated workload it makes,        *)
(* watches and cleans up (a child process, a container or a Kubernetes     *)
(* Job), the files it keeps and what it reports.  The broker delivers the  *)
(* task again when the worker dies (acks late), when the task raises, and  *)
(* when an acknowledgement is late; only the workspace, the run's          *)
(* resources and the control plane outlive a delivery.                     *)
(*                                                                         *)
(* A copy of the task may be delivered meanwhile.  Another worker has      *)
(* another workspace and finds no result: PREPARING is refused to it and   *)
(* it reports INFRA_ERROR, which here ends the run elsewhere.  A process   *)
(* with the same workspace also keeps that result in it.  A container or a *)
(* Job goes on when its worker dies; a child process goes on as an orphan  *)
(* when only the worker's pool process was killed.                         *)
(***************************************************************************)
EXTENDS Naturals, Sequences, FiniteSets, Functions

CONSTANTS
    MaxEvents,  \* bound: events a workload writes
    None

Modes == {"SUBPROCESS", "CONTAINER", "KUBERNETES"}
Own == {"PASSED", "FAILED"}
Verdicts == Own \cup {"CANCELED", "TIMED_OUT", "INFRA_ERROR"}

\* What an executor creates, in this order, under names made of the run's id.
ContainerResources == <<"volume", "input", "workload">>
\* The input is a ConfigMap, with a Secret when the run has one.
JobResources == <<"input", "policy", "workload">>
Resources ==
    [SUBPROCESS |-> <<"workload">>, CONTAINER |-> ContainerResources, KUBERNETES |-> JobResources]

VARIABLES
    mode,      \* runner_execution_mode
    status,    \* the run: open, ended by the report of a kept result, or ended
    canceled,  \* cancel_requested
    timeline,  \* the run's events the control plane has
    sent,      \* the results of all reports made from this workspace while
               \* nothing but its deliveries had written to it
    task,      \* queued, running, done or dropped
    pc,        \* where the running task is
    created,   \* what the running task has created
    verified,  \* whether it has verified the workload's isolation
    forwarded, \* the offset of the events it has forwarded
    outcome,   \* what it will keep
    present,   \* the run's resources that exist
    child,     \* the workload
    written,   \* the events the workload has written
    log,       \* events.jsonl of the workspace
    result,    \* run-result.json of the workspace
    intruder   \* who else writes there: a child process whose worker died, by the
               \* result it has left, or a copy of the task

platform == <<mode, status, canceled, timeline, sent>>
local == <<pc, created, verified, forwarded, outcome>>
workload == <<present, child, written>>
workspace == <<log, result, intruder>>
vars == <<platform, task, local, workload, workspace>>

\* checked records whether the workload had been verified.
Document == [verdict : Verdicts, evidence : BOOLEAN, checked : BOOLEAN]
Hard == mode # "SUBPROCESS"

TypeOK ==
    /\ mode \in Modes /\ status \in {"open", "reported", "ended"} /\ canceled \in BOOLEAN
    /\ timeline \subseteq 1..MaxEvents /\ sent \subseteq Document
    /\ task \in {"queued", "running", "done", "dropped"}
    /\ pc \in {"idle", "prepare", "reclaim", "create", "verify", "poll", "clean", "keep",
               "replay", "upload", "report", "cancel"}
    /\ created \subseteq Range(Resources[mode]) /\ verified \in BOOLEAN
    /\ forwarded \in 0..MaxEvents /\ outcome \in Document \cup {None}
    /\ present \subseteq Range(Resources[mode])
    /\ child \in {"none", "idle", "running", "passed", "broken"} \cup Own
    /\ written \in 0..MaxEvents
    /\ log \in 0..MaxEvents \cup {None} /\ result \in Document \cup {None}
    /\ intruder \in {"none", "running", "over", "copy", "copied"} \cup Own

Init ==
    /\ mode \in Modes /\ status = "open" /\ canceled = FALSE /\ timeline = {} /\ sent = {}
    /\ task = "queued"
    /\ pc = "idle" /\ created = {} /\ verified = FALSE /\ forwarded = 0 /\ outcome = None
    /\ present = {} /\ child = "none" /\ written = 0
    /\ log = None /\ result = None /\ intruder = "none"

At(place) == task = "running" /\ pc = place
Goto(place) == pc' = place /\ UNCHANGED <<created, verified, forwarded, outcome>>
Forget == pc' = "idle" /\ created' = {} /\ verified' = FALSE /\ forwarded' = 0 /\ outcome' = None

-----------------------------------------------------------------------------
(* The run and the workload *)

\* A cancel request; or the reaper, a cancel or a copy of the task ends the run.
RequestCancel ==
    /\ status = "open" /\ ~canceled /\ canceled' = TRUE
    /\ UNCHANGED <<mode, status, timeline, sent, task, local, workload, workspace>>
EndElsewhere ==
    /\ status = "open" /\ status' = "ended"
    /\ UNCHANGED <<mode, canceled, timeline, sent, task, local, workload, workspace>>

\* A workspace refuses a run directory that exists (RunWorkspace).
Occupied == log # None \/ result # None

ChildStarts ==
    /\ child = "idle"
    /\ child' = IF mode = "SUBPROCESS" /\ Occupied THEN "broken" ELSE "running"
    /\ log' = IF mode = "SUBPROCESS" /\ ~Occupied THEN 0 ELSE log
    /\ UNCHANGED <<platform, task, local, present, written, result, intruder>>

ChildWrites ==
    /\ child = "running" /\ written < MaxEvents
    /\ written' = written + 1
    /\ log' = IF mode = "SUBPROCESS" THEN log + 1 ELSE log
    /\ UNCHANGED <<platform, task, local, present, child, result, intruder>>

Bare(verdict) == [verdict |-> verdict, evidence |-> FALSE, checked |-> FALSE]
Enriched(verdict) == [verdict |-> verdict, evidence |-> TRUE, checked |-> FALSE]

\* execute_isolated_snapshot: the adapter leaves a result, which is then
\* replaced by one with the isolation's evidence.
ChildConcludes(verdict) ==
    /\ child = "running"
    /\ \/ Hard /\ child' = "passed" /\ UNCHANGED result
       \/ ~Hard /\ result = None /\ child' = verdict /\ result' = Bare(verdict)
    /\ UNCHANGED <<platform, task, local, present, written, log, intruder>>
ChildEnriches ==
    /\ child \in Own /\ child' = "passed" /\ result' = Enriched(child)
    /\ UNCHANGED <<platform, task, local, present, written, log, intruder>>

\* It exits without a result.
ChildBreaks ==
    /\ child \in {"running"} \cup Own /\ child' = "broken"
    /\ UNCHANGED <<platform, task, local, present, written, workspace>>

\* The orphan does the same in the run's directory; write_result refuses to
\* replace a result, persist_run_result does not.
OrphanWrites ==
    /\ intruder = "running" /\ log < MaxEvents /\ log' = log + 1
    /\ UNCHANGED <<platform, task, local, workload, result, intruder>>
OrphanConcludes ==
    /\ intruder = "running"
    /\ \/ result = None
          /\ \E verdict \in Own : intruder' = verdict /\ result' = Bare(verdict)
       \/ intruder' = "over" /\ UNCHANGED result
    /\ UNCHANGED <<platform, task, local, workload, log>>
OrphanEnriches ==
    /\ intruder \in Own /\ intruder' = "over" /\ result' = Enriched(intruder)
    /\ UNCHANGED <<platform, task, local, workload, log>>

\* A copy of the task is received in the same workspace while this delivery
\* executes the run: it finds no result and PREPARING is refused to it, so it
\* keeps an INFRA_ERROR, at some later time.
Executing == {"reclaim", "create", "verify", "poll", "clean", "keep"}
CopyReceived ==
    /\ task = "running" /\ pc \in Executing /\ status = "open" /\ ~canceled /\ result = None
    /\ intruder = "none" /\ intruder' = "copy"
    /\ UNCHANGED <<platform, task, local, workload, log, result>>
CopyKeeps ==
    /\ intruder = "copy" /\ intruder' = "copied" /\ result' = Bare("INFRA_ERROR")
    /\ UNCHANGED <<platform, task, local, workload, log>>

-----------------------------------------------------------------------------
(* Deliveries *)

\* Variant: the workspace's result is not looked for.
ReceiveAgain ==
    /\ task = "queued"
    /\ \/ status # "open" /\ task' = "done" /\ Goto("idle")
       \/ status = "open" /\ task' = "running"
          /\ Goto(IF canceled THEN "cancel" ELSE "prepare")
    /\ UNCHANGED <<platform, workload, workspace>>

\* execute_run up to the report of PREPARING.
Receive ==
    /\ task = "queued"
    /\ \/ status # "open" /\ task' = "done" /\ Goto("idle")
       \/ status = "open" /\ task' = "running"
          /\ \/ result # None /\ pc' = "replay" /\ outcome' = result
                /\ UNCHANGED <<created, verified, forwarded>>
             \/ result = None /\ Goto(IF canceled THEN "cancel" ELSE "prepare")
    /\ UNCHANGED <<platform, workload, workspace>>

\* Another copy of the task was still queued, after this one had come to an end.
Redeliver ==
    /\ task \in {"done", "dropped"} /\ task' = "queued"
    /\ UNCHANGED <<platform, local, workload, workspace>>

\* The worker dies: the broker queues the task again.
Crash ==
    /\ task = "running" /\ task' = "queued" /\ Forget
    /\ IF mode = "SUBPROCESS" THEN present' = {} /\ child' = "none" /\ written' = 0
       ELSE UNCHANGED workload
    /\ UNCHANGED <<platform, workspace>>

\* Only the process that runs the task dies, and leaves a child process.
CrashAlone ==
    /\ task = "running" /\ task' = "queued" /\ Forget
    /\ mode = "SUBPROCESS" /\ child \in {"running"} \cup Own
    /\ intruder' = child
    /\ present' = {} /\ child' = "none" /\ written' = 0
    /\ UNCHANGED <<platform, log, result>>

\* An exception leaves execute_run (autoretry_for): a call was refused or
\* got no answer.  Some retry is the last one (max_retries).
Raise == task' \in {"queued", "dropped"} /\ Forget

\* execute_run's handlers turn a failure of the execution into an outcome.
Conclude(verdict, evidence) ==
    /\ outcome' = [verdict |-> verdict, evidence |-> evidence,
                   checked |-> verified]
    /\ pc' = IF created = {} THEN "keep" ELSE "clean"
    /\ UNCHANGED <<created, verified, forwarded>>

\* The evidence that a failed execution still carries: an executor's, once it
\* has verified; a child process needs no verification.
Evidence == verified \/ ~Hard

Prepare ==
    /\ At("prepare")
    /\ \/ status = "open" /\ Goto(IF Hard THEN "reclaim" ELSE "create")
       \/ Conclude("INFRA_ERROR", FALSE)
    /\ UNCHANGED <<platform, task, workload, workspace>>

-----------------------------------------------------------------------------
(* The executor *)

\* The run's resources that an earlier execution left are removed one by one;
\* one that cannot be removed ends this one.
Removes ==
    /\ \E gone \in SUBSET present :
         /\ present' = present \ gone
         /\ child' = IF "workload" \in gone THEN "none" ELSE child
         /\ written' = IF "workload" \in gone THEN 0 ELSE written
    /\ \/ present' = {} /\ Goto("create")
       \/ Conclude("INFRA_ERROR", FALSE)
    /\ UNCHANGED <<platform, task, workspace>>

ReclaimContainer == mode = "CONTAINER" /\ At("reclaim") /\ Removes
ReclaimJob == mode = "KUBERNETES" /\ At("reclaim") /\ Removes

\* The next resource; the last one is the workload.
Create ==
    LET next == Resources[mode][Cardinality(created) + 1]
    IN  /\ At("create")
        /\ present' = present \cup {next} /\ created' = created \cup {next}
        /\ IF next = "workload"
           THEN /\ child' = "idle" /\ written' = 0
                /\ pc' = IF Hard THEN "verify" ELSE "poll"
           ELSE UNCHANGED <<child, written, pc>>
        /\ UNCHANGED <<platform, task, verified, forwarded, outcome, workspace>>

CreateFails ==
    /\ At("create") /\ Conclude("INFRA_ERROR", Evidence)
    /\ UNCHANGED <<platform, task, workload, workspace>>

\* Variant: what runs is not read back.
VerifyNothing ==
    /\ At("verify") /\ mode = "CONTAINER" /\ child # "idle" /\ Goto("poll")
    /\ UNCHANGED <<platform, task, workload, workspace>>

ReadsBack ==
    /\ At("verify") /\ child # "idle"
    /\ \/ verified' = TRUE /\ pc' = "poll" /\ UNCHANGED <<created, forwarded, outcome>>
       \/ Conclude("INFRA_ERROR", FALSE)
    /\ UNCHANGED <<platform, task, workload, workspace>>

VerifyContainer == mode = "CONTAINER" /\ ReadsBack
VerifyPod == mode = "KUBERNETES" /\ ReadsBack

\* A callback that fails is ignored.
Forwards ==
    /\ At("poll") /\ forwarded < written
    /\ \E received \in SUBSET ((forwarded + 1)..written) : timeline' = timeline \cup received
    /\ forwarded' = written
    /\ UNCHANGED <<mode, status, canceled, sent, task, pc, created, verified, outcome,
                   workload, workspace>>

ForwardNewEvents == mode = "SUBPROCESS" /\ Forwards
ForwardContainerEvents == mode = "CONTAINER" /\ Forwards
ForwardKubernetesEvents == mode = "KUBERNETES" /\ Forwards

\* A cancel, the executor's time limit, or a workload, a platform or a control
\* plane that fails.
GivesUp ==
    /\ \/ canceled /\ Conclude("CANCELED", Evidence)
       \/ Conclude(IF Evidence THEN "TIMED_OUT" ELSE "INFRA_ERROR", Evidence)
       \/ Conclude("INFRA_ERROR", Evidence)
    /\ UNCHANGED <<platform, task, workload, workspace>>

WatchProcess == mode = "SUBPROCESS" /\ At("poll") /\ GivesUp
WatchContainer == mode = "CONTAINER" /\ At("poll") /\ GivesUp
\* A Job is watched while its isolation is still to be verified.
WatchJob == mode = "KUBERNETES" /\ (At("verify") \/ At("poll")) /\ GivesUp

\* _read_result: the child process has left its files in the workspace; a
\* result without evidence is refused.
CollectFiles ==
    /\ mode = "SUBPROCESS" /\ At("poll") /\ child = "passed" /\ result.evidence
    /\ outcome' = result /\ pc' = "clean"
    /\ UNCHANGED <<platform, task, created, verified, forwarded, workload, workspace>>

\* The run's directory is copied into the workspace, which must not have it.
\* A result that does not bear the expected evidence is refused, and stays.
Exports ==
    /\ At("poll") /\ child = "passed" /\ ~Occupied
    /\ \E verdict \in Own :
         result' = [verdict |-> verdict, evidence |-> TRUE, checked |-> verified]
    /\ log' = written /\ UNCHANGED intruder
    /\ \/ outcome' = result' /\ pc' = "clean" /\ UNCHANGED <<created, verified, forwarded>>
       \/ Conclude("INFRA_ERROR", Evidence)
    /\ UNCHANGED <<platform, task, workload>>

ExtractRunArchive == mode = "CONTAINER" /\ Exports
ExportRunArchive == mode = "KUBERNETES" /\ Exports

\* The executor's finally: every removal is tried, and one that fails is
\* ignored.  A child process is killed for certain.
RemovesAllBut(left) ==
    /\ At("clean") /\ pc' = "keep"
    /\ created' = {} /\ verified' = FALSE /\ forwarded' = 0 /\ UNCHANGED outcome
    /\ present' = present \ (created \ left)
    /\ IF "workload" \in present' THEN UNCHANGED <<child, written>> ELSE child' = "none" /\ written' = 0
    /\ UNCHANGED <<platform, task, workspace>>

StopProcess == mode = "SUBPROCESS" /\ RemovesAllBut({})
CleanContainer == mode = "CONTAINER" /\ \E left \in SUBSET created : RemovesAllBut(left)
CleanJob == mode = "KUBERNETES" /\ \E left \in SUBSET created : RemovesAllBut(left)

-----------------------------------------------------------------------------
(* The end of execute_run *)

\* persist_run_result.
Keep ==
    /\ At("keep") /\ result' = outcome /\ Goto("replay")
    /\ UNCHANGED <<platform, task, workload, log, intruder>>

\* Variant: a callback that fails does not hold the result back.
ReplaySome ==
    /\ At("replay") /\ Goto("upload")
    /\ \E n \in 0..(IF log = None THEN 0 ELSE log) : timeline' = timeline \cup 1..n
    /\ UNCHANGED <<mode, status, canceled, sent, task, workload, workspace>>

\* _reconcile_events, up to the first callback that fails.
Replay ==
    LET all == IF log = None THEN 0 ELSE log
    IN  /\ At("replay")
        /\ \E n \in 0..all :
             /\ timeline' = timeline \cup 1..n
             /\ \/ n = all /\ Goto("upload") /\ UNCHANGED task
                \/ n < all /\ Raise
        /\ UNCHANGED <<mode, status, canceled, sent, workload, workspace>>

\* _upload_artifacts: objects are written once, so a retry finds them.
Upload ==
    /\ At("upload")
    /\ \/ Goto("report") /\ UNCHANGED task
       \/ Raise
    /\ UNCHANGED <<platform, workload, workspace>>

\* report_result: the answer may be lost, and a run that has ended refuses.
Send(document, ended) ==
    /\ sent' = IF intruder = "none" THEN sent \cup {document} ELSE sent
    /\ \/ status = "open" /\ status' = ended
       \/ UNCHANGED status
    /\ \/ status' = ended /\ task' = "done" /\ Forget
       \/ Raise
    /\ UNCHANGED <<mode, canceled, timeline, workload, workspace>>

Report == At("report") /\ Send(outcome, "reported")
\* A cancel seen before anything was executed.
ReportCanceled == At("cancel") /\ Send(Bare("CANCELED"), "ended")

Next ==
    \/ RequestCancel \/ EndElsewhere
    \/ ChildStarts \/ ChildWrites \/ ChildEnriches \/ ChildBreaks
    \/ \E verdict \in Own : ChildConcludes(verdict)
    \/ OrphanWrites \/ OrphanConcludes \/ OrphanEnriches
    \/ CopyReceived \/ CopyKeeps
    \/ Receive \/ Redeliver \/ Crash \/ CrashAlone \/ Prepare
    \/ ReclaimContainer \/ ReclaimJob \/ Create \/ CreateFails
    \/ VerifyContainer \/ VerifyPod
    \/ ForwardNewEvents \/ ForwardContainerEvents \/ ForwardKubernetesEvents
    \/ WatchProcess \/ WatchContainer \/ WatchJob
    \/ CollectFiles \/ ExtractRunArchive \/ ExportRunArchive
    \/ StopProcess \/ CleanContainer \/ CleanJob
    \/ Keep \/ Replay \/ Upload \/ Report \/ ReportCanceled

Spec == Init /\ [][Next]_vars

-----------------------------------------------------------------------------
(* Properties *)

\* A kept or reported result that claims the isolation of a container or a Pod
\* comes from a workload whose isolation was read back, whatever crash, stale
\* workload or later delivery came between.
EvidenceWasVerified ==
    Hard => \A document \in {result, outcome} \ {None} :
                document.evidence => document.checked

\* When the report of the result a delivery has kept ends the run, the control
\* plane has every event of the workspace's events.jsonl ("replays the whole
\* JSONL in order before it submits the immutable result"), unless an orphan
\* writes to it.  A copy that keeps a result there meanwhile does not matter;
\* one whose own report ends the run ends it elsewhere (EndElsewhere).
Orphaned == intruder \in {"running", "over"} \cup Own
EventsPrecedeResult ==
    ~Orphaned => (status = "reported" /\ log # None => 1..log \subseteq timeline)

\* What execute_run reports from a workspace it can repeat from there: every
\* report ever made, before a lost answer, a crash or an ended run, was of the
\* result that the workspace holds now (_existing_result), or of a cancel that
\* came before anything was executed.  Only for the deliveries of this
\* workspace, one after another: a worker that has another one reports what it
\* finds itself, and once an orphan or a copy writes here nothing is said.
RetriesRepeatTheReport ==
    intruder = "none" =>
        IF result # None THEN sent \subseteq {result} ELSE sent \subseteq {Bare("CANCELED")}
=============================================================================
