----------------------------- MODULE Governance -----------------------------
(***************************************************************************)
(* One Change Request from its first draft to a RELEASED baseline: the     *)
(* candidate revisions, the draft validation that gates submission, the    *)
(* review, the full regression that gates publication, and the runs the    *)
(* two gates look at.                                                      *)
(*                                                                         *)
(* A transaction is one action where the code holds the request's row from *)
(* its first read to its commit.  Three pieces of code do not:             *)
(*   - create_validation_run: create_run commits in the middle of it and   *)
(*     so drops the row lock; the request is written in a second           *)
(*     transaction from the row object of the first (StartValidation,      *)
(*     LinkRun).  The session keeps its objects across a commit            *)
(*     (expire_on_commit=False), so "QUEUED" is written only when the      *)
(*     remembered validation_status differs from it;                       *)
(*   - record_run_result and _recover_run find the request without a lock  *)
(*     and write validation_status when they commit (EndReads, EndCommits);*)
(*   - the single-run cancel decides on the row it loaded before it waited *)
(*     for the row's lock (CancelRead, CancelCommit), so a run that has    *)
(*     started or even ended meanwhile is written CANCELED.  What its end  *)
(*     reported, the result document or the recovery event, stays.         *)
(* A run's own life is that of RunControl, here by its status alone.       *)
(***************************************************************************)
EXTENDS Naturals, RunStates

CONSTANTS
    Keys,       \* idempotency keys; a key names the run it created
    Users,      \* the project's members
    Editors,    \* those with change:create, change:edit and change:submit
    Approvers,  \* those with change:review
    Admins,     \* project administrators
    MaxRevision,\* bound on the candidate snapshots of the request
    Outcomes,   \* the results an execution can report
    None

ASSUME RoleAssumption ==
    /\ Editors \subseteq Users /\ Approvers \subseteq Users
    /\ Admins \subseteq Editors \cap Approvers

ASSUME GovernanceBounds ==
    /\ MaxRevision \in Nat \ {0}
    /\ Outcomes \subseteq Terminal
    /\ None \notin Keys \cup Users \cup Status

VARIABLES
    request,     \* change_requests.status, "NONE" before it exists
    author,      \* change_requests.created_by
    revision,    \* the snapshot candidate_baseline_id names, by its number
    content,     \* what a revision's change items ask of validation
    baseline,    \* case_baselines.status of each revision
    validation,  \* change_requests.validation_status
    linked,      \* change_requests.validation_run_id
    approvals,   \* approvals rows, each with the revision it was given for
    run,         \* test_runs rows
    linking,     \* requests to validate between their two transactions
    closing,     \* runs whose end is read but not yet committed
    canceling    \* runs a single cancel has read QUEUED and not yet locked

requestVars == <<request, author, revision, content, baseline>>
\* What a user's request, review or publication leaves alone of the runs.
pendingVars == <<linking, closing, canceling>>
vars == <<requestVars, validation, linked, approvals, run, pendingVars>>

Revisions == 1..MaxRevision
RequestStates == {"NONE", "DRAFT", "IN_REVIEW", "CHANGES_REQUESTED", "CANDIDATE", "PUBLISHED"}
BaselineStates == {"NONE", "DRAFT", "SUPERSEDED", "CANDIDATE", "RELEASED"}
ValidationStates == {"NOT_REQUIRED", "PENDING_EXECUTION", "QUEUED"} \cup Terminal

\* No changed case needs execution, some enabled cases do, or all of them do.
Contents == {"light", "partial", "whole"}
\* The cases of a run: every enabled one, the changed ones, or a failed subset.
Scopes == {"all", "changed", "some"}
\* The call whose hash is stored with the idempotency key.
Calls == {"validation", "regression", "rerun"}
\* outcome is the status a run's end reported: in its result document when it
\* has one (result), in its run_recovered event otherwise.
Run == [rev : 0..MaxRevision, scope : Scopes, call : Calls, status : Status,
        result : BOOLEAN, outcome : Terminal \cup {None}]
Approval == [by : Users, decision : {"APPROVE", "REQUEST_CHANGES"}, rev : Revisions]

TypeOK ==
    /\ request \in RequestStates
    /\ author \in Users \cup {None}
    /\ revision \in 0..MaxRevision
    /\ content \in [Revisions -> Contents]
    /\ baseline \in [Revisions -> BaselineStates]
    /\ validation \in ValidationStates
    /\ linked \in Keys \cup {None}
    /\ approvals \subseteq Approval
    /\ run \in [Keys -> Run]
    /\ linking \in [Keys -> ValidationStates \cup {None}]
    /\ closing \in [Keys -> [to : Terminal, result : BOOLEAN,
                             sees : ValidationStates \cup {None}] \cup {None}]
    /\ canceling \subseteq Keys

NewRun(v, scope, call, s) ==
    [rev |-> v, scope |-> scope, call |-> call, status |-> s,
     result |-> FALSE, outcome |-> None]

Init ==
    /\ request = "NONE" /\ author = None /\ revision = 0
    /\ content = [v \in Revisions |-> "light"]
    /\ baseline = [v \in Revisions |-> "NONE"]
    /\ validation = "NOT_REQUIRED" /\ linked = None
    /\ approvals = {}
    /\ run = [k \in Keys |-> NewRun(0, "some", "rerun", "ABSENT")]
    /\ linking = [k \in Keys |-> None]
    /\ closing = [k \in Keys |-> None]
    /\ canceling = {}

-----------------------------------------------------------------------------
(* Drafts *)

Editable == request \in {"DRAFT", "CHANGES_REQUESTED"}
\* requires_execution_validation of some change item.
NeedsRun(c) == c # "light"
\* Variant: a status no reader of validation_status knows.
UnvalidatedMisspelt(c) == IF NeedsRun(c) THEN "PENDING" ELSE "NOT_REQUIRED"
Unvalidated(c) == IF NeedsRun(c) THEN "PENDING_EXECUTION" ELSE "NOT_REQUIRED"

\* Variant: an edit leaves the previous snapshot a DRAFT.
NewCandidateBesideOld(v, c, superseding) ==
    /\ revision' = v
    /\ content' = [content EXCEPT ![v] = c]
    /\ baseline' = [baseline EXCEPT ![v] = "DRAFT"]
    /\ request' = "DRAFT"
    /\ validation' = Unvalidated(c)

\* The candidate snapshot of revision v, with the statuses it starts from.
NewCandidate(v, c, superseding) ==
    /\ revision' = v
    /\ content' = [content EXCEPT ![v] = c]
    /\ baseline' = [w \in Revisions |->
                      IF w = v THEN "DRAFT"
                      ELSE IF w \in superseding THEN "SUPERSEDED" ELSE baseline[w]]
    /\ request' = "DRAFT"
    /\ validation' = Unvalidated(c)

\* create_change_request.
CreateRequest(u, c) ==
    /\ request = "NONE" /\ u \in Editors
    /\ author' = u
    /\ NewCandidate(1, c, {})
    /\ UNCHANGED <<linked, approvals, run, pendingVars>>

\* apply_git_release, by somebody with project:manage: the manifest's baseline
\* becomes the candidate of a request when it differs from the RELEASED one and
\* no request has its version.  With its own version already imported nothing
\* changes, so that what reviewers saw is not imported over.
ImportRelease(u, c) == u \in Admins /\ CreateRequest(u, c)

\* Variant: edits allowed until publication.
UpdateUnpublished(u, c) ==
    /\ request # "PUBLISHED" /\ revision \in 1..(MaxRevision - 1) /\ u \in Editors
    /\ u = author \/ u \in Admins
    /\ NewCandidate(revision + 1, c, {revision})
    /\ linked' = None
    /\ UNCHANGED <<author, approvals, run, pendingVars>>

\* update_change_request.
UpdateRequest(u, c) ==
    /\ Editable /\ u \in Editors
    /\ u = author \/ u \in Admins
    /\ baseline[revision] = "DRAFT"
    /\ revision < MaxRevision
    /\ NewCandidate(revision + 1, c, {revision})
    /\ linked' = None
    /\ UNCHANGED <<author, approvals, run, pendingVars>>

\* submit_change_request.
Submit(u) ==
    /\ u \in Editors /\ u = author
    /\ request = "DRAFT"
    /\ validation \in {"PASSED", "NOT_REQUIRED"}
    /\ request' = "IN_REVIEW"
    /\ UNCHANGED <<author, revision, content, baseline, validation, linked, approvals,
                   run, pendingVars>>

-----------------------------------------------------------------------------
(* Review *)

Record(u, decision) ==
    approvals' = approvals \cup {[by |-> u, decision |-> decision, rev |-> revision]}

\* Variant: a decision accepted at any stage.
RequestChangesAnytime(u) ==
    /\ u \in Approvers /\ request # "NONE" /\ u # author
    /\ Record(u, "REQUEST_CHANGES")
    /\ request' = "CHANGES_REQUESTED"
    /\ UNCHANGED <<author, revision, content, baseline, validation, linked, run, pendingVars>>

RequestChanges(u) ==
    /\ u \in Approvers /\ request = "IN_REVIEW" /\ u # author
    /\ Record(u, "REQUEST_CHANGES")
    /\ request' = "CHANGES_REQUESTED"
    /\ UNCHANGED <<author, revision, content, baseline, validation, linked, run, pendingVars>>

Approve(u) ==
    /\ u \in Approvers /\ request = "IN_REVIEW" /\ u # author
    /\ baseline[revision] = "DRAFT"
    /\ Record(u, "APPROVE")
    /\ baseline' = [baseline EXCEPT ![revision] = "CANDIDATE"]
    /\ request' = "CANDIDATE"
    /\ UNCHANGED <<author, revision, content, validation, linked, run, pendingVars>>

-----------------------------------------------------------------------------
(* Validation, regression and rerun *)

\* _queue_snapshot_run, under a key that has no run yet.
InsertRun(k, v, scope, call) ==
    /\ run[k].status = "ABSENT"
    /\ run' = [run EXCEPT ![k] = NewRun(v, scope, call, "QUEUED")]

AffectedScope(v) == IF content[v] = "whole" THEN "all" ELSE "changed"
Ended(k) == run[k].status \in Terminal

\* create_validation_run lets a new run start when the linked one is over.
NoRunUnderWay == linked \in Keys => Ended(linked)

\* No changed case needs execution: the validation is waived.
WaiveValidation ==
    /\ Editable /\ ~NeedsRun(content[revision])
    /\ validation' = "NOT_REQUIRED" /\ linked' = None
    /\ UNCHANGED <<requestVars, approvals, run, pendingVars>>

\* First transaction: create_run inserts the run and commits, with the lock.
StartValidation(k) ==
    /\ Editable /\ NeedsRun(content[revision]) /\ NoRunUnderWay
    /\ baseline[revision] = "DRAFT"
    /\ InsertRun(k, revision, AffectedScope(revision), "validation")
    /\ linking' = [linking EXCEPT ![k] = validation]
    /\ UNCHANGED <<requestVars, validation, linked, approvals, closing, canceling>>

\* Second transaction.  No state of the request is looked at again.
LinkRun(k) ==
    /\ linking[k] # None
    /\ linked' = k
    /\ validation' = IF linking[k] = "QUEUED" THEN validation ELSE "QUEUED"
    /\ linking' = [linking EXCEPT ![k] = None]
    /\ UNCHANGED <<requestVars, approvals, run, closing, canceling>>

\* The process or its connection is lost between the two.
LinkLost(k) ==
    /\ linking[k] # None
    /\ linking' = [linking EXCEPT ![k] = None]
    /\ UNCHANGED <<requestVars, validation, linked, approvals, run, closing, canceling>>

\* The same call with the key of a run of this revision: create_run finds the
\* run and commits nothing, so the row stays locked up to the link.  With the
\* linked run's own key the call returns earlier and changes nothing.
RetryValidation(k) ==
    /\ Editable /\ NeedsRun(content[revision]) /\ NoRunUnderWay
    /\ linked # k
    /\ run[k].rev = revision /\ run[k].call = "validation"
    /\ linked' = k /\ validation' = "QUEUED"
    /\ UNCHANGED <<requestVars, approvals, run, pendingVars>>

\* create_candidate_run: every enabled case of the candidate.
StartRegression(k) ==
    /\ request = "CANDIDATE" /\ baseline[revision] = "CANDIDATE"
    /\ InsertRun(k, revision, "all", "regression")
    /\ UNCHANGED <<requestVars, validation, linked, approvals, pendingVars>>

\* create_rerun of an ended run, whole or of the failed cases its result document
\* lists; only a PASSED one has none.  It asks for no baseline status and links
\* nothing.
Rerun(k, source, scope) ==
    /\ Ended(source)
    /\ \/ scope = run[source].scope
       \/ scope = "some" /\ run[source].result /\ run[source].outcome # "PASSED"
    /\ InsertRun(k, run[source].rev, scope, "rerun")
    /\ UNCHANGED <<requestVars, validation, linked, approvals, pendingVars>>

-----------------------------------------------------------------------------
(* The ends of runs *)

Quiet(k) == run[k].status # "ABSENT" /\ closing[k] = None

\* update_run_status.
RunStarts(k, s) ==
    /\ Quiet(k) /\ s \in Started /\ CanMove(run[k].status, s)
    /\ run' = [run EXCEPT ![k].status = s]
    /\ UNCHANGED <<requestVars, validation, linked, approvals, pendingVars>>

\* cancel_runs, which locks the rows it reads: a QUEUED run is canceled and the
\* request is not told.  (A started run gets a flag its worker answers.)
CancelQueued(k) ==
    /\ Quiet(k) /\ run[k].status = "QUEUED"
    /\ run' = [run EXCEPT ![k].status = "CANCELED"]
    /\ UNCHANGED <<requestVars, validation, linked, approvals, pendingVars>>

\* post_run_cancel loads the row for the authorization, without a lock.
CancelRead(k) ==
    /\ run[k].status = "QUEUED" /\ k \notin canceling
    /\ canceling' = canceling \cup {k}
    /\ UNCHANGED <<requestVars, validation, linked, approvals, run, linking, closing>>

\* cancel_run waits for the row lock but decides on what CancelRead saw: the row
\* is written CANCELED whatever its status is by now, and its result document,
\* validation_status and the rest stay.  Nothing is written when another cancel of
\* the run came first: its outbox key refuses this one.
CancelCommit(k) ==
    /\ k \in canceling /\ closing[k] = None
    /\ \/ run' = [run EXCEPT ![k].status = "CANCELED"]
       \/ UNCHANGED run
    /\ canceling' = canceling \ {k}
    /\ UNCHANGED <<requestVars, validation, linked, approvals, linking, closing>>

\* Variant: the request is told before the run ends.
EndReadsEarly(k, s, result) ==
    /\ Quiet(k) /\ CanMove(run[k].status, s)
    /\ s \in IF result THEN Outcomes \cup {"INFRA_ERROR"} ELSE {"INFRA_ERROR", "TIMED_OUT"}
    /\ closing' = [closing EXCEPT ![k] = [to |-> s, result |-> result, sees |-> None]]
    /\ validation' = IF linked = k THEN s ELSE validation
    /\ UNCHANGED <<requestVars, linked, approvals, run, linking, canceling>>

\* record_run_result (a result) or _recover_run (none) with the run row
\* locked: the request that names the run is read, without a lock.
EndReads(k, s, result) ==
    /\ Quiet(k) /\ CanMove(run[k].status, s)
    /\ s \in IF result THEN Outcomes \cup {"INFRA_ERROR"} ELSE {"INFRA_ERROR", "TIMED_OUT"}
    /\ closing' = [closing EXCEPT ![k] =
                     [to |-> s, result |-> result,
                      sees |-> IF linked = k THEN validation ELSE None]]
    /\ UNCHANGED <<requestVars, validation, linked, approvals, run, linking, canceling>>

\* The transaction writes the request by its primary key, whatever it is by
\* now, and the run.
EndCommits(k) ==
    /\ closing[k] # None
    /\ run' = [run EXCEPT ![k].status = closing[k].to, ![k].outcome = closing[k].to,
                          ![k].result = closing[k].result]
    /\ validation' = IF closing[k].sees \in {None, closing[k].to} THEN validation
                     ELSE closing[k].to
    /\ closing' = [closing EXCEPT ![k] = None]
    /\ UNCHANGED <<requestVars, linked, approvals, linking, canceling>>

-----------------------------------------------------------------------------
(* Publication *)

\* The run executed every enabled case of the current candidate and passed.
FullPass(k, v) ==
    /\ run[k].rev = v /\ run[k].scope = "all"
    /\ run[k].status = "PASSED" /\ run[k].result

\* Variant: any full regression of the request, of an earlier snapshot too.
PublishEarlierPass(k) ==
    /\ request = "CANDIDATE"
    /\ \E v \in Revisions : FullPass(k, v)
    /\ baseline[revision] = "CANDIDATE"
    /\ baseline' = [baseline EXCEPT ![revision] = "RELEASED"]
    /\ request' = "PUBLISHED"
    /\ UNCHANGED <<author, revision, content, validation, linked, approvals, run, pendingVars>>

\* publish_change_request.
Publish(k) ==
    /\ request = "CANDIDATE"
    /\ FullPass(k, revision)
    /\ baseline[revision] = "CANDIDATE"
    /\ baseline' = [baseline EXCEPT ![revision] = "RELEASED"]
    /\ request' = "PUBLISHED"
    /\ UNCHANGED <<author, revision, content, validation, linked, approvals, run, pendingVars>>

-----------------------------------------------------------------------------

Drafting ==
    \E u \in Users :
        \/ Submit(u)
        \/ \E c \in Contents : CreateRequest(u, c) \/ ImportRelease(u, c) \/ UpdateRequest(u, c)
Reviewing == \E u \in Users : RequestChanges(u) \/ Approve(u)
Requesting ==
    \/ WaiveValidation
    \/ \E k \in Keys :
        \/ StartValidation(k) \/ LinkRun(k) \/ LinkLost(k) \/ RetryValidation(k)
        \/ StartRegression(k) \/ Publish(k)
        \/ \E source \in Keys, scope \in Scopes : Rerun(k, source, scope)
Running ==
    \E k \in Keys :
        \/ CancelQueued(k) \/ CancelRead(k) \/ CancelCommit(k) \/ EndCommits(k)
        \/ \E s \in Started : RunStarts(k, s)
        \/ \E s \in Terminal, result \in BOOLEAN : EndReads(k, s, result)

Next == Drafting \/ Reviewing \/ Requesting \/ Running
Spec == Init /\ [][Next]_vars

-----------------------------------------------------------------------------
(* Properties *)

\* The candidate snapshots and the request agree: an edit retires the previous
\* snapshot and no other one, and the current snapshot has the status its
\* request's stage asks for (update_change_request, review_change_request).
BaselinesFollowRequest ==
    \A v \in Revisions :
        baseline[v] = IF v > revision THEN "NONE"
                      ELSE IF v < revision THEN "SUPERSEDED"
                      ELSE IF request = "CANDIDATE" THEN "CANDIDATE"
                      ELSE IF request = "PUBLISHED" THEN "RELEASED" ELSE "DRAFT"

\* The run's result document is that of a pass of every enabled case of v.
PassReported(k, v) ==
    /\ run[k].rev = v /\ run[k].scope = "all"
    /\ run[k].result /\ run[k].outcome = "PASSED"

\* A baseline is released only with the approval of somebody else than its
\* author for that very snapshot, and a run of every enabled case of that very
\* snapshot whose result document says PASSED, in whatever order edits, reviews,
\* reruns, late results and cancels arrive (publish_change_request,
\* review_change_request).  The status of that run may be CANCELED since: a cancel
\* that read it QUEUED writes over it (routes.py:1623, services.py:2616).
ReleaseEarned ==
    \A v \in Revisions :
        baseline[v] = "RELEASED" =>
            /\ \E a \in approvals : a.rev = v /\ a.decision = "APPROVE" /\ a.by # author
            /\ \E k \in Keys : PassReported(k, v)

\* A validation outcome on the request is what the end of some validation run
\* reported, never what a rerun, a regression or a run that has not ended would
\* say; a cancel may since have written over that run's status, not over what it
\* reported (record_run_result, _recover_run).
ValidationWasReported ==
    validation \in Terminal =>
        \E k \in Keys : run[k].call = "validation" /\ run[k].outcome = validation

\* Once published, no edit, review or late callback moves the request, its
\* snapshot or any baseline again.
ReleaseIsFinal == [][request = "PUBLISHED" => UNCHANGED requestVars]_vars

\* Once a snapshot has an approval it stays the request's candidate with the
\* content the reviewer saw, whatever editors and validations do (the status
\* guards of update_change_request, taken under the row lock).
ReviewedContentIsFrozen ==
    [][(\E a \in approvals : a.decision = "APPROVE" /\ a.rev = revision)
          => UNCHANGED <<revision, content, author>>]_vars

\* What governance.py:443 promises: "affected cases must pass draft validation
\* before submission".  A request past submission has a run of its current
\* snapshot's changed cases that passed, unless no change needs one.
SubmittedIsValidated ==
    request \in {"IN_REVIEW", "CANDIDATE", "PUBLISHED"} /\ NeedsRun(content[revision])
        => \E k \in Keys : run[k].rev = revision /\ run[k].outcome = "PASSED"
=============================================================================
