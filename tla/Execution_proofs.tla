-------------------------- MODULE Execution_proofs --------------------------
(***************************************************************************)
(* Machine-checked proofs about Execution, for any number of events.       *)
(***************************************************************************)
EXTENDS Execution, FiniteSetTheorems, TLAPS

\* None stands for NULL: it is no document and no number of events.
Bounds == MaxEvents \in Nat /\ None \notin Document /\ None \notin Nat

-----------------------------------------------------------------------------
(* Where the task is and what it has made                                  *)

Unkept == {"prepare", "reclaim", "create", "verify", "poll", "clean", "keep"}
Reporting == {"replay", "upload", "report"}

\* The resources that are there before the workload is created.
Partial ==
    CASE mode = "SUBPROCESS" -> {{}}
      [] mode = "CONTAINER" -> {{}, {"volume"}, {"volume", "input"}}
      [] mode = "KUBERNETES" -> {{}, {"input"}, {"input", "policy"}}

PlaceInv ==
    /\ task # "running" => pc = "idle"
    /\ pc \notin {"create", "verify", "poll", "clean"} => created = {}
    /\ pc = "create" => created \in Partial
    /\ pc \in {"clean", "keep"} \cup Reporting => outcome # None
    /\ Hard /\ pc = "poll" => verified

\* A child process lives no longer than its task watches it; an orphan has the
\* run's directory, and only a fresh directory has a running child.
OrphanAlive == intruder \in {"running"} \cup Own
ChildInv ==
    /\ child \in Own => ~Hard /\ log # None
    /\ OrphanAlive => ~Hard /\ log # None
    /\ ~Hard =>
          /\ present \subseteq created
          /\ child # "none" => "workload" \in present
          /\ child = "idle" => written = 0
          /\ child = "running" => ~OrphanAlive /\ log = written
          /\ child = "passed" => result # None

\* What has been verified, and what was reported of it.
TaskInv == TypeOK /\ PlaceInv /\ ChildInv /\ EvidenceWasVerified

\* While the task reports, the control plane has what the workspace holds, and
\* its report ends the run only when the task has let go of it.
TimelineInv ==
    /\ status = "reported" => task # "running"
    /\ ~Orphaned /\ log # None /\ (status = "reported" \/ pc \in {"upload", "report"}) =>
          1..log \subseteq timeline

\* Nothing is executed again after a report, and the kept result is the one
\* that is reported, once more or for the first time.
SentInv ==
    intruder = "none" =>
        /\ pc \in Unkept => sent = {}
        /\ pc \in Reporting => result # None /\ outcome = result
        /\ pc = "cancel" => canceled /\ result = None
        /\ \/ result # None /\ sent \subseteq {result}
           \/ result = None /\ sent \subseteq {Bare("CANCELED")} /\ (sent # {} => canceled)

-----------------------------------------------------------------------------
(* Every step keeps the task's invariant                                   *)

\* What the next resource is, and what has been created then.
LEMMA NextResource ==
    ASSUME TypeOK, PlaceInv, pc = "create", NEW next, next = Resources[mode][Cardinality(created) + 1]
    PROVE  /\ next \in Range(Resources[mode])
           /\ next = "workload" \/ created \cup {next} \in Partial
<1>1. Cardinality({}) = 0 /\ \A x : Cardinality({x}) = 1
  BY FS_EmptySet, FS_Singleton
<1>2. ASSUME NEW x, NEW y, x # y PROVE Cardinality({x, y}) = 2
  <2>1. IsFiniteSet({x}) /\ Cardinality({x}) = 1 /\ y \notin {x}
    BY <1>2, FS_Singleton
  <2>2. Cardinality({x} \cup {y}) = Cardinality({x}) + 1
    BY <2>1, FS_AddElement
  <2> QED  BY <2>1, <2>2, {x, y} = {x} \cup {y}
<1>3. \A i \in 1..3 : JobResources[i] \in Range(JobResources) /\ ContainerResources[i] \in Range(ContainerResources)
  BY DEF Range, JobResources, ContainerResources
<1>4. created \in Partial
  BY DEF PlaceInv
<1>5. CASE mode = "SUBPROCESS"
  <2>1. Resources[mode] = <<"workload">>
    BY <1>5 DEF Resources
  <2>2. Cardinality(created) = 0
    BY <1>1, <1>4, <1>5 DEF Partial
  <2>3. next = "workload"
    BY <2>1, <2>2
  <2> QED  BY <2>1, <2>3 DEF Range
<1>6. CASE mode = "CONTAINER"
  <2>1. Resources[mode] = ContainerResources
    BY <1>6 DEF Resources
  <2>2. created \in {{}, {"volume"}, {"volume", "input"}}
    BY <1>4, <1>6 DEF Partial
  <2>3. CASE created = {}
    <3>1. next = "volume" /\ created \cup {next} = {"volume"}
      BY <1>1, <2>1, <2>3 DEF ContainerResources
    <3> QED  BY <1>3, <1>6, <2>1, <3>1 DEF ContainerResources, Partial
  <2>4. CASE created = {"volume"}
    <3>0. Cardinality(created) = 1
      BY <1>1, <2>4
    <3>1. next = "input"
      BY <2>1, <3>0 DEF ContainerResources
    <3>2. created \cup {next} = {"volume", "input"}
      BY <2>4, <3>1
    <3> QED  BY <3>2, <1>3, <1>6, <2>1, <3>1 DEF ContainerResources, Partial
  <2>5. CASE created = {"volume", "input"}
    <3>1. Cardinality(created) = 2
      BY <1>2, <2>5
    <3> QED  BY <1>3, <2>1, <3>1 DEF ContainerResources
  <2> QED  BY <2>2, <2>3, <2>4, <2>5
<1>7. CASE mode = "KUBERNETES"
  <2>1. Resources[mode] = JobResources
    BY <1>7 DEF Resources
  <2>2. created \in {{}, {"input"}, {"input", "policy"}}
    BY <1>4, <1>7 DEF Partial
  <2>3. CASE created = {}
    <3>1. next = "input" /\ created \cup {next} = {"input"}
      BY <1>1, <2>1, <2>3 DEF JobResources
    <3> QED  BY <1>3, <1>7, <2>1, <3>1 DEF JobResources, Partial
  <2>4. CASE created = {"input"}
    <3>0. Cardinality(created) = 1
      BY <1>1, <2>4
    <3>1. next = "policy"
      BY <2>1, <3>0 DEF JobResources
    <3>2. created \cup {next} = {"input", "policy"}
      BY <2>4, <3>1
    <3> QED  BY <3>2, <1>3, <1>7, <2>1, <3>1 DEF JobResources, Partial
  <2>5. CASE created = {"input", "policy"}
    <3>1. Cardinality(created) = 2
      BY <1>2, <2>5
    <3> QED  BY <1>3, <2>1, <3>1 DEF JobResources
  <2> QED  BY <2>2, <2>3, <2>4, <2>5
<1> QED  BY <1>5, <1>6, <1>7 DEF TypeOK, Modes

LEMMA PartialFacts ==
    ASSUME TypeOK
    PROVE  {} \in Partial /\ (mode' = mode => Partial' = Partial)
BY DEF TypeOK, Modes, Partial

\* Steps that concern neither the task's place nor, in the second case, the
\* workload.
LEMMA PlaceKept == ASSUME TypeOK, PlaceInv, UNCHANGED <<mode, task, local>> PROVE PlaceInv'
BY PartialFacts DEF PlaceInv, Hard, local, Reporting

LEMMA ChildKept == ASSUME ChildInv, UNCHANGED <<mode, created, workload, workspace>> PROVE ChildInv'
BY DEF ChildInv, OrphanAlive, Hard, workload, workspace

LEMMA EvidenceKept == ASSUME EvidenceWasVerified, UNCHANGED <<mode, result, outcome>> PROVE EvidenceWasVerified'
BY DEF EvidenceWasVerified, Hard

\* The documents that carry no verified evidence.
LEMMA PlainDocuments ==
    ASSUME Bounds, NEW verdict \in Verdicts
    PROVE  /\ Bare(verdict) \in Document /\ Bare(verdict) # None /\ ~Bare(verdict).evidence
           /\ Enriched(verdict) \in Document /\ Enriched(verdict) # None
<1>1. Bare(verdict) \in Document /\ ~Bare(verdict).evidence
  BY DEF Bare, Document
<1>2. Enriched(verdict) = [verdict |-> verdict, evidence |-> TRUE, checked |-> FALSE]
  BY DEF Enriched, Bare
<1>3. Enriched(verdict) \in Document
  BY <1>2 DEF Document
<1> QED  BY <1>1, <1>3 DEF Bounds

LEMMA EnvironmentStep ==
    ASSUME Bounds, TaskInv, RequestCancel \/ EndElsewhere
    PROVE  TaskInv'
<1>1. UNCHANGED <<mode, task, local, workload, workspace>>
  BY DEF RequestCancel, EndElsewhere
<1>2. UNCHANGED <<created, result, outcome>>
  BY <1>1 DEF local, workspace
<1>3. TypeOK'
  BY DEF TaskInv, TypeOK, RequestCancel, EndElsewhere, local, workload, workspace
<1> QED  BY <1>1, <1>2, <1>3, PlaceKept, ChildKept, EvidenceKept DEF TaskInv

LEMMA ChildStep ==
    ASSUME Bounds, TaskInv,
           ChildStarts \/ ChildWrites \/ ChildEnriches \/ ChildBreaks \/ \E verdict \in Own : ChildConcludes(verdict)
    PROVE  TaskInv'
<1>1. UNCHANGED <<mode, task, local, created, outcome, present>>
  BY DEF ChildStarts, ChildWrites, ChildEnriches, ChildBreaks, ChildConcludes, platform, local
<1>2. PlaceInv'
  BY <1>1, PlaceKept DEF TaskInv
<1>3. CASE ChildStarts
  <2>1. TypeOK'
    BY <1>3 DEF Bounds, TaskInv, TypeOK, ChildStarts, platform, local
  <2>2. ChildInv'
    BY <1>3 DEF Bounds, TaskInv, ChildInv, OrphanAlive, ChildStarts, Occupied, Hard, Own, platform, local
  <2> QED  BY <1>1, <1>2, <1>3, <2>1, <2>2, EvidenceKept DEF TaskInv, ChildStarts
<1>4. CASE ChildWrites
  <2>1. TypeOK'
    BY <1>4 DEF Bounds, TaskInv, TypeOK, ChildInv, OrphanAlive, ChildWrites, platform, local, Hard
  <2>2. ChildInv'
    BY <1>4 DEF Bounds, TaskInv, ChildInv, OrphanAlive, ChildWrites, Hard, Own, platform, local
  <2> QED  BY <1>1, <1>2, <1>4, <2>1, <2>2, EvidenceKept DEF TaskInv, ChildWrites
<1>5. CASE ChildEnriches
  <2>1. result' \in Document /\ result' # None /\ ~Hard
    BY <1>5, PlainDocuments DEF TaskInv, ChildInv, OrphanAlive, ChildEnriches, Verdicts
  <2>2. TypeOK'
    BY <1>5, <2>1 DEF TaskInv, TypeOK, ChildEnriches, platform, local
  <2>3. ChildInv'
    BY <1>5, <2>1 DEF Bounds, TaskInv, ChildInv, OrphanAlive, ChildEnriches, Hard, Own, platform, local
  <2> QED  BY <1>1, <1>2, <2>1, <2>2, <2>3 DEF TaskInv, EvidenceWasVerified, Hard
<1>6. CASE ChildBreaks
  <2>1. TypeOK'
    BY <1>6 DEF TaskInv, TypeOK, ChildBreaks, platform, local, workspace
  <2>2. ChildInv'
    BY <1>6 DEF Bounds, TaskInv, ChildInv, OrphanAlive, ChildBreaks, Hard, Own, platform, local, workspace
  <2> QED  BY <1>1, <1>2, <1>6, <2>1, <2>2, EvidenceKept DEF TaskInv, ChildBreaks, workspace
<1>7. ASSUME NEW verdict \in Own, ChildConcludes(verdict) PROVE TaskInv'
  <2>1. /\ UNCHANGED <<written, log, intruder>>
        /\ ~Hard => result' \in Document /\ result' # None /\ child' = verdict
        /\ Hard => result' = result /\ child' = "passed"
    BY <1>7, PlainDocuments DEF ChildConcludes, Verdicts
  <2>2. TypeOK'
    BY <1>1, <1>7, <2>1 DEF TaskInv, TypeOK, ChildConcludes, platform, local
  <2>3. ChildInv'
    <3>1. ~Hard => log # None
      BY <1>7 DEF Bounds, TaskInv, TypeOK, ChildInv, OrphanAlive, ChildConcludes
    <3>2. child = "running" /\ verdict \notin {"none", "idle", "running", "passed"} /\ "passed" \notin Own
      BY <1>7 DEF ChildConcludes, Own
    <3>3. CASE Hard
      BY <1>1, <2>1, <3>2, <3>3 DEF TaskInv, ChildInv, OrphanAlive, Hard
    <3>4. CASE ~Hard
      BY <1>1, <2>1, <3>1, <3>2, <3>4 DEF TaskInv, ChildInv, OrphanAlive, Hard
    <3> QED  BY <3>3, <3>4
  <2>4. EvidenceWasVerified'
    BY <1>1, <2>1 DEF TaskInv, EvidenceWasVerified, Hard
  <2> QED  BY <1>2, <2>2, <2>3, <2>4 DEF TaskInv
<1> QED  BY <1>3, <1>4, <1>5, <1>6, <1>7

\* Who else writes to the workspace: an orphan, or a copy of the task.
LEMMA IntruderStep ==
    ASSUME Bounds, TaskInv, OrphanWrites \/ OrphanConcludes \/ OrphanEnriches \/ CopyReceived \/ CopyKeeps
    PROVE  TaskInv'
<1>1. UNCHANGED <<mode, status, canceled, timeline, sent, task, local, created, verified, forwarded, pc, outcome,
                  present, child, written>>
  BY DEF OrphanWrites, OrphanConcludes, OrphanEnriches, CopyReceived, CopyKeeps, platform, local, workload
<1>2. OrphanWrites \/ OrphanConcludes \/ OrphanEnriches => ~Hard /\ log # None
  BY DEF OrphanWrites, OrphanConcludes, OrphanEnriches, TaskInv, ChildInv, OrphanAlive
<1>3. /\ log' \in 0..MaxEvents \cup {None} /\ (log # None => log' # None)
      /\ result' \in Document \cup {None} /\ (result # None => result' # None)
      /\ intruder' \in {"running", "over", "copy", "copied"} \cup Own
      /\ Hard => result' = result \/ (result' # None /\ ~result'.evidence)
      /\ \/ OrphanAlive /\ ~Hard
         \/ intruder' \in {"copy", "copied"} /\ log' = log
  <2>1. CASE OrphanWrites
    BY <1>2, <2>1 DEF Bounds, OrphanWrites, TaskInv, TypeOK, OrphanAlive
  <2>2. CASE OrphanConcludes
    BY <1>2, <2>2, PlainDocuments DEF OrphanConcludes, TaskInv, TypeOK, OrphanAlive, Own, Verdicts
  <2>3. CASE OrphanEnriches
    BY <1>2, <2>3, PlainDocuments DEF OrphanEnriches, TaskInv, TypeOK, OrphanAlive, Own, Verdicts
  <2>4. CASE CopyReceived
    BY <2>4 DEF CopyReceived, TaskInv, TypeOK
  <2>5. CASE CopyKeeps
    BY <2>5, PlainDocuments DEF CopyKeeps, TaskInv, TypeOK, Verdicts
  <2> QED  BY <2>1, <2>2, <2>3, <2>4, <2>5
<1>4. PlaceInv' /\ EvidenceWasVerified'
  BY <1>1, <1>3, PlaceKept DEF TaskInv, EvidenceWasVerified, Hard
<1>5. TypeOK'
  BY <1>1, <1>3 DEF TaskInv, TypeOK
<1>6. ChildInv'
  <2>1. CASE OrphanAlive /\ ~Hard
    BY <1>1, <1>3, <2>1 DEF TaskInv, ChildInv, OrphanAlive, Hard
  <2>2. CASE intruder' \in {"copy", "copied"} /\ log' = log
    <3>1. ~OrphanAlive'
      BY <2>2 DEF OrphanAlive, Own
    <3> QED  BY <1>1, <1>3, <2>2, <3>1 DEF TaskInv, ChildInv, OrphanAlive, Hard
  <2> QED  BY <1>3, <2>1, <2>2
<1> QED  BY <1>4, <1>5, <1>6 DEF TaskInv

\* The handlers' outcome claims isolation only when it has been verified.
LEMMA ConcludeKept ==
    ASSUME Bounds, TaskInv, task = "running", NEW verdict \in Verdicts, NEW evidence \in BOOLEAN,
           Conclude(verdict, evidence), Hard /\ evidence => verified, UNCHANGED <<mode, task>>
    PROVE  /\ PlaceInv' /\ pc' \in {"clean", "keep"} /\ outcome' \in Document
           /\ Hard /\ outcome'.evidence => outcome'.checked
<1> DEFINE document == [verdict |-> verdict, evidence |-> evidence, checked |-> verified]
<1>1. document \in Document /\ document.evidence = evidence /\ document.checked = verified
  BY DEF Document, TaskInv, TypeOK
<1> HIDE DEF document
<1>2. outcome' = document /\ pc' \in {"clean", "keep"} /\ (pc' = "keep" => created = {})
      /\ UNCHANGED <<created, verified, forwarded>>
  BY DEF Conclude, document
<1>3. PlaceInv'
  BY <1>1, <1>2 DEF Bounds, PlaceInv, Reporting
<1> QED  BY <1>1, <1>2, <1>3

LEMMA ReceiveStep == ASSUME Bounds, TaskInv, Receive PROVE TaskInv'
<1>1. /\ UNCHANGED <<platform, workload, workspace>> /\ task = "queued"
      /\ UNCHANGED <<created, verified, forwarded>> /\ outcome' \in {outcome, result}
      /\ task' \in {"done", "running"}
      /\ \/ task' = "done" /\ pc' = "idle"
         \/ task' = "running" /\ pc' = "replay" /\ outcome' # None
         \/ task' = "running" /\ pc' \in {"cancel", "prepare"}
  BY DEF Receive, Goto
<1>2. pc = "idle" /\ created = {}
  BY <1>1 DEF TaskInv, PlaceInv
<1>3. TypeOK'
  BY <1>1 DEF TaskInv, TypeOK, platform, workload, workspace
<1>4. PlaceInv'
  BY <1>1, <1>2 DEF PlaceInv, Reporting
<1>5. ChildInv'
  BY <1>1, ChildKept DEF TaskInv, platform
<1>6. EvidenceWasVerified'
  BY <1>1 DEF TaskInv, EvidenceWasVerified, Hard, platform, workspace
<1> QED  BY <1>3, <1>4, <1>5, <1>6 DEF TaskInv

LEMMA CrashStep == ASSUME Bounds, TaskInv, Crash \/ CrashAlone PROVE TaskInv'
<1>1. /\ UNCHANGED <<platform, log, result>> /\ task' = "queued" /\ pc' = "idle" /\ created' = {}
      /\ verified' = FALSE /\ forwarded' = 0 /\ outcome' = None
      /\ \/ Hard /\ UNCHANGED <<workload, intruder>>
         \/ /\ ~Hard /\ present' = {} /\ child' = "none" /\ written' = 0
            /\ \/ UNCHANGED intruder
               \/ intruder' = child /\ child \in {"running"} \cup Own
  BY DEF Crash, CrashAlone, Forget, Hard, workspace, workload
<1>2. /\ intruder' \in {"none", "running", "over", "copy", "copied"} \cup Own
      /\ OrphanAlive' => log # None
  BY <1>1 DEF Bounds, TaskInv, TypeOK, ChildInv, OrphanAlive
<1>0. UNCHANGED <<mode, status, canceled, timeline, sent>> /\ 0 \in 0..MaxEvents
  BY <1>1 DEF Bounds, platform
<1>3. TypeOK'
  <2>1. CASE Hard
    BY <1>0, <1>1, <1>2, <2>1 DEF TaskInv, TypeOK, workload
  <2>2. CASE ~Hard
    BY <1>0, <1>1, <1>2, <2>2 DEF TaskInv, TypeOK
  <2> QED  BY <2>1, <2>2
<1>4. PlaceInv'
  BY <1>1 DEF PlaceInv, Reporting
<1>5. ChildInv'
  <2>1. CASE Hard
    BY <1>1, <2>1 DEF TaskInv, ChildInv, OrphanAlive, Hard, platform, workload
  <2>2. CASE ~Hard
    BY <1>1, <1>2, <2>2 DEF TaskInv, ChildInv, OrphanAlive, Hard, Own, platform
  <2> QED  BY <2>1, <2>2
<1>6. EvidenceWasVerified'
  BY <1>1 DEF TaskInv, EvidenceWasVerified, Hard, platform
<1> QED  BY <1>3, <1>4, <1>5, <1>6 DEF TaskInv

\* A step of the task that leaves the workload and the workspace alone.
LEMMA TaskKept ==
    ASSUME TaskInv, UNCHANGED <<mode, status, canceled, sent, created, workload, workspace>>,
           timeline' \subseteq 1..MaxEvents,
           task' \in {"queued", "running", "done", "dropped"}, pc' \in {"idle", "prepare", "reclaim", "create",
               "verify", "poll", "clean", "keep", "replay", "upload", "report", "cancel"},
           verified' \in BOOLEAN, forwarded' \in 0..MaxEvents, outcome' \in Document \cup {None},
           PlaceInv', Hard /\ outcome' # None /\ outcome'.evidence => outcome'.checked
    PROVE  TaskInv'
<1>1. TypeOK'
  BY DEF TaskInv, TypeOK, workload, workspace
<1>2. ChildInv'
  BY ChildKept DEF TaskInv
<1>3. EvidenceWasVerified'
  BY DEF TaskInv, EvidenceWasVerified, Hard, workspace
<1> QED  BY <1>1, <1>2, <1>3 DEF TaskInv

LEMMA RedeliverStep == ASSUME Bounds, TaskInv, Redeliver PROVE TaskInv'
<1>1. UNCHANGED <<mode, status, canceled, sent, timeline, created, verified, forwarded, outcome, pc, workload,
                  workspace>> /\ task' = "queued" /\ task # "running"
  BY DEF Redeliver, platform, local
<1>2. PlaceInv'
  BY <1>1, PartialFacts DEF TaskInv, PlaceInv, Hard
<1> QED  BY <1>1, <1>2, TaskKept DEF TaskInv, TypeOK, EvidenceWasVerified

\* A handler's outcome, and nothing else.
LEMMA ConcludeStep ==
    ASSUME Bounds, TaskInv, task = "running", NEW verdict \in Verdicts, NEW evidence \in BOOLEAN,
           Conclude(verdict, evidence), Hard /\ evidence => verified,
           UNCHANGED <<platform, task, workload, workspace>>
    PROVE  TaskInv'
<1>1. UNCHANGED <<mode, status, canceled, sent, timeline, task, created, verified, forwarded>>
  BY DEF Conclude, platform
<1>2. /\ PlaceInv' /\ pc' \in {"clean", "keep"} /\ outcome' \in Document
      /\ Hard /\ outcome'.evidence => outcome'.checked
  BY <1>1, ConcludeKept
<1> QED  BY <1>1, <1>2, TaskKept DEF TaskInv, TypeOK

LEMMA HandlerStep ==
    ASSUME Bounds, TaskInv,
           \/ Prepare \/ CreateFails \/ VerifyContainer \/ VerifyPod
           \/ WatchProcess \/ WatchContainer \/ WatchJob
    PROVE  TaskInv'
<1>1. /\ UNCHANGED <<platform, task, workload, workspace>> /\ task = "running"
      /\ \/ \E verdict \in Verdicts, evidence \in BOOLEAN :
              Conclude(verdict, evidence) /\ (Hard /\ evidence => verified)
         \/ pc = "prepare" /\ pc' \in {"reclaim", "create"} /\ UNCHANGED <<created, verified, forwarded, outcome>>
         \/ pc = "verify" /\ pc' = "poll" /\ verified' = TRUE /\ UNCHANGED <<created, forwarded, outcome>>
  <2>1. CASE Prepare
    BY <2>1 DEF Prepare, At, Goto, Verdicts
  <2>2. CASE CreateFails
    <3>1. Evidence \in BOOLEAN /\ (Hard /\ Evidence => verified)
      BY DEF Evidence, TaskInv, TypeOK
    <3> QED  BY <2>2, <3>1 DEF CreateFails, At, Verdicts
  <2>3. CASE VerifyContainer \/ VerifyPod
    BY <2>3 DEF VerifyContainer, VerifyPod, ReadsBack, At, Verdicts
  <2>4. CASE WatchProcess \/ WatchContainer \/ WatchJob
    <3>1. Evidence \in BOOLEAN /\ (Hard /\ Evidence => verified)
      BY DEF Evidence, TaskInv, TypeOK
    <3>2. GivesUp /\ task = "running"
      BY <2>4 DEF WatchProcess, WatchContainer, WatchJob, At
    <3>3. \E verdict \in Verdicts : Conclude(verdict, Evidence)
      BY <3>2 DEF GivesUp, Verdicts
    <3> QED  BY <3>1, <3>2, <3>3 DEF GivesUp
  <2> QED  BY <2>1, <2>2, <2>3, <2>4
<1>2. ASSUME NEW verdict \in Verdicts, NEW evidence \in BOOLEAN, Conclude(verdict, evidence),
             Hard /\ evidence => verified
      PROVE  TaskInv'
  BY <1>1, <1>2, ConcludeStep
<1>3. UNCHANGED <<mode, status, canceled, sent, timeline>>
  BY <1>1 DEF platform
<1>4. CASE pc = "prepare" /\ pc' \in {"reclaim", "create"} /\ UNCHANGED <<created, verified, forwarded, outcome>>
  <2>1. PlaceInv'
    BY <1>1, <1>3, <1>4, PartialFacts DEF TaskInv, PlaceInv, Reporting
  <2> QED  BY <1>1, <1>3, <1>4, <2>1, TaskKept DEF TaskInv, TypeOK, EvidenceWasVerified
<1>5. CASE pc = "verify" /\ pc' = "poll" /\ verified' = TRUE /\ UNCHANGED <<created, forwarded, outcome>>
  <2>1. PlaceInv'
    BY <1>1, <1>3, <1>5 DEF TaskInv, PlaceInv, Reporting
  <2> QED  BY <1>1, <1>3, <1>5, <2>1, TaskKept DEF TaskInv, TypeOK, EvidenceWasVerified
<1> QED  BY <1>1, <1>2, <1>4, <1>5

LEMMA RemovesStep == ASSUME Bounds, TaskInv, ReclaimContainer \/ ReclaimJob PROVE TaskInv'
<1>1. /\ Hard /\ task = "running" /\ pc = "reclaim" /\ Removes
      /\ UNCHANGED <<mode, status, canceled, timeline, sent, task, log, result, intruder>>
  BY DEF ReclaimContainer, ReclaimJob, Removes, At, Hard, platform, workspace
<1>2. /\ present' \subseteq present /\ child' \in {child, "none"} /\ written' \in {0, written}
  BY <1>1 DEF Removes
<1>3. Hard' /\ ChildInv'
  BY <1>1, <1>2 DEF Own, TaskInv, ChildInv, OrphanAlive, Hard
<1>4. /\ pc' = "create" /\ UNCHANGED <<created, verified, forwarded, outcome>>
      \/ Conclude("INFRA_ERROR", FALSE)
  BY <1>1 DEF Removes, Goto
<1>5. CASE pc' = "create" /\ UNCHANGED <<created, verified, forwarded, outcome>>
  <2>1. PlaceInv'
    BY <1>1, <1>5, PartialFacts DEF TaskInv, PlaceInv, Reporting
  <2>2. TypeOK'
    BY <1>1, <1>2, <1>5 DEF Bounds, TaskInv, TypeOK
  <2> QED  BY <1>1, <1>3, <1>5, <2>1, <2>2, EvidenceKept DEF TaskInv
<1>6. CASE Conclude("INFRA_ERROR", FALSE)
  <2>1. /\ PlaceInv' /\ pc' \in {"clean", "keep"} /\ outcome' \in Document
        /\ outcome'.evidence => outcome'.checked
    BY <1>1, <1>6, ConcludeKept DEF Verdicts
  <2>2. UNCHANGED <<created, verified, forwarded>>
    BY <1>6 DEF Conclude
  <2>3. TypeOK'
    BY <1>1, <1>2, <2>1, <2>2 DEF Bounds, TaskInv, TypeOK
  <2> QED  BY <1>1, <1>3, <2>1, <2>3 DEF TaskInv, EvidenceWasVerified, Hard
<1> QED  BY <1>4, <1>5, <1>6

LEMMA CreateStep == ASSUME Bounds, TaskInv, Create PROVE TaskInv'
<1> DEFINE next == Resources[mode][Cardinality(created) + 1]
<1>1. /\ task = "running" /\ pc = "create"
      /\ present' = present \cup {next} /\ created' = created \cup {next}
      /\ IF next = "workload"
         THEN child' = "idle" /\ written' = 0 /\ pc' = IF Hard THEN "verify" ELSE "poll"
         ELSE UNCHANGED <<child, written, pc>>
      /\ UNCHANGED <<mode, status, canceled, timeline, sent, task, verified, forwarded, outcome, log, result, intruder>>
  BY DEF Create, At, platform, workspace
<1>2. next \in Range(Resources[mode]) /\ (next = "workload" \/ created' \in Partial)
  BY <1>1, NextResource DEF TaskInv
<1> HIDE DEF next
<1>3. TypeOK'
  BY <1>1, <1>2 DEF Bounds, TaskInv, TypeOK
<1>4. PlaceInv'
  <2>1. Partial' = Partial /\ Hard' = Hard
    BY <1>1, PartialFacts DEF TaskInv, Hard
  <2> QED  BY <1>1, <1>2, <2>1 DEF TaskInv, PlaceInv, Reporting
<1>5. ChildInv'
  BY <1>1 DEF Own, TaskInv, ChildInv, OrphanAlive, Hard
<1>6. EvidenceWasVerified'
  BY <1>1, EvidenceKept DEF TaskInv
<1> QED  BY <1>3, <1>4, <1>5, <1>6 DEF TaskInv

LEMMA ForwardsStep ==
    ASSUME Bounds, TaskInv, ForwardNewEvents \/ ForwardContainerEvents \/ ForwardKubernetesEvents
    PROVE  TaskInv'
<1>1. /\ UNCHANGED <<mode, status, canceled, sent, task, pc, created, verified, outcome, workload, workspace>>
      /\ forwarded' = written
      /\ \E received \in SUBSET ((forwarded + 1)..written) : timeline' = timeline \cup received
  BY DEF ForwardNewEvents, ForwardContainerEvents, ForwardKubernetesEvents, Forwards
<1>2. timeline' \subseteq 1..MaxEvents /\ forwarded' \in 0..MaxEvents
  BY <1>1 DEF Bounds, TaskInv, TypeOK
<1>3. PlaceInv'
  BY <1>1, PartialFacts DEF TaskInv, PlaceInv, Hard
<1> QED  BY <1>1, <1>2, <1>3, TaskKept DEF TaskInv, TypeOK, EvidenceWasVerified

LEMMA CollectStep == ASSUME Bounds, TaskInv, CollectFiles PROVE TaskInv'
<1>1. /\ UNCHANGED <<platform, task, created, verified, forwarded, workload, workspace>>
      /\ ~Hard /\ pc = "poll" /\ task = "running" /\ child = "passed" /\ outcome' = result /\ pc' = "clean"
  BY DEF CollectFiles, At, Hard
<1>2. UNCHANGED <<mode, status, canceled, sent, timeline>> /\ result # None
  BY <1>1 DEF platform, TaskInv, ChildInv, OrphanAlive
<1>3. PlaceInv'
  BY <1>1, <1>2 DEF TaskInv, PlaceInv, Reporting, Hard
<1> QED  BY <1>1, <1>2, <1>3, TaskKept DEF TaskInv, TypeOK

LEMMA ExportStep == ASSUME Bounds, TaskInv, ExtractRunArchive \/ ExportRunArchive PROVE TaskInv'
<1>1. /\ Hard /\ task = "running" /\ pc = "poll" /\ Exports /\ verified
  BY DEF ExtractRunArchive, ExportRunArchive, Exports, At, Hard, TaskInv, PlaceInv
<1>2. /\ UNCHANGED <<mode, status, canceled, timeline, sent, task, present, child, written, intruder>>
      /\ log' = written
  BY <1>1 DEF Exports, platform, workload
<1>3. result' \in Document /\ result'.checked
  BY <1>1 DEF Exports, Document, Verdicts, Own, TaskInv, TypeOK
<1>4. CASE outcome' = result' /\ pc' = "clean" /\ UNCHANGED <<created, verified, forwarded>>
  <2>1. TypeOK'
    BY <1>2, <1>3, <1>4 DEF TaskInv, TypeOK
  <2>2. PlaceInv'
    BY <1>1, <1>2, <1>3, <1>4 DEF Bounds, TaskInv, PlaceInv, Reporting
  <2>3. ChildInv'
    BY <1>1, <1>2, <1>3, <1>4 DEF Bounds, TaskInv, ChildInv, OrphanAlive, Hard
  <2> QED  BY <1>3, <1>4, <2>1, <2>2, <2>3 DEF TaskInv, EvidenceWasVerified
<1>5. CASE Conclude("INFRA_ERROR", Evidence)
  <2>1. Evidence \in BOOLEAN /\ (Hard /\ Evidence => verified)
    BY DEF Evidence, TaskInv, TypeOK
  <2>2. /\ PlaceInv' /\ pc' \in {"clean", "keep"} /\ outcome' \in Document
        /\ outcome'.evidence => outcome'.checked
    BY <1>1, <1>2, <1>5, <2>1, ConcludeKept DEF Verdicts
  <2>3. UNCHANGED <<created, verified, forwarded>>
    BY <1>5 DEF Conclude
  <2>4. TypeOK'
    BY <1>2, <1>3, <2>2, <2>3 DEF TaskInv, TypeOK
  <2>5. ChildInv'
    BY <1>1, <1>2, <1>3 DEF Bounds, TaskInv, ChildInv, OrphanAlive, Hard
  <2> QED  BY <1>3, <2>2, <2>4, <2>5 DEF TaskInv, EvidenceWasVerified
<1> QED  BY <1>1, <1>4, <1>5 DEF Exports

LEMMA CleanStep == ASSUME Bounds, TaskInv, StopProcess \/ CleanContainer \/ CleanJob PROVE TaskInv'
<1>1. PICK left \in SUBSET created : RemovesAllBut(left) /\ (~Hard => left = {})
  BY DEF StopProcess, CleanContainer, CleanJob, Hard
<1>2. /\ task = "running" /\ pc = "clean" /\ pc' = "keep" /\ created' = {} /\ verified' = FALSE /\ forwarded' = 0
      /\ present' = present \ (created \ left)
      /\ \/ child' = "none" /\ written' = 0
         \/ "workload" \in present' /\ UNCHANGED <<child, written>>
      /\ UNCHANGED <<mode, status, canceled, timeline, sent, task, outcome, log, result, intruder>>
  BY <1>1 DEF RemovesAllBut, At, platform, workspace
<1>3. TypeOK'
  <2>1. present' \subseteq present /\ child' \in {child, "none"} /\ written' \in {written, 0}
    BY <1>2
  <2>2. 0 \in 0..MaxEvents
    BY DEF Bounds
  <2> QED  BY <1>2, <2>1, <2>2 DEF TaskInv, TypeOK
<1>4. PlaceInv'
  BY <1>2 DEF TaskInv, PlaceInv, Reporting
<1>5. ChildInv'
  <2>1. CASE Hard
    BY <1>2, <2>1 DEF Own, TaskInv, ChildInv, OrphanAlive, Hard
  <2>2. CASE ~Hard
    <3>1. present' = {} /\ child' = "none"
      BY <1>1, <1>2, <2>2 DEF TaskInv, ChildInv, OrphanAlive
    <3> QED  BY <1>2, <2>2, <3>1 DEF Own, TaskInv, ChildInv, OrphanAlive, Hard
  <2> QED  BY <2>1, <2>2
<1>6. EvidenceWasVerified'
  BY <1>2, EvidenceKept DEF TaskInv
<1> QED  BY <1>3, <1>4, <1>5, <1>6 DEF TaskInv

LEMMA KeepStep == ASSUME Bounds, TaskInv, Keep PROVE TaskInv'
<1>1. /\ task = "running" /\ pc = "keep" /\ result' = outcome /\ pc' = "replay"
      /\ UNCHANGED <<created, verified, forwarded, outcome>>
      /\ UNCHANGED <<mode, status, canceled, timeline, sent, task, present, child, written, log, intruder>>
  BY DEF Keep, At, Goto, platform, workload
<1>2. outcome # None /\ created = {}
  BY <1>1 DEF TaskInv, PlaceInv
<1>3. TypeOK'
  BY <1>1, <1>2 DEF TaskInv, TypeOK
<1>4. PlaceInv'
  BY <1>1, <1>2 DEF TaskInv, PlaceInv, Reporting
<1>5. ChildInv'
  <2>1. ~Hard => child = "none"
    BY <1>2 DEF TaskInv, ChildInv, OrphanAlive
  <2> QED  BY <1>1, <2>1 DEF TaskInv, ChildInv, OrphanAlive, Hard
<1>6. EvidenceWasVerified'
  BY <1>1 DEF TaskInv, EvidenceWasVerified, Hard
<1> QED  BY <1>3, <1>4, <1>5, <1>6 DEF TaskInv

\* A step of the report: the task goes on in it, is raised or is over.
LEMMA ReportStep ==
    ASSUME Bounds, TaskInv, Replay \/ Upload \/ Report \/ ReportCanceled
    PROVE  TaskInv'
<1>1. /\ UNCHANGED <<mode, canceled, workload, workspace>> /\ task = "running"
      /\ pc \in {"replay", "upload", "report", "cancel"}
      /\ \/ UNCHANGED status
         \/ status' \in {"reported", "ended"}
      /\ sent' \in {sent, sent \cup {Bare("CANCELED")}} \/ (outcome # None /\ sent' = sent \cup {outcome})
      /\ \/ /\ pc \in {"replay", "upload"} /\ pc' \in {"upload", "report"}
            /\ UNCHANGED <<created, verified, forwarded, outcome, task>>
         \/ task' \in {"queued", "dropped", "done"} /\ Forget
  <2>1. CASE Replay
    BY <2>1 DEF Replay, At, Goto, Raise
  <2>2. CASE Upload
    BY <2>2 DEF Upload, At, Goto, Raise, platform
  <2>3. CASE Report \/ ReportCanceled
    <3>1. pc = "report" => outcome # None
      BY DEF TaskInv, PlaceInv, Reporting
    <3>2. Report => pc = "report"
      BY DEF Report, At
    <3> QED  BY <2>3, <3>1, <3>2 DEF Report, ReportCanceled, Send, At, Raise
  <2> QED  BY <2>1, <2>2, <2>3
<1>2. timeline' \subseteq 1..MaxEvents
  <2>1. CASE Replay
    <3>1. PICK n \in 0..(IF log = None THEN 0 ELSE log) : timeline' = timeline \cup 1..n
      BY <2>1 DEF Replay
    <3> QED  BY <3>1 DEF Bounds, TaskInv, TypeOK
  <2>2. CASE Upload \/ Report \/ ReportCanceled
    BY <2>2 DEF Upload, Report, ReportCanceled, Send, platform, TaskInv, TypeOK
  <2> QED  BY <2>1, <2>2
<1>3. created = {} /\ UNCHANGED created
  BY <1>1 DEF TaskInv, PlaceInv, Forget
<1>4. PlaceInv'
  BY <1>1, <1>3 DEF TaskInv, PlaceInv, Reporting, Forget
<1>5. sent' \subseteq Document
  BY <1>1, PlainDocuments DEF TaskInv, TypeOK, Verdicts
<1>6. /\ verified' \in BOOLEAN /\ forwarded' \in 0..MaxEvents /\ outcome' \in {outcome, None}
      /\ task' \in {"queued", "running", "done", "dropped"} /\ pc' \in {"idle", "upload", "report"}
  <2>1. 0 \in 0..MaxEvents
    BY DEF Bounds
  <2>2. CASE UNCHANGED <<created, verified, forwarded, outcome, task>> /\ pc' \in {"upload", "report"}
    BY <2>2 DEF TaskInv, TypeOK
  <2>3. CASE task' \in {"queued", "dropped", "done"} /\ Forget
    BY <2>1, <2>3 DEF Forget
  <2> QED  BY <1>1, <2>2, <2>3
<1>7. TypeOK'
  BY <1>1, <1>2, <1>3, <1>5, <1>6 DEF TaskInv, TypeOK, workload, workspace
<1>8. ChildInv'
  BY <1>1, <1>3, ChildKept DEF TaskInv
<1>9. EvidenceWasVerified'
  BY <1>1, <1>6 DEF TaskInv, EvidenceWasVerified, Hard, workspace
<1> QED  BY <1>4, <1>7, <1>8, <1>9 DEF TaskInv

LEMMA TaskStep == ASSUME Bounds, TaskInv, [Next]_vars PROVE TaskInv'
<1>1. CASE UNCHANGED vars
  <2>1. UNCHANGED <<mode, status, canceled, sent, timeline, task, pc, created, verified, forwarded, outcome,
                    local, workload, workspace>>
    BY <1>1 DEF vars, platform, local
  <2> QED  BY <2>1, PlaceKept, TaskKept DEF TaskInv, TypeOK, EvidenceWasVerified
<1> QED  BY <1>1, EnvironmentStep, ChildStep, IntruderStep, ReceiveStep, RedeliverStep, CrashStep, HandlerStep, RemovesStep,
            CreateStep, ForwardsStep, CollectStep, ExportStep, CleanStep, KeepStep, ReportStep DEF Next

LEMMA TaskInit == ASSUME Bounds, Init PROVE TaskInv
<1>1. 0 \in 0..MaxEvents
  BY DEF Bounds
<1>2. TypeOK
  BY <1>1 DEF Init, TypeOK
<1>3. PlaceInv
  BY DEF Init, PlaceInv, Reporting
<1>4. ChildInv /\ EvidenceWasVerified
  BY DEF Own, Init, ChildInv, OrphanAlive, EvidenceWasVerified
<1> QED  BY <1>2, <1>3, <1>4 DEF TaskInv

\* The task's variables stay in their types.
THEOREM TaskTypes == ASSUME Bounds PROVE Spec => []TypeOK
<1>1. Init => TaskInv
  BY TaskInit
<1>2. TaskInv /\ [Next]_vars => TaskInv'
  BY TaskStep
<1>3. TaskInv => TypeOK
  BY DEF TaskInv
<1> QED  BY <1>1, <1>2, <1>3, PTL DEF Spec

\* No result claims an isolation that was not read back.
THEOREM EvidenceIsVerified == ASSUME Bounds PROVE Spec => []EvidenceWasVerified
<1>1. Init => TaskInv
  BY TaskInit
<1>2. TaskInv /\ [Next]_vars => TaskInv'
  BY TaskStep
<1>3. TaskInv => EvidenceWasVerified
  BY DEF TaskInv
<1> QED  BY <1>1, <1>2, <1>3, PTL DEF Spec

-----------------------------------------------------------------------------
(* Every step keeps what was reported in order                             *)

ReportInv == TaskInv /\ TimelineInv /\ SentInv

LEMMA TimelineKept ==
    ASSUME TimelineInv, Orphaned' = Orphaned, UNCHANGED log, timeline \subseteq timeline',
           status' = "reported" => status = "reported" /\ task' # "running",
           pc' \in {"upload", "report"} => pc \in {"upload", "report"}
    PROVE  TimelineInv'
BY DEF Orphaned, TimelineInv

LEMMA SentKept ==
    ASSUME SentInv, UNCHANGED <<intruder, result, sent>>, canceled => canceled',
           pc' \in Unkept => pc \in Unkept,
           pc' \in Reporting => pc \in Reporting /\ outcome' = outcome,
           pc' = "cancel" => pc = "cancel"
    PROVE  SentInv'
BY DEF SentInv

\* With an orphan in the run's directory nothing is promised any more.
LEMMA OrphanedKept ==
    ASSUME TimelineInv, Orphaned', status' = "reported" => task' # "running"
    PROVE  TimelineInv' /\ SentInv'
BY DEF TimelineInv, SentInv, Orphaned, Own

\* A child process writes only while its task watches it.
LEMMA ChildIsWatched ==
    ASSUME TaskInv, ~Hard, child # "none"
    PROVE  task = "running" /\ pc \in {"create", "verify", "poll", "clean"}
<1>1. created # {}
  BY DEF TaskInv, ChildInv, OrphanAlive
<1> QED  BY <1>1 DEF TaskInv, PlaceInv

\* The steps of the workload.
LEMMA WorkloadReports ==
    ASSUME Bounds, ReportInv,
           \/ ChildStarts \/ ChildWrites \/ ChildEnriches \/ ChildBreaks \/ \E verdict \in Own : ChildConcludes(verdict)
           \/ OrphanWrites \/ OrphanConcludes \/ OrphanEnriches \/ CopyReceived \/ CopyKeeps
    PROVE  TimelineInv' /\ SentInv'
<1>1. TaskInv /\ TimelineInv /\ SentInv
  BY DEF ReportInv
<1>2. UNCHANGED <<status, canceled, timeline, sent, task, pc, outcome>>
  BY DEF ChildStarts, ChildWrites, ChildEnriches, ChildBreaks, ChildConcludes, OrphanWrites, OrphanConcludes,
         OrphanEnriches, CopyReceived, CopyKeeps, platform, local
<1>3. CASE OrphanWrites \/ OrphanConcludes \/ OrphanEnriches
  <2>1. Orphaned'
    BY <1>3 DEF OrphanWrites, OrphanConcludes, OrphanEnriches, Orphaned, workload, Own
  <2> QED  BY <1>1, <1>2, <2>1, OrphanedKept DEF Orphaned, TimelineInv
<1>5. CASE CopyReceived \/ CopyKeeps
  <2>1. UNCHANGED log /\ intruder' \in {"copy", "copied"} /\ intruder \in {"none", "copy"}
    BY <1>5 DEF CopyReceived, CopyKeeps
  <2>2. Orphaned' = Orphaned
    BY <2>1 DEF Orphaned, Own
  <2>3. TimelineInv'
    BY <1>1, <1>2, <2>1, <2>2, TimelineKept DEF Orphaned, TimelineInv
  <2>4. SentInv'
    BY <2>1 DEF SentInv
  <2> QED  BY <2>3, <2>4
<1>4. ASSUME \/ ChildStarts \/ ChildWrites \/ ChildEnriches \/ ChildBreaks
             \/ \E verdict \in Own : ChildConcludes(verdict)
      PROVE  TimelineInv' /\ SentInv'
  <2>1. UNCHANGED intruder /\ child # "none"
    BY <1>4 DEF Own, ChildStarts, ChildWrites, ChildEnriches, ChildBreaks, ChildConcludes, workspace
  <2>2. CASE Hard
    <3>1. UNCHANGED <<log, result>>
      BY <1>1, <1>4, <2>2 DEF ChildStarts, ChildWrites, ChildEnriches, ChildBreaks, ChildConcludes, workspace, Hard,
                              TaskInv, ChildInv
    <3> QED  BY <1>1, <1>2, <2>1, <3>1, TimelineKept, SentKept DEF Orphaned, TimelineInv
  <2>3. CASE ~Hard
    <3>1. task = "running" /\ pc \in {"create", "verify", "poll", "clean"}
      BY <1>1, <2>1, <2>3, ChildIsWatched
    <3>2. TimelineInv'
      BY <1>1, <1>2, <3>1 DEF Orphaned, TimelineInv
    <3>3. SentInv'
      BY <1>1, <1>2, <2>1, <3>1 DEF SentInv, Unkept, Reporting
    <3> QED  BY <3>2, <3>3
  <2> QED  BY <2>2, <2>3
<1> QED  BY <1>3, <1>4, <1>5

\* The steps of the execution, up to the result that is kept.
LEMMA ExecutionReports ==
    ASSUME Bounds, ReportInv,
           \/ RequestCancel \/ EndElsewhere \/ Prepare \/ ReclaimContainer \/ ReclaimJob \/ Create \/ CreateFails
           \/ VerifyContainer \/ VerifyPod
           \/ ForwardNewEvents \/ ForwardContainerEvents \/ ForwardKubernetesEvents
           \/ WatchProcess \/ WatchContainer \/ WatchJob \/ CollectFiles
           \/ StopProcess \/ CleanContainer \/ CleanJob
    PROVE  TimelineInv' /\ SentInv'
<1>1. TaskInv /\ TimelineInv /\ SentInv
  BY DEF ReportInv
<1>2. CASE RequestCancel \/ EndElsewhere
  <2>1. UNCHANGED <<timeline, sent, task, pc, outcome, log, result, intruder>> /\ (canceled => canceled')
        /\ status' \in {status, "ended"}
    BY <1>2 DEF RequestCancel, EndElsewhere, local, workspace
  <2> QED  BY <1>1, <2>1, TimelineKept, SentKept DEF Orphaned, TimelineInv
<1>3. CASE ForwardNewEvents \/ ForwardContainerEvents \/ ForwardKubernetesEvents
  <2>1. UNCHANGED <<status, canceled, sent, task, pc, outcome, log, result, intruder>> /\ timeline \subseteq timeline'
    BY <1>3 DEF ForwardNewEvents, ForwardContainerEvents, ForwardKubernetesEvents, Forwards, workspace
  <2> QED  BY <1>1, <2>1, TimelineKept, SentKept DEF Orphaned, TimelineInv
<1>4. ASSUME NEW verdict, NEW evidence, Conclude(verdict, evidence) PROVE pc' \in {"clean", "keep"}
  BY <1>4 DEF Conclude
<1>5. ASSUME \/ Prepare \/ ReclaimContainer \/ ReclaimJob \/ Create \/ CreateFails
             \/ VerifyContainer \/ VerifyPod
             \/ WatchProcess \/ WatchContainer \/ WatchJob \/ CollectFiles
             \/ StopProcess \/ CleanContainer \/ CleanJob
      PROVE  TimelineInv' /\ SentInv'
  <2>1. UNCHANGED <<platform, task, workspace>> /\ task = "running"
    BY <1>5 DEF Prepare, ReclaimContainer, ReclaimJob, Removes, Create, CreateFails, VerifyContainer, VerifyPod,
                ReadsBack, WatchProcess, WatchContainer, WatchJob, GivesUp, CollectFiles, StopProcess,
                CleanContainer, CleanJob, RemovesAllBut, At
  <2>2. pc \in Unkept
    BY <1>5 DEF Prepare, ReclaimContainer, ReclaimJob, Create, CreateFails, VerifyContainer, VerifyPod,
                ReadsBack, WatchProcess, WatchContainer, WatchJob, CollectFiles, StopProcess,
                CleanContainer, CleanJob, RemovesAllBut, At, Unkept
  <2>3. pc' \in Unkept
    <3>1. CASE Prepare \/ ReclaimContainer \/ ReclaimJob
      BY <1>4, <3>1 DEF Prepare, ReclaimContainer, ReclaimJob, Removes, Goto, Unkept
    <3>2. CASE Create
      BY <2>2, <3>2 DEF Create, Unkept
    <3>3. CASE CreateFails \/ VerifyContainer \/ VerifyPod \/ WatchProcess \/ WatchContainer \/ WatchJob
      BY <1>4, <3>3 DEF CreateFails, VerifyContainer, VerifyPod, ReadsBack, WatchProcess, WatchContainer, WatchJob,
                        GivesUp, Unkept
    <3>4. CASE CollectFiles \/ StopProcess \/ CleanContainer \/ CleanJob
      BY <3>4 DEF CollectFiles, StopProcess, CleanContainer, CleanJob, RemovesAllBut, Unkept
    <3> QED  BY <1>5, <3>1, <3>2, <3>3, <3>4
  <2>4. UNCHANGED <<status, canceled, timeline, sent, log, result, intruder>>
    BY <2>1 DEF platform, workspace
  <2>5. pc' \notin Reporting /\ pc' \notin {"cancel", "upload", "report"}
    BY <2>3 DEF Unkept, Reporting
  <2> QED  BY <1>1, <2>1, <2>2, <2>4, <2>5, TimelineKept, SentKept DEF Orphaned, TimelineInv
<1> QED  BY <1>2, <1>3, <1>5

LEMMA ExportReports == ASSUME Bounds, ReportInv, ExtractRunArchive \/ ExportRunArchive PROVE TimelineInv' /\ SentInv'
<1>1. TaskInv /\ TimelineInv /\ SentInv
  BY DEF ReportInv
<1>2. task = "running" /\ pc = "poll" /\ Exports
  BY DEF ExtractRunArchive, ExportRunArchive, Exports, At
<1>3. UNCHANGED <<status, canceled, timeline, sent, task, intruder>> /\ pc' \in {"clean", "keep"}
  BY <1>2 DEF Exports, Conclude, platform
<1>4. TimelineInv'
  BY <1>1, <1>2, <1>3 DEF Orphaned, TimelineInv
<1>5. SentInv'
  BY <1>1, <1>2, <1>3 DEF SentInv, Unkept, Reporting
<1> QED  BY <1>4, <1>5

LEMMA DeliveryReports ==
    ASSUME Bounds, ReportInv, Receive \/ Redeliver \/ Crash \/ CrashAlone
    PROVE  TimelineInv' /\ SentInv'
<1>1. TaskInv /\ TimelineInv /\ SentInv
  BY DEF ReportInv
<1>2. CASE Receive
  <2>1. /\ UNCHANGED <<status, canceled, timeline, sent, log, result, intruder>>
        /\ \/ status # "open" /\ task' = "done" /\ pc' = "idle"
           \/ status = "open" /\ result # None /\ pc' = "replay" /\ outcome' = result
           \/ status = "open" /\ result = None /\ pc' = IF canceled THEN "cancel" ELSE "prepare"
    BY <1>2 DEF Receive, Goto, platform, workspace
  <2>2. TimelineInv'
    BY <1>1, <2>1 DEF Orphaned, TimelineInv
  <2>3. SentInv'
    BY <1>1, <2>1 DEF SentInv, Unkept, Reporting
  <2> QED  BY <2>2, <2>3
<1>3. CASE Crash
  <2>1. UNCHANGED <<status, canceled, timeline, sent, log, result, intruder>> /\ task' = "queued" /\ pc' = "idle"
    BY <1>3 DEF Crash, Forget, platform, workspace
  <2> QED  BY <1>1, <2>1, TimelineKept, SentKept DEF Orphaned, Unkept, Reporting
<1>4. CASE CrashAlone
  <2>1. task' = "queued" /\ Orphaned'
    BY <1>4 DEF CrashAlone, Orphaned
  <2> QED  BY <1>1, <2>1, OrphanedKept
<1>5. CASE Redeliver
  <2>1. UNCHANGED <<status, canceled, timeline, sent, log, result, intruder, pc, outcome>> /\ task' = "queued"
    BY <1>5 DEF Redeliver, platform, local, workspace
  <2> QED  BY <1>1, <2>1, TimelineKept, SentKept DEF Orphaned
<1> QED  BY <1>2, <1>3, <1>4, <1>5

LEMMA KeepReports == ASSUME Bounds, ReportInv, Keep PROVE TimelineInv' /\ SentInv'
<1>1. TaskInv /\ TimelineInv /\ SentInv
  BY DEF ReportInv
<1>2. /\ task = "running" /\ pc = "keep" /\ result' = outcome /\ outcome' = outcome /\ pc' = "replay"
      /\ UNCHANGED <<status, canceled, timeline, sent, task, log, intruder>>
  BY DEF Keep, At, Goto, platform
<1>3. outcome # None
  BY <1>1, <1>2 DEF TaskInv, PlaceInv
<1>4. TimelineInv'
  BY <1>1, <1>2, TimelineKept DEF Orphaned, TimelineInv
<1>5. SentInv'
  BY <1>1, <1>2, <1>3 DEF SentInv, Unkept, Reporting
<1> QED  BY <1>4, <1>5

LEMMA ReplayReports == ASSUME Bounds, ReportInv, Replay \/ Upload PROVE TimelineInv' /\ SentInv'
<1>1. TaskInv /\ TimelineInv /\ SentInv
  BY DEF ReportInv
<1>2. /\ task = "running" /\ pc \in Reporting
      /\ UNCHANGED <<status, canceled, sent, log, result, intruder>>
      /\ \/ pc' \in Reporting /\ UNCHANGED outcome
         \/ pc' = "idle"
  BY DEF Replay, Upload, At, Goto, Raise, Forget, platform, workspace, Reporting
<1>3. status # "reported"
  BY <1>1, <1>2 DEF Orphaned, TimelineInv
<1>4. SentInv'
  <2>1. pc' \notin Unkept /\ pc' # "cancel"
    BY <1>2 DEF Unkept, Reporting
  <2>2. pc' = "idle" => pc' \notin Reporting
    BY DEF Reporting
  <2> QED  BY <1>1, <1>2, <2>1, <2>2, SentKept
<1>5. TimelineInv'
  <2>1. CASE Replay
    <3>1. PICK n \in 0..(IF log = None THEN 0 ELSE log) :
            /\ timeline' = timeline \cup 1..n
            /\ n = (IF log = None THEN 0 ELSE log) \/ pc' = "idle"
      BY <2>1 DEF Replay, Raise, Forget
    <3> QED  BY <1>1, <1>2, <1>3, <3>1 DEF Orphaned, TimelineInv
  <2>2. CASE Upload
    <3>1. UNCHANGED timeline /\ pc = "upload"
      BY <2>2 DEF Upload, At, platform
    <3> QED  BY <1>1, <1>2, <1>3, <3>1, TimelineKept DEF Orphaned
  <2> QED  BY <2>1, <2>2
<1> QED  BY <1>4, <1>5

LEMMA SendReports == ASSUME Bounds, ReportInv, Report \/ ReportCanceled PROVE TimelineInv' /\ SentInv'
<1>1. TaskInv /\ TimelineInv /\ SentInv
  BY DEF ReportInv
<1>2. /\ task = "running" /\ task' # "running" /\ pc' = "idle"
      /\ UNCHANGED <<canceled, timeline, log, result, intruder>>
      /\ \/ /\ pc = "report" /\ status' \in {status, "reported"}
            /\ intruder = "none" => sent' = sent \cup {outcome}
         \/ /\ pc = "cancel" /\ status' \in {status, "ended"}
            /\ intruder = "none" => sent' = sent \cup {Bare("CANCELED")}
  BY DEF Report, ReportCanceled, Send, At, Raise, Forget, workspace
<1>3. TimelineInv'
  BY <1>1, <1>2 DEF Orphaned, TimelineInv
<1>4. SentInv'
  <2> SUFFICES ASSUME intruder = "none" PROVE SentInv'
    BY <1>2 DEF SentInv
  <2>1. CASE pc = "report"
    BY <1>1, <1>2, <2>1 DEF SentInv, Unkept, Reporting
  <2>2. CASE pc = "cancel"
    BY <1>1, <1>2, <2>2 DEF SentInv, Unkept, Reporting
  <2> QED  BY <1>2, <2>1, <2>2
<1> QED  BY <1>3, <1>4

LEMMA ReportsStep == ASSUME Bounds, ReportInv, [Next]_vars PROVE ReportInv'
<1>1. TaskInv'
  BY TaskStep DEF ReportInv
<1>2. CASE UNCHANGED vars
  <2>1. UNCHANGED <<status, canceled, timeline, sent, task, pc, outcome, log, result, intruder>>
    BY <1>2 DEF vars, platform, local, workspace
  <2>2. TimelineInv' /\ SentInv'
    BY <2>1, TimelineKept, SentKept DEF Orphaned, ReportInv, TimelineInv
  <2> QED  BY <1>1, <2>2 DEF ReportInv
<1>3. ASSUME Next PROVE TimelineInv' /\ SentInv'
  BY <1>3, WorkloadReports, ExecutionReports, ExportReports, DeliveryReports, KeepReports, ReplayReports,
     SendReports DEF Next
<1> QED  BY <1>1, <1>2, <1>3 DEF ReportInv

LEMMA ReportsInit == ASSUME Bounds, Init PROVE ReportInv
BY TaskInit DEF Init, ReportInv, TimelineInv, SentInv, Unkept, Reporting

\* A reported result comes after all the events of the workspace.
THEOREM EventsComeFirst == ASSUME Bounds PROVE Spec => []EventsPrecedeResult
<1>1. Init => ReportInv
  BY ReportsInit
<1>2. ReportInv /\ [Next]_vars => ReportInv'
  BY ReportsStep
<1>3. ReportInv => EventsPrecedeResult
  BY DEF ReportInv, TimelineInv, EventsPrecedeResult
<1> QED  BY <1>1, <1>2, <1>3, PTL DEF Spec

\* Deliveries in one workspace, one after another, report the result it holds.
THEOREM OneResultPerWorkspace == ASSUME Bounds PROVE Spec => []RetriesRepeatTheReport
<1>1. Init => ReportInv
  BY ReportsInit
<1>2. ReportInv /\ [Next]_vars => ReportInv'
  BY ReportsStep
<1>3. ReportInv => RetriesRepeatTheReport
  BY DEF ReportInv, SentInv, RetriesRepeatTheReport
<1> QED  BY <1>1, <1>2, <1>3, PTL DEF Spec
=============================================================================
