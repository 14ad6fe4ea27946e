---------------------------- MODULE Platform_proofs ----------------------------
(***************************************************************************)
(* Machine-checked proofs about the components around the run control      *)
(* other than the outgoing notices, for any values of their constants.     *)
(***************************************************************************)
EXTENDS Notices_proofs, SequenceTheorems

-----------------------------------------------------------------------------
(* The task on the worker: Execution_proofs proves it, of the same actions *)

Deeds == INSTANCE Execution_proofs

LEMMA SameActions ==
    /\ \A v : Tasks!ChildConcludes(v) <=> Deeds!ChildConcludes(v)
    /\ Tasks!Create <=> Deeds!Create
    /\ Tasks!RequestCancel <=> Deeds!RequestCancel
    /\ Tasks!EndElsewhere <=> Deeds!EndElsewhere
    /\ Tasks!ChildStarts <=> Deeds!ChildStarts
    /\ Tasks!ChildWrites <=> Deeds!ChildWrites
    /\ Tasks!ChildEnriches <=> Deeds!ChildEnriches
    /\ Tasks!ChildBreaks <=> Deeds!ChildBreaks
    /\ Tasks!OrphanWrites <=> Deeds!OrphanWrites
    /\ Tasks!OrphanConcludes <=> Deeds!OrphanConcludes
    /\ Tasks!OrphanEnriches <=> Deeds!OrphanEnriches
    /\ Tasks!CopyReceived <=> Deeds!CopyReceived
    /\ Tasks!CopyKeeps <=> Deeds!CopyKeeps
    /\ Tasks!Receive <=> Deeds!Receive
    /\ Tasks!Redeliver <=> Deeds!Redeliver
    /\ Tasks!Crash <=> Deeds!Crash
    /\ Tasks!CrashAlone <=> Deeds!CrashAlone
    /\ Tasks!Prepare <=> Deeds!Prepare
    /\ Tasks!ReclaimContainer <=> Deeds!ReclaimContainer
    /\ Tasks!ReclaimJob <=> Deeds!ReclaimJob
    /\ Tasks!CreateFails <=> Deeds!CreateFails
    /\ Tasks!VerifyContainer <=> Deeds!VerifyContainer
    /\ Tasks!VerifyPod <=> Deeds!VerifyPod
    /\ Tasks!ForwardNewEvents <=> Deeds!ForwardNewEvents
    /\ Tasks!ForwardContainerEvents <=> Deeds!ForwardContainerEvents
    /\ Tasks!ForwardKubernetesEvents <=> Deeds!ForwardKubernetesEvents
    /\ Tasks!WatchProcess <=> Deeds!WatchProcess
    /\ Tasks!WatchContainer <=> Deeds!WatchContainer
    /\ Tasks!WatchJob <=> Deeds!WatchJob
    /\ Tasks!CollectFiles <=> Deeds!CollectFiles
    /\ Tasks!ExtractRunArchive <=> Deeds!ExtractRunArchive
    /\ Tasks!ExportRunArchive <=> Deeds!ExportRunArchive
    /\ Tasks!StopProcess <=> Deeds!StopProcess
    /\ Tasks!CleanContainer <=> Deeds!CleanContainer
    /\ Tasks!CleanJob <=> Deeds!CleanJob
    /\ Tasks!Keep <=> Deeds!Keep
    /\ Tasks!Replay <=> Deeds!Replay
    /\ Tasks!Upload <=> Deeds!Upload
    /\ Tasks!Report <=> Deeds!Report
    /\ Tasks!ReportCanceled <=> Deeds!ReportCanceled
<1> USE DEF Tasks!platform, Deeds!platform, Tasks!local, Deeds!local, Tasks!workload,
    Deeds!workload, Tasks!workspace, Deeds!workspace, Tasks!Hard, Deeds!Hard, Tasks!At,
    Deeds!At, Tasks!Goto, Deeds!Goto, Tasks!Forget, Deeds!Forget, Tasks!Occupied,
    Deeds!Occupied, Tasks!Raise, Deeds!Raise, Tasks!Conclude, Deeds!Conclude,
    Tasks!Evidence, Deeds!Evidence, Tasks!Removes, Deeds!Removes, Tasks!ReadsBack,
    Deeds!ReadsBack, Tasks!Forwards, Deeds!Forwards, Tasks!GivesUp, Deeds!GivesUp,
    Tasks!Exports, Deeds!Exports, Tasks!RemovesAllBut, Deeds!RemovesAllBut, Tasks!Send,
    Deeds!Send, Tasks!Own, Deeds!Own, Tasks!Bare, Deeds!Bare, Tasks!Enriched, Deeds!Enriched,
    Tasks!Executing, Deeds!Executing
<1>1. \A v : Tasks!ChildConcludes(v) <=> Deeds!ChildConcludes(v)
  BY DEF Tasks!ChildConcludes, Deeds!ChildConcludes
<1>2. Tasks!Create <=> Deeds!Create
  <2>1. Tasks!Cardinality(created) = Deeds!Cardinality(created)
    BY DEF Tasks!Cardinality, Deeds!Cardinality
  <2>2. Tasks!Resources = Deeds!Resources
    BY DEF Tasks!Resources, Deeds!Resources, Tasks!ContainerResources,
           Deeds!ContainerResources, Tasks!JobResources, Deeds!JobResources
  <2> QED  BY <2>1, <2>2 DEF Tasks!Create, Deeds!Create
<1>3. /\ Tasks!RequestCancel <=> Deeds!RequestCancel
      /\ Tasks!EndElsewhere <=> Deeds!EndElsewhere
      /\ Tasks!ChildStarts <=> Deeds!ChildStarts
      /\ Tasks!ChildWrites <=> Deeds!ChildWrites
      /\ Tasks!ChildEnriches <=> Deeds!ChildEnriches
      /\ Tasks!ChildBreaks <=> Deeds!ChildBreaks
  BY DEF Tasks!RequestCancel, Deeds!RequestCancel, Tasks!EndElsewhere, Deeds!EndElsewhere,
         Tasks!ChildStarts, Deeds!ChildStarts, Tasks!ChildWrites, Deeds!ChildWrites,
         Tasks!ChildEnriches, Deeds!ChildEnriches, Tasks!ChildBreaks, Deeds!ChildBreaks
<1>4. /\ Tasks!OrphanWrites <=> Deeds!OrphanWrites
      /\ Tasks!OrphanConcludes <=> Deeds!OrphanConcludes
      /\ Tasks!OrphanEnriches <=> Deeds!OrphanEnriches
      /\ Tasks!CopyReceived <=> Deeds!CopyReceived
      /\ Tasks!CopyKeeps <=> Deeds!CopyKeeps
  BY DEF Tasks!OrphanWrites, Deeds!OrphanWrites, Tasks!OrphanConcludes,
         Deeds!OrphanConcludes, Tasks!OrphanEnriches, Deeds!OrphanEnriches,
         Tasks!CopyReceived, Deeds!CopyReceived, Tasks!CopyKeeps, Deeds!CopyKeeps
<1>5. /\ Tasks!Receive <=> Deeds!Receive
      /\ Tasks!Redeliver <=> Deeds!Redeliver
      /\ Tasks!Crash <=> Deeds!Crash
      /\ Tasks!CrashAlone <=> Deeds!CrashAlone
      /\ Tasks!Prepare <=> Deeds!Prepare
  BY DEF Tasks!Receive, Deeds!Receive, Tasks!Redeliver, Deeds!Redeliver, Tasks!Crash, Deeds!Crash, Tasks!CrashAlone,
         Deeds!CrashAlone, Tasks!Prepare, Deeds!Prepare
<1>6. /\ Tasks!ReclaimContainer <=> Deeds!ReclaimContainer
      /\ Tasks!ReclaimJob <=> Deeds!ReclaimJob
      /\ Tasks!CreateFails <=> Deeds!CreateFails
      /\ Tasks!VerifyContainer <=> Deeds!VerifyContainer
      /\ Tasks!VerifyPod <=> Deeds!VerifyPod
  BY DEF Tasks!ReclaimContainer, Deeds!ReclaimContainer, Tasks!ReclaimJob, Deeds!ReclaimJob,
         Tasks!CreateFails, Deeds!CreateFails, Tasks!VerifyContainer, Deeds!VerifyContainer,
         Tasks!VerifyPod, Deeds!VerifyPod
<1>7. /\ Tasks!ForwardNewEvents <=> Deeds!ForwardNewEvents
      /\ Tasks!ForwardContainerEvents <=> Deeds!ForwardContainerEvents
      /\ Tasks!ForwardKubernetesEvents <=> Deeds!ForwardKubernetesEvents
      /\ Tasks!WatchProcess <=> Deeds!WatchProcess
      /\ Tasks!WatchContainer <=> Deeds!WatchContainer
      /\ Tasks!WatchJob <=> Deeds!WatchJob
  BY DEF Tasks!ForwardNewEvents, Deeds!ForwardNewEvents, Tasks!ForwardContainerEvents,
         Deeds!ForwardContainerEvents, Tasks!ForwardKubernetesEvents,
         Deeds!ForwardKubernetesEvents, Tasks!WatchProcess, Deeds!WatchProcess,
         Tasks!WatchContainer, Deeds!WatchContainer, Tasks!WatchJob, Deeds!WatchJob
<1>8. /\ Tasks!CollectFiles <=> Deeds!CollectFiles
      /\ Tasks!ExtractRunArchive <=> Deeds!ExtractRunArchive
      /\ Tasks!ExportRunArchive <=> Deeds!ExportRunArchive
      /\ Tasks!StopProcess <=> Deeds!StopProcess
      /\ Tasks!CleanContainer <=> Deeds!CleanContainer
      /\ Tasks!CleanJob <=> Deeds!CleanJob
  BY DEF Tasks!CollectFiles, Deeds!CollectFiles, Tasks!ExtractRunArchive,
         Deeds!ExtractRunArchive, Tasks!ExportRunArchive, Deeds!ExportRunArchive,
         Tasks!StopProcess, Deeds!StopProcess, Tasks!CleanContainer, Deeds!CleanContainer,
         Tasks!CleanJob, Deeds!CleanJob
<1>9. /\ Tasks!Keep <=> Deeds!Keep
      /\ Tasks!Replay <=> Deeds!Replay
      /\ Tasks!Upload <=> Deeds!Upload
      /\ Tasks!Report <=> Deeds!Report
      /\ Tasks!ReportCanceled <=> Deeds!ReportCanceled
  BY DEF Tasks!Keep, Deeds!Keep, Tasks!Replay, Deeds!Replay, Tasks!Upload, Deeds!Upload,
         Tasks!Report, Deeds!Report, Tasks!ReportCanceled, Deeds!ReportCanceled
<1> QED  BY <1>1, <1>2, <1>3, <1>4, <1>5, <1>6, <1>7, <1>8, <1>9

LEMMA SameTask == Spec => Deeds!Spec
<1>1. Init => Deeds!Init
  <2>1. Tasks!Init => Deeds!Init
    BY DEF Tasks!Init, Deeds!Init, Tasks!Modes, Deeds!Modes
  <2> QED  BY <2>1 DEF Init
<1>2. [Next]_vars => [Deeds!Next]_Deeds!vars
  <2>1. Tasks!Next => Deeds!Next
    <3>1. Tasks!Own = Deeds!Own
      BY DEF Tasks!Own, Deeds!Own
    <3> QED  BY SameActions, <3>1 DEF Tasks!Next, Deeds!Next
  <2>2. UNCHANGED tasks => UNCHANGED Deeds!vars
    BY DEF tasks, Deeds!vars, Deeds!platform, Deeds!local, Deeds!workload, Deeds!workspace
  <2> QED  BY <2>1, <2>2, EachMoves
<1> QED  BY <1>1, <1>2, PTL DEF Spec, Deeds!Spec

\* What Execution_proofs assumes of the constants.
LEMMA SameBounds == Deeds!Bounds
BY PlatformBounds, NoneIsNull DEF Deeds!Bounds, Deeds!Document, Deeds!Verdicts, Deeds!Own,
   Tasks!Document, Tasks!Verdicts, Tasks!Own

\* A kept or reported result that claims a container's or Pod's isolation comes
\* from a workload whose isolation was read back (VerifyContainer, VerifyPod).
THEOREM EvidenceIsVerified == Spec => []EvidenceWasVerified
<1>1. Deeds!EvidenceWasVerified => EvidenceWasVerified
  BY DEF EvidenceWasVerified, Deeds!EvidenceWasVerified, Tasks!EvidenceWasVerified,
         Deeds!Hard, Tasks!Hard
<1> QED  BY <1>1, SameTask, SameBounds, Deeds!EvidenceIsVerified, PTL

\* When the report of a kept result ends the run, the control plane has all the
\* events of the workspace (_reconcile_events), unless an orphan writes to it.
THEOREM EventsComeFirst == Spec => []EventsPrecedeResult
<1>1. Deeds!EventsPrecedeResult => EventsPrecedeResult
  BY DEF EventsPrecedeResult, Deeds!EventsPrecedeResult, Tasks!EventsPrecedeResult,
         Deeds!Orphaned, Tasks!Orphaned, Deeds!Own, Tasks!Own
<1> QED  BY <1>1, SameTask, SameBounds, Deeds!EventsComeFirst, PTL

\* What was ever reported from a workspace that no copy of the task and no orphan
\* writes to is the result it holds (execute_run, persist_run_result), or a cancel
\* that came before the execution.
THEOREM OneResultPerWorkspace == Spec => []RetriesRepeatTheReport
<1>1. Deeds!RetriesRepeatTheReport => RetriesRepeatTheReport
  BY DEF RetriesRepeatTheReport, Deeds!RetriesRepeatTheReport, Tasks!RetriesRepeatTheReport,
         Deeds!Bare, Tasks!Bare
<1> QED  BY <1>1, SameTask, SameBounds, Deeds!OneResultPerWorkspace, PTL

-----------------------------------------------------------------------------
(* Users and sessions                                                      *)

\* Who creates a user is one already, and who is edited too.
CallersExist ==
    \A c \in Callers :
        /\ Identities!Is(c, "create") => user[identityRequest[c].by] # None
        /\ Identities!Is(c, "write") => user[identityRequest[c].target] # None

IdentityInv == Identities!TypeOK /\ CallersExist /\ BootstrapOnce

LEMMA IdentityRows ==
    ASSUME IdentityInv
    PROVE  /\ \A u \in People : user[u] # None => user[u] \in Identities!User
           /\ \A c \in Callers : identityRequest[c] # None =>
                /\ identityRequest[c].target \in People
                /\ Identities!Is(c, "create") => identityRequest[c].by \in People
                /\ Identities!Is(c, "write") => /\ identityRequest[c].before \in Identities!Account
                                                /\ identityRequest[c].after \in Identities!Account
<1>1. ASSUME NEW c \in Callers, identityRequest[c] # None
      PROVE  identityRequest[c] \in Identities!Request
  BY <1>1 DEF IdentityInv, Identities!TypeOK
<1>2. ASSUME NEW r \in Identities!Request
      PROVE  /\ r.target \in People
             /\ r.op = "create" => r.by \in People
             /\ r.op = "write" => r.before \in Identities!Account /\ r.after \in Identities!Account
  BY <1>2 DEF Identities!Request, Identities!Operations
<1> QED  BY <1>1, <1>2 DEF IdentityInv, Identities!TypeOK, Identities!Is

\* A call that begins or ends, and does not write the users' table.
LEMMA RequestOnly ==
    ASSUME IdentityInv, UNCHANGED <<marker, user>>, live' \subseteq People,
           NEW c \in Callers, NEW new \in Identities!Request \cup {None},
           identityRequest' = [identityRequest EXCEPT ![c] = new],
           new # None /\ new.op = "create" => user[new.by] # None,
           new # None /\ new.op = "write" => user[new.target] # None
    PROVE  IdentityInv'
<1>1. Identities!TypeOK'
  BY DEF IdentityInv, Identities!TypeOK
<1>2. identityRequest'[c] = new
      /\ \A x \in Callers \ {c} : identityRequest'[x] = identityRequest[x]
  BY DEF IdentityInv, Identities!TypeOK
<1>3. CallersExist'
  BY <1>2 DEF IdentityInv, CallersExist, Identities!Is
<1>4. BootstrapOnce'
  BY DEF IdentityInv, BootstrapOnce, Identities!BootstrapOnce
<1> QED  BY <1>1, <1>3, <1>4 DEF IdentityInv

\* A call that ends with a write to the users' table.
LEMMA WriteOnly ==
    ASSUME IdentityInv, NEW c \in Callers, NEW u \in People, NEW row \in Identities!User,
           user' = [user EXCEPT ![u] = row], live' \subseteq People, marker' \in People \cup {None},
           identityRequest' = [identityRequest EXCEPT ![c] = None],
           BootstrapOnce'
    PROVE  IdentityInv'
<1>1. Identities!TypeOK'
  BY DEF IdentityInv, Identities!TypeOK
<1>2. /\ \A x \in Callers : identityRequest'[x] # None => identityRequest'[x] = identityRequest[x]
      /\ \A x \in People : user[x] # None => user'[x] # None
  BY NoneIsNull DEF IdentityInv, Identities!TypeOK
<1>3. CallersExist'
  BY <1>2, IdentityRows DEF IdentityInv, CallersExist, Identities!Is
<1> QED  BY <1>1, <1>3 DEF IdentityInv

LEMMA IdentityStep ==
    ASSUME IdentityInv, Identities!Next \/ UNCHANGED identities
    PROVE  IdentityInv'
<1>1. ASSUME NEW u \in People, Identities!Expire(u)
      PROVE  IdentityInv'
  BY <1>1 DEF Identities!Expire, IdentityInv, Identities!TypeOK, CallersExist, Identities!Is,
     BootstrapOnce, Identities!BootstrapOnce
<1>2. ASSUME NEW c \in Callers, NEW u \in People,
             Identities!BeginBootstrap(c, u) \/ Identities!BeginLogin(c, u)
      PROVE  IdentityInv'
  <2>1. PICK op \in {"bootstrap", "login"} :
          identityRequest' = [identityRequest EXCEPT ![c] = [op |-> op, target |-> u]]
    BY <1>2 DEF Identities!BeginBootstrap, Identities!BeginLogin
  <2> DEFINE new == [op |-> op, target |-> u]
  <2>2. new \in Identities!Request /\ new.op \notin {"create", "write"}
    BY DEF Identities!Request
  <2>3. UNCHANGED <<marker, user, live>> /\ live' \subseteq People
    BY <1>2 DEF Identities!BeginBootstrap, Identities!BeginLogin, IdentityInv, Identities!TypeOK
  <2> HIDE DEF new
  <2> QED  BY <2>1, <2>2, <2>3, RequestOnly DEF new
<1>3. ASSUME NEW c \in Callers, NEW u \in People, NEW target \in People,
             NEW op \in Identities!Operations, Identities!Begin(c, u, op, target)
      PROVE  IdentityInv'
  <2> DEFINE new == [op |-> op, by |-> u, target |-> target]
  <2>1. new \in Identities!Request /\ new.op # "write" /\ new.by = u
    BY DEF Identities!Request, Identities!Operations
  <2>2. /\ user[u] # None /\ UNCHANGED <<marker, user, live>>
        /\ identityRequest' = [identityRequest EXCEPT ![c] = new]
    BY <1>3 DEF Identities!Begin, Identities!Authenticated, Identities!Active
  <2>3. live' \subseteq People
    BY <2>2 DEF IdentityInv, Identities!TypeOK
  <2> HIDE DEF new
  <2> QED  BY <2>1, <2>2, <2>3, RequestOnly
<1>4. ASSUME NEW c \in Callers,
             \/ Identities!CommitLogin(c) \/ Identities!CommitRevocation(c)
             \/ Identities!CommitReset(c) \/ Identities!Abandon(c)
      PROVE  IdentityInv'
  <2>1. UNCHANGED <<marker, user>> /\ identityRequest' = [identityRequest EXCEPT ![c] = None]
        /\ identityRequest[c] # None
    BY <1>4 DEF Identities!CommitLogin, Identities!CommitRevocation, Identities!CommitReset,
       Identities!Abandon, Identities!Return, Identities!Is
  <2>2. live' \subseteq People
    BY <1>4, <2>1, IdentityRows DEF Identities!CommitLogin, Identities!CommitRevocation,
       Identities!CommitReset, Identities!Abandon, IdentityInv, Identities!TypeOK
  <2> QED  BY <2>1, <2>2, RequestOnly
<1>5. ASSUME NEW c \in Callers, Identities!CommitBootstrap(c)
      PROVE  IdentityInv'
  <2> DEFINE u == identityRequest[c].target
             row == [admin |-> TRUE, active |-> TRUE, creator |-> u]
  <2>1. /\ identityRequest[c] # None /\ marker = None /\ user[u] = None /\ marker' = u
        /\ user' = [user EXCEPT ![u] = row] /\ live' = live
        /\ identityRequest' = [identityRequest EXCEPT ![c] = None]
    BY <1>5 DEF Identities!CommitBootstrap, Identities!Is, Identities!Return
  <2>2. u \in People
    BY <2>1, IdentityRows
  <2>3. row \in Identities!User
    BY <2>2 DEF Identities!User
  <2>4. BootstrapOnce'
    BY <2>1, <2>2, NoneIsNull DEF IdentityInv, Identities!TypeOK, BootstrapOnce,
       Identities!BootstrapOnce
  <2>5. live' \subseteq People
    BY <2>1 DEF IdentityInv, Identities!TypeOK
  <2> HIDE DEF u, row
  <2> QED  BY <2>1, <2>2, <2>3, <2>4, <2>5, WriteOnly
<1>6. ASSUME NEW c \in Callers, Identities!CommitCreate(c)
      PROVE  IdentityInv'
  <2> DEFINE u == identityRequest[c].target
  <2>1. /\ identityRequest[c] # None /\ Identities!Is(c, "create") /\ user[u] = None
        /\ UNCHANGED <<marker, live>>
        /\ identityRequest' = [identityRequest EXCEPT ![c] = None]
    BY <1>6 DEF Identities!CommitCreate, Identities!Is, Identities!Return
  <2>2. PICK admin \in BOOLEAN :
          user' = [user EXCEPT ![u] = [admin |-> admin, active |-> TRUE,
                                       creator |-> identityRequest[c].by]]
    BY <1>6 DEF Identities!CommitCreate
  <2> DEFINE row == [admin |-> admin, active |-> TRUE, creator |-> identityRequest[c].by]
  <2>3. u \in People /\ identityRequest[c].by \in People /\ identityRequest[c].by # u
    BY <2>1, IdentityRows DEF IdentityInv, CallersExist
  <2>4. row \in Identities!User /\ row.creator # u
    BY <2>3 DEF Identities!User
  <2>5. user' = [user EXCEPT ![u] = row]
    BY <2>2
  <2>6. live' \subseteq People /\ marker' \in People \cup {None}
    BY <2>1 DEF IdentityInv, Identities!TypeOK
  <2> HIDE DEF u, row
  <2>7. BootstrapOnce'
    BY <2>1, <2>3, <2>4, <2>5 DEF IdentityInv, Identities!TypeOK, BootstrapOnce,
       Identities!BootstrapOnce
  <2> QED  BY <2>1, <2>3, <2>4, <2>5, <2>6, <2>7, WriteOnly
<1>7. ASSUME NEW c \in Callers, NEW after \in Identities!Account, Identities!CheckUpdate(c, after)
      PROVE  IdentityInv'
  <2> DEFINE target == identityRequest[c].target
             before == [admin |-> user[target].admin, active |-> user[target].active]
             new == [op |-> "write", target |-> target, after |-> after, before |-> before]
  <2>1. /\ identityRequest[c] # None /\ user[target] # None /\ UNCHANGED <<marker, user, live>>
        /\ identityRequest' = [identityRequest EXCEPT ![c] = new]
    BY <1>7 DEF Identities!CheckUpdate, Identities!Is
  <2>2. target \in People
    BY <2>1, IdentityRows
  <2>3. before \in Identities!Account
    BY <2>1, <2>2, IdentityRows DEF Identities!User, Identities!Account
  <2>4. live' \subseteq People
    BY <2>1 DEF IdentityInv, Identities!TypeOK
  <2> HIDE DEF target, before
  <2>5. new \in Identities!Request /\ new.op = "write" /\ new.target = target
    BY <2>2, <2>3 DEF Identities!Request
  <2> HIDE DEF new
  <2> QED  BY <2>1, <2>4, <2>5, RequestOnly
<1>8. ASSUME NEW c \in Callers, Identities!CommitUpdate(c)
      PROVE  IdentityInv'
  <2> DEFINE u == identityRequest[c].target
             before == identityRequest[c].before
             after == identityRequest[c].after
             row == [user[u] EXCEPT
                       !.admin = IF before.admin # after.admin THEN after.admin ELSE @,
                       !.active = IF before.active # after.active THEN after.active ELSE @]
  <2>1. /\ Identities!Is(c, "write") /\ identityRequest[c] # None /\ marker' = marker
        /\ live' = IF after.active THEN live ELSE live \ {u}
        /\ identityRequest' = [identityRequest EXCEPT ![c] = None]
    BY <1>8 DEF Identities!CommitUpdate, Identities!Is, Identities!Return
  <2>2. u \in People /\ before \in Identities!Account /\ after \in Identities!Account
        /\ user[u] # None /\ user[u] \in Identities!User
    BY <2>1, IdentityRows DEF IdentityInv, CallersExist
  <2>3. user' = [user EXCEPT ![u] = row]
    BY <1>8, <2>2 DEF Identities!CommitUpdate, IdentityInv, Identities!TypeOK
  <2> HIDE DEF u, before, after
  <2>4. row \in Identities!User /\ row.creator = user[u].creator
    BY <2>2 DEF Identities!User, Identities!Account
  <2> HIDE DEF row
  <2>5. BootstrapOnce'
    BY <2>1, <2>2, <2>3, <2>4 DEF IdentityInv, Identities!TypeOK, BootstrapOnce,
       Identities!BootstrapOnce
  <2>6. live' \subseteq People /\ marker' \in People \cup {None}
    BY <2>1 DEF IdentityInv, Identities!TypeOK
  <2> QED  BY <2>1, <2>2, <2>3, <2>4, <2>5, <2>6, WriteOnly
<1>9. CASE UNCHANGED identities
  BY <1>9 DEF identities, IdentityInv, Identities!TypeOK, CallersExist, Identities!Is,
     BootstrapOnce, Identities!BootstrapOnce
<1> QED
  BY <1>1, <1>2, <1>3, <1>4, <1>5, <1>6, <1>7, <1>8, <1>9 DEF Identities!Next

LEMMA IdentityInvariant == Spec => []IdentityInv
<1>1. Init => IdentityInv
  BY DEF Init, Identities!Init, IdentityInv, Identities!TypeOK, CallersExist, Identities!Is,
     BootstrapOnce, Identities!BootstrapOnce
<1>2. IdentityInv /\ [Next]_vars => IdentityInv'
  BY IdentityStep, EachMoves
<1> QED  BY <1>1, <1>2, PTL DEF Spec

\* One bootstrap_admin succeeds, although several calls may have counted no
\* users: its marker names the only user that no other user created.
THEOREM OneBootstrap == Spec => []BootstrapOnce
BY IdentityInvariant, PTL DEF IdentityInv

-----------------------------------------------------------------------------
(* Roles and routes                                                        *)

\* The pairs of what a route asks for and what it writes.
RoutePairs ==
    {<<"admin", "platform">>, <<"admin", "baseline">>, <<"admin", "settings">>,
     <<"project:manage", "settings">>, <<"run:create", "run">>, <<"run:cancel", "run">>,
     <<"runner", "progress">>, <<"verifier", "evidence">>, <<"change:create", "change">>,
     <<"change:edit", "change">>, <<"change:submit", "change">>, <<"change:review", "decision">>,
     <<"baseline:publish", "baseline">>, <<"run:read", "own">>, <<"open", "own">>,
     <<"session", "own">>, <<"member:manage", "members">>}

LEMMA RoutesWrite ==
    ASSUME NEW route \in Accesses!Routes, route.writes # None
    PROVE  <<route.needs, route.writes>> \in RoutePairs
<1>1. route \in UNION {Accesses!PoolRoutes, Accesses!ProjectRoutes, Accesses!QualityRoutes,
                       Accesses!AlertRoutes, Accesses!ScheduleRoutes, Accesses!TargetRoutes,
                       Accesses!BaselineRoutes}
      \/ route \in UNION {Accesses!PackageRoutes, Accesses!PackageStateRoutes,
                       Accesses!RunRoutes, Accesses!RunListRoutes, Accesses!InternalRoutes,
                       Accesses!ChangeRoutes, Accesses!ReviewRoutes}
      \/ route \in UNION {Accesses!ReleaseRoutes, Accesses!ModelRoutes, Accesses!AssistantRoutes,
                       Accesses!SessionRoutes, Accesses!UserRoutes, Accesses!MemberRoutes}
  BY DEF Accesses!Routes
<1> USE DEF Accesses!Read, Accesses!Write, RoutePairs
<1>2. CASE route \in UNION {Accesses!PoolRoutes, Accesses!ProjectRoutes, Accesses!QualityRoutes,
                            Accesses!AlertRoutes, Accesses!ScheduleRoutes, Accesses!TargetRoutes,
                            Accesses!BaselineRoutes}
  BY <1>2 DEF Accesses!PoolRoutes, Accesses!ProjectRoutes, Accesses!QualityRoutes,
     Accesses!AlertRoutes, Accesses!ScheduleRoutes, Accesses!TargetRoutes, Accesses!BaselineRoutes
<1>3. CASE route \in UNION {Accesses!PackageRoutes, Accesses!PackageStateRoutes,
                            Accesses!RunRoutes, Accesses!RunListRoutes, Accesses!InternalRoutes,
                            Accesses!ChangeRoutes, Accesses!ReviewRoutes}
  BY <1>3 DEF Accesses!PackageRoutes, Accesses!PackageStateRoutes, Accesses!RunRoutes,
     Accesses!RunListRoutes, Accesses!InternalRoutes, Accesses!ChangeRoutes, Accesses!ReviewRoutes
<1>4. CASE route \in UNION {Accesses!ReleaseRoutes, Accesses!ModelRoutes, Accesses!AssistantRoutes,
                            Accesses!SessionRoutes, Accesses!UserRoutes, Accesses!MemberRoutes}
  BY <1>4 DEF Accesses!ReleaseRoutes, Accesses!ModelRoutes, Accesses!AssistantRoutes,
     Accesses!SessionRoutes, Accesses!UserRoutes, Accesses!MemberRoutes
<1> QED  BY <1>1, <1>2, <1>3, <1>4

\* What each capacity's duties are, and the writes that each need allows.
LEMMA DutiesOf ==
    /\ Accesses!Duties["SYSTEM_ADMIN"] = {"platform", "settings", "members", "baseline",
                                          "change", "decision", "run", "own"}
    /\ Accesses!Duties["PROJECT_ADMIN"] = {"settings", "members", "baseline", "change",
                                           "decision", "run", "own"}
    /\ Accesses!Duties["TESTER"] = {"change", "run", "own"}
    /\ Accesses!Duties["REVIEWER"] = {"decision", "own"}
    /\ Accesses!Duties["VIEWER"] = {"own"} /\ Accesses!Duties["USER"] = {"own"}
    /\ Accesses!Duties["runner"] = {"progress"} /\ Accesses!Duties["verifier"] = {"evidence"}
BY DEF Accesses!Duties

LEMMA NeedsAndWrites ==
    ASSUME NEW needs, NEW writes, <<needs, writes>> \in RoutePairs
    PROVE  /\ needs = "runner" => writes = "progress"
           /\ needs = "verifier" => writes = "evidence"
           /\ needs \in {"session", "open", "run:read"} => writes = "own"
           /\ needs = "admin" => writes \in {"platform", "baseline", "settings"}
           /\ needs \in {"run:create", "run:cancel"} => writes = "run"
           /\ needs \in {"change:create", "change:edit", "change:submit"} => writes = "change"
           /\ needs = "change:review" => writes = "decision"
           /\ needs \notin {"project:read", "baseline:read", "change:read"}
           /\ needs \notin {"runner", "verifier"} =>
                writes \in {"platform", "settings", "members", "baseline", "change", "decision",
                           "run", "own"}
           /\ needs \notin {"runner", "verifier", "admin"} =>
                writes \in {"settings", "members", "baseline", "change", "decision", "run", "own"}
BY DEF RoutePairs

\* Whoever is granted what a route needs has the route's write among his duties.
LEMMA GrantsAreDuties ==
    ASSUME Accesses!TypeOK, NEW caller \in Accesses!Users \cup Accesses!Services,
           NEW needs, NEW writes, <<needs, writes>> \in RoutePairs,
           Accesses!Capacity(caller, needs) # None
    PROVE  writes \in Accesses!Duties[Accesses!Capacity(caller, needs)]
<1> DEFINE as == Accesses!Capacity(caller, needs)
<1>1. caller \notin Accesses!Services \/ caller \notin Accesses!Users
  BY NamesDiffer DEF Accesses!Users, Accesses!Services
<1>2. \/ caller \in Accesses!Services /\ needs = caller /\ as = caller
      \/ needs \in {"session", "open"} /\ as = "USER"
      \/ needs \notin Accesses!Services \cup {"session", "open"} /\ as = "SYSTEM_ADMIN"
      \/ /\ needs \notin Accesses!Services \cup {"session", "open", "admin"}
         /\ as \in Accesses!Roles /\ Accesses!Permissions[as] \cap {needs, "*"} # {}
  <2>1. CASE caller \in Accesses!Services
    BY <1>1, <2>1 DEF Accesses!Capacity, Accesses!ServiceMay, Accesses!Users
  <2>2. CASE caller \in Accesses!Users
    <3>1. role[caller] # None => role[caller] \in Accesses!Roles
      BY <2>2 DEF Accesses!TypeOK
    <3> QED  BY <1>1, <2>2, <3>1 DEF Accesses!Capacity
  <2> QED  BY <2>1, <2>2
<1> SUFFICES writes \in Accesses!Duties[as]
  OBVIOUS
<1> HIDE DEF as
<1>3. CASE caller \in Accesses!Services /\ needs = caller /\ as = caller
  BY <1>3, DutiesOf, NeedsAndWrites DEF Accesses!Services
<1>4. CASE needs \in {"session", "open"} /\ as = "USER"
  BY <1>4, DutiesOf, NeedsAndWrites
<1>5. CASE needs \notin Accesses!Services \cup {"session", "open"} /\ as = "SYSTEM_ADMIN"
  BY <1>5, DutiesOf, NeedsAndWrites DEF Accesses!Services
<1>6. CASE /\ needs \notin Accesses!Services \cup {"session", "open", "admin"}
           /\ as \in Accesses!Roles /\ Accesses!Permissions[as] \cap {needs, "*"} # {}
  <2>1. CASE as = "PROJECT_ADMIN"
    BY <1>6, <2>1, DutiesOf, NeedsAndWrites DEF Accesses!Services
  <2>2. CASE as = "TESTER"
    <3>1. needs \in Accesses!Reads \cup {"run:create", "run:cancel", "change:read",
                                         "change:create", "change:edit", "change:submit"}
      BY <1>6, <2>2 DEF Accesses!Permissions, Accesses!Reads
    <3> QED  BY <2>2, <3>1, DutiesOf, NeedsAndWrites DEF Accesses!Reads
  <2>3. CASE as = "REVIEWER"
    <3>1. needs \in Accesses!Reads \cup {"change:read", "change:review"}
      BY <1>6, <2>3 DEF Accesses!Permissions, Accesses!Reads
    <3> QED  BY <2>3, <3>1, DutiesOf, NeedsAndWrites DEF Accesses!Reads
  <2>4. CASE as = "VIEWER"
    <3>1. needs \in Accesses!Reads
      BY <1>6, <2>4 DEF Accesses!Permissions, Accesses!Reads
    <3> QED  BY <2>4, <3>1, DutiesOf, NeedsAndWrites DEF Accesses!Reads
  <2> QED  BY <1>6, <2>1, <2>2, <2>3, <2>4 DEF Accesses!Roles
<1> QED  BY <1>2, <1>3, <1>4, <1>5, <1>6

AccessInv == Accesses!TypeOK /\ DutiesAreKept

LEMMA AuthorizeKeeps ==
    ASSUME AccessInv, NEW caller \in Accesses!Users \cup Accesses!Services,
           NEW route \in Accesses!Routes, Accesses!Authorize(caller, route)
    PROVE  AccessInv'
<1> DEFINE as == Accesses!Capacity(caller, route.needs)
<1>1. /\ as # None /\ role' = role
      /\ accessRequest' = [by |-> caller, as |-> as, writes |-> route.writes]
  BY DEF Accesses!Authorize
<1>2. route.writes # None => route.writes \in Accesses!Duties[as]
  BY <1>1, RoutesWrite, GrantsAreDuties DEF AccessInv
<1>3. as \in Accesses!Capacities
  <2>1. caller \in Accesses!Users => role[caller] \in Accesses!Roles \cup {None}
    BY DEF AccessInv, Accesses!TypeOK
  <2> QED
    BY <1>1, <2>1 DEF Accesses!Capacity, Accesses!ServiceMay, Accesses!Capacities
<1>4. route.writes \in {None, "settings", "platform", "baseline", "evidence", "run", "progress",
                        "change", "decision", "own", "members"}
  BY RoutesWrite DEF RoutePairs
<1> HIDE DEF as
<1>5. accessRequest' \in Accesses!Request
  BY <1>1, <1>3, <1>4 DEF Accesses!Request
<1> QED
  BY <1>1, <1>2, <1>5 DEF AccessInv, Accesses!TypeOK, DutiesAreKept, Accesses!DutiesAreKept

LEMMA AccessInvariant == Spec => []AccessInv
<1>1. Init => AccessInv
  BY DEF Init, Accesses!Init, AccessInv, Accesses!TypeOK, DutiesAreKept,
     Accesses!DutiesAreKept, Accesses!Roles, Accesses!Users
<1>2. AccessInv /\ [Next]_vars => AccessInv'
  <2> SUFFICES ASSUME AccessInv, Accesses!Next \/ UNCHANGED accesses
               PROVE  AccessInv'
    BY EachMoves
  <2> USE DEF AccessInv, Accesses!TypeOK, DutiesAreKept, Accesses!DutiesAreKept
  <2>1. ASSUME NEW u \in Accesses!Users, NEW new \in Accesses!Roles,
               Accesses!SetMember(u, new) \/ Accesses!RemoveMember(u)
        PROVE  AccessInv'
    BY <2>1 DEF Accesses!SetMember, Accesses!RemoveMember
  <2>2. ASSUME NEW u \in Accesses!Users, NEW new \in Accesses!Roles \cup {None},
               Accesses!OthersEdit(u, new)
        PROVE  AccessInv'
    BY <2>2 DEF Accesses!OthersEdit
  <2>3. CASE Accesses!Answer \/ UNCHANGED accesses
    BY <2>3 DEF Accesses!Answer, accesses
  <2>4. Accesses!Roles # {}
    BY DEF Accesses!Roles
  <2> QED
    BY <2>1, <2>2, <2>3, <2>4, AuthorizeKeeps DEF Accesses!Next
<1> QED  BY <1>1, <1>2, PTL DEF Spec

\* No route lets a role write beyond its duties (authorize_project and the
\* permission each route asks for), for any members and administrators.
THEOREM DutiesHold == Spec => []DutiesAreKept
BY AccessInvariant, PTL DEF AccessInv

-----------------------------------------------------------------------------
(* Live view                                                               *)

\* A ticket that a gateway may still turn into a connection has made none, and
\* no other gateway holds it.
TicketsUsedOnce ==
    /\ \A t \in Tickets : Views!Is(t) =>
          watched[t] = 0 /\ \A g \in Gateways : opening[g] # None => opening[g][2] # t
    /\ \A g \in Gateways : opening[g] # None =>
          /\ watched[opening[g][2]] = 0
          /\ ~Views!Is(opening[g][2])
          /\ \A h \in Gateways : opening[h] # None /\ opening[h][2] = opening[g][2] => h = g

\* A ticket that was never issued was never used.
Unissued ==
    \A t \in Tickets : ticket[t] = None =>
        watched[t] = 0 /\ \A g \in Gateways : opening[g] # None => opening[g][2] # t

ViewInv == Views!TypeOK /\ TicketsUsedOnce /\ Unissued

LEMMA ViewStep ==
    ASSUME ViewInv, Views!Next \/ UNCHANGED views
    PROVE  ViewInv'
<1> USE DEF ViewInv
<1>1. ASSUME UNCHANGED <<ticket, opening, watched>>, ended' \in BOOLEAN,
             display' \in [Executors -> Views!Displays], registration' \in Executors \cup {None},
             found' \in Executors \cup {None}
      PROVE  ViewInv'
  BY <1>1 DEF Views!TypeOK, TicketsUsedOnce, Unissued, Views!Is
<1>2. CASE Views!RunEnds \/ Views!Expire \/ Views!Find \/ Views!GiveUp \/ UNCHANGED views
  BY <1>1, <1>2 DEF Views!RunEnds, Views!Expire, Views!Find, Views!GiveUp, views, Views!TypeOK
<1>3. ASSUME NEW e \in Executors,
             \/ Views!Show(e) \/ Views!Publish(e) \/ Views!Close(e)
             \/ Views!Unpublish(e) \/ Views!LeavePublished(e)
      PROVE  ViewInv'
  <2>1. display' \in [Executors -> Views!Displays]
    BY <1>3 DEF Views!Show, Views!Publish, Views!Close, Views!Unpublish, Views!LeavePublished,
       Views!TypeOK, Views!Displays
  <2> QED
    BY <1>1, <1>3, <2>1 DEF Views!Show, Views!Publish, Views!Close, Views!Unpublish,
       Views!LeavePublished, Views!TypeOK
<1>4. ASSUME NEW t \in Tickets, Views!Issue(t)
      PROVE  ViewInv'
  <2>1. /\ found \in Executors /\ ticket[t] = None /\ ticket' = [ticket EXCEPT ![t] = found]
        /\ found' = None /\ UNCHANGED <<ended, display, registration, opening, watched>>
    BY <1>4 DEF Views!Issue, Views!TypeOK
  <2>2. Views!TypeOK'
    BY <2>1 DEF Views!TypeOK
  <2>3. ticket'[t] = found /\ \A x \in Tickets \ {t} : ticket'[x] = ticket[x]
    BY <2>1 DEF Views!TypeOK
  <2>4. \A g \in Gateways : opening[g] # None => opening[g][2] \in Tickets /\ opening[g][2] # t
    BY <2>1 DEF Views!TypeOK, Unissued
  <2>5. TicketsUsedOnce' /\ Unissued'
    BY <2>1, <2>3, <2>4, NoneIsNull DEF TicketsUsedOnce, Unissued, Views!Is
  <2> QED  BY <2>2, <2>5
<1>5. ASSUME NEW t \in Tickets, Views!TicketExpires(t)
      PROVE  ViewInv'
  <2>1. /\ ticket' = [ticket EXCEPT ![t] = "used"]
        /\ UNCHANGED <<ended, display, registration, found, opening, watched>>
    BY <1>5 DEF Views!TicketExpires
  <2>2. Views!TypeOK'
    BY <2>1 DEF Views!TypeOK
  <2>3. \A x \in Tickets : /\ Views!Is(x)' => Views!Is(x)
                           /\ ticket'[x] = None => ticket[x] = None \/ x = t
    BY <2>1, NamesDiffer DEF Views!TypeOK, Views!Is
  <2>4. Views!Is(t)
    BY <1>5 DEF Views!TicketExpires
  <2>5. \A g \in Gateways : opening[g] # None => opening[g][2] \in Tickets
    BY DEF Views!TypeOK
  <2> QED
    BY <2>1, <2>2, <2>3, <2>4, <2>5 DEF TicketsUsedOnce, Unissued
<1>6. ASSUME NEW g \in Gateways, NEW t \in Tickets, Views!Consume(g, t)
      PROVE  ViewInv'
  <2>1. /\ opening[g] = None /\ ticket[t] \in Executors
        /\ opening' = [opening EXCEPT ![g] = <<ticket[t], t>>]
        /\ ticket' = [ticket EXCEPT ![t] = "used"]
        /\ UNCHANGED <<ended, display, registration, found, watched>>
    BY <1>6 DEF Views!Consume, Views!Is
  <2>2. Views!TypeOK'
    BY <2>1 DEF Views!TypeOK
  <2>3. /\ ticket'[t] = "used" /\ \A x \in Tickets \ {t} : ticket'[x] = ticket[x]
        /\ opening'[g] = <<ticket[t], t>>
        /\ \A h \in Gateways \ {g} : opening'[h] = opening[h]
    BY <2>1 DEF Views!TypeOK
  <2>4. watched[t] = 0 /\ \A h \in Gateways : opening[h] # None => opening[h][2] # t
    BY <2>1 DEF TicketsUsedOnce, Views!Is
  <2>5. \A h \in Gateways : opening[h] # None => opening[h][2] \in Tickets
    BY DEF Views!TypeOK
  <2>6. ~Views!Is(t)' /\ \A x \in Tickets \ {t} : Views!Is(x)' <=> Views!Is(x)
    BY <2>3, NamesDiffer DEF Views!Is
  <2>7. opening'[g][2] = t
    BY <2>3
  <2>8. TicketsUsedOnce'
    BY <2>1, <2>3, <2>4, <2>5, <2>6, <2>7 DEF TicketsUsedOnce
  <2>9. Unissued'
    BY <2>1, <2>3, <2>4, <2>5, <2>7, NamesDiffer DEF Unissued
  <2> QED  BY <2>2, <2>8, <2>9
<1>7. ASSUME NEW g \in Gateways, Views!Connect(g) \/ Views!Reject(g)
      PROVE  ViewInv'
  <2>1. /\ opening[g] # None /\ opening' = [opening EXCEPT ![g] = None]
        /\ UNCHANGED <<ended, display, registration, found, ticket>>
        /\ \/ watched' = [watched EXCEPT ![opening[g][2]] = @ + 1]
           \/ watched' = watched
    BY <1>7 DEF Views!Connect, Views!Reject
  <2>2. opening[g][2] \in Tickets /\ watched[opening[g][2]] = 0 /\ ~Views!Is(opening[g][2])
    BY <2>1 DEF Views!TypeOK, TicketsUsedOnce
  <2>3. \A t \in Tickets : watched'[t] = watched[t] \/ (t = opening[g][2] /\ watched'[t] = 1)
    <3> DEFINE k == opening[g][2]
    <3>1. watched' = [watched EXCEPT ![k] = @ + 1] \/ watched' = watched
      BY <2>1
    <3>2. k \in Tickets /\ watched[k] = 0 /\ watched \in [Tickets -> 0..1]
      BY <2>2 DEF Views!TypeOK
    <3> HIDE DEF k
    <3>3. \A t \in Tickets : watched'[t] = watched[t] \/ (t = k /\ watched'[t] = 1)
      BY <3>1, <3>2
    <3> QED  BY <3>3 DEF k
  <2>4. watched' \in [Tickets -> 0..1]
    <3>1. watched' = [t \in Tickets |-> watched'[t]]
      BY <2>1 DEF Views!TypeOK
    <3>2. \A t \in Tickets : watched'[t] \in 0..1
      BY <2>3 DEF Views!TypeOK
    <3> QED  BY <3>1, <3>2
  <2>5. Views!TypeOK'
    BY <2>1, <2>4 DEF Views!TypeOK
  <2>6. opening'[g] = None /\ \A h \in Gateways \ {g} : opening'[h] = opening[h]
    BY <2>1 DEF Views!TypeOK
  <2>7. \A h \in Gateways \ {g} : opening[h] # None =>
          opening[h][2] # opening[g][2] /\ opening[h][2] \in Tickets
    BY <2>1 DEF Views!TypeOK, TicketsUsedOnce
  <2>8. TicketsUsedOnce'
    BY <2>1, <2>2, <2>3, <2>6, <2>7 DEF TicketsUsedOnce, Views!Is
  <2>9. Unissued'
    BY <2>1, <2>2, <2>3, <2>6 DEF Unissued
  <2> QED  BY <2>5, <2>8, <2>9
<1> QED
  BY <1>2, <1>3, <1>4, <1>5, <1>6, <1>7 DEF Views!Next

LEMMA ViewInvariant == Spec => []ViewInv
<1>1. Init => ViewInv
  <2> SUFFICES ASSUME Views!Init PROVE ViewInv
    BY DEF Init
  <2>1. Views!TypeOK
    <3>1. watched \in [Tickets -> 0..1]
      <4>1. 0 \in 0..1
        OBVIOUS
      <4> QED  BY <4>1 DEF Views!Init
    <3>2. display \in [Executors -> Views!Displays] /\ ended \in BOOLEAN
      BY DEF Views!Init, Views!Displays
    <3>3. /\ registration \in Executors \cup {None} /\ found \in Executors \cup {None}
          /\ ticket \in [Tickets -> Executors \cup {None, "used"}]
          /\ opening \in [Gateways -> (Executors \X Tickets) \cup {None}]
      BY DEF Views!Init
    <3> QED  BY <3>1, <3>2, <3>3 DEF Views!TypeOK
  <2>2. \A t \in Tickets : ~Views!Is(t)
    BY NoneIsNull DEF Views!Init, Views!Is
  <2>3. TicketsUsedOnce /\ Unissued
    BY <2>2 DEF Views!Init, TicketsUsedOnce, Unissued
  <2> QED  BY <2>1, <2>3 DEF ViewInv
<1>2. ViewInv /\ [Next]_vars => ViewInv'
  BY ViewStep, EachMoves
<1> QED  BY <1>1, <1>2, PTL DEF Spec

\* Only its own executor takes a shown display away: a late cleanup compares
\* before it deletes (LiveViewPublisher.unpublish).
THEOREM DisplayStays == Spec => ShownRunStaysPublished
<1>1. ASSUME [Next]_vars
      PROVE  [\A e \in Executors : registration = e /\ display[e] = "published" =>
                 registration' # None]_Views!vars
  <2> SUFFICES ASSUME Views!Next, NEW e \in Executors, registration = e,
                      display[e] = "published", registration' = None
               PROVE  FALSE
    BY <1>1, EachMoves DEF views, Views!vars
  <2>1. registration # None
    BY NoneIsNull
  <2>2. ASSUME NEW x \in Executors, Views!Publish(x) \/ Views!Unpublish(x)
        PROVE  FALSE
    BY <2>1, <2>2, NoneIsNull DEF Views!Publish, Views!Unpublish
  <2>3. CASE Views!Expire
    BY <2>3 DEF Views!Expire
  <2>4. ASSUME NEW x \in Executors, Views!Show(x) \/ Views!Close(x) \/ Views!LeavePublished(x)
        PROVE  FALSE
    BY <2>1, <2>4 DEF Views!Show, Views!Close, Views!LeavePublished
  <2> QED
    BY <2>1, <2>2, <2>3, <2>4 DEF Views!Next, Views!RunEnds, Views!Find, Views!GiveUp,
       Views!Issue, Views!TicketExpires, Views!Consume, Views!Connect, Views!Reject
<1> QED
  BY <1>1, PTL DEF Spec, ShownRunStaysPublished, Views!ShownRunStaysPublished

-----------------------------------------------------------------------------
(* The Runner adapters *)

\* How often a case may be executed at all: only Android repeats, what it may.
Most(c) == IF adapter = "ANDROID" /\ tag[c] = "readonly" THEN 2 ELSE 1

\* Which part of the model belongs to which adapter.
PartsInv ==
    /\ turn \in {"cases", "case"} => adapter = "WEB"
    /\ turn = "round" => adapter = "ANDROID" /\ process = None
    /\ turn = "child" => adapter # "WEB"
    /\ adapter = "WEB" => process = None
    /\ adapter # "ANDROID" => round = 1
    /\ turn \notin {"idle", "done"} => workspace

\* A run whose directory is new has executed nothing.
NewInv ==
    turn = "ready" \/ (turn = "idle" /\ ~workspace) =>
        /\ process = None /\ round = 1 /\ next = 1
        /\ \A c \in Adapters!Cases : executed[c] = 0 /\ results[c] = None

\* What is still to be executed may be; a child left behind by a dead worker
\* is counted with the rest.
HeadroomInv ==
    /\ \A c \in Adapters!Cases :
         /\ executed[c] <= Most(c)
         /\ process # None /\ c \in process /\ report[c] = None => executed[c] < Most(c)
         /\ turn = "round" => executed[c] < round
         /\ turn = "child" /\ round = 1 =>
              /\ executed[c] <= 1
              /\ process # None /\ c \in process /\ report[c] = None => executed[c] = 0
         /\ turn \in {"cases", "case"} /\ c >= next => executed[c] = 0
    /\ turn = "case" => next \in Adapters!Enabled

\* The preflight comes before the first child that may change data.
PreflightInv ==
    adapter = "ANDROID" /\ Adapters!NeedsPreflight =>
        \/ preflight
        \/ turn \notin {"round", "child"} /\ process = None
           /\ \A c \in Adapters!Cases : executed[c] = 0

\* Where the results come from, and that they are complete in the end.
ResultInv ==
    /\ turn = "child" /\ round = 1 /\ process # None => process = Adapters!Enabled
    /\ verdict # None => turn = "done"
    /\ \A c \in Adapters!Cases :
         /\ report[c] # None => executed[c] > 0
         /\ results[c] = "PASSED" => executed[c] > 0
         /\ results[c] = "canceled" => stopped
         /\ turn \in {"conclude", "done"} => results[c] # None
         /\ turn \in {"cases", "case"} /\ c < next => results[c] # None
         /\ turn \in {"round", "child"} /\ round = 2 => results[c] # None
         /\ verdict # None /\ results[c] = "canceled" => verdict = "CANCELED"

AdapterInv ==
    /\ Adapters!TypeOK /\ PartsInv /\ NewInv /\ HeadroomInv /\ PreflightInv /\ ResultInv

\* The bounds and NULL, as this section uses them.
LEMMA AdapterConstants ==
    /\ MaxCases \in Nat
    /\ None \notin Adapters!Results /\ None \notin Adapters!Verdicts
    /\ None \notin Adapters!Outcomes /\ None \notin {"PASSED", "canceled", "disabled"}
BY PlatformBounds, NoneIsNull DEF Adapters!Results, Adapters!Outcomes

LEMMA AdapterStart == Init => AdapterInv
<1> SUFFICES ASSUME Adapters!Init PROVE AdapterInv
  BY DEF Init
<1> USE AdapterConstants
<1>1. Adapters!TypeOK
  <2>1. executed \in [Adapters!Cases -> 0..2] /\ next \in 1..(MaxCases + 1) /\ round \in 1..2
    <3>1. 0 \in 0..2 /\ 1 \in 1..(MaxCases + 1) /\ 1 \in 1..2
      OBVIOUS
    <3> QED  BY <3>1 DEF Adapters!Init
  <2> QED
    BY <2>1 DEF Adapters!Init, Adapters!TypeOK, Adapters!Nothing
<1>2. \A c \in Adapters!Cases : executed[c] = 0 /\ results[c] = None /\ report[c] = None
  BY DEF Adapters!Init, Adapters!Nothing
<1>3. process = None /\ turn = "idle" /\ round = 1 /\ next = 1 /\ verdict = None
  BY DEF Adapters!Init
<1>4. PartsInv /\ NewInv /\ PreflightInv
  BY <1>2, <1>3 DEF PartsInv, NewInv, PreflightInv
<1>5. HeadroomInv
  BY <1>2, <1>3 DEF HeadroomInv, Most
<1>6. ResultInv
  BY <1>2, <1>3 DEF ResultInv
<1> QED  BY <1>1, <1>4, <1>5, <1>6 DEF AdapterInv

\* The run is what it was, and so is all that depends on its cases' tags.
LEMMA SameRun ==
    ASSUME UNCHANGED <<adapter, tag>>
    PROVE  /\ Adapters!Enabled' = Adapters!Enabled
           /\ Adapters!NeedsPreflight' <=> Adapters!NeedsPreflight
           /\ \A c \in Adapters!Cases : Most(c)' = Most(c)
BY DEF Adapters!Enabled, Adapters!NeedsPreflight, Most

\* All cases get one result, those that are disabled apart.
LEMMA RestOfAll ==
    ASSUME NEW code \in {"INFRA_ERROR", "canceled"}
    PROVE  /\ Adapters!Rest(code) \in [Adapters!Cases -> Adapters!Results]
           /\ \A c \in Adapters!Cases : Adapters!Rest(code)[c] \in {code, "disabled"}
BY DEF Adapters!Rest, Adapters!Results, Adapters!Outcomes

\* The adapter stops without launching anything: the worker dies, the cases are
\* through, or the run ends.
LEMMA AdapterStops ==
    ASSUME AdapterInv, UNCHANGED <<adapter, tag, preflight, executed, report>>,
           asked' \in BOOLEAN, workspace' \in BOOLEAN, stopped' \in BOOLEAN,
           process' \in {process, None}, round' \in {round, 1},
           next' \in 1..(MaxCases + 1), verdict' \in Adapters!Verdicts \cup {None},
           turn' \in {"idle", "conclude", "done"},
           turn' = "done" \/ (workspace' /\ verdict' = None),
           results' \in [Adapters!Cases -> Adapters!Results \cup {None}],
           \A c \in Adapters!Cases :
               /\ results'[c] = "PASSED" => executed[c] > 0
               /\ results'[c] = "canceled" => stopped'
               /\ turn' # "idle" => results'[c] # None
               /\ verdict' # None /\ results'[c] = "canceled" => verdict' = "CANCELED"
    PROVE  AdapterInv'
<1> USE SameRun
<1>1. Adapters!TypeOK'
  <2>1. process' \in (SUBSET Adapters!Cases) \cup {None} /\ round' \in 1..2
    BY DEF AdapterInv, Adapters!TypeOK
  <2>2. turn' \in {"idle", "ready", "cases", "case", "round", "child", "conclude", "done"}
    OBVIOUS
  <2> QED  BY <2>1, <2>2 DEF AdapterInv, Adapters!TypeOK
<1>2. PartsInv' /\ NewInv'
  BY DEF AdapterInv, PartsInv, NewInv
<1>3. HeadroomInv'
  BY DEF AdapterInv, HeadroomInv
<1>4. PreflightInv'
  BY DEF AdapterInv, PreflightInv
<1>5. ResultInv'
  BY DEF AdapterInv, ResultInv
<1> QED  BY <1>1, <1>2, <1>3, <1>4, <1>5 DEF AdapterInv

LEMMA AdapterCrash == ASSUME AdapterInv, Adapters!Crash PROVE AdapterInv'
<1>1. /\ UNCHANGED <<adapter, tag, asked, workspace, preflight, executed, process, report, verdict>>
      /\ turn \notin {"idle", "done"} /\ turn' = "idle" /\ round' = 1 /\ next' = 1
      /\ stopped' = FALSE /\ results' = Adapters!Nothing
  BY DEF Adapters!Crash, Adapters!run, Adapters!target, Adapters!Fresh
<1>2. workspace /\ verdict = None
  BY <1>1 DEF AdapterInv, PartsInv, ResultInv
<1>3. /\ results' \in [Adapters!Cases -> Adapters!Results \cup {None}]
      /\ \A c \in Adapters!Cases : results'[c] = None
  BY <1>1 DEF Adapters!Nothing
<1>4. 1 \in 1..(MaxCases + 1)
  BY AdapterConstants
<1>5. asked \in BOOLEAN /\ workspace \in BOOLEAN
  BY DEF AdapterInv, Adapters!TypeOK
<1> QED
  BY <1>1, <1>2, <1>3, <1>4, <1>5, AdapterConstants, AdapterStops

\* _recovery_result ends a run whose directory is there, or whose job is refused.
LEMMA AdapterRecovers ==
    ASSUME AdapterInv, Adapters!Recover, UNCHANGED <<adapter, tag, asked>>,
           UNCHANGED <<preflight, executed, process, report>>, workspace' \in BOOLEAN
    PROVE  AdapterInv'
<1>1. /\ turn' = "done" /\ verdict' = "INFRA_ERROR" /\ UNCHANGED <<next, round, stopped>>
      /\ results' = Adapters!Rest("INFRA_ERROR")
  BY DEF Adapters!Recover
<1>2. /\ results' \in [Adapters!Cases -> Adapters!Results \cup {None}]
      /\ \A c \in Adapters!Cases : results'[c] \in {"INFRA_ERROR", "disabled"}
  BY <1>1, RestOfAll
<1>3. \A c \in Adapters!Cases : results'[c] \notin {"PASSED", "canceled", None}
  BY <1>2, AdapterConstants DEF Adapters!Results, Adapters!Outcomes
<1>4. /\ asked \in BOOLEAN /\ stopped \in BOOLEAN /\ next \in 1..(MaxCases + 1)
      /\ verdict' \in Adapters!Verdicts
  BY <1>1 DEF AdapterInv, Adapters!TypeOK, Adapters!Verdicts
<1> QED
  BY <1>1, <1>2, <1>3, <1>4, AdapterStops

LEMMA AdapterPrepares ==
    ASSUME AdapterInv, NEW a \in Adapters!Adapters, Adapters!Prepare(a) \/ Adapters!CopyFails
    PROVE  AdapterInv'
<1>1. /\ UNCHANGED <<adapter, tag, asked, preflight, executed, process, report>>
      /\ turn = "idle"
  BY DEF Adapters!Prepare, Adapters!CopyFails, Adapters!run, Adapters!target
<1>2. CASE Adapters!Recover /\ workspace' \in BOOLEAN
  BY <1>1, <1>2, AdapterRecovers
<1>3. CASE Adapters!Enters
  <2>1. /\ ~workspace /\ workspace' = TRUE /\ turn' = "ready"
        /\ UNCHANGED <<next, round, stopped, results, verdict>>
    BY <1>3 DEF Adapters!Enters
  <2>2. Adapters!TypeOK'
    BY <1>1, <2>1 DEF AdapterInv, Adapters!TypeOK
  <2>3. PartsInv' /\ NewInv' /\ PreflightInv'
    BY <1>1, <2>1, SameRun DEF AdapterInv, PartsInv, NewInv, PreflightInv
  <2>4. HeadroomInv'
    BY <1>1, <2>1, SameRun DEF AdapterInv, HeadroomInv
  <2>5. ResultInv'
    BY <1>1, <2>1, SameRun DEF AdapterInv, ResultInv
  <2> QED  BY <2>2, <2>3, <2>4, <2>5 DEF AdapterInv
<1>4. Adapters!Enters \/ (Adapters!Recover /\ workspace' \in BOOLEAN)
  BY DEF AdapterInv, Adapters!TypeOK, Adapters!Prepare, Adapters!CopyFails
<1> QED  BY <1>2, <1>3, <1>4

LEMMA AdapterWriteFails == ASSUME AdapterInv, Adapters!WriteFails PROVE AdapterInv'
<1>1. workspace' \in BOOLEAN
  BY DEF AdapterInv, Adapters!TypeOK, Adapters!WriteFails
<1> QED
  BY <1>1, AdapterRecovers DEF Adapters!WriteFails, Adapters!run, Adapters!target

LEMMA AdapterConcludes == ASSUME AdapterInv, Adapters!Conclude PROVE AdapterInv'
<1>1. /\ UNCHANGED <<adapter, tag, asked, workspace, preflight, executed, process, report, next,
                     round, stopped, results>>
      /\ turn = "conclude" /\ turn' = "done" /\ verdict' = Adapters!Verdict
  BY DEF Adapters!Conclude, Adapters!run, Adapters!target
<1>2. /\ verdict' \in Adapters!Verdicts
      /\ stopped => verdict' = "CANCELED"
  BY <1>1 DEF Adapters!Verdict, Adapters!Verdicts
<1>3. /\ asked \in BOOLEAN /\ workspace \in BOOLEAN /\ stopped \in BOOLEAN
      /\ next \in 1..(MaxCases + 1)
      /\ results \in [Adapters!Cases -> Adapters!Results \cup {None}]
  BY DEF AdapterInv, Adapters!TypeOK
<1>4. \A c \in Adapters!Cases : /\ results[c] = "PASSED" => executed[c] > 0
                                /\ results[c] = "canceled" => stopped
                                /\ results[c] # None
  BY <1>1 DEF AdapterInv, ResultInv
<1> QED
  BY <1>1, <1>2, <1>3, <1>4, AdapterStops

\* execute fails as a whole, in an adapter with a child process.
LEMMA AdapterFailsAll ==
    ASSUME AdapterInv, Adapters!FailAll, turn \notin {"idle", "done"},
           UNCHANGED <<adapter, tag, asked, workspace, preflight, executed, report, verdict>>,
           process' \in {process, None}
    PROVE  AdapterInv'
<1>1. turn' = "conclude" /\ UNCHANGED <<next, round, stopped>>
  BY DEF Adapters!FailAll
<1>2. \E code \in {"INFRA_ERROR", "canceled"} :
        results' = Adapters!Rest(code) /\ (code = "canceled" => stopped)
  BY DEF Adapters!FailAll
<1>3. /\ results' \in [Adapters!Cases -> Adapters!Results \cup {None}]
      /\ \A c \in Adapters!Cases : /\ results'[c] \in {"INFRA_ERROR", "canceled", "disabled"}
                                   /\ results'[c] = "canceled" => stopped
  BY <1>2, RestOfAll
<1>4. \A c \in Adapters!Cases : results'[c] \notin {"PASSED", None}
  BY <1>3, AdapterConstants DEF Adapters!Results, Adapters!Outcomes
<1>5. /\ asked \in BOOLEAN /\ stopped \in BOOLEAN /\ next \in 1..(MaxCases + 1)
      /\ workspace = TRUE /\ verdict = None
  BY DEF AdapterInv, Adapters!TypeOK, PartsInv, ResultInv
<1> QED
  BY <1>1, <1>3, <1>4, <1>5, AdapterStops

\* _remaining_infra_results: what is there stays.
LEMMA AdapterFailsRemaining ==
    ASSUME AdapterInv, Adapters!FailRemaining, turn \notin {"idle", "done"},
           UNCHANGED <<adapter, tag, asked, workspace, preflight, executed, process, report,
                       verdict>>
    PROVE  AdapterInv'
<1>1. turn' = "conclude" /\ UNCHANGED <<next, round, stopped>>
  BY DEF Adapters!FailRemaining
<1>2. /\ asked \in BOOLEAN /\ stopped \in BOOLEAN /\ next \in 1..(MaxCases + 1)
      /\ workspace = TRUE /\ verdict = None
      /\ results \in [Adapters!Cases -> Adapters!Results \cup {None}]
  BY DEF AdapterInv, Adapters!TypeOK, PartsInv, ResultInv
<1>3. \A c \in Adapters!Cases : results'[c] \in {"INFRA_ERROR", "disabled", results[c]} \ {None}
  BY RestOfAll, AdapterConstants DEF Adapters!FailRemaining, Adapters!Results, Adapters!Outcomes
<1>4. results' \in [Adapters!Cases -> Adapters!Results \cup {None}]
  <2>1. results' = [c \in Adapters!Cases |-> results'[c]]
    BY DEF Adapters!FailRemaining
  <2>2. \A c \in Adapters!Cases : results'[c] \in Adapters!Results \cup {None}
    BY <1>2, <1>3 DEF Adapters!Results, Adapters!Outcomes
  <2> QED  BY <2>1, <2>2
<1>5. \A c \in Adapters!Cases : /\ results[c] = "PASSED" => executed[c] > 0
                                /\ results[c] = "canceled" => stopped
  BY DEF AdapterInv, ResultInv
<1> QED
  BY <1>1, <1>2, <1>3, <1>4, <1>5, AdapterStops

\* The engine's loop moves on to the next case, with what the last one yields.
LEMMA WebYields ==
    ASSUME AdapterInv, NEW code \in Adapters!Results,
           UNCHANGED <<adapter, tag, asked, workspace, preflight, process, report, round, verdict>>,
           turn \in {"cases", "case"}, next \in Adapters!Cases, turn' = "cases",
           stopped' \in BOOLEAN, stopped => stopped', Adapters!Yield(code),
           \/ executed' = executed
           \/ executed' = [executed EXCEPT ![next] = @ + 1],
           code = "PASSED" => executed' # executed, code = "canceled" => stopped'
    PROVE  AdapterInv'
<1> USE AdapterConstants
<1>1. /\ results \in [Adapters!Cases -> Adapters!Results \cup {None}] /\ next' = next + 1
      /\ executed \in [Adapters!Cases -> 0..2] /\ next \in 1..MaxCases
      /\ results' = [results EXCEPT ![next] = code]
  BY DEF AdapterInv, Adapters!TypeOK, Adapters!Yield, Adapters!Cases
<1>2. /\ results'[next] = code
      /\ \A c \in Adapters!Cases \ {next} : results'[c] = results[c]
      /\ results' \in [Adapters!Cases -> Adapters!Results \cup {None}]
  BY <1>1
<1>3. /\ executed'[next] \in {executed[next], executed[next] + 1}
      /\ code = "PASSED" => executed'[next] = executed[next] + 1
      /\ \A c \in Adapters!Cases \ {next} : executed'[c] = executed[c]
  BY <1>1
<1>4. executed[next] = 0 /\ adapter = "WEB" /\ process = None /\ verdict = None
  BY <1>1 DEF AdapterInv, HeadroomInv, PartsInv, ResultInv
<1>5. Adapters!TypeOK'
  <2>1. next' \in 1..(MaxCases + 1)
    BY <1>1
  <2>2. executed' \in [Adapters!Cases -> 0..2]
    BY <1>1, <1>4
  <2> QED  BY <1>2, <2>1, <2>2 DEF AdapterInv, Adapters!TypeOK
<1>6. PartsInv' /\ NewInv' /\ PreflightInv'
  BY <1>4 DEF AdapterInv, PartsInv, NewInv, PreflightInv
<1>7. HeadroomInv'
  <2>1. \A c \in Adapters!Cases : executed'[c] <= Most(c)' /\ (c >= next' => executed'[c] = 0)
    <3> SUFFICES ASSUME NEW c \in Adapters!Cases
                 PROVE  executed'[c] <= Most(c)' /\ (c >= next' => executed'[c] = 0)
      OBVIOUS
    <3>1. c \in 1..MaxCases /\ executed[c] \in 0..2 /\ executed[c] <= Most(c)
          /\ Most(c)' = Most(c) /\ Most(c) = 1
      BY <1>1, <1>4, SameRun DEF AdapterInv, HeadroomInv, Adapters!Cases, Most
    <3>2. c >= next => executed[c] = 0
      BY DEF AdapterInv, HeadroomInv
    <3> QED  BY <1>1, <1>3, <1>4, <3>1, <3>2
  <2> QED  BY <1>4, <2>1 DEF HeadroomInv
<1>8. ResultInv'
  <2>1. \A c \in Adapters!Cases :
          /\ executed'[c] >= executed[c]
          /\ results'[c] = "PASSED" => executed'[c] > 0
          /\ results'[c] = "canceled" => stopped'
          /\ c < next' => results'[c] # None
    <3> SUFFICES ASSUME NEW c \in Adapters!Cases
                 PROVE  /\ executed'[c] >= executed[c]
                        /\ results'[c] = "PASSED" => executed'[c] > 0
                        /\ results'[c] = "canceled" => stopped'
                        /\ c < next' => results'[c] # None
      OBVIOUS
    <3>1. /\ c \in 1..MaxCases /\ executed[c] \in 0..2
          /\ results[c] = "PASSED" => executed[c] > 0
          /\ results[c] = "canceled" => stopped
          /\ c < next => results[c] # None
      BY <1>1 DEF AdapterInv, ResultInv, Adapters!Cases
    <3>2. CASE c = next
      BY <1>2, <1>3, <1>4, <3>2
    <3>3. CASE c # next
      BY <1>1, <1>2, <1>3, <3>1, <3>3
    <3> QED  BY <3>2, <3>3
  <2>2. \A c \in Adapters!Cases : report[c] # None => executed'[c] > 0
    BY <1>1, <1>3, <1>4 DEF AdapterInv, ResultInv
  <2> QED  BY <1>4, <2>1, <2>2 DEF ResultInv
<1> QED  BY <1>5, <1>6, <1>7, <1>8 DEF AdapterInv

\* WebPlaywrightAdapter executes case by case.
LEMMA AdapterWeb ==
    ASSUME AdapterInv,
           \/ Adapters!StartBrowser \/ Adapters!SkipCase \/ Adapters!StartCase
           \/ Adapters!FinishCase \/ Adapters!BrowserBreaks \/ Adapters!EndCases
    PROVE  AdapterInv'
<1> USE DEF Adapters!run, Adapters!target
<1>0. /\ asked \in BOOLEAN /\ stopped \in BOOLEAN /\ next \in 1..(MaxCases + 1)
      /\ results \in [Adapters!Cases -> Adapters!Results \cup {None}]
      /\ "canceled" \in Adapters!Results /\ "disabled" \in Adapters!Results
  BY DEF AdapterInv, Adapters!TypeOK, Adapters!Results
<1>1. CASE Adapters!StartBrowser
  <2>1. CASE Adapters!FailRemaining
    BY <1>1, <2>1, AdapterFailsRemaining DEF Adapters!StartBrowser
  <2>2. CASE turn' = "cases" /\ UNCHANGED <<next, round, stopped, results>>
    <3>1. /\ turn = "ready" /\ adapter = "WEB"
          /\ UNCHANGED <<adapter, tag, asked, workspace, preflight, executed, process, report, verdict>>
      BY <1>1 DEF Adapters!StartBrowser
    <3>2. Adapters!TypeOK' /\ PartsInv' /\ NewInv'
      BY <2>2, <3>1 DEF AdapterInv, Adapters!TypeOK, PartsInv, NewInv
    <3>3. \A c \in Adapters!Cases : executed[c] = 0 /\ c >= next /\ process = None
      BY <3>1, AdapterConstants DEF AdapterInv, NewInv, Adapters!Cases
    <3>4. HeadroomInv' /\ PreflightInv'
      BY <2>2, <3>1, <3>3, SameRun DEF AdapterInv, HeadroomInv, PreflightInv
    <3>5. ResultInv'
      <4>1. \A c \in Adapters!Cases : ~(c < next)
        BY <1>0, <3>3, AdapterConstants DEF Adapters!Cases
      <4> QED  BY <2>2, <3>1, <4>1, SameRun DEF AdapterInv, ResultInv
    <3> QED  BY <3>2, <3>4, <3>5 DEF AdapterInv
  <2> QED  BY <1>1, <2>1, <2>2 DEF Adapters!StartBrowser
<1>2. CASE Adapters!SkipCase
  <2>1. next \in Adapters!Cases
    BY <1>0, <1>2, AdapterConstants DEF Adapters!SkipCase, Adapters!Cases
  <2>2. PICK code \in {"canceled", "disabled"} :
          Adapters!Yield(code) /\ (code = "canceled" => stopped)
    BY <1>2 DEF Adapters!SkipCase
  <2> QED
    BY <1>0, <1>2, <2>1, <2>2, WebYields DEF Adapters!SkipCase
<1>3. CASE Adapters!StartCase
  <2>1. next \in Adapters!Cases
    BY <1>3 DEF Adapters!StartCase, Adapters!Enabled
  <2>2. stopped' \in BOOLEAN /\ ~stopped
    BY <1>0, <1>3 DEF Adapters!StartCase, Adapters!Notices
  <2>3. CASE stopped'
    <3>1. turn = "cases" /\ turn' = "cases" /\ Adapters!Yield("canceled")
      BY <1>3, <2>3 DEF Adapters!StartCase
    <3> QED
      BY <1>0, <1>3, <2>1, <2>2, <2>3, <3>1, WebYields DEF Adapters!StartCase
  <2>4. CASE ~stopped'
    <3>1. /\ turn = "cases" /\ turn' = "case" /\ next \in Adapters!Enabled
          /\ UNCHANGED <<next, results, round, verdict>> /\ stopped' = stopped
          /\ UNCHANGED <<adapter, tag, asked, workspace, preflight, executed, process, report>>
      BY <1>0, <1>3, <2>2, <2>4 DEF Adapters!StartCase
    <3>2. Adapters!TypeOK' /\ PartsInv' /\ NewInv'
      BY <3>1 DEF AdapterInv, Adapters!TypeOK, PartsInv, NewInv
    <3>3. HeadroomInv' /\ PreflightInv'
      BY <3>1, SameRun DEF AdapterInv, HeadroomInv, PreflightInv
    <3>4. ResultInv'
      BY <3>1, SameRun DEF AdapterInv, ResultInv
    <3> QED  BY <3>2, <3>3, <3>4 DEF AdapterInv
  <2> QED  BY <2>2, <2>3, <2>4
<1>4. CASE Adapters!FinishCase
  <2>1. next \in Adapters!Cases /\ executed[next] = 0
    BY <1>0, <1>4 DEF AdapterInv, HeadroomInv, Adapters!FinishCase, Adapters!Enabled, Adapters!Cases
  <2>2. PICK code \in Adapters!CaseOutcomes : Adapters!Yield(code)
    BY <1>4 DEF Adapters!FinishCase
  <2>3. executed' # executed /\ executed' = [executed EXCEPT ![next] = @ + 1]
    <3>1. executed'[next] = executed[next] + 1
      BY <1>4, <2>1 DEF AdapterInv, Adapters!TypeOK, Adapters!FinishCase
    <3> QED  BY <1>4, <2>1, <3>1 DEF Adapters!FinishCase
  <2>4. code \in Adapters!Results /\ code # "canceled"
    BY DEF Adapters!CaseOutcomes, Adapters!Results, Adapters!Outcomes
  <2> QED
    BY <1>0, <1>4, <2>1, <2>2, <2>3, <2>4, WebYields DEF Adapters!FinishCase
<1>5. CASE Adapters!BrowserBreaks
  BY <1>5, AdapterFailsRemaining DEF Adapters!BrowserBreaks
<1>6. CASE Adapters!EndCases
  <2>1. /\ turn = "cases" /\ turn' = "conclude" /\ next > MaxCases
        /\ UNCHANGED <<adapter, tag, asked, workspace, preflight, executed, process, report, next,
                       round, stopped, results, verdict>>
    BY <1>6 DEF Adapters!EndCases
  <2>2. \A c \in Adapters!Cases : /\ results[c] = "PASSED" => executed[c] > 0
                                  /\ results[c] = "canceled" => stopped
                                  /\ results[c] # None
    BY <1>0, <2>1, AdapterConstants DEF AdapterInv, ResultInv, Adapters!Cases
  <2>3. workspace = TRUE /\ verdict = None
    BY <2>1 DEF AdapterInv, Adapters!TypeOK, PartsInv, ResultInv
  <2> QED
    BY <1>0, <2>1, <2>2, <2>3, AdapterStops
<1> QED  BY <1>1, <1>2, <1>3, <1>4, <1>5, <1>6

\* The child executes a case, perhaps after its worker has died.
LEMMA AdapterChildExecutes ==
    ASSUME AdapterInv, NEW c \in Adapters!Cases, Adapters!ChildExecutes(c)
    PROVE  AdapterInv'
<1> USE AdapterConstants
<1>1. /\ UNCHANGED <<adapter, tag, asked, workspace, preflight, process, turn, next, round, stopped,
                     results, verdict>>
      /\ process # None /\ c \in process /\ report[c] = None
      /\ executed' = [executed EXCEPT ![c] = @ + 1]
      /\ \E code \in Adapters!Outcomes : report' = [report EXCEPT ![c] = code]
  BY DEF Adapters!ChildExecutes, Adapters!run, Adapters!memory
<1>2. executed \in [Adapters!Cases -> 0..2] /\ report \in [Adapters!Cases -> Adapters!Outcomes \cup {None}]
  BY DEF AdapterInv, Adapters!TypeOK
<1>3. /\ executed'[c] = executed[c] + 1 /\ report'[c] # None
      /\ \A x \in Adapters!Cases \ {c} : executed'[x] = executed[x] /\ report'[x] = report[x]
  BY <1>1, <1>2
<1>4. executed[c] < Most(c) /\ Most(c) \in 1..2 /\ adapter # "WEB"
      /\ turn \notin {"ready", "round", "cases", "case"} /\ ~(turn = "idle" /\ ~workspace)
  BY <1>1 DEF AdapterInv, HeadroomInv, PartsInv, NewInv, Most
<1>5. Adapters!TypeOK'
  <2>1. executed' \in [Adapters!Cases -> 0..2]
    BY <1>1, <1>2, <1>4
  <2>2. report' \in [Adapters!Cases -> Adapters!Outcomes \cup {None}]
    BY <1>1, <1>2
  <2> QED  BY <1>1, <2>1, <2>2 DEF AdapterInv, Adapters!TypeOK
<1>6. PartsInv' /\ NewInv' /\ PreflightInv'
  BY <1>1, <1>4, SameRun DEF AdapterInv, PartsInv, NewInv, PreflightInv
<1>7. HeadroomInv'
  <2> SUFFICES ASSUME NEW x \in Adapters!Cases
               PROVE  /\ executed'[x] <= Most(x)'
                      /\ x \in process /\ report'[x] = None => executed'[x] < Most(x)'
                      /\ turn = "child" /\ round = 1 =>
                           /\ executed'[x] <= 1
                           /\ x \in process /\ report'[x] = None => executed'[x] = 0
    BY <1>1, <1>4 DEF HeadroomInv
  <2>1. Most(x)' = Most(x) /\ Most(x) \in 1..2 /\ executed[x] \in 0..2
    BY <1>1, <1>2, SameRun DEF Most
  <2>2. /\ executed[x] <= Most(x)
        /\ x \in process /\ report[x] = None => executed[x] < Most(x)
        /\ turn = "child" /\ round = 1 =>
             /\ executed[x] <= 1
             /\ x \in process /\ report[x] = None => executed[x] = 0
    BY <1>1 DEF AdapterInv, HeadroomInv
  <2>3. CASE x = c
    BY <1>1, <1>3, <2>1, <2>2, <2>3
  <2>4. CASE x # c
    BY <1>3, <2>1, <2>2, <2>4
  <2> QED  BY <2>3, <2>4
<1>8. ResultInv'
  <2>1. \A x \in Adapters!Cases : /\ executed[x] > 0 => executed'[x] > 0
                                  /\ report'[x] # None => executed'[x] > 0
    <3> SUFFICES ASSUME NEW x \in Adapters!Cases
                 PROVE  /\ executed[x] > 0 => executed'[x] > 0
                        /\ report'[x] # None => executed'[x] > 0
      OBVIOUS
    <3>1. executed[x] \in 0..2 /\ (report[x] # None => executed[x] > 0)
      BY <1>2 DEF AdapterInv, ResultInv
    <3> QED  BY <1>3, <3>1
  <2> QED  BY <1>1, <2>1, SameRun DEF AdapterInv, ResultInv
<1> QED  BY <1>5, <1>6, <1>7, <1>8 DEF AdapterInv

\* Every case of a complete report has a result, and earned it.
LEMMA ReportedResults ==
    ASSUME AdapterInv, turn = "child", process # None, Adapters!Complete
    PROVE  /\ Adapters!Reported \in [Adapters!Cases -> Adapters!Results]
           /\ \A c \in Adapters!Cases :
                /\ Adapters!Reported[c] = "PASSED" => executed[c] > 0
                /\ Adapters!Reported[c] = "canceled" => stopped
                /\ Adapters!Reported[c] # None
<1>1. /\ process \subseteq Adapters!Cases /\ round \in 1..2
      /\ report \in [Adapters!Cases -> Adapters!Outcomes \cup {None}]
      /\ results \in [Adapters!Cases -> Adapters!Results \cup {None}]
  BY DEF AdapterInv, Adapters!TypeOK
<1>2. ASSUME NEW c \in Adapters!Cases
      PROVE  /\ Adapters!Reported[c] \in Adapters!Results
             /\ Adapters!Reported[c] = "PASSED" => executed[c] > 0
             /\ Adapters!Reported[c] = "canceled" => stopped
  <2>1. CASE c \in process
    <3>1. Adapters!Reported[c] = report[c] /\ report[c] # None
      BY <2>1 DEF Adapters!Reported, Adapters!Complete
    <3>2. report[c] \in Adapters!Outcomes /\ executed[c] > 0
      BY <1>1, <3>1 DEF AdapterInv, ResultInv
    <3> QED  BY <3>1, <3>2 DEF Adapters!Results, Adapters!Outcomes
  <2>2. CASE c \notin process /\ c \in Adapters!Enabled
    <3>1. Adapters!Reported[c] = results[c] /\ round = 2
      BY <1>1, <2>2 DEF Adapters!Reported, AdapterInv, ResultInv
    <3>2. results[c] \in Adapters!Results
      BY <1>1, <3>1 DEF AdapterInv, ResultInv
    <3> QED  BY <3>1, <3>2 DEF AdapterInv, ResultInv
  <2>3. CASE c \notin process /\ c \notin Adapters!Enabled
    BY <2>3 DEF Adapters!Reported, Adapters!Results
  <2> QED  BY <2>1, <2>2, <2>3
<1>3. Adapters!Reported \in [Adapters!Cases -> Adapters!Results]
  <2>1. Adapters!Reported = [c \in Adapters!Cases |-> Adapters!Reported[c]]
    BY DEF Adapters!Reported
  <2> QED  BY <1>2, <2>1
<1> QED  BY <1>2, <1>3, AdapterConstants

\* A child is launched for cases that may still be executed.
LEMMA AdapterLaunches ==
    ASSUME AdapterInv, UNCHANGED <<adapter, tag, asked, workspace, preflight, executed, next, round,
                                   results, verdict>>,
           adapter # "WEB", workspace, verdict = None, turn' = "child", stopped' \in BOOLEAN,
           stopped => stopped',
           report' = Adapters!Nothing, process' \subseteq Adapters!Enabled,
           round = 1 => process' = Adapters!Enabled,
           \A c \in Adapters!Cases : /\ round = 1 => executed[c] = 0
                                     /\ c \in process' => executed[c] < Most(c)
                                     /\ round = 2 => results[c] # None,
           adapter = "ANDROID" /\ Adapters!NeedsPreflight => preflight
    PROVE  AdapterInv'
<1>1. \A c \in Adapters!Cases : report'[c] = None
  BY DEF Adapters!Nothing
<1>2. Adapters!TypeOK'
  <2>1. report' \in [Adapters!Cases -> Adapters!Outcomes \cup {None}]
    BY DEF Adapters!Nothing
  <2>2. process' \in (SUBSET Adapters!Cases) \cup {None}
    BY DEF Adapters!Enabled
  <2> QED  BY <2>1, <2>2 DEF AdapterInv, Adapters!TypeOK
<1>3. PartsInv' /\ NewInv' /\ PreflightInv'
  BY SameRun DEF AdapterInv, PartsInv, NewInv, PreflightInv
<1>4. HeadroomInv'
  BY <1>1, SameRun DEF AdapterInv, HeadroomInv
<1>5. ResultInv'
  BY <1>1, SameRun DEF AdapterInv, ResultInv
<1> QED  BY <1>2, <1>3, <1>4, <1>5 DEF AdapterInv

\* LegacyPytestAdapter, and what ends a child in either adapter.
LEMMA AdapterLegacy ==
    ASSUME AdapterInv,
           \/ Adapters!StartLegacy \/ Adapters!LegacyFails \/ Adapters!AndroidFails
           \/ Adapters!ChildFails \/ Adapters!ReadLegacy
    PROVE  AdapterInv'
<1> USE DEF Adapters!run, Adapters!target
<1>0. /\ asked \in BOOLEAN /\ stopped \in BOOLEAN /\ next \in 1..(MaxCases + 1)
      /\ turn \notin {"idle", "done"} => workspace = TRUE /\ verdict = None
  BY DEF AdapterInv, Adapters!TypeOK, PartsInv, ResultInv
<1>1. CASE Adapters!StartLegacy
  <2>1. /\ UNCHANGED <<adapter, tag, asked, workspace, preflight, executed, next, round, verdict>>
        /\ adapter = "LEGACY" /\ turn = "ready" /\ stopped' \in BOOLEAN /\ (stopped => stopped')
    BY <1>0, <1>1 DEF Adapters!StartLegacy, Adapters!Notices
  <2>2. process = None /\ round = 1 /\ \A c \in Adapters!Cases : executed[c] = 0
    BY <2>1 DEF AdapterInv, NewInv
  <2>3. CASE stopped'
    <3>1. /\ turn' = "conclude" /\ results' = Adapters!Rest("canceled")
          /\ UNCHANGED <<process, report>>
      BY <1>1, <2>3 DEF Adapters!StartLegacy
    <3>2. /\ results' \in [Adapters!Cases -> Adapters!Results \cup {None}]
          /\ \A c \in Adapters!Cases : results'[c] \in {"canceled", "disabled"}
      BY <3>1, RestOfAll
    <3>3. \A c \in Adapters!Cases : results'[c] \notin {"PASSED", None}
      BY <3>2, AdapterConstants
    <3> QED
      BY <1>0, <2>1, <2>3, <3>1, <3>2, <3>3, AdapterStops
  <2>4. CASE ~stopped'
    <3>1. /\ turn' = "child" /\ UNCHANGED results /\ process' = Adapters!Enabled
          /\ report' = Adapters!Nothing
      BY <1>1, <2>4 DEF Adapters!StartLegacy
    <3>2. \A c \in Adapters!Cases : executed[c] < Most(c)
      BY <2>2 DEF Most
    <3> QED
      BY <1>0, <2>1, <2>2, <3>1, <3>2, AdapterLaunches
  <2> QED  BY <2>1, <2>3, <2>4
<1>2. CASE Adapters!LegacyFails \/ Adapters!AndroidFails
  BY <1>2, AdapterFailsAll DEF Adapters!LegacyFails, Adapters!AndroidFails
<1>3. CASE Adapters!ChildFails
  BY <1>3, AdapterFailsAll DEF Adapters!ChildFails
<1>4. CASE Adapters!ReadLegacy
  <2>1. /\ UNCHANGED <<adapter, tag, asked, workspace, preflight, executed, report, next, round,
                       stopped, verdict>>
        /\ turn = "child" /\ process # None /\ Adapters!Complete
        /\ turn' = "conclude" /\ results' = Adapters!Reported /\ process' = None
    BY <1>4 DEF Adapters!ReadLegacy
  <2> QED
    BY <1>0, <2>1, ReportedResults, AdapterStops
<1> QED  BY <1>1, <1>2, <1>3, <1>4

\* AndroidAppiumAdapter: the preflight, a round, and a second one for what may
\* be repeated.
LEMMA AdapterAndroid ==
    ASSUME AdapterInv,
           Adapters!StartAndroid \/ Adapters!StartRound \/ Adapters!ReadAllure
    PROVE  AdapterInv'
<1> USE DEF Adapters!run
<1>0. /\ asked \in BOOLEAN /\ stopped \in BOOLEAN /\ next \in 1..(MaxCases + 1)
      /\ round \in 1..2 /\ executed \in [Adapters!Cases -> 0..2] /\ preflight \in BOOLEAN
      /\ turn \notin {"idle", "done"} => workspace = TRUE /\ verdict = None
  BY DEF AdapterInv, Adapters!TypeOK, PartsInv, ResultInv
<1>1. CASE Adapters!StartAndroid
  <2>1. /\ UNCHANGED <<adapter, tag, asked, workspace, executed, process, report, next, round,
                       stopped, results, verdict>>
        /\ adapter = "ANDROID" /\ turn = "ready" /\ turn' = "round"
        /\ preflight' = (preflight \/ Adapters!NeedsPreflight)
    BY <1>1 DEF Adapters!StartAndroid
  <2>2. process = None /\ round = 1 /\ \A c \in Adapters!Cases : executed[c] = 0
    BY <2>1 DEF AdapterInv, NewInv
  <2>3. preflight' \in BOOLEAN
    BY <1>0, <2>1
  <2>4. Adapters!TypeOK'
    BY <2>1, <2>3 DEF AdapterInv, Adapters!TypeOK
  <2>5. PartsInv' /\ NewInv' /\ PreflightInv'
    BY <2>1, <2>2, SameRun DEF AdapterInv, PartsInv, NewInv, PreflightInv
  <2>6. HeadroomInv'
    BY <2>1, <2>2, SameRun DEF AdapterInv, HeadroomInv
  <2>7. ResultInv'
    BY <2>1, <2>2, SameRun DEF AdapterInv, ResultInv
  <2> QED  BY <2>4, <2>5, <2>6, <2>7 DEF AdapterInv
<1>2. CASE Adapters!StartRound
  <2>1. /\ UNCHANGED <<adapter, tag, asked, workspace, preflight, executed, next, round, results,
                       verdict>>
        /\ adapter = "ANDROID" /\ turn = "round" /\ turn' = "child"
        /\ process' = Adapters!RoundCases /\ report' = Adapters!Nothing
        /\ stopped' \in BOOLEAN /\ (stopped => stopped')
    BY <1>0, <1>2 DEF Adapters!StartRound, Adapters!Launch, Adapters!Notices
  <2>2. /\ \A c \in Adapters!Cases : executed[c] < round /\ executed[c] \in 0..2
        /\ \A c \in Adapters!Cases : round = 2 => results[c] # None
        /\ Adapters!NeedsPreflight => preflight
    BY <1>0, <2>1 DEF AdapterInv, HeadroomInv, PreflightInv, ResultInv
  <2>3. /\ process' \subseteq Adapters!Enabled
        /\ round = 1 => process' = Adapters!Enabled
        /\ round = 2 => \A c \in process' : tag[c] = "readonly"
    BY <1>0, <2>1 DEF Adapters!RoundCases, Adapters!Retries
  <2>4. \A c \in Adapters!Cases : /\ round = 1 => executed[c] = 0
                                  /\ c \in process' => executed[c] < Most(c)
    BY <1>0, <2>1, <2>2, <2>3 DEF Most
  <2> QED
    BY <1>0, <2>1, <2>2, <2>3, <2>4, AdapterLaunches
<1>3. CASE Adapters!ReadAllure
  <2>1. /\ UNCHANGED <<adapter, tag, asked, workspace, preflight, executed, report, next,
                       stopped, verdict>>
        /\ adapter = "ANDROID" /\ turn = "child" /\ process # None /\ Adapters!Complete
        /\ results' = Adapters!Reported /\ process' = None
        /\ \/ round = 1 /\ turn' = "round" /\ round' = 2
           \/ turn' = "conclude" /\ UNCHANGED round
    BY <1>3 DEF Adapters!ReadAllure
  <2>2. /\ results' \in [Adapters!Cases -> Adapters!Results]
        /\ \A c \in Adapters!Cases : /\ results'[c] = "PASSED" => executed[c] > 0
                                     /\ results'[c] = "canceled" => stopped
                                     /\ results'[c] # None
    BY <2>1, ReportedResults
  <2>3. CASE turn' = "conclude" /\ UNCHANGED round
    BY <1>0, <2>1, <2>2, <2>3, AdapterStops
  <2>4. CASE round = 1 /\ turn' = "round" /\ round' = 2
    <3>1. Adapters!TypeOK'
      BY <1>0, <2>1, <2>2, <2>4 DEF AdapterInv, Adapters!TypeOK
    <3>2. PartsInv' /\ NewInv'
      BY <2>1, <2>4 DEF AdapterInv, PartsInv, NewInv
    <3>3. PreflightInv'
      BY <2>1, <2>4, SameRun DEF AdapterInv, PreflightInv
    <3>4. \A c \in Adapters!Cases : executed[c] < 2
      BY <1>0, <2>1, <2>4 DEF AdapterInv, HeadroomInv
    <3>5. HeadroomInv'
      BY <2>1, <2>4, <3>4, SameRun DEF AdapterInv, HeadroomInv
    <3>6. ResultInv'
      BY <1>0, <2>1, <2>2, <2>4 DEF AdapterInv, ResultInv
    <3> QED  BY <3>1, <3>2, <3>3, <3>5, <3>6 DEF AdapterInv
  <2> QED  BY <2>1, <2>3, <2>4
<1> QED  BY <1>1, <1>2, <1>3

LEMMA AdapterInvariant == Spec => []AdapterInv
<1>1. Init => AdapterInv
  BY AdapterStart
<1>2. AdapterInv /\ [Next]_vars => AdapterInv'
  <2> SUFFICES ASSUME AdapterInv, Adapters!Next \/ UNCHANGED adapters PROVE AdapterInv'
    BY EachMoves
  <2>1. CASE UNCHANGED adapters
    BY <2>1 DEF adapters, AdapterInv, Adapters!TypeOK, PartsInv, NewInv, HeadroomInv, PreflightInv,
       ResultInv, Most, Adapters!Enabled, Adapters!NeedsPreflight
  <2>2. CASE Adapters!RequestCancel
    <3>1. /\ asked' = TRUE
          /\ UNCHANGED <<adapter, tag, workspace, preflight, executed, process, report, turn, next,
                         round, stopped, results, verdict>>
      BY <2>2 DEF Adapters!RequestCancel, Adapters!run, Adapters!target, Adapters!memory
    <3> QED
      BY <3>1 DEF AdapterInv, Adapters!TypeOK, PartsInv, NewInv, HeadroomInv, PreflightInv,
         ResultInv, Most, Adapters!Enabled, Adapters!NeedsPreflight
  <2>3. CASE Adapters!PrepareWeb \/ Adapters!PrepareLegacy \/ Adapters!PrepareAndroid
             \/ Adapters!CopyFails
    <3>1. \E a \in Adapters!Adapters : Adapters!Prepare(a) \/ Adapters!CopyFails
      BY <2>3 DEF Adapters!PrepareWeb, Adapters!PrepareLegacy, Adapters!PrepareAndroid,
         Adapters!Adapters
    <3> QED  BY <3>1, AdapterPrepares
  <2> QED
    BY <2>1, <2>2, <2>3, AdapterCrash, AdapterWeb, AdapterLegacy, AdapterChildExecutes,
       AdapterAndroid, AdapterWriteFails, AdapterConcludes DEF Adapters!Next
<1> QED  BY <1>1, <1>2, PTL DEF Spec

\* A case that changes data is executed once at most, whatever fails, is repeated,
\* crashes or is delivered again (_is_retryable, prepare).
THEOREM MutatingOnce == Spec => []MutatingRunsOnce
<1>1. AdapterInv => MutatingRunsOnce
  BY DEF AdapterInv, HeadroomInv, PreflightInv, Most, MutatingRunsOnce, Adapters!MutatingRunsOnce,
     Adapters!NeedsPreflight
<1> QED  BY <1>1, AdapterInvariant, PTL

\* Every case of a final result has a result of its own, one that PASSED was
\* executed, and a run with cases a cancel skipped is CANCELED (_terminal_status).
THEOREM ResultsEarned == Spec => []ResultsAreEarned
<1>1. AdapterInv => ResultsAreEarned
  BY DEF AdapterInv, ResultInv, ResultsAreEarned, Adapters!ResultsAreEarned
<1> QED  BY <1>1, AdapterInvariant, PTL

-----------------------------------------------------------------------------
(* AI conversations *)

Message == [role : {"user", "assistant"}, reply : Nat, status : Chats!Statuses]

\* Each answer names a question before it, and no two name the same.
RepliesInv ==
    /\ messages \in Seq(Message)
    /\ conversation # "OPEN" => messages = <<>>
    /\ \A n \in DOMAIN messages :
         \/ messages[n] \in Chats!Question
         \/ /\ messages[n] = Chats!Answer(messages[n].reply)
            /\ messages[n].reply \in 1..(n - 1) /\ messages[n].reply \in Chats!Questions
    /\ \A m, n \in DOMAIN messages : messages[m].reply = messages[n].reply /\ m # n =>
         messages[m].reply = 0
    /\ Cardinality(Chats!Questions) <= MaxQuestions

Callings == [kind : Chats!Kinds, step : Chats!Steps, question : 0..(2 * MaxQuestions),
             count : 0..(2 * MaxQuestions), saw : Chats!Statuses \cup {None}]

ChatInv ==
    /\ conversation \in {"NONE", "OPEN", "DELETED"}
    /\ RepliesInv
    /\ work \in [Chatters -> Callings \cup {Chats!Idle}]

\* The messages by their sequence numbers.
LEMMA MessageNumbers ==
    ASSUME messages \in Seq(Message)
    PROVE  /\ Len(messages) \in Nat /\ DOMAIN messages = 1..Len(messages)
           /\ \A n \in DOMAIN messages : messages[n] \in Message
           /\ Chats!Questions \subseteq 1..Len(messages)
           /\ IsFiniteSet(Chats!Questions) /\ Cardinality(Chats!Questions) \in Nat
<1>1. /\ Len(messages) \in Nat /\ DOMAIN messages = 1..Len(messages)
      /\ \A n \in DOMAIN messages : messages[n] \in Message
  BY LenProperties, ElementOfSeq
<1>2. Chats!Questions \subseteq 1..Len(messages)
  BY <1>1 DEF Chats!Questions
<1>3. IsFiniteSet(1..Len(messages))
  BY <1>1, FS_Interval
<1> QED  BY <1>1, <1>2, <1>3, FS_Subset, FS_CardinalityType

\* A part of a set into which the rest of it fits is half of it at least.
LEMMA AtLeastHalf ==
    ASSUME NEW D, IsFiniteSet(D), NEW Q \in SUBSET D, NEW f \in Injection(D \ Q, Q)
    PROVE  Cardinality(D) <= 2 * Cardinality(Q)
<1>1. IsFiniteSet(Q)
  BY FS_Subset
<1>2. Cardinality(Q) \in Nat /\ Cardinality(D) \in Nat
  BY <1>1, FS_CardinalityType
<1>3. Cardinality(D \ Q) <= Cardinality(Q)
  BY <1>1, FS_Injection
<1>4. D \cap Q = Q
  OBVIOUS
<1>5. Cardinality(D \ Q) = Cardinality(D) - Cardinality(Q)
  BY <1>4, FS_Difference
<1> QED  BY <1>2, <1>3, <1>5

LEMMA NumbersUpTo ==
    ASSUME NEW n \in Nat
    PROVE  IsFiniteSet(1..n) /\ Cardinality(1..n) = n
BY FS_Interval

\* There are at most as many answers as questions.
LEMMA MessagesBounded ==
    ASSUME RepliesInv
    PROVE  /\ Len(messages) <= 2 * Cardinality(Chats!Questions)
           /\ Len(messages) <= 2 * MaxQuestions
<1> DEFINE Q == Chats!Questions
           D == 1..Len(messages)
           f == [n \in D \ Q |-> messages[n].reply]
<1>1. /\ Len(messages) \in Nat /\ DOMAIN messages = D /\ Q \in SUBSET D
      /\ Cardinality(Q) \in Nat
  BY MessageNumbers DEF RepliesInv
<1>2. \A n \in D \ Q : messages[n].reply \in Q /\ messages[n].reply # 0
  <2> SUFFICES ASSUME NEW n \in D \ Q PROVE messages[n].reply \in Q /\ messages[n].reply # 0
    OBVIOUS
  <2>1. messages[n] \notin Chats!Question
    BY <1>1 DEF Chats!Questions, Chats!Question
  <2> QED  BY <1>1, <2>1 DEF RepliesInv
<1>3. \A m, n \in D \ Q : messages[m].reply = messages[n].reply => m = n
  BY <1>1, <1>2 DEF RepliesInv
<1>4. f \in Injection(D \ Q, Q)
  <2>1. f \in [D \ Q -> Q] /\ \A m, n \in D \ Q : f[m] = f[n] => m = n
    BY <1>2, <1>3
  <2> HIDE DEF f, D, Q
  <2> QED  BY <2>1 DEF Injection, IsInjective
<1>5. Len(messages) <= 2 * Cardinality(Q)
  <2>1. IsFiniteSet(D) /\ Cardinality(D) = Len(messages)
    BY <1>1, NumbersUpTo
  <2> HIDE DEF f, Q, D
  <2> QED  BY <1>1, <1>4, <2>1, AtLeastHalf
<1>6. Cardinality(Q) <= MaxQuestions /\ MaxQuestions \in Nat
  BY PlatformBounds DEF RepliesInv
<1>7. Len(messages) <= 2 * MaxQuestions
  <2> HIDE DEF Q
  <2> QED  BY <1>1, <1>5, <1>6
<1> QED  BY <1>5, <1>7

LEMMA ChatTypes == ASSUME ChatInv PROVE Chats!TypeOK
<1>1. Len(messages) <= 2 * MaxQuestions
  BY MessagesBounded DEF ChatInv
<1>2. \A n \in DOMAIN messages :
        messages[n] \in Chats!Question \cup {Chats!Answer(q) : q \in 1..(n - 1)}
  BY DEF ChatInv, RepliesInv
<1> QED  BY <1>1, <1>2 DEF ChatInv, RepliesInv, Callings, Chats!TypeOK

LEMMA ChatStart == Init => ChatInv
<1> SUFFICES ASSUME Chats!Init PROVE ChatInv
  BY DEF Init
<1>1. messages = <<>> /\ DOMAIN messages = {} /\ messages \in Seq(Message)
  BY EmptySeq DEF Chats!Init
<1>2. Chats!Questions = {} /\ Cardinality({}) = 0
  BY <1>1, FS_EmptySet DEF Chats!Questions
<1> QED
  BY <1>1, <1>2, PlatformBounds DEF Chats!Init, ChatInv, RepliesInv

\* One row's status is written, and nothing else of it.
LEMMA StatusWritten ==
    ASSUME RepliesInv, NEW q \in Chats!Questions, NEW s \in Chats!Statuses, NEW ms,
           ms = [messages EXCEPT ![q].status = s]
    PROVE  /\ ms \in Seq(Message) /\ Len(ms) = Len(messages)
           /\ \A n \in DOMAIN messages : /\ ms[n].role = messages[n].role
                                         /\ ms[n].reply = messages[n].reply
                                         /\ ms[n] = messages[n] \/ ms[n] \in Chats!Question
<1>1. messages \in Seq(Message) /\ Len(messages) \in Nat /\ DOMAIN messages = 1..Len(messages)
  BY MessageNumbers DEF RepliesInv
<1>2. messages \in [1..Len(messages) -> Message] /\ q \in 1..Len(messages)
  BY <1>1, LenProperties DEF Chats!Questions
<1>3. messages[q] \in Chats!Question
  BY <1>1, <1>2 DEF RepliesInv, Chats!Questions, Chats!Answer
<1> DEFINE row == [messages[q] EXCEPT !.status = s]
<1>4. row \in Chats!Question /\ row \in Message /\ row.role = messages[q].role
      /\ row.reply = messages[q].reply
  BY <1>3 DEF Chats!Question, Message
<1>5. ms = [messages EXCEPT ![q] = row]
  OBVIOUS
<1> HIDE DEF row
<1>6. ms \in [1..Len(messages) -> Message]
  BY <1>2, <1>4, <1>5
<1>7. ms \in Seq(Message) /\ Len(ms) = Len(messages)
  BY <1>1, <1>6
<1>8. ms[q] = row /\ \A n \in DOMAIN messages : n # q => ms[n] = messages[n]
  BY <1>1, <1>2, <1>5
<1> QED  BY <1>4, <1>7, <1>8

\* Statuses apart the messages are what they were.
LEMMA RepliesStay ==
    ASSUME RepliesInv, UNCHANGED conversation,
           messages' \in Seq(Message), Len(messages') = Len(messages), conversation = "OPEN",
           \A n \in DOMAIN messages : /\ messages'[n].role = messages[n].role
                                      /\ messages'[n].reply = messages[n].reply
                                      /\ \/ messages'[n] = messages[n]
                                         \/ messages'[n] \in Chats!Question
    PROVE  RepliesInv'
<1>1. DOMAIN messages' = DOMAIN messages
  BY LenProperties DEF RepliesInv
<1>2. Chats!Questions' = Chats!Questions
  BY <1>1 DEF Chats!Questions
<1>3. \A n \in DOMAIN messages :
        \/ messages'[n] \in Chats!Question
        \/ /\ messages'[n] = Chats!Answer(messages'[n].reply)
           /\ messages'[n].reply \in 1..(n - 1) /\ messages'[n].reply \in Chats!Questions
  BY DEF RepliesInv
<1> QED  BY <1>1, <1>2, <1>3 DEF RepliesInv

\* mark_ai_chat_question_failed.
LEMMA MarkKeeps ==
    ASSUME RepliesInv, UNCHANGED conversation, NEW q, NEW saw, Chats!Mark(q, saw)
    PROVE  RepliesInv'
<1>1. CASE messages' = messages
  BY <1>1 DEF RepliesInv, Chats!Questions
<1>2. CASE q \in Chats!Questions /\ messages' = [messages EXCEPT ![q].status = "FAILED"]
  <2>1. conversation = "OPEN"
    BY <1>2, EmptySeq DEF RepliesInv, Chats!Questions
  <2>2. "FAILED" \in Chats!Statuses
    BY DEF Chats!Statuses
  <2>3. /\ messages' \in Seq(Message) /\ Len(messages') = Len(messages)
        /\ \A n \in DOMAIN messages : /\ messages'[n].role = messages[n].role
                                      /\ messages'[n].reply = messages[n].reply
                                      /\ \/ messages'[n] = messages[n]
                                         \/ messages'[n] \in Chats!Question
    BY <1>2, <2>2, StatusWritten
  <2> QED  BY <2>1, <2>3, RepliesStay
<1> QED  BY <1>1, <1>2 DEF Chats!Mark

\* save_ai_chat_question.
LEMMA QuestionAdded ==
    ASSUME RepliesInv, messages' = Append(messages, Chats!NewQuestion), conversation' = "OPEN",
           Chats!RoomForQuestion
    PROVE  RepliesInv'
<1> DEFINE k == Len(messages) + 1
<1>1. /\ messages \in Seq(Message) /\ Len(messages) \in Nat
      /\ DOMAIN messages = 1..Len(messages) /\ Chats!Questions \subseteq 1..Len(messages)
      /\ IsFiniteSet(Chats!Questions) /\ Cardinality(Chats!Questions) \in Nat
  BY MessageNumbers DEF RepliesInv
<1>2. Chats!NewQuestion \in Message /\ Chats!NewQuestion \in Chats!Question
  BY DEF Chats!NewQuestion, Message, Chats!Question, Chats!Statuses
<1>3. /\ messages' \in Seq(Message) /\ Len(messages') = k
      /\ \A n \in DOMAIN messages : messages'[n] = messages[n]
      /\ messages'[k] = Chats!NewQuestion
  BY <1>1, <1>2, AppendProperties
<1>4. DOMAIN messages' = 1..k /\ 1..k = DOMAIN messages \cup {k} /\ k \notin DOMAIN messages
  BY <1>1, <1>3, LenProperties
<1> HIDE DEF k
<1>5. Chats!Questions' = Chats!Questions \cup {k}
  BY <1>3, <1>4 DEF Chats!Questions, Chats!NewQuestion
<1>6. Cardinality(Chats!Questions') <= MaxQuestions
  <2>1. Chats!Cardinality(Chats!Questions) = Cardinality(Chats!Questions)
    BY DEF Chats!Cardinality, Cardinality
  <2>2. Cardinality(Chats!Questions \cup {k}) = Cardinality(Chats!Questions) + 1
    BY <1>1, <1>4, FS_AddElement DEF Chats!Questions
  <2> QED
    BY <1>1, <1>5, <2>1, <2>2, PlatformBounds DEF Chats!RoomForQuestion
<1>7. messages'[k].reply = 0
  BY <1>3 DEF Chats!NewQuestion
<1>8. \A n \in DOMAIN messages' :
        \/ messages'[n] \in Chats!Question
        \/ /\ messages'[n] = Chats!Answer(messages'[n].reply)
           /\ messages'[n].reply \in 1..(n - 1) /\ messages'[n].reply \in Chats!Questions'
  BY <1>2, <1>3, <1>4, <1>5 DEF RepliesInv
<1>9. \A m, n \in DOMAIN messages' :
        messages'[m].reply = messages'[n].reply /\ m # n => messages'[m].reply = 0
  BY <1>3, <1>4, <1>7 DEF RepliesInv
<1> QED  BY <1>3, <1>6, <1>8, <1>9 DEF RepliesInv

\* save_ai_chat_answer, when there is no answer yet.
LEMMA AnswerAdded ==
    ASSUME RepliesInv, UNCHANGED conversation, NEW q \in Chats!Questions, ~Chats!Answered(q),
           messages' = Append([messages EXCEPT ![q].status = "COMPLETED"], Chats!Answer(q))
    PROVE  /\ RepliesInv'
           /\ DOMAIN messages' = DOMAIN messages \cup {Len(messages) + 1}
           /\ \A n \in DOMAIN messages : messages'[n].reply = messages[n].reply
           /\ messages'[Len(messages) + 1].reply = q
<1> DEFINE k == Len(messages) + 1
           ms == [messages EXCEPT ![q].status = "COMPLETED"]
<1>1. /\ messages \in Seq(Message) /\ Len(messages) \in Nat
      /\ DOMAIN messages = 1..Len(messages) /\ Chats!Questions \subseteq 1..Len(messages)
  BY MessageNumbers DEF RepliesInv
<1>2. "COMPLETED" \in Chats!Statuses
  BY DEF Chats!Statuses
<1>3. /\ ms \in Seq(Message) /\ Len(ms) = Len(messages)
      /\ \A n \in DOMAIN messages : /\ ms[n].role = messages[n].role
                                    /\ ms[n].reply = messages[n].reply
                                    /\ ms[n] = messages[n] \/ ms[n] \in Chats!Question
  BY <1>2, StatusWritten
<1>4. Chats!Answer(q) \in Message /\ q \in 1..(k - 1)
  BY <1>1, <1>2 DEF Chats!Answer, Message
<1>5. messages' = Append(ms, Chats!Answer(q))
  OBVIOUS
<1> HIDE DEF ms
<1>6. /\ messages' \in Seq(Message) /\ Len(messages') = k
      /\ \A n \in 1..Len(ms) : messages'[n] = ms[n]
      /\ messages'[k] = Chats!Answer(q)
  <2>1. /\ Append(ms, Chats!Answer(q)) \in Seq(Message)
        /\ Len(Append(ms, Chats!Answer(q))) = Len(ms) + 1
        /\ \A n \in 1..Len(ms) : Append(ms, Chats!Answer(q))[n] = ms[n]
        /\ Append(ms, Chats!Answer(q))[Len(ms) + 1] = Chats!Answer(q)
    <3> DEFINE e == Chats!Answer(q)
    <3>1. e \in Message
      BY <1>4
    <3>2. ms \in Seq(Message)
      BY <1>3
    <3> HIDE DEF e
    <3>3. /\ Append(ms, e) \in Seq(Message) /\ Len(Append(ms, e)) = Len(ms) + 1
          /\ \A n \in 1..Len(ms) : Append(ms, e)[n] = ms[n]
          /\ Append(ms, e)[Len(ms) + 1] = e
      BY <3>1, <3>2, AppendProperties
    <3> QED  BY <3>3 DEF e
  <2> QED  BY <1>3, <1>5, <2>1
<1>7. DOMAIN messages' = DOMAIN messages \cup {k} /\ k \notin DOMAIN messages
  BY <1>1, <1>6, LenProperties
<1> HIDE DEF k
<1>8. /\ \A n \in DOMAIN messages : /\ messages'[n].role = messages[n].role
                                    /\ messages'[n].reply = messages[n].reply
                                    /\ \/ messages'[n] = messages[n]
                                       \/ messages'[n] \in Chats!Question
      /\ messages'[k].reply = q /\ messages'[k].role = "assistant"
  <2>1. \A n \in DOMAIN messages : messages'[n] = ms[n]
    BY <1>1, <1>3, <1>6
  <2>2. messages'[k].reply = q /\ messages'[k].role = "assistant"
    BY <1>6 DEF Chats!Answer
  <2> QED  BY <1>3, <2>1, <2>2
<1>9. Chats!Questions' = Chats!Questions
  BY <1>7, <1>8 DEF Chats!Questions
<1>10. \A n \in DOMAIN messages' :
        \/ messages'[n] \in Chats!Question
        \/ /\ messages'[n] = Chats!Answer(messages'[n].reply)
           /\ messages'[n].reply \in 1..(n - 1) /\ messages'[n].reply \in Chats!Questions'
  BY <1>4, <1>6, <1>7, <1>8, <1>9 DEF RepliesInv
<1>11. \A m, n \in DOMAIN messages' :
        messages'[m].reply = messages'[n].reply /\ m # n => messages'[m].reply = 0
  BY <1>7, <1>8 DEF RepliesInv, Chats!Answered
<1>12. conversation' = "OPEN"
  BY <1>1, EmptySeq DEF RepliesInv
<1> QED  BY <1>6, <1>7, <1>8, <1>9, <1>10, <1>11, <1>12 DEF RepliesInv, k

\* A caller that is at a step of its own has a row, and one that ends a step gets
\* one.
LEMMA CallRows ==
    ASSUME ChatInv, NEW c \in Chatters
    PROVE  /\ \A s \in Chats!Steps : Chats!At(c, s) => work[c] \in Callings
           /\ Chats!Leave(c) => work' \in [Chatters -> Callings \cup {Chats!Idle}]
           /\ Chats!ToWrapper(c) => work' \in [Chatters -> Callings \cup {Chats!Idle}]
           /\ Chats!Fails(c) => work' \in [Chatters -> Callings \cup {Chats!Idle}]
<1>0. work \in [Chatters -> Callings \cup {Chats!Idle}] /\ work[c] \in Callings \cup {Chats!Idle}
  BY DEF ChatInv
<1>1. \A s \in Chats!Steps : Chats!At(c, s) => work[c] \in Callings
  BY <1>0 DEF Chats!At, Chats!Idle, Chats!Steps
<1>2. Chats!Leave(c) => work' \in [Chatters -> Callings \cup {Chats!Idle}]
  BY <1>0 DEF Chats!Leave
<1>3. Chats!ToWrapper(c) => work' \in [Chatters -> Callings \cup {Chats!Idle}]
  <2> DEFINE row == [Chats!Idle EXCEPT !.kind = "task", !.step = "failing",
                                       !.question = work[c].question]
  <2>1. work[c].question \in 0..(2 * MaxQuestions) /\ 0 \in 0..(2 * MaxQuestions)
    BY <1>0, PlatformBounds DEF Callings, Chats!Idle
  <2>2. \A k \in 0..(2 * MaxQuestions) :
          [Chats!Idle EXCEPT !.kind = "task", !.step = "failing", !.question = k] \in Callings
    BY <2>1 DEF Callings, Chats!Kinds, Chats!Steps, Chats!Idle
  <2>3. row \in Callings
    BY <2>1, <2>2
  <2>4. Chats!ToWrapper(c) => work' = [work EXCEPT ![c] = row]
    BY DEF Chats!ToWrapper
  <2> HIDE DEF row
  <2> QED  BY <1>0, <2>3, <2>4
<1> QED  BY <1>1, <1>2, <1>3 DEF Chats!Fails

\* What the calls write to the conversation, and to their rows.
LEMMA ChatStep ==
    ASSUME ChatInv, Chats!Next
    PROVE  ChatInv'
<1>0. /\ RepliesInv /\ conversation \in {"NONE", "OPEN", "DELETED"}
      /\ work \in [Chatters -> Callings \cup {Chats!Idle}]
  BY DEF ChatInv
<1>1. /\ Len(messages) \in 0..(2 * MaxQuestions) /\ 0 \in 0..(2 * MaxQuestions)
      /\ Len(messages) + 1 \in Nat /\ Chats!Questions \subseteq 0..(2 * MaxQuestions)
      /\ MaxQuestions \in Nat
  BY <1>0, MessagesBounded, MessageNumbers, PlatformBounds DEF RepliesInv
<1>2. UNCHANGED <<conversation, messages>> => RepliesInv'
  BY <1>0 DEF RepliesInv, Chats!Questions
<1>3. ASSUME NEW c \in Chatters, Chats!Ask(c) \/ Chats!Exchange(c)
      PROVE  ChatInv'
  <2>1. PICK kind \in Chats!Kinds, step \in Chats!Steps :
          work' = [work EXCEPT ![c] = [Chats!Idle EXCEPT !.kind = kind, !.step = step,
                                                         !.count = Len(messages)]]
    BY <1>3 DEF Chats!Ask, Chats!Exchange, Chats!Kinds, Chats!Steps
  <2>2. [Chats!Idle EXCEPT !.kind = kind, !.step = step, !.count = Len(messages)] \in Callings
    BY <1>1 DEF Callings, Chats!Idle
  <2>3. work' \in [Chatters -> Callings \cup {Chats!Idle}]
    BY <1>0, <2>1, <2>2
  <2> QED  BY <1>0, <1>2, <1>3, <2>3 DEF ChatInv, Chats!Ask, Chats!Exchange
<1>4. ASSUME NEW c \in Chatters, Chats!SaveQuestion(c)
      PROVE  ChatInv'
  <2>1. work[c] \in Callings
    BY <1>4, CallRows DEF Chats!SaveQuestion, Chats!Steps
  <2>2. CASE Chats!Leave(c) /\ UNCHANGED <<conversation, messages>>
    BY <1>0, <1>2, <2>2, CallRows DEF ChatInv
  <2>3. CASE ~(Chats!Leave(c) /\ UNCHANGED <<conversation, messages>>)
    <3>1. /\ conversation' = "OPEN" /\ messages' = Append(messages, Chats!NewQuestion)
          /\ Chats!RoomForQuestion
          /\ work' = [work EXCEPT ![c].question = Len(messages) + 1,
                                  ![c].count = Len(messages) + 1,
                                  ![c].step = IF work[c].kind = "task" THEN "loading"
                                              ELSE "saving"]
      BY <1>4, <2>3 DEF Chats!SaveQuestion
    <3>2. RepliesInv'
      BY <1>0, <3>1, QuestionAdded
    <3>3. Len(messages) + 1 \in 0..(2 * MaxQuestions)
      <4>1. Len(messages) <= 2 * Cardinality(Chats!Questions)
        BY <1>0, MessagesBounded
      <4>2. Cardinality(Chats!Questions) < MaxQuestions /\ Cardinality(Chats!Questions) \in Nat
        BY <1>0, <3>1, MessageNumbers
           DEF RepliesInv, Chats!RoomForQuestion, Chats!Cardinality, Cardinality
      <4>3. Len(messages) \in Nat
        BY <1>1
      <4> QED  BY <1>1, <4>1, <4>2, <4>3
    <3> DEFINE row == [work[c] EXCEPT !.question = Len(messages) + 1, !.count = Len(messages) + 1,
                         !.step = IF work[c].kind = "task" THEN "loading" ELSE "saving"]
    <3>4. row \in Callings
      BY <2>1, <3>3 DEF Callings, Chats!Steps
    <3>5. work' = [work EXCEPT ![c] = row]
      BY <1>0, <2>1, <3>1 DEF Callings
    <3> HIDE DEF row
    <3>6. work' \in [Chatters -> Callings \cup {Chats!Idle}]
      BY <1>0, <3>4, <3>5
    <3> QED  BY <3>1, <3>2, <3>6 DEF ChatInv
  <2> QED  BY <2>2, <2>3
<1>5. ASSUME NEW c \in Chatters, NEW kind \in {"task", "retry"}, NEW q, Chats!Load(c, kind, q)
      PROVE  ChatInv'
  <2>1. messages[q].status \in Chats!Statuses /\ q \in Chats!Questions
    BY <1>0, <1>5, MessageNumbers DEF RepliesInv, Chats!Load, Chats!Questions, Message
  <2>2. [kind |-> kind, step |-> "thinking", question |-> q, count |-> Len(messages),
         saw |-> messages[q].status] \in Callings
    BY <1>1, <2>1 DEF Callings, Chats!Kinds, Chats!Steps
  <2>3. work' \in [Chatters -> Callings \cup {Chats!Idle}]
    BY <1>0, <1>5, <2>2 DEF Chats!Load
  <2> QED  BY <1>0, <1>2, <1>5, <2>3 DEF ChatInv, Chats!Load
<1>6. ASSUME NEW c \in Chatters, Chats!LoadFails(c)
      PROVE  ChatInv'
  BY <1>0, <1>2, <1>6, CallRows DEF ChatInv, Chats!LoadFails
<1>7. ASSUME NEW c \in Chatters, Chats!ModelAnswers(c)
      PROVE  ChatInv'
  <2>1. work[c] \in Callings
    BY <1>7, CallRows DEF Chats!ModelAnswers, Chats!Steps
  <2> DEFINE row == [work[c] EXCEPT !.step = IF work[c].kind = "exchange" THEN "asking" ELSE "saving",
                                    !.saw = None]
  <2>2. row \in Callings
    BY <2>1 DEF Callings, Chats!Steps
  <2>3. work' = [work EXCEPT ![c] = row]
    BY <1>0, <1>7, <2>1 DEF Callings, Chats!ModelAnswers
  <2> HIDE DEF row
  <2>4. work' \in [Chatters -> Callings \cup {Chats!Idle}]
    BY <1>0, <2>2, <2>3
  <2> QED  BY <1>0, <1>2, <1>7, <2>4 DEF ChatInv, Chats!ModelAnswers
<1>8. ASSUME NEW c \in Chatters, Chats!ModelFails(c) \/ Chats!WrapperMarks(c)
      PROVE  ChatInv'
  <2>1. UNCHANGED conversation /\ \E q, saw : Chats!Mark(q, saw)
    BY <1>8 DEF Chats!ModelFails, Chats!WrapperMarks
  <2>2. Chats!Fails(c) \/ Chats!Leave(c)
    BY <1>8 DEF Chats!ModelFails, Chats!WrapperMarks
  <2> QED  BY <1>0, <2>1, <2>2, MarkKeeps, CallRows DEF ChatInv
<1>9. ASSUME NEW c \in Chatters, Chats!SaveAnswer(c)
      PROVE  ChatInv'
  <2> DEFINE q == work[c].question
  <2>1. Chats!Fails(c) \/ Chats!Leave(c)
    BY <1>9 DEF Chats!SaveAnswer
  <2>2. UNCHANGED conversation
    BY <1>9 DEF Chats!SaveAnswer
  <2>3. \/ UNCHANGED messages
        \/ /\ q \in Chats!Questions /\ ~Chats!Answered(q)
           /\ messages' = Append([messages EXCEPT ![q].status = "COMPLETED"], Chats!Answer(q))
    BY <1>9 DEF Chats!SaveAnswer
  <2> HIDE DEF q
  <2>4. RepliesInv'
    BY <1>0, <1>2, <2>2, <2>3, AnswerAdded
  <2> QED  BY <1>0, <2>1, <2>2, <2>4, CallRows DEF ChatInv
<1>10. ASSUME Chats!Delete
       PROVE  ChatInv'
  <2>1. messages' = <<>> /\ conversation' = "DELETED" /\ UNCHANGED work
    BY <1>10 DEF Chats!Delete
  <2>2. messages' \in Seq(Message) /\ DOMAIN messages' = {}
    BY <2>1, EmptySeq
  <2>3. Chats!Questions' = {} /\ Cardinality({}) = 0
    BY <2>2, FS_EmptySet DEF Chats!Questions
  <2> QED  BY <1>0, <1>1, <2>1, <2>2, <2>3 DEF ChatInv, RepliesInv
<1>11. ASSUME Chats!Restart
       PROVE  ChatInv'
  BY <1>0, <1>2, <1>11 DEF ChatInv, Chats!Restart
<1> QED
  BY <1>3, <1>4, <1>5, <1>6, <1>7, <1>8, <1>9, <1>10, <1>11 DEF Chats!Next

LEMMA ChatInvariant == Spec => []ChatInv
<1>1. Init => ChatInv
  BY ChatStart
<1>2. ChatInv /\ [Next]_vars => ChatInv'
  <2>1. ChatInv /\ UNCHANGED chats => ChatInv'
    BY DEF chats, ChatInv, RepliesInv, Chats!Questions
  <2> QED  BY <2>1, ChatStep, EachMoves
<1> QED  BY <1>1, <1>2, PTL DEF Spec

\* A question that still exists has one answer when save_ai_chat_answer ends, and
\* no other answer is lost.
THEOREM AnswersKept == Spec => AnswersAreKept
<1>1. ASSUME ChatInv, NEW c \in Chatters, Chats!SaveAnswer(c), work[c].question \in Chats!Questions
      PROVE  /\ \E n \in DOMAIN messages' : Chats!Replies(work[c].question, messages') = {n}
             /\ \A m \in DOMAIN messages : messages'[m].reply = messages[m].reply
  <2> DEFINE q == work[c].question
  <2>0. RepliesInv /\ DOMAIN messages = 1..Len(messages) /\ Len(messages) \in Nat /\ q # 0
    <3>1. RepliesInv /\ messages \in Seq(Message)
      BY <1>1 DEF ChatInv, RepliesInv
    <3> QED  BY <1>1, <3>1, MessageNumbers
  <2>1. \/ UNCHANGED messages /\ Chats!Answered(q)
        \/ /\ ~Chats!Answered(q) /\ UNCHANGED conversation
           /\ messages' = Append([messages EXCEPT ![q].status = "COMPLETED"], Chats!Answer(q))
    BY <1>1 DEF Chats!SaveAnswer, Chats!Fits, Chats!Count
  <2>2. q \in Chats!Questions
    BY <1>1
  <2> HIDE DEF q
  <2>3. CASE UNCHANGED messages /\ Chats!Answered(q)
    <3>1. PICK n \in DOMAIN messages : messages[n].reply = q
      BY <2>3 DEF Chats!Answered
    <3>2. Chats!Replies(q, messages) = {n}
      BY <2>0, <3>1 DEF RepliesInv, Chats!Replies
    <3> QED  BY <2>3, <3>1, <3>2 DEF q
  <2>4. CASE /\ ~Chats!Answered(q) /\ UNCHANGED conversation
             /\ messages' = Append([messages EXCEPT ![q].status = "COMPLETED"], Chats!Answer(q))
    <3>1. /\ DOMAIN messages' = DOMAIN messages \cup {Len(messages) + 1}
          /\ \A n \in DOMAIN messages : messages'[n].reply = messages[n].reply
          /\ messages'[Len(messages) + 1].reply = q
      BY <2>0, <2>2, <2>4, AnswerAdded
    <3>2. \A n \in DOMAIN messages : messages[n].reply # q
      BY <2>4 DEF Chats!Answered
    <3>3. Chats!Replies(q, messages') = {Len(messages) + 1}
      BY <3>1, <3>2 DEF Chats!Replies
    <3> QED  BY <3>1, <3>3 DEF q
  <2> QED  BY <2>1, <2>3, <2>4
<1>2. ChatInv => [\A c \in Chatters :
                    Chats!SaveAnswer(c) /\ work[c].question \in Chats!Questions
                    => /\ \E n \in DOMAIN messages' :
                            Chats!Replies(work[c].question, messages') = {n}
                       /\ \A m \in DOMAIN messages : messages'[m].reply = messages[m].reply
                 ]_Chats!vars
  BY <1>1
<1> QED
  BY <1>2, ChatInvariant, PTL DEF AnswersAreKept, Chats!AnswersAreKept

-----------------------------------------------------------------------------
(* All components *)

\* Every component keeps its variables in their types.
THEOREM AllTyped == Spec => []TypesOK
<1>1. AlertInv /\ WebhookInv /\ MailInv /\ IdentityInv /\ AccessInv /\ ViewInv /\ AdapterInv /\ ChatInv
        => /\ Alerts!TypeOK /\ Webhooks!TypeOK /\ Emails!TypeOK /\ Identities!TypeOK
           /\ Accesses!TypeOK /\ Views!TypeOK /\ Adapters!TypeOK /\ Chats!TypeOK
  BY ChatTypes DEF AlertInv, WebhookInv, MailInv, IdentityInv, AccessInv, ViewInv, AdapterInv
<1>2. Deeds!TypeOK => Tasks!TypeOK
  <2>1. Tasks!Resources = Deeds!Resources /\ \A f : Tasks!Range(f) = Deeds!Range(f)
    BY DEF Tasks!Resources, Deeds!Resources, Tasks!ContainerResources, Deeds!ContainerResources,
       Tasks!JobResources, Deeds!JobResources, Tasks!Range, Deeds!Range
  <2>2. Tasks!Document = Deeds!Document /\ Tasks!Own = Deeds!Own
        /\ Tasks!Modes = Deeds!Modes /\ Tasks!Verdicts = Deeds!Verdicts
    BY DEF Tasks!Document, Deeds!Document, Tasks!Verdicts, Deeds!Verdicts, Tasks!Own, Deeds!Own,
       Tasks!Modes, Deeds!Modes
  <2> QED  BY <2>1, <2>2 DEF Tasks!TypeOK, Deeds!TypeOK
<1>3. Spec => []Tasks!TypeOK
  BY <1>2, SameTask, SameBounds, Deeds!TaskTypes, PTL
<1>4. AlertInv /\ WebhookInv /\ MailInv /\ IdentityInv /\ AccessInv /\ ViewInv /\ AdapterInv
        /\ ChatInv /\ Tasks!TypeOK => TypesOK
  BY <1>1 DEF TypesOK
<1> QED
  BY <1>3, <1>4, AlertInvariant, WebhookInvariant, MailInvariant, IdentityInvariant,
     AccessInvariant, ViewInvariant, AdapterInvariant, ChatInvariant, PTL
================================================================================
