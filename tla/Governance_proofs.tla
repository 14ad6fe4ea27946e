------------------------- MODULE Governance_proofs --------------------------
(***************************************************************************)
(* Machine-checked proofs about Governance, for every set of users, keys   *)
(* and any number of candidate snapshots.                                  *)
(***************************************************************************)
EXTENDS Governance, RunStates_proofs, TLAPS

-----------------------------------------------------------------------------
(* Types                                                                   *)

\* The request names a snapshot exactly when it exists.
RequestExists == request = "NONE" <=> revision \notin Revisions

TypeInv == TypeOK /\ RequestExists

\* A new candidate snapshot keeps the request's rows well typed.
LEMMA NewCandidateTypes ==
    ASSUME TypeOK, NEW v \in Revisions, NEW c \in Contents, NEW S, NewCandidate(v, c, S)
    PROVE  /\ revision' \in Revisions
           /\ content' \in [Revisions -> Contents]
           /\ baseline' \in [Revisions -> BaselineStates]
           /\ request' \in RequestStates
           /\ validation' \in ValidationStates
<1>1. revision' \in Revisions /\ request' = "DRAFT" /\ validation' = Unvalidated(c)
  BY DEF NewCandidate
<1>2. content' \in [Revisions -> Contents]
  BY DEF NewCandidate, TypeOK
<1>3. baseline' \in [Revisions -> BaselineStates]
  BY DEF NewCandidate, TypeOK, BaselineStates
<1> QED  BY <1>1, <1>2, <1>3 DEF RequestStates, ValidationStates, Unvalidated

\* A new run row is well typed.
LEMMA InsertRunTypes ==
    ASSUME TypeOK, NEW k \in Keys, NEW v \in 0..MaxRevision, NEW s \in Scopes,
           NEW c \in Calls, InsertRun(k, v, s, c)
    PROVE  run' \in [Keys -> Run]
<1>1. NewRun(v, s, c, "QUEUED") \in Run
  BY DEF NewRun, Run, Status, InFlight
<1> QED  BY <1>1 DEF InsertRun, TypeOK

\* Every transaction leaves the rows well typed.
LEMMA TypeStep == TypeInv /\ [Next]_vars => TypeInv'
<1> SUFFICES ASSUME TypeInv, [Next]_vars PROVE TypeInv'
  OBVIOUS
<1> USE DEF TypeInv, RequestExists, requestVars, pendingVars
<1>0. TypeOK
  OBVIOUS
<1>1. ASSUME NEW u \in Users, Submit(u) PROVE TypeInv'
  BY <1>1 DEF Submit, TypeOK, RequestStates
<1>2. ASSUME NEW u \in Users, NEW c \in Contents, CreateRequest(u, c) PROVE TypeInv'
  <2>1. 1 \in Revisions
    BY GovernanceBounds DEF Revisions
  <2>2. NewCandidate(1, c, {})
    BY <1>2 DEF CreateRequest
  <2>3. /\ revision' \in Revisions /\ request' \in RequestStates
        /\ content' \in [Revisions -> Contents] /\ baseline' \in [Revisions -> BaselineStates]
        /\ validation' \in ValidationStates
    BY <1>0, <2>1, <2>2, NewCandidateTypes
  <2>4. request' # "NONE"
    BY <2>2 DEF NewCandidate
  <2> QED  BY <1>2, <2>3, <2>4 DEF CreateRequest, TypeOK, Revisions
<1>3. ASSUME NEW u \in Users, NEW c \in Contents, UpdateRequest(u, c) PROVE TypeInv'
  <2>1. revision + 1 \in Revisions
    BY <1>3, GovernanceBounds DEF UpdateRequest, TypeOK, Revisions
  <2>2. NewCandidate(revision + 1, c, {revision})
    BY <1>3 DEF UpdateRequest
  <2>3. /\ revision' \in Revisions /\ request' \in RequestStates
        /\ content' \in [Revisions -> Contents] /\ baseline' \in [Revisions -> BaselineStates]
        /\ validation' \in ValidationStates
    BY <1>0, <2>1, <2>2, NewCandidateTypes
  <2>4. request' # "NONE"
    BY <2>2 DEF NewCandidate
  <2> QED  BY <1>3, <2>3, <2>4 DEF UpdateRequest, TypeOK, Revisions
<1>4. ASSUME NEW u \in Users, RequestChanges(u) \/ Approve(u) PROVE TypeInv'
  <2>1. revision \in Revisions
    BY <1>4 DEF RequestChanges, Approve
  <2>2. approvals' \subseteq Approval
    BY <1>4, <2>1 DEF RequestChanges, Approve, Record, Approval, TypeOK
  <2> QED  BY <1>4, <2>1, <2>2 DEF RequestChanges, Approve, TypeOK, RequestStates, BaselineStates
<1>5. ASSUME WaiveValidation PROVE TypeInv'
  BY <1>5 DEF WaiveValidation, TypeOK, ValidationStates
<1>6. ASSUME NEW k \in Keys, StartValidation(k) PROVE TypeInv'
  <2>1. AffectedScope(revision) \in Scopes /\ "validation" \in Calls /\ revision \in 0..MaxRevision
    BY DEF AffectedScope, Scopes, Calls, TypeOK
  <2>2. run' \in [Keys -> Run]
    BY <1>0, <1>6, <2>1, InsertRunTypes DEF StartValidation
  <2> QED  BY <1>6, <2>2 DEF StartValidation, TypeOK
<1>7. ASSUME NEW k \in Keys, LinkRun(k) \/ LinkLost(k) \/ RetryValidation(k) PROVE TypeInv'
  BY <1>7 DEF LinkRun, LinkLost, RetryValidation, TypeOK, ValidationStates
<1>8. ASSUME NEW k \in Keys, StartRegression(k) PROVE TypeInv'
  <2>1. "all" \in Scopes /\ "regression" \in Calls /\ revision \in 0..MaxRevision
    BY DEF Scopes, Calls, TypeOK
  <2>2. run' \in [Keys -> Run]
    BY <1>0, <1>8, <2>1, InsertRunTypes DEF StartRegression
  <2> QED  BY <1>8, <2>2 DEF StartRegression, TypeOK
<1>9. ASSUME NEW k \in Keys, Publish(k) PROVE TypeInv'
  BY <1>9 DEF Publish, TypeOK, RequestStates, BaselineStates
<1>10. ASSUME NEW k \in Keys, NEW source \in Keys, NEW scope \in Scopes, Rerun(k, source, scope)
       PROVE  TypeInv'
  <2>1. run[source].rev \in 0..MaxRevision /\ "rerun" \in Calls
    BY DEF Calls, TypeOK, Run
  <2>2. run' \in [Keys -> Run]
    BY <1>0, <1>10, <2>1, InsertRunTypes DEF Rerun
  <2> QED  BY <1>10, <2>2 DEF Rerun, TypeOK
<1>11. ASSUME NEW k \in Keys, CancelQueued(k) \/ CancelRead(k) \/ CancelCommit(k) PROVE TypeInv'
  <2>1. run' \in [Keys -> Run]
    BY <1>11 DEF CancelQueued, CancelRead, CancelCommit, TypeOK, Run, Status, Terminal
  <2>2. canceling' \subseteq Keys
    BY <1>11 DEF CancelQueued, CancelRead, CancelCommit, TypeOK
  <2> QED  BY <1>11, <2>1, <2>2 DEF CancelQueued, CancelRead, CancelCommit, TypeOK
<1>12. ASSUME NEW k \in Keys, EndCommits(k) PROVE TypeInv'
  <2>1. closing[k].to \in Terminal /\ closing[k].result \in BOOLEAN
    BY <1>12 DEF EndCommits, TypeOK
  <2>2. run' \in [Keys -> Run]
    <3> DEFINE mid == [run EXCEPT ![k].status = closing[k].to]
               told == [mid EXCEPT ![k].outcome = closing[k].to]
    <3>1. mid \in [Keys -> Run]
      BY <2>1 DEF TypeOK, Run, Status
    <3>2. told \in [Keys -> Run]
      <4> HIDE DEF mid
      <4> QED  BY <2>1, <3>1 DEF Run
    <3>3. run' = [told EXCEPT ![k].result = closing[k].result]
      BY <1>12 DEF EndCommits
    <3> HIDE DEF mid, told
    <3> QED  BY <2>1, <3>2, <3>3 DEF Run
  <2>3. validation' \in ValidationStates
    BY <1>12, <2>1 DEF EndCommits, TypeOK, ValidationStates
  <2> QED  BY <1>12, <2>2, <2>3 DEF EndCommits, TypeOK
<1>13. ASSUME NEW k \in Keys, NEW s \in Started, RunStarts(k, s) PROVE TypeInv'
  BY <1>13 DEF RunStarts, TypeOK, Run, Status, Started, InFlight
<1>14. ASSUME NEW k \in Keys, NEW s \in Terminal, NEW b \in BOOLEAN, EndReads(k, s, b)
       PROVE  TypeInv'
  BY <1>14 DEF EndReads, TypeOK
<1>15. ASSUME UNCHANGED vars PROVE TypeInv'
  BY <1>15 DEF vars, TypeOK
<1> QED
  BY <1>1, <1>2, <1>3, <1>4, <1>5, <1>6, <1>7, <1>8, <1>9, <1>10, <1>11, <1>12, <1>13, <1>14,
     <1>15 DEF Next, Drafting, ImportRelease, Reviewing, Requesting, Running

\* The first state is well typed.
LEMMA TypeStart == Init => TypeInv
BY GovernanceBounds DEF Init, TypeInv, TypeOK, RequestExists, Revisions, Contents, BaselineStates,
   RequestStates, ValidationStates, Run, NewRun, Scopes, Calls, Status

\* Every row of every reachable state is well typed.
THEOREM GovernanceTypes == Spec => []TypeOK
<1>1. TypeInv => TypeOK
  BY DEF TypeInv
<1> QED  BY TypeStart, TypeStep, <1>1, PTL DEF Spec

-----------------------------------------------------------------------------
(* Runs report once                                                        *)

\* A transaction that has read a run to end it holds a run that goes on.
ClosingInFlight == \A k \in Keys : closing[k] # None => run[k].status \in InFlight

\* A run that has reported is over, and one that is over reported its status
\* unless it was canceled.
OutcomesEnd ==
    \A k \in Keys :
        /\ run[k].outcome # None => Ended(k)
        /\ Ended(k) => run[k].status \in {run[k].outcome, "CANCELED"}

\* A step writes no outcome twice: a run that has reported keeps its row, but for
\* the status that a cancel may write over it.
LEMMA ReportedRunsStay ==
    ASSUME TypeInv, ClosingInFlight, OutcomesEnd, [Next]_vars,
           NEW k \in Keys, run[k].outcome # None
    PROVE  /\ run'[k].rev = run[k].rev /\ run'[k].scope = run[k].scope
           /\ run'[k].call = run[k].call /\ run'[k].result = run[k].result
           /\ run'[k].outcome = run[k].outcome
<1> DEFINE Same == /\ run'[k].rev = run[k].rev /\ run'[k].scope = run[k].scope
                   /\ run'[k].call = run[k].call /\ run'[k].result = run[k].result
                   /\ run'[k].outcome = run[k].outcome
<1> USE DEF TypeInv
<1>0. /\ closing[k] = None
      /\ run[k].status \in Terminal
      /\ run[k].status # "ABSENT" /\ run[k].status # "QUEUED"
      /\ run \in [Keys -> Run] /\ run[k] \in Run
  BY DEF ClosingInFlight, OutcomesEnd, Ended, InFlight, Terminal, TypeOK
<1>1. ASSUME NEW j \in Keys, NEW v, NEW s, NEW c, InsertRun(j, v, s, c) PROVE Same
  BY <1>0, <1>1 DEF InsertRun
<1>2. ASSUME NEW j \in Keys, NEW s \in Started, RunStarts(j, s) PROVE Same
  BY <1>0, <1>2 DEF RunStarts, Run
<1>3. ASSUME NEW j \in Keys, CancelQueued(j) \/ CancelRead(j) \/ CancelCommit(j) PROVE Same
  BY <1>0, <1>3 DEF CancelQueued, CancelRead, CancelCommit, Run
<1>4. ASSUME NEW j \in Keys, EndCommits(j) PROVE Same
  BY <1>0, <1>4 DEF EndCommits
<1>5. ASSUME \/ UNCHANGED vars
             \/ \E u \in Users : \/ Submit(u) \/ RequestChanges(u) \/ Approve(u)
                                 \/ \E c \in Contents : CreateRequest(u, c) \/ UpdateRequest(u, c)
             \/ WaiveValidation
             \/ \E j \in Keys : LinkRun(j) \/ LinkLost(j) \/ RetryValidation(j) \/ Publish(j)
             \/ \E j \in Keys, s \in Terminal, b \in BOOLEAN : EndReads(j, s, b)
      PROVE  Same
  BY <1>5 DEF vars, Submit, RequestChanges, Approve, CreateRequest, UpdateRequest,
     WaiveValidation, LinkRun, LinkLost, RetryValidation, Publish, EndReads
<1>6. ASSUME NEW j \in Keys,
             \/ StartValidation(j) \/ StartRegression(j)
             \/ \E source \in Keys, scope \in Scopes : Rerun(j, source, scope)
      PROVE  Same
  BY <1>1, <1>6 DEF StartValidation, StartRegression, Rerun
<1> QED
  BY <1>2, <1>3, <1>4, <1>5, <1>6 DEF Next, Drafting, ImportRelease, Reviewing, Requesting, Running

\* A run that is being ended is not ended, started or cancelled by anybody else.
LEMMA ClosingStep == TypeInv /\ ClosingInFlight /\ [Next]_vars => ClosingInFlight'
<1> SUFFICES ASSUME TypeInv, ClosingInFlight, [Next]_vars,
                    NEW k \in Keys, closing'[k] # None
             PROVE  run'[k].status \in InFlight
  BY DEF ClosingInFlight
<1> USE DEF TypeInv
<1>0. /\ run \in [Keys -> Run] /\ run[k].status \in Status
      /\ closing[k] # None => run[k].status \in InFlight
      /\ DOMAIN closing = Keys
  BY DEF ClosingInFlight, TypeOK, Run
<1>1. ASSUME UNCHANGED <<run, closing>> PROVE run'[k].status \in InFlight
  BY <1>0, <1>1
<1>2. ASSUME NEW j \in Keys, NEW v, NEW s, NEW c, InsertRun(j, v, s, c), UNCHANGED closing
      PROVE  run'[k].status \in InFlight
  BY <1>0, <1>2 DEF InsertRun, NewRun, InFlight
<1>3. ASSUME NEW j \in Keys, NEW s \in Started, RunStarts(j, s)
      PROVE  run'[k].status \in InFlight
  BY <1>0, <1>3 DEF pendingVars, RunStarts, Started, InFlight, Quiet
<1>4. ASSUME NEW j \in Keys, CancelQueued(j) \/ CancelRead(j) \/ CancelCommit(j)
      PROVE  run'[k].status \in InFlight
  BY <1>0, <1>4 DEF pendingVars, CancelQueued, CancelRead, CancelCommit, Quiet
<1>5. ASSUME NEW j \in Keys, EndCommits(j) PROVE run'[k].status \in InFlight
  BY <1>0, <1>5 DEF EndCommits
<1>6. ASSUME NEW j \in Keys, NEW s \in Terminal, NEW b \in BOOLEAN, EndReads(j, s, b)
      PROVE  run'[k].status \in InFlight
  <2>1. run[j].status \in InFlight
    BY <1>0, <1>6, TableFacts DEF EndReads, TypeOK, Run
  <2> QED  BY <1>0, <1>6, <2>1 DEF EndReads
<1>7. ASSUME \E u \in Users : \/ Submit(u) \/ RequestChanges(u) \/ Approve(u)
                              \/ \E c \in Contents : CreateRequest(u, c) \/ UpdateRequest(u, c)
      PROVE  UNCHANGED <<run, closing>>
  BY <1>7 DEF pendingVars, Submit, RequestChanges, Approve, CreateRequest, UpdateRequest
<1>8. ASSUME \/ WaiveValidation \/ UNCHANGED vars
             \/ \E j \in Keys : LinkRun(j) \/ LinkLost(j) \/ RetryValidation(j) \/ Publish(j)
      PROVE  UNCHANGED <<run, closing>>
  BY <1>8 DEF vars, pendingVars, WaiveValidation, LinkRun, LinkLost, RetryValidation, Publish
<1>9. ASSUME NEW j \in Keys,
             \/ StartValidation(j) \/ StartRegression(j)
             \/ \E source \in Keys, scope \in Scopes : Rerun(j, source, scope)
      PROVE  run'[k].status \in InFlight
  BY <1>2, <1>9 DEF pendingVars, StartValidation, StartRegression, Rerun
<1> QED
  BY <1>1, <1>3, <1>4, <1>5, <1>6, <1>7, <1>8, <1>9 DEF Next, Drafting, ImportRelease, Reviewing, Requesting, Running

\* A run that has reported is over and stays so.
LEMMA OutcomesStep ==
    TypeInv /\ ClosingInFlight /\ OutcomesEnd /\ [Next]_vars => OutcomesEnd'
<1> SUFFICES ASSUME TypeInv, ClosingInFlight, OutcomesEnd, [Next]_vars, NEW k \in Keys
             PROVE  /\ run'[k].outcome # None => run'[k].status \in Terminal
                    /\ run'[k].status \in Terminal => run'[k].status \in {run'[k].outcome, "CANCELED"}
  BY DEF OutcomesEnd, Ended
<1> DEFINE Goal == /\ run'[k].outcome # None => run'[k].status \in Terminal
                   /\ run'[k].status \in Terminal => run'[k].status \in {run'[k].outcome, "CANCELED"}
<1> USE DEF TypeInv
<1>0. /\ run \in [Keys -> Run] /\ run[k] \in Run
      /\ run[k].outcome # None => run[k].status \in Terminal
      /\ run[k].status \in Terminal => run[k].status \in {run[k].outcome, "CANCELED"}
  BY DEF OutcomesEnd, TypeOK, Ended
<1>1. ASSUME UNCHANGED run PROVE Goal
  BY <1>0, <1>1
<1>2. ASSUME NEW j \in Keys, NEW v, NEW s, NEW c, InsertRun(j, v, s, c) PROVE Goal
  BY <1>0, <1>2 DEF InsertRun, NewRun, Terminal
<1>3. ASSUME NEW j \in Keys, NEW s \in Started, RunStarts(j, s) PROVE Goal
  <2>1. run[j].status \notin Terminal
    BY <1>3, TableFacts DEF RunStarts, TypeOK, Run, InFlight, Terminal
  <2> QED  BY <1>0, <1>3, <2>1 DEF RunStarts, Started, Terminal, Run
<1>4. ASSUME NEW j \in Keys, CancelQueued(j) \/ CancelRead(j) \/ CancelCommit(j) PROVE Goal
  BY <1>0, <1>4 DEF CancelQueued, CancelRead, CancelCommit, Terminal, Run
<1>5. ASSUME NEW j \in Keys, EndCommits(j) PROVE Goal
  <2>1. closing[j].to \in Terminal
    BY <1>5 DEF EndCommits, TypeOK
  <2> QED  BY <1>0, <1>5, <2>1 DEF EndCommits, Run
<1>6. ASSUME \/ UNCHANGED vars
             \/ \E u \in Users : \/ Submit(u) \/ RequestChanges(u) \/ Approve(u)
                                 \/ \E c \in Contents : CreateRequest(u, c) \/ UpdateRequest(u, c)
             \/ WaiveValidation
             \/ \E j \in Keys : LinkRun(j) \/ LinkLost(j) \/ RetryValidation(j) \/ Publish(j)
             \/ \E j \in Keys, s \in Terminal, b \in BOOLEAN : EndReads(j, s, b)
      PROVE  UNCHANGED run
  BY <1>6 DEF vars, Submit, RequestChanges, Approve, CreateRequest, UpdateRequest,
     WaiveValidation, LinkRun, LinkLost, RetryValidation, Publish, EndReads
<1>7. ASSUME NEW j \in Keys,
             \/ StartValidation(j) \/ StartRegression(j)
             \/ \E source \in Keys, scope \in Scopes : Rerun(j, source, scope)
      PROVE  Goal
  BY <1>2, <1>7 DEF StartValidation, StartRegression, Rerun
<1> QED
  BY <1>1, <1>3, <1>4, <1>5, <1>6, <1>7 DEF Next, Drafting, ImportRelease, Reviewing, Requesting, Running

-----------------------------------------------------------------------------
(* Validations are linked, and nothing else                                *)

IsValidation(k) == run[k].call = "validation" /\ run[k].status # "ABSENT"

\* The request names validation runs only, now and in what is yet to commit.
ValidationsLinked ==
    /\ linked \in Keys => IsValidation(linked)
    /\ \A k \in Keys :
          /\ run[k].call = "validation" => IsValidation(k)
          /\ linking[k] # None => IsValidation(k)
          /\ (closing[k] # None /\ closing[k].sees # None) => IsValidation(k)

\* A validation run stays one: no key is used for a second run.
LEMMA ValidationStays ==
    ASSUME TypeInv, [Next]_vars, NEW k \in Keys, IsValidation(k)
    PROVE  IsValidation(k)'
<1> USE DEF TypeInv, IsValidation
<1>0. run \in [Keys -> Run] /\ run[k] \in Run
  BY DEF TypeOK
<1>1. ASSUME NEW j \in Keys, NEW v, NEW s, NEW c, InsertRun(j, v, s, c)
      PROVE  IsValidation(k)'
  BY <1>0, <1>1 DEF InsertRun
<1>2. ASSUME NEW j \in Keys,
             \/ CancelQueued(j) \/ CancelRead(j) \/ CancelCommit(j)
             \/ \E s \in Started : RunStarts(j, s)
      PROVE  IsValidation(k)'
  BY <1>0, <1>2 DEF CancelQueued, CancelRead, CancelCommit, RunStarts, Run, Started
<1>3. ASSUME NEW j \in Keys, EndCommits(j) PROVE IsValidation(k)'
  <2>1. closing[j].to # "ABSENT"
    BY <1>3 DEF EndCommits, TypeOK, Terminal
  <2> QED  BY <1>0, <1>3, <2>1 DEF EndCommits, Run
<1>4. ASSUME \/ UNCHANGED vars
             \/ \E u \in Users : \/ Submit(u) \/ RequestChanges(u) \/ Approve(u)
                                 \/ \E c \in Contents : CreateRequest(u, c) \/ UpdateRequest(u, c)
             \/ WaiveValidation
             \/ \E j \in Keys : LinkRun(j) \/ LinkLost(j) \/ RetryValidation(j) \/ Publish(j)
             \/ \E j \in Keys, s \in Terminal, b \in BOOLEAN : EndReads(j, s, b)
      PROVE  IsValidation(k)'
  BY <1>4 DEF vars, Submit, RequestChanges, Approve, CreateRequest, UpdateRequest,
     WaiveValidation, LinkRun, LinkLost, RetryValidation, Publish, EndReads
<1>5. ASSUME NEW j \in Keys,
             \/ StartValidation(j) \/ StartRegression(j)
             \/ \E source \in Keys, scope \in Scopes : Rerun(j, source, scope)
      PROVE  IsValidation(k)'
  BY <1>1, <1>5 DEF StartValidation, StartRegression, Rerun
<1> QED
  BY <1>2, <1>3, <1>4, <1>5 DEF Next, Drafting, ImportRelease, Reviewing, Requesting, Running

\* Only a step that creates a validation run, links one or reads one to end it
\* adds a name, and each names a validation run.
LEMMA LinkedStep == TypeInv /\ ValidationsLinked /\ [Next]_vars => ValidationsLinked'
<1> SUFFICES ASSUME TypeInv, ValidationsLinked, [Next]_vars PROVE ValidationsLinked'
  OBVIOUS
<1> USE DEF TypeInv
<1>0. /\ run \in [Keys -> Run] /\ linking \in [Keys -> ValidationStates \cup {None}]
      /\ DOMAIN closing = Keys /\ None \notin Keys
  BY GovernanceBounds DEF TypeOK
<1>1. ASSUME NEW k \in Keys,
             \/ IsValidation(k)
             \/ linked = k \/ run[k].call = "validation" \/ linking[k] # None
             \/ closing[k] # None /\ closing[k].sees # None
      PROVE  IsValidation(k)'
  BY <1>1, ValidationStays DEF ValidationsLinked
<1> DEFINE Calm == \A k \in Keys : run'[k].call = run[k].call
<1>2. ASSUME UNCHANGED <<linked, linking, closing>>, Calm PROVE ValidationsLinked'
  BY <1>1, <1>2 DEF ValidationsLinked
<1>3. ASSUME linked' = None, Calm, UNCHANGED <<linking, closing>> PROVE ValidationsLinked'
  BY <1>0, <1>1, <1>3 DEF ValidationsLinked
<1>4. ASSUME NEW j \in Keys, StartValidation(j) PROVE ValidationsLinked'
  <2>1. IsValidation(j)'
    BY <1>0, <1>4 DEF StartValidation, InsertRun, NewRun, IsValidation
  <2>2. \A k \in Keys : k # j => run'[k].call = run[k].call
    BY <1>0, <1>4 DEF StartValidation, InsertRun
  <2> QED  BY <1>0, <1>1, <1>4, <2>1, <2>2 DEF StartValidation, ValidationsLinked
<1>5. ASSUME NEW j \in Keys, LinkRun(j) \/ LinkLost(j) \/ RetryValidation(j) PROVE ValidationsLinked'
  <2>1. Calm /\ UNCHANGED closing
    BY <1>5 DEF pendingVars, LinkRun, LinkLost, RetryValidation
  <2>2. linked' = j => IsValidation(j)'
    BY <1>1, <1>5 DEF LinkRun, LinkLost, RetryValidation
  <2>3. \A k \in Keys : linking'[k] # None => linking[k] # None
    BY <1>0, <1>5 DEF pendingVars, LinkRun, LinkLost, RetryValidation
  <2>4. linked' = j \/ linked' = linked
    BY <1>5 DEF LinkRun, LinkLost, RetryValidation
  <2> QED  BY <1>1, <2>1, <2>2, <2>3, <2>4 DEF ValidationsLinked
<1>6. ASSUME NEW j \in Keys,
             \/ StartRegression(j)
             \/ \E source \in Keys, scope \in Scopes : Rerun(j, source, scope)
      PROVE  ValidationsLinked'
  <2>1. /\ run'[j].call # "validation" /\ UNCHANGED <<linked, linking, closing>>
        /\ \A k \in Keys : k # j => run'[k].call = run[k].call
    BY <1>0, <1>6 DEF pendingVars, StartRegression, Rerun, InsertRun, NewRun
  <2> QED  BY <1>1, <2>1 DEF ValidationsLinked
<1>7. ASSUME NEW j \in Keys,
             \/ CancelQueued(j) \/ CancelRead(j) \/ CancelCommit(j)
             \/ \E s \in Started : RunStarts(j, s)
      PROVE  ValidationsLinked'
  <2>1. UNCHANGED <<linked, linking, closing>> /\ Calm
    BY <1>0, <1>7 DEF pendingVars, CancelQueued, CancelRead, CancelCommit, RunStarts, Run
  <2> QED  BY <1>2, <2>1
<1>8. ASSUME NEW j \in Keys, NEW s \in Terminal, NEW b \in BOOLEAN, EndReads(j, s, b)
      PROVE  ValidationsLinked'
  <2>1. UNCHANGED <<linked, linking>> /\ Calm
    BY <1>8 DEF EndReads
  <2>2. \A k \in Keys : k # j => closing'[k] = closing[k]
    BY <1>0, <1>8 DEF EndReads
  <2>3. closing'[j].sees # None => linked = j
    BY <1>0, <1>8 DEF EndReads
  <2> QED  BY <1>1, <2>1, <2>2, <2>3 DEF ValidationsLinked
<1>9. ASSUME NEW j \in Keys, EndCommits(j) PROVE ValidationsLinked'
  <2>1. UNCHANGED <<linked, linking>> /\ Calm
    BY <1>0, <1>9 DEF EndCommits, Run
  <2>2. \A k \in Keys : closing'[k] # None => closing'[k] = closing[k]
    BY <1>0, <1>9 DEF EndCommits
  <2> QED  BY <1>1, <2>1, <2>2 DEF ValidationsLinked
<1>10. ASSUME \/ WaiveValidation
              \/ \E u \in Users, c \in Contents : UpdateRequest(u, c)
       PROVE  ValidationsLinked'
  BY <1>3, <1>10 DEF WaiveValidation, UpdateRequest, pendingVars
<1>11. ASSUME \/ UNCHANGED vars
              \/ \E u \in Users : \/ Submit(u) \/ RequestChanges(u) \/ Approve(u)
                                  \/ \E c \in Contents : CreateRequest(u, c)
              \/ \E j \in Keys : Publish(j)
       PROVE  ValidationsLinked'
  BY <1>2, <1>11 DEF vars, pendingVars, Submit, RequestChanges, Approve, CreateRequest, Publish
<1> QED
  BY <1>4, <1>5, <1>6, <1>7, <1>8, <1>9, <1>10, <1>11
     DEF Next, Drafting, ImportRelease, Reviewing, Requesting, Running

-----------------------------------------------------------------------------
(* What a release rests on                                                 *)

\* Past the review, the current snapshot has somebody else's approval.
ApprovalGiven ==
    request \in {"CANDIDATE", "PUBLISHED"} =>
        \E a \in approvals : a.rev = revision /\ a.decision = "APPROVE" /\ a.by # author

\* An approval is for the current snapshot or an earlier one, and an approved
\* snapshot is not open to edits.
ApprovalsClose ==
    \A a \in approvals :
        /\ a.rev <= revision
        /\ a.rev = revision /\ a.decision = "APPROVE" => request \in {"CANDIDATE", "PUBLISHED"}

GovInv ==
    /\ TypeInv /\ ClosingInFlight /\ OutcomesEnd /\ ValidationsLinked
    /\ BaselinesFollowRequest /\ ApprovalGiven /\ ApprovalsClose
    /\ ReleaseEarned /\ ValidationWasReported

\* A pass of a snapshot that was reported is never taken back, a cancel of that run
\* included.
LEMMA PassStays ==
    ASSUME GovInv, [Next]_vars, NEW k \in Keys, NEW v, PassReported(k, v)
    PROVE  PassReported(k, v)'
<1>1. run[k].outcome # None
  BY GovernanceBounds DEF PassReported, Status, Terminal
<1> QED  BY <1>1, ReportedRunsStay DEF PassReported, GovInv

\* What publication reads as a full pass was reported as one.
LEMMA PassWasReported ==
    ASSUME GovInv, NEW k \in Keys, NEW v, FullPass(k, v)
    PROVE  PassReported(k, v)
BY DEF FullPass, PassReported, GovInv, OutcomesEnd, Ended, Terminal

\* The steps that leave the request's stage and approvals alone keep what is
\* said about them.
LEMMA QuietSteps ==
    ASSUME GovInv, [Next]_vars, UNCHANGED <<requestVars, approvals>>
    PROVE  BaselinesFollowRequest' /\ ApprovalGiven' /\ ApprovalsClose' /\ ReleaseEarned'
<1>1. BaselinesFollowRequest' /\ ApprovalGiven' /\ ApprovalsClose'
  BY DEF GovInv, BaselinesFollowRequest, ApprovalGiven, ApprovalsClose, requestVars
<1>2. ReleaseEarned'
  BY PassStays DEF GovInv, ReleaseEarned, requestVars
<1> QED  BY <1>1, <1>2

\* A step that leaves validation_status alone, or writes a value no run reports
\* with, keeps ValidationWasReported.
LEMMA ReportStays ==
    ASSUME GovInv, [Next]_vars, validation' = validation \/ validation' \notin Terminal
    PROVE  ValidationWasReported'
<1> SUFFICES ASSUME validation' \in Terminal
             PROVE  \E k \in Keys : run'[k].call = "validation" /\ run'[k].outcome = validation'
  BY DEF ValidationWasReported
<1>1. PICK k \in Keys : run[k].call = "validation" /\ run[k].outcome = validation
  BY DEF GovInv, ValidationWasReported
<1>2. run[k].outcome # None
  BY <1>1, GovernanceBounds DEF Status
<1> QED  BY <1>1, <1>2, ReportedRunsStay DEF GovInv

\* The invariant holds when the request does not exist yet.
LEMMA GovStart == Init => GovInv
<1> SUFFICES ASSUME Init PROVE GovInv
  OBVIOUS
<1>1. TypeInv
  BY TypeStart
<1>2. ClosingInFlight /\ ApprovalGiven /\ ApprovalsClose /\ ValidationWasReported
  BY DEF Init, ClosingInFlight, ApprovalGiven, ApprovalsClose, ValidationWasReported, Terminal
<1>3. BaselinesFollowRequest /\ ReleaseEarned
  BY GovernanceBounds DEF Init, BaselinesFollowRequest, ReleaseEarned, Revisions
<1>4. OutcomesEnd
  BY DEF Init, NewRun, OutcomesEnd, Ended, Terminal
<1>5. ValidationsLinked
  BY GovernanceBounds DEF Init, NewRun, ValidationsLinked
<1> QED  BY <1>1, <1>2, <1>3, <1>4, <1>5 DEF GovInv

\* A new candidate snapshot supersedes the draft it replaces.
LEMMA NewCandidateStep ==
    ASSUME GovInv, [Next]_vars, NEW c \in Contents,
           \/ request = "NONE" /\ revision = 0 /\ NewCandidate(1, c, {})
           \/ Editable /\ revision + 1 \in Revisions
              /\ NewCandidate(revision + 1, c, {revision}) /\ UNCHANGED author,
           UNCHANGED approvals
    PROVE  BaselinesFollowRequest' /\ ApprovalGiven' /\ ApprovalsClose' /\ ReleaseEarned'
<1> USE DEF GovInv, TypeInv
<1>0. revision \in Nat /\ 1 \in Revisions
  BY GovernanceBounds DEF TypeOK, Revisions
<1>1. revision' = revision + 1 /\ request' = "DRAFT" /\ revision' \in Revisions
  BY <1>0 DEF NewCandidate
<1>2. BaselinesFollowRequest'
  BY <1>0, <1>1, GovernanceBounds DEF BaselinesFollowRequest, NewCandidate, Editable, Revisions
<1>3. ApprovalGiven'
  BY <1>1 DEF ApprovalGiven
<1>4. ApprovalsClose'
  BY <1>0, <1>1 DEF ApprovalsClose, TypeOK, Approval, Revisions
<1>5. ReleaseEarned'
  BY <1>1, <1>2 DEF ReleaseEarned, BaselinesFollowRequest
<1> QED  BY <1>2, <1>3, <1>4, <1>5

\* Every transaction keeps the invariant.
LEMMA GovStep == GovInv /\ [Next]_vars => GovInv'
<1> SUFFICES ASSUME GovInv, [Next]_vars PROVE GovInv'
  OBVIOUS
<1>1. TypeInv' /\ ClosingInFlight' /\ OutcomesEnd' /\ ValidationsLinked'
  BY TypeStep, ClosingStep, OutcomesStep, LinkedStep DEF GovInv
<1> DEFINE Goal == /\ BaselinesFollowRequest' /\ ApprovalGiven' /\ ApprovalsClose'
                   /\ ReleaseEarned' /\ ValidationWasReported'
<1>2. ASSUME NEW u \in Users, Submit(u) PROVE Goal
  <2>1. request = "DRAFT" /\ request' = "IN_REVIEW"
    BY <1>2 DEF Submit
  <2>2. BaselinesFollowRequest' /\ ApprovalGiven' /\ ApprovalsClose'
    BY <1>2, <2>1 DEF Submit, GovInv, BaselinesFollowRequest, ApprovalGiven, ApprovalsClose
  <2>3. ReleaseEarned'
    BY <1>2, PassStays DEF Submit, GovInv, ReleaseEarned
  <2> QED  BY <1>2, <2>2, <2>3, ReportStays DEF Submit
<1>3. ASSUME NEW u \in Users, NEW c \in Contents, CreateRequest(u, c) PROVE Goal
  <2>1. revision = 0
    BY <1>3, GovernanceBounds
       DEF CreateRequest, GovInv, TypeInv, TypeOK, BaselinesFollowRequest, RequestExists, Revisions
  <2>2. validation' \notin Terminal
    BY <1>3 DEF CreateRequest, NewCandidate, Unvalidated, Terminal
  <2> QED  BY <1>3, <2>1, <2>2, NewCandidateStep, ReportStays DEF CreateRequest
<1>4. ASSUME NEW u \in Users, NEW c \in Contents, UpdateRequest(u, c) PROVE Goal
  <2>1. revision + 1 \in Revisions
    BY <1>4, GovernanceBounds DEF UpdateRequest, GovInv, TypeInv, TypeOK, Revisions
  <2>2. validation' \notin Terminal
    BY <1>4 DEF UpdateRequest, NewCandidate, Unvalidated, Terminal
  <2> QED  BY <1>4, <2>1, <2>2, NewCandidateStep, ReportStays DEF UpdateRequest
<1>5. ASSUME NEW u \in Users, RequestChanges(u) PROVE Goal
  <2>1. BaselinesFollowRequest' /\ ApprovalGiven'
    BY <1>5 DEF RequestChanges, GovInv, BaselinesFollowRequest, ApprovalGiven
  <2>2. ApprovalsClose'
    BY <1>5 DEF RequestChanges, Record, GovInv, ApprovalsClose, TypeInv, TypeOK
  <2>3. ReleaseEarned'
    BY <1>5, PassStays DEF RequestChanges, Record, GovInv, ReleaseEarned
  <2> QED  BY <1>5, <2>1, <2>2, <2>3, ReportStays DEF RequestChanges
<1>6. ASSUME NEW u \in Users, Approve(u) PROVE Goal
  <2>0. /\ baseline' = [baseline EXCEPT ![revision] = "CANDIDATE"]
        /\ approvals' = approvals \cup {[by |-> u, decision |-> "APPROVE", rev |-> revision]}
        /\ request' = "CANDIDATE" /\ UNCHANGED <<author, revision>> /\ u # author
        /\ revision \in Nat /\ baseline \in [Revisions -> BaselineStates]
        /\ request = "IN_REVIEW"
    BY <1>6 DEF Approve, Record, GovInv, TypeInv, TypeOK
  <2>1. BaselinesFollowRequest'
    <3>1. BaselinesFollowRequest /\ Revisions \subseteq Nat
      BY DEF GovInv, Revisions
    <3> QED  BY <2>0, <3>1 DEF BaselinesFollowRequest
  <2>2. ApprovalGiven' /\ ApprovalsClose'
    <3> DEFINE row == [by |-> u, decision |-> "APPROVE", rev |-> revision]
    <3>0. row \in approvals' /\ row.rev = revision' /\ row.decision = "APPROVE" /\ row.by # author'
      BY <2>0
    <3>1. ApprovalGiven'
      BY <3>0 DEF ApprovalGiven
    <3>2. ApprovalsClose'
      BY <2>0 DEF ApprovalsClose, GovInv
    <3> QED  BY <3>1, <3>2
  <2>3. ReleaseEarned'
    BY <2>1, <1>6 DEF Approve, ReleaseEarned, BaselinesFollowRequest
  <2> QED  BY <1>6, <2>1, <2>2, <2>3, ReportStays DEF Approve
<1>7. ASSUME NEW k \in Keys, Publish(k) PROVE Goal
  <2>0. /\ baseline' = [baseline EXCEPT ![revision] = "RELEASED"]
        /\ request' = "PUBLISHED" /\ UNCHANGED revision
        /\ revision \in Nat /\ baseline \in [Revisions -> BaselineStates]
        /\ request = "CANDIDATE"
        /\ BaselinesFollowRequest /\ Revisions \subseteq Nat
    BY <1>7 DEF Publish, GovInv, TypeInv, TypeOK, Revisions
  <2>1. BaselinesFollowRequest'
    BY <2>0 DEF BaselinesFollowRequest
  <2>2. ApprovalGiven' /\ ApprovalsClose'
    BY <1>7 DEF Publish, GovInv, ApprovalGiven, ApprovalsClose
  <2>3. PassReported(k, revision)' /\ revision' = revision
    BY <1>7, PassWasReported DEF Publish, PassReported
  <2>4. ReleaseEarned'
    <3> SUFFICES ASSUME NEW v \in Revisions, baseline'[v] = "RELEASED"
                 PROVE  /\ \E a \in approvals' : a.rev = v /\ a.decision = "APPROVE" /\ a.by # author'
                        /\ \E j \in Keys : PassReported(j, v)'
      BY DEF ReleaseEarned
    <3>1. v = revision
      BY <2>1, <2>3 DEF BaselinesFollowRequest, GovInv, TypeInv, TypeOK, Revisions
    <3>2. \E a \in approvals : a.rev = v /\ a.decision = "APPROVE" /\ a.by # author
      BY <1>7, <3>1 DEF Publish, GovInv, ApprovalGiven
    <3> QED  BY <1>7, <2>3, <3>1, <3>2 DEF Publish
  <2> QED  BY <1>7, <2>1, <2>2, <2>4, ReportStays DEF Publish
<1>8. ASSUME WaiveValidation \/ \E k \in Keys : LinkRun(k) \/ LinkLost(k) \/ RetryValidation(k)
      PROVE  Goal
  <2>1. UNCHANGED <<requestVars, approvals>>
    BY <1>8 DEF WaiveValidation, LinkRun, LinkLost, RetryValidation
  <2>2. validation' = validation \/ validation' \notin Terminal
    BY <1>8 DEF WaiveValidation, LinkRun, LinkLost, RetryValidation, Terminal
  <2> QED  BY <2>1, <2>2, QuietSteps, ReportStays
<1>9. ASSUME NEW k \in Keys,
             \/ StartValidation(k) \/ StartRegression(k)
             \/ CancelQueued(k) \/ CancelRead(k) \/ CancelCommit(k)
             \/ \E source \in Keys, scope \in Scopes : Rerun(k, source, scope)
             \/ \E s \in Started : RunStarts(k, s)
             \/ \E s \in Terminal, b \in BOOLEAN : EndReads(k, s, b)
      PROVE  Goal
  <2>1. UNCHANGED <<requestVars, approvals, validation>>
    BY <1>9 DEF StartValidation, StartRegression, CancelQueued, CancelRead, CancelCommit, Rerun, RunStarts, EndReads
  <2> QED  BY <2>1, QuietSteps, ReportStays
<1>10. ASSUME NEW k \in Keys, EndCommits(k) PROVE Goal
  <2>1. UNCHANGED <<requestVars, approvals>>
    BY <1>10 DEF EndCommits
  <2>2. CASE validation' = validation
    BY <2>1, <2>2, QuietSteps, ReportStays
  <2>3. CASE validation' # validation
    <3>1. validation' = closing[k].to /\ closing[k].to \in Terminal
      BY <1>10, <2>3 DEF EndCommits, GovInv, TypeInv, TypeOK
    <3>2. run'[k].outcome = closing[k].to /\ run'[k].call = run[k].call
      BY <1>10 DEF EndCommits, GovInv, TypeInv, TypeOK, Run
    <3>3. run[k].call = "validation"
      BY <1>10, <2>3 DEF EndCommits, GovInv, ValidationsLinked, IsValidation
    <3>4. ValidationWasReported'
      BY <3>1, <3>2, <3>3 DEF ValidationWasReported
    <3> QED  BY <2>1, <3>4, QuietSteps
  <2> QED  BY <2>2, <2>3
<1>11. ASSUME UNCHANGED vars PROVE Goal
  BY <1>11, QuietSteps, ReportStays DEF vars
<1>12. Goal
  BY <1>2, <1>3, <1>4, <1>5, <1>6, <1>7, <1>8, <1>9, <1>10, <1>11
     DEF Next, Drafting, ImportRelease, Reviewing, Requesting, Running
<1> QED  BY <1>1, <1>12 DEF GovInv

-----------------------------------------------------------------------------
(* Theorems                                                                *)

\* A baseline is released only with somebody else's approval of that snapshot and a
\* run of all its enabled cases whose result document says PASSED, a cancel that
\* writes over the run's status later included (publish_change_request, _request_cancel).
THEOREM ReleasesAreEarned == Spec => []ReleaseEarned
<1>1. GovInv => ReleaseEarned
  BY DEF GovInv
<1> QED  BY GovStart, GovStep, <1>1, PTL DEF Spec

\* The status of every snapshot is the one its request's stage asks for, whatever
\* edits, imports, reviews and late results came before.
THEOREM SnapshotsFollowRequest == Spec => []BaselinesFollowRequest
<1>1. GovInv => BaselinesFollowRequest
  BY DEF GovInv
<1> QED  BY GovStart, GovStep, <1>1, PTL DEF Spec

\* A validation outcome on the request is what the end of a validation run reported,
\* whatever a late cancel makes of that run (record_run_result, _recover_run).
THEOREM OutcomesWereReported == Spec => []ValidationWasReported
<1>1. GovInv => ValidationWasReported
  BY DEF GovInv
<1> QED  BY GovStart, GovStep, <1>1, PTL DEF Spec

\* A published request and its snapshots are never written again, and an
\* approved snapshot is never edited.
THEOREM ReleasesAreFinal == Spec => ReleaseIsFinal /\ ReviewedContentIsFrozen
<1>1. GovInv /\ [Next]_vars =>
        [/\ request = "PUBLISHED" => UNCHANGED requestVars
         /\ (\E a \in approvals : a.decision = "APPROVE" /\ a.rev = revision)
               => UNCHANGED <<revision, content, author>>]_vars
  <2> SUFFICES ASSUME GovInv, Next,
                      request \in {"CANDIDATE", "PUBLISHED"}
               PROVE  /\ UNCHANGED <<revision, content, author>>
                      /\ request = "PUBLISHED" => UNCHANGED requestVars
    BY DEF GovInv, ApprovalsClose
  <2>1. ASSUME NEW u \in Users, NEW c \in Contents PROVE ~CreateRequest(u, c) /\ ~UpdateRequest(u, c)
    BY DEF CreateRequest, UpdateRequest, Editable
  <2>2. ASSUME NEW u \in Users PROVE ~Submit(u) /\ ~RequestChanges(u) /\ ~Approve(u)
    BY DEF Submit, RequestChanges, Approve
  <2>3. ASSUME NEW k \in Keys, Publish(k)
        PROVE  UNCHANGED <<revision, content, author>> /\ request # "PUBLISHED"
    BY <2>3 DEF Publish
  <2>4. ASSUME NEW k \in Keys,
               \/ WaiveValidation \/ StartValidation(k) \/ LinkRun(k) \/ LinkLost(k)
               \/ RetryValidation(k) \/ StartRegression(k)
               \/ CancelQueued(k) \/ CancelRead(k) \/ CancelCommit(k) \/ EndCommits(k)
               \/ \E source \in Keys, scope \in Scopes : Rerun(k, source, scope)
               \/ \E s \in Started : RunStarts(k, s)
               \/ \E s \in Terminal, b \in BOOLEAN : EndReads(k, s, b)
        PROVE  UNCHANGED requestVars
    BY <2>4 DEF WaiveValidation, StartValidation, LinkRun, LinkLost, RetryValidation,
       StartRegression, CancelQueued, CancelRead, CancelCommit, EndCommits, Rerun, RunStarts, EndReads
  <2>5. WaiveValidation => UNCHANGED requestVars
    BY DEF WaiveValidation
  <2> QED
    BY <2>1, <2>2, <2>3, <2>4, <2>5 DEF Next, Drafting, ImportRelease, Reviewing, Requesting, Running, requestVars
<1> QED
  BY GovStart, GovStep, <1>1, PTL DEF Spec, ReleaseIsFinal, ReviewedContentIsFrozen

\* What a reviewer approved is what is published: update_change_request never edits a
\* snapshot that somebody has approved.
THEOREM ApprovedContentStays == Spec => ReviewedContentIsFrozen
  BY ReleasesAreFinal
=============================================================================
