---------------------------- MODULE Notices_proofs ----------------------------
(***************************************************************************)
(* Machine-checked proofs about the quality alerts, their webhooks and the *)
(* run e-mails, for any metrics, deliveries, runs, addresses, dispatchers  *)
(* and numbers of attempts.                                                *)
(***************************************************************************)
EXTENDS MCPlatform, FiniteSetTheorems, TLAPS

-----------------------------------------------------------------------------
(* The composition                                                         *)

\* A step of the composition is a step of each component, or leaves it alone.
LEMMA EachMoves ==
    ASSUME [Next]_vars
    PROVE  /\ Alerts!Next \/ UNCHANGED alerts
           /\ Webhooks!Next \/ UNCHANGED webhooks
           /\ Emails!Next \/ UNCHANGED emails
           /\ Identities!Next \/ UNCHANGED identities
           /\ Accesses!Next \/ UNCHANGED accesses
           /\ Tasks!Next \/ UNCHANGED tasks
           /\ Views!Next \/ UNCHANGED views
           /\ Adapters!Next \/ UNCHANGED adapters
           /\ Chats!Next \/ UNCHANGED chats
BY DEF Next, Move, Rest, vars

-----------------------------------------------------------------------------
(* Quality alerts                                                          *)

\* An evaluation follows a configuration that was there, and knows of its silence.
SilenceSeen == evaluation # None => config # None /\ (config.silenced => evaluation.quiet)
\* Only a configured project has sent notices.
NoticesConfigured == \A m \in Metrics : told[m].status # None => config # None
AlertInv == Alerts!TypeOK /\ SilenceSeen /\ NoticesConfigured /\ ReceiverKnowsTheAlert

Told == [status : Alerts!Statuses \cup {None}, anew : BOOLEAN]

\* The level counted as notified and the last notice, for one metric.
Agree(active, last, minimum) ==
    /\ active # None => last.status = active
    /\ (/\ last.status \in Alerts!Levels /\ ~last.anew
        /\ Alerts!Rank[last.status] >= Alerts!Rank[minimum]) => active = last.status
Believed(m) == IF alert[m] = None THEN None ELSE alert[m].active

LEMMA AgreePerMetric ==
    ReceiverKnowsTheAlert <=> \A m \in Metrics : Agree(Believed(m), told[m], config.minimum)
BY DEF ReceiverKnowsTheAlert, Alerts!ReceiverKnowsTheAlert, Agree, Believed

\* An alert is a row of its table and not NULL.
LEMMA AlertRows ==
    ASSUME AlertInv
    PROVE  /\ \A m \in Metrics :
                /\ signal[m] \in Alerts!Statuses
                /\ alert[m] # None => alert[m] \in Alerts!Alert
                /\ told[m] \in Told
           /\ config # None => config \in Alerts!Config
           /\ evaluation # None => evaluation \in Alerts!Evaluation
BY DEF AlertInv, Alerts!TypeOK, Told

\* decide_quality_alert_event speaks of a level, or of none; on an event the
\* level it leaves agrees with the notice, which differs from the one before.
LEMMA DecisionAgrees ==
    ASSUME NEW s \in Alerts!Statuses, NEW a \in Alerts!Alert, NEW minimum \in Alerts!Levels,
           NEW last \in Told
    PROVE  LET d == Alerts!Decide(s, a, minimum)
           IN  /\ d[2] \in Alerts!Levels \cup {None}
               /\ d[1] # "none" => Agree(d[2], [status |-> s, anew |-> FALSE], minimum)
               /\ (d[1] # "none" /\ Agree(a.active, last, minimum))
                      => (s # last.status \/ last.anew)
<1>1. a.active \in Alerts!Levels \cup {None}
  BY DEF Alerts!Alert
<1>2. Alerts!Rank[s] >= Alerts!Rank[minimum] => s \in Alerts!Levels
  BY DEF Alerts!Rank, Alerts!Statuses, Alerts!Levels
<1>3. /\ "STABLE" \notin Alerts!Levels /\ None \notin Alerts!Levels
      /\ \A x \in Alerts!Levels : ~(Alerts!Rank[x] > Alerts!Rank[x]) /\ ~(Alerts!Rank[x] < Alerts!Rank[x])
  BY NoneIsNull DEF Alerts!Rank, Alerts!Statuses, Alerts!Levels
<1> DEFINE worse == a.active # None /\ Alerts!Rank[s] > Alerts!Rank[a.active]
           better == a.active # None /\ Alerts!Rank[s] < Alerts!Rank[a.active]
           qualifies == Alerts!Rank[s] >= Alerts!Rank[minimum]
           decision == Alerts!Decide(s, a, minimum)
<1>4. decision =
        CASE s = "NO_DATA" -> <<"none", a.active>>
          [] s = "STABLE" /\ a.active # None -> <<"recovered", None>>
          [] s \in Alerts!Levels /\ worse -> <<"escalated", s>>
          [] s \in Alerts!Levels /\ better -> <<"deescalated", IF qualifies THEN s ELSE None>>
          [] a.active = None /\ qualifies /\ ~a.cooling -> <<"triggered", s>>
          [] OTHER -> <<"none", a.active>>
  BY DEF Alerts!Decide
<1>5. /\ qualifies => s \in Alerts!Levels
      /\ (worse \/ better) => a.active # None /\ s # a.active
  BY <1>1, <1>2, <1>3
<1>6. Agree(None, [status |-> s, anew |-> FALSE], minimum) <=> ~qualifies
  BY <1>2, <1>3 DEF Agree
<1>7. Agree(s, [status |-> s, anew |-> FALSE], minimum)
  BY DEF Agree
<1>8. "STABLE" = s => ~qualifies
  BY <1>3, <1>5
<1>9. Agree(a.active, last, minimum) =>
        /\ a.active # None => last.status = a.active
        /\ (a.active = None /\ qualifies /\ s = last.status) => last.anew
  BY <1>3, <1>5 DEF Agree, Told
<1> HIDE DEF worse, better, qualifies
<1>10. decision[2] \in Alerts!Levels \cup {None}
  BY <1>1, <1>4, <1>5 DEF decision
<1>11. decision[1] # "none" =>
         \/ s = "STABLE" /\ a.active # None /\ decision[2] = None
         \/ (worse \/ better \/ (a.active = None /\ qualifies)) /\ decision[2] = s
         \/ better /\ ~qualifies /\ decision[2] = None
  BY <1>4 DEF decision
<1> HIDE DEF decision
<1>12. decision[1] # "none" => Agree(decision[2], [status |-> s, anew |-> FALSE], minimum)
  BY <1>6, <1>7, <1>8, <1>11
<1>13. (decision[1] # "none" /\ Agree(a.active, last, minimum)) => (s # last.status \/ last.anew)
  BY <1>1, <1>3, <1>5, <1>9, <1>11
<1> QED  BY <1>10, <1>12, <1>13 DEF decision

LEMMA AlertStart == Init => AlertInv
BY NoneIsNull DEF Init, Alerts!Init, AlertInv, Alerts!TypeOK, SilenceSeen, NoticesConfigured,
   ReceiverKnowsTheAlert, Alerts!ReceiverKnowsTheAlert, Alerts!Levels, Alerts!Statuses

\* What _evaluate_project writes for one metric.
LEMMA EvaluatedRow ==
    ASSUME AlertInv, evaluation # None, NEW m \in Metrics
    PROVE  /\ Alerts!Observed(m) \in Alerts!Alert
           /\ Alerts!Observed(m).active = IF alert[m] = None THEN None ELSE alert[m].active
           /\ Alerts!Notifies(m) =>
                /\ Agree(Alerts!Decision(m)[2], [status |-> evaluation.signal[m], anew |-> FALSE],
                         config.minimum)
                /\ evaluation.signal[m] # told[m].status \/ told[m].anew
           /\ Alerts!Notified(m) \in Alerts!Alert
           /\ Alerts!Notified(m).active = IF Alerts!Notifies(m) THEN Alerts!Decision(m)[2]
                                          ELSE Alerts!Observed(m).active
<1>1. evaluation.signal[m] \in Alerts!Statuses /\ config.minimum \in Alerts!Levels
  BY AlertRows DEF Alerts!Evaluation, Alerts!Config, AlertInv, SilenceSeen
<1>2. /\ Alerts!Observed(m) \in Alerts!Alert
      /\ Alerts!Observed(m).active = IF alert[m] = None THEN None ELSE alert[m].active
  <2>1. CASE alert[m] = None
    BY <1>1, <2>1 DEF Alerts!Observed, Alerts!FirstState, Alerts!Alert
  <2>2. CASE alert[m] # None
    <3>1. alert[m] \in Alerts!Alert
      BY <2>2, AlertRows
    <3> QED  BY <1>1, <2>2, <3>1 DEF Alerts!Observed, Alerts!Alert
  <2> QED  BY <2>1, <2>2
<1>3. /\ Alerts!Decision(m)[2] \in Alerts!Levels \cup {None}
      /\ Alerts!Notifies(m) =>
           /\ Agree(Alerts!Decision(m)[2], [status |-> evaluation.signal[m], anew |-> FALSE],
                    config.minimum)
           /\ evaluation.signal[m] # told[m].status \/ told[m].anew
  <2>1. Agree(Alerts!Observed(m).active, told[m], config.minimum)
    BY <1>2, AgreePerMetric DEF AlertInv, Believed
  <2> QED  BY <1>1, <1>2, <2>1, AlertRows, DecisionAgrees DEF Alerts!Decision, Alerts!Notifies
<1>4. /\ Alerts!Notified(m) \in Alerts!Alert
      /\ Alerts!Notified(m).active = IF Alerts!Notifies(m) THEN Alerts!Decision(m)[2]
                                     ELSE Alerts!Observed(m).active
  <2> DEFINE row == Alerts!Observed(m)
             level == Alerts!Decision(m)[2]
  <2>1. Alerts!Notified(m) = IF ~Alerts!Notifies(m) THEN row
          ELSE [row EXCEPT !.active = level, !.acknowledged = None, !.cooling = level # None \/ @]
    BY DEF Alerts!Notified
  <2>2. row \in Alerts!Alert /\ level \in Alerts!Levels \cup {None}
    BY <1>2, <1>3
  <2> HIDE DEF row, level
  <2>3. /\ Alerts!Notified(m) \in Alerts!Alert
        /\ Alerts!Notified(m).active = IF Alerts!Notifies(m) THEN level ELSE row.active
    BY <2>1, <2>2 DEF Alerts!Alert
  <2> QED  BY <2>3 DEF row, level
<1> QED  BY <1>2, <1>3, <1>4

\* The commit of an evaluation: each notice and the level kept of it agree.
LEMMA EvaluateKeeps ==
    ASSUME AlertInv, Alerts!Evaluate
    PROVE  AlertInv'
<1>1. evaluation # None /\ config # None /\ config \in Alerts!Config
  BY AlertRows DEF AlertInv, SilenceSeen, Alerts!Evaluate
<1>2. alert' = [m \in Metrics |-> Alerts!Notified(m)]
  BY DEF Alerts!Evaluate
<1>3. \A m \in Metrics :
        told'[m] = IF Alerts!Notifies(m) THEN [status |-> evaluation.signal[m], anew |-> FALSE]
                   ELSE told[m]
  BY DEF Alerts!Evaluate
<1>4. alert' \in [Metrics -> Alerts!Alert \cup {None}]
  BY <1>1, <1>2, EvaluatedRow
<1>5. told' \in [Metrics -> Told]
  <2>1. told' = [m \in Metrics |-> told'[m]]
    BY DEF Alerts!Evaluate
  <2>2. ASSUME NEW m \in Metrics PROVE told'[m] \in Told
    <3>1. CASE Alerts!Notifies(m)
      <4>1. evaluation.signal[m] \in Alerts!Statuses
        BY <1>1, AlertRows DEF Alerts!Evaluation
      <4>2. told'[m] = [status |-> evaluation.signal[m], anew |-> FALSE]
        BY <1>3, <3>1
      <4> QED  BY <4>1, <4>2 DEF Told
    <3>2. CASE ~Alerts!Notifies(m)
      BY <1>3, <3>2, AlertRows
    <3> QED  BY <3>1, <3>2
  <2> QED  BY <2>1, <2>2
<1>6. config' \in Alerts!Config /\ config'.minimum = config.minimum
  <2>1. config' = [config EXCEPT !.next = "later"]
    BY DEF Alerts!Evaluate
  <2> QED  BY <1>1, <2>1 DEF Alerts!Config
<1>7. ReceiverKnowsTheAlert'
  <2> SUFFICES ASSUME NEW m \in Metrics
               PROVE  Agree(Believed(m)', told'[m], config'.minimum)
    BY AgreePerMetric DEF ReceiverKnowsTheAlert, Alerts!ReceiverKnowsTheAlert, Agree, Believed
  <2>1. Believed(m)' = Alerts!Notified(m).active
    BY <1>1, <1>2, EvaluatedRow, NoneIsNull DEF Believed
  <2>2. Alerts!Observed(m).active = Believed(m)
    BY <1>1, EvaluatedRow DEF Believed
  <2>3. Agree(Believed(m), told[m], config.minimum)
    BY AgreePerMetric DEF AlertInv
  <2> QED  BY <1>1, <1>3, <1>6, <2>1, <2>2, <2>3, EvaluatedRow
<1>8. SilenceSeen'
  BY DEF SilenceSeen, Alerts!Evaluate
<1>9. NoticesConfigured'
  BY <1>6, NoneIsNull DEF NoticesConfigured
<1> QED
  BY <1>4, <1>5, <1>6, <1>7, <1>8, <1>9 DEF AlertInv, Alerts!TypeOK, Alerts!Evaluate, Told

\* update_quality_webhook_config forgets the notices of an earlier activation.
LEMMA UpdateConfigKeeps ==
    ASSUME AlertInv, NEW on \in BOOLEAN, NEW minimum \in Alerts!Levels,
           Alerts!UpdateConfig(on, minimum)
    PROVE  AlertInv'
<1> DEFINE old == IF config # None THEN config
                  ELSE [enabled |-> FALSE, minimum |-> "WARNING", next |-> None, silenced |-> FALSE]
           activation == old.enabled # on \/ old.minimum # minimum
<1>1. old \in Alerts!Config
  BY AlertRows DEF Alerts!Config, Alerts!Levels
<1>2. /\ evaluation = None /\ evaluation' = None /\ signal' = signal /\ call' = None
      /\ config' = [old EXCEPT !.enabled = on, !.minimum = minimum,
                        !.next = IF ~on THEN None
                                 ELSE IF activation \/ @ = None THEN "due" ELSE @]
      /\ alert' = [m \in Metrics |-> IF activation THEN Alerts!Cleared(alert[m]) ELSE alert[m]]
      /\ told' = [m \in Metrics |-> [told[m] EXCEPT !.anew = @ \/ activation]]
  BY DEF Alerts!UpdateConfig, Alerts!HoldsConfig
<1>3. config' \in Alerts!Config /\ config'.minimum = minimum
  BY <1>1, <1>2 DEF Alerts!Config
<1>7. ~activation /\ config # None => config.minimum = minimum
  OBVIOUS
<1> HIDE DEF old, activation
<1>4. \A m \in Metrics :
        /\ Alerts!Cleared(alert[m]) \in Alerts!Alert \cup {None}
        /\ Alerts!Cleared(alert[m]) # None => Alerts!Cleared(alert[m]).active = None
  BY AlertRows DEF Alerts!Cleared, Alerts!Alert
<1>5. /\ alert' \in [Metrics -> Alerts!Alert \cup {None}]
      /\ told' \in [Metrics -> Told]
  BY <1>2, <1>4, AlertRows DEF Told
<1>8. \A m \in Metrics : /\ told'[m].status = told[m].status
                         /\ told'[m].anew = (told[m].anew \/ activation)
  BY <1>2, AlertRows DEF Told
<1>6. ReceiverKnowsTheAlert'
  <2> SUFFICES ASSUME NEW m \in Metrics
               PROVE  Agree(Believed(m)', told'[m], config'.minimum)
    BY AgreePerMetric DEF ReceiverKnowsTheAlert, Alerts!ReceiverKnowsTheAlert, Agree, Believed
  <2>1. Agree(Believed(m), told[m], config.minimum)
    BY AgreePerMetric DEF AlertInv
  <2>2. CASE activation
    <3>1. Believed(m)' = None
      BY <1>2, <1>4, <2>2 DEF Believed
    <3> QED  BY <1>8, <2>2, <3>1 DEF Agree
  <2>3. CASE ~activation
    <3>1. Believed(m)' = Believed(m)
      BY <1>2, <2>3 DEF Believed
    <3>2. told[m].status \in Alerts!Levels => config # None
      BY NoneIsNull DEF AlertInv, NoticesConfigured, Alerts!Statuses
    <3> QED  BY <1>3, <1>7, <1>8, <2>1, <2>3, <3>1, <3>2 DEF Agree
  <2> QED  BY <2>2, <2>3
<1>9. NoticesConfigured'
  BY <1>3, NoneIsNull DEF NoticesConfigured
<1> QED
  BY <1>2, <1>3, <1>5, <1>6, <1>9 DEF AlertInv, Alerts!TypeOK, SilenceSeen, Told

\* The other calls never write what was notified.
LEMMA AnswerKeeps ==
    ASSUME AlertInv, Alerts!Answer
    PROVE  AlertInv'
<1>1. CASE \E on \in BOOLEAN, minimum \in Alerts!Levels : Alerts!UpdateConfig(on, minimum)
  BY <1>1, UpdateConfigKeeps
<1>2. CASE Alerts!SetSilence \/ Alerts!ClearSilence
  <2>1. config # None /\ config \in Alerts!Config /\ evaluation = None /\ evaluation' = None
    BY <1>2, AlertRows DEF Alerts!SetSilence, Alerts!ClearSilence, Alerts!HoldsConfig
  <2>2. config' \in Alerts!Config /\ config'.minimum = config.minimum
    BY <1>2, <2>1 DEF Alerts!SetSilence, Alerts!ClearSilence, Alerts!Config
  <2> QED
    BY <1>2, <2>1, <2>2, NoneIsNull DEF Alerts!SetSilence, Alerts!ClearSilence, AlertInv, Alerts!TypeOK,
       SilenceSeen, ReceiverKnowsTheAlert, Alerts!ReceiverKnowsTheAlert, NoticesConfigured
<1>3. ASSUME NEW m \in Metrics, Alerts!Acknowledge(m) \/ Alerts!ClearAcknowledgement(m)
      PROVE  AlertInv'
  <2>1. alert[m] # None /\ alert[m] \in Alerts!Alert
    BY <1>3, AlertRows DEF Alerts!Acknowledge, Alerts!ClearAcknowledgement
  <2>2. PICK seen \in Alerts!Statuses \cup {None} :
          alert' = [alert EXCEPT ![m].acknowledged = seen]
    BY <1>3, <2>1 DEF Alerts!Acknowledge, Alerts!ClearAcknowledgement, Alerts!Alert
  <2>3. UNCHANGED <<signal, told, config, evaluation>> /\ call' = None
    BY <1>3 DEF Alerts!Acknowledge, Alerts!ClearAcknowledgement
  <2> DEFINE row == [alert[m] EXCEPT !.acknowledged = seen]
  <2>4. row \in Alerts!Alert /\ row.active = alert[m].active
    BY <2>1 DEF Alerts!Alert
  <2>5. alert' = [alert EXCEPT ![m] = row]
    BY <2>2
  <2> HIDE DEF row
  <2> QED
    BY <2>1, <2>3, <2>4, <2>5, NoneIsNull DEF AlertInv, Alerts!TypeOK, SilenceSeen,
       ReceiverKnowsTheAlert, Alerts!ReceiverKnowsTheAlert, NoticesConfigured
<1>4. CASE Alerts!Refuse
  BY <1>4 DEF Alerts!Refuse, AlertInv, Alerts!TypeOK, SilenceSeen, ReceiverKnowsTheAlert,
     Alerts!ReceiverKnowsTheAlert, NoticesConfigured
<1> QED  BY <1>1, <1>2, <1>3, <1>4 DEF Alerts!Answer

\* Time and the evaluator up to its commit.
LEMMA AlertStep ==
    ASSUME AlertInv, Alerts!Next
    PROVE  AlertInv'
<1> USE DEF AlertInv
<1>1. ASSUME NEW m \in Metrics, NEW s \in Alerts!Statuses, Alerts!SignalChanges(m, s)
      PROVE  AlertInv'
  BY <1>1 DEF Alerts!SignalChanges, Alerts!TypeOK, SilenceSeen, ReceiverKnowsTheAlert,
     Alerts!ReceiverKnowsTheAlert, NoticesConfigured
<1>2. CASE Alerts!IntervalElapses \/ Alerts!SilenceEnds
  <2>1. config # None /\ config \in Alerts!Config
    BY <1>2, AlertRows DEF Alerts!IntervalElapses, Alerts!SilenceEnds
  <2>2. config' \in Alerts!Config /\ config'.minimum = config.minimum
    BY <1>2, <2>1 DEF Alerts!IntervalElapses, Alerts!SilenceEnds, Alerts!Config
  <2> QED
    BY <1>2, <2>1, <2>2, NoneIsNull DEF Alerts!IntervalElapses, Alerts!SilenceEnds, Alerts!TypeOK,
       SilenceSeen, ReceiverKnowsTheAlert, Alerts!ReceiverKnowsTheAlert, NoticesConfigured
<1>3. ASSUME NEW m \in Metrics, Alerts!CooldownEnds(m)
      PROVE  AlertInv'
  <2> DEFINE row == [alert[m] EXCEPT !.cooling = FALSE]
  <2>1. alert[m] # None /\ alert[m] \in Alerts!Alert
    BY <1>3, AlertRows DEF Alerts!CooldownEnds
  <2>2. row \in Alerts!Alert /\ row.active = alert[m].active
    BY <2>1 DEF Alerts!Alert
  <2>3. alert' = [alert EXCEPT ![m] = row] /\ UNCHANGED <<signal, told, config, evaluation, call>>
    BY <1>3 DEF Alerts!CooldownEnds
  <2> HIDE DEF row
  <2> QED
    BY <2>1, <2>2, <2>3, NoneIsNull DEF Alerts!TypeOK, SilenceSeen,
       ReceiverKnowsTheAlert, Alerts!ReceiverKnowsTheAlert, NoticesConfigured
<1>4. CASE Alerts!Select
  <2>1. config # None /\ config \in Alerts!Config
    BY <1>4, AlertRows DEF Alerts!Select
  <2>2. evaluation' \in Alerts!Evaluation /\ evaluation'.quiet = config.silenced
    BY <1>4, <2>1 DEF Alerts!Select, Alerts!Config, Alerts!Evaluation, Alerts!TypeOK
  <2> QED
    BY <1>4, <2>1, <2>2 DEF Alerts!Select, Alerts!TypeOK, SilenceSeen,
       ReceiverKnowsTheAlert, Alerts!ReceiverKnowsTheAlert, NoticesConfigured
<1>5. CASE Alerts!LockStates
  <2>1. evaluation # None /\ evaluation \in Alerts!Evaluation
    BY <1>5, AlertRows DEF Alerts!LockStates
  <2>2. evaluation' \in Alerts!Evaluation /\ evaluation'.quiet = evaluation.quiet
    BY <1>5, <2>1 DEF Alerts!LockStates, Alerts!Evaluation, Alerts!TypeOK
  <2> QED
    BY <1>5, <2>1, <2>2 DEF Alerts!LockStates, Alerts!TypeOK, SilenceSeen,
       ReceiverKnowsTheAlert, Alerts!ReceiverKnowsTheAlert, NoticesConfigured
<1>6. CASE Alerts!Evaluate
  BY <1>6, EvaluateKeeps
<1>7. CASE Alerts!EvaluatorLost \/ Alerts!BreakDeadlock
  BY <1>7 DEF Alerts!EvaluatorLost, Alerts!BreakDeadlock, Alerts!TypeOK, SilenceSeen,
     ReceiverKnowsTheAlert, Alerts!ReceiverKnowsTheAlert, NoticesConfigured
<1>8. ASSUME NEW kind \in {"config", "state"}, Alerts!TakeProject(kind)
      PROVE  AlertInv'
  BY <1>8 DEF Alerts!TakeProject, Alerts!TypeOK, SilenceSeen, ReceiverKnowsTheAlert,
     Alerts!ReceiverKnowsTheAlert, NoticesConfigured
<1>9. CASE Alerts!Answer
  BY <1>9, AnswerKeeps
<1> QED
  BY <1>1, <1>2, <1>3, <1>4, <1>5, <1>6, <1>7, <1>8, <1>9 DEF Alerts!Next

LEMMA AlertInvariant == Spec => []AlertInv
<1>1. AlertInv /\ [Next]_vars => AlertInv'
  <2>1. AlertInv /\ UNCHANGED alerts => AlertInv'
    BY DEF alerts, AlertInv, Alerts!TypeOK, SilenceSeen, NoticesConfigured,
       ReceiverKnowsTheAlert, Alerts!ReceiverKnowsTheAlert
  <2> QED  BY <2>1, AlertStep, EachMoves
<1> QED  BY <1>1, AlertStart, PTL DEF Spec

\* The level the platform counts as notified of each metric is what the last
\* notice said, and a notice of a level that qualifies is remembered until the
\* next activation (_evaluate_project, update_quality_webhook_config).
THEOREM AlertsAgree == Spec => []ReceiverKnowsTheAlert
BY AlertInvariant, PTL DEF AlertInv

\* What an evaluation notifies, it has not said in the notice before, and no
\* silence is in force.
LEMMA NoticeIsDue ==
    ASSUME AlertInv, NEW m \in Metrics, Alerts!Notice(m)
    PROVE  /\ evaluation.signal[m] # told[m].status \/ told[m].anew
           /\ ~config.silenced
<1>1. evaluation # None /\ Alerts!Notifies(m)
  BY DEF Alerts!Notice, Alerts!Evaluate
<1>2. ~evaluation.quiet
  BY <1>1 DEF Alerts!Notifies
<1> QED  BY <1>1, <1>2, EvaluatedRow DEF AlertInv, SilenceSeen

\* Two notices of a metric in a row differ unless an activation came between
\* them (decide_quality_alert_event over the rows as they were committed).
THEOREM NoticesDiffer == Spec => ConsecutiveNoticesDiffer
<1>1. AlertInv => [\A m \in Metrics : Alerts!Notice(m) =>
                      (evaluation.signal[m] # told[m].status \/ told[m].anew)]_Alerts!vars
  BY NoticeIsDue
<1> QED
  BY <1>1, AlertInvariant, PTL DEF ConsecutiveNoticesDiffer, Alerts!ConsecutiveNoticesDiffer

\* No notice is queued while a silence is in force, although the silence is set
\* while an evaluation is under way (set_quality_alert_silence's lock).
THEOREM SilenceIsKept == Spec => QuietWhileSilenced
<1>1. AlertInv => [\A m \in Metrics : Alerts!Notice(m) => ~config.silenced]_Alerts!vars
  BY NoticeIsDue
<1> QED  BY <1>1, AlertInvariant, PTL DEF QuietWhileSilenced, Alerts!QuietWhileSilenced

-----------------------------------------------------------------------------
(* Webhook deliveries                                                      *)

\* A dispatcher has locked the rows of its batch: they are pending, and its own.
WebhooksHeld ==
    \A w \in Dispatchers : webhookBatch[w] # None =>
        \A d \in webhookBatch[w].rows :
            /\ Webhooks!Is(d, "PENDING")
            /\ \A v \in Dispatchers : webhookBatch[v] # None /\ d \in webhookBatch[v].rows => v = w

AttemptsRemain ==
    \A d \in Deliveries : Webhooks!Is(d, "PENDING") => delivery[d].attempts < MaxAttempts

\* ReplaysFormALine without Cardinality.
ReplayedOnce ==
    \A d \in Deliveries :
        /\ \A r, s \in Webhooks!Replays(d) : r = s
        /\ Webhooks!Replays(d) # {} => Webhooks!Is(d, "FAILED")

WebhookInv == Webhooks!TypeOK /\ WebhooksHeld /\ AttemptsRemain /\ ReplayedOnce

LEMMA WebhookRows ==
    ASSUME WebhookInv
    PROVE  /\ \A d \in Deliveries : delivery[d] # None => delivery[d] \in Webhooks!Delivery
           /\ \A w \in Dispatchers : webhookBatch[w] # None =>
                 webhookBatch[w] \in Webhooks!Batch /\ webhookBatch[w].rows \subseteq Deliveries
BY DEF WebhookInv, Webhooks!TypeOK, Webhooks!Batch

\* The loop's body counts the attempt and gives up in time.
LEMMA AfterSendRow ==
    ASSUME NEW row \in Webhooks!Delivery, row.attempts < MaxAttempts, NEW seen \in BOOLEAN,
           NEW reply, NEW new, new = Webhooks!AfterSend(row, seen, reply)
    PROVE  /\ new \in Webhooks!Delivery /\ new.source = row.source
           /\ new.attempts = row.attempts + 1 /\ new.attempts <= MaxAttempts
           /\ \/ new.status = row.status /\ new.attempts < MaxAttempts
              \/ new.status \in {"DELIVERED", "FAILED"}
<1>1. row.attempts \in 0..MaxAttempts /\ MaxAttempts \in Nat
  BY PlatformBounds DEF Webhooks!Delivery
<1>2. row.attempts + 1 \in 0..MaxAttempts
  BY <1>1
<1> DEFINE attempts == row.attempts + 1
<1>3. \/ new = [row EXCEPT !.attempts = attempts, !.status = "FAILED"]
      \/ new = [row EXCEPT !.attempts = attempts, !.status = "DELIVERED"]
      \/ attempts < MaxAttempts /\ new = [row EXCEPT !.attempts = attempts, !.available = FALSE]
  BY DEF Webhooks!AfterSend, Webhooks!Retries
<1>4. row.status \in {"PENDING", "DELIVERED", "FAILED"}
  BY DEF Webhooks!Delivery
<1>5. attempts \in 0..MaxAttempts /\ attempts = row.attempts + 1
  BY <1>2
<1> HIDE DEF attempts
<1>6. new \in Webhooks!Delivery
  BY <1>3, <1>5 DEF Webhooks!Delivery
<1>7. new.source = row.source /\ new.attempts = attempts
  BY <1>3 DEF Webhooks!Delivery
<1>8. \/ new.status = row.status /\ attempts < MaxAttempts
      \/ new.status \in {"DELIVERED", "FAILED"}
  BY <1>3 DEF Webhooks!Delivery
<1>9. attempts <= MaxAttempts
  BY <1>1, <1>5
<1> QED  BY <1>5, <1>6, <1>7, <1>8, <1>9

\* What a step does to a row: nothing, a first insert or a reuse, the end of a
\* wait, an attempt, or a removal of the last row of a chain.
Queued(d) ==
    /\ Webhooks!Free(d) /\ Webhooks!Is(d, "PENDING")' /\ delivery'[d].attempts = 0
Attempted(d) ==
    /\ Webhooks!Is(d, "PENDING") /\ delivery'[d] # None
    /\ delivery'[d].source = delivery[d].source
    /\ delivery'[d].attempts = delivery[d].attempts + 1
    /\ \/ Webhooks!Is(d, "PENDING")' /\ delivery'[d].attempts < MaxAttempts
       \/ delivery'[d].status \in {"DELIVERED", "FAILED"} /\ delivery'[d].attempts <= MaxAttempts
Waited(d) ==
    /\ Webhooks!Is(d, "PENDING") /\ Webhooks!Is(d, "PENDING")'
    /\ delivery'[d].attempts = delivery[d].attempts /\ delivery'[d].source = delivery[d].source
Forgotten(d) ==
    /\ delivery[d] # None /\ ~Webhooks!Is(d, "PENDING") /\ delivery'[d] = None
    /\ Webhooks!Replays(d) = {} /\ ~Webhooks!Locked(d)
RowStep(d) ==
    delivery'[d] = delivery[d] \/ Queued(d) \/ Attempted(d) \/ Waited(d) \/ Forgotten(d)

\* Rows that are queued or forgotten are in nobody's batch.
LEMMA InsertKeeps ==
    ASSUME WebhookInv, NEW d \in Deliveries, NEW source \in Deliveries \cup {None},
           Webhooks!Free(d), delivery' = [delivery EXCEPT ![d] = Webhooks!New(source)],
           UNCHANGED <<enabled, webhookBatch>>,
           source # None => /\ source # d /\ Webhooks!Is(source, "FAILED")
                            /\ Webhooks!Replays(source) = {}
    PROVE  WebhookInv' /\ \A x \in Deliveries : RowStep(x)
<1> DEFINE row == Webhooks!New(source)
<1>1. /\ row \in Webhooks!Delivery /\ row # None
      /\ row.status = "PENDING" /\ row.attempts = 0 /\ row.source = source
  <2>1. row \in Webhooks!Delivery
    BY PlatformBounds DEF Webhooks!New, Webhooks!Delivery
  <2>2. row # None
    BY <2>1, NoneIsNull
  <2> QED  BY <2>1, <2>2 DEF Webhooks!New
<1>2. delivery' = [delivery EXCEPT ![d] = row]
  OBVIOUS
<1> HIDE DEF row
<1>3. Webhooks!TypeOK'
  BY <1>1, <1>2 DEF WebhookInv, Webhooks!TypeOK
<1>4. delivery'[d] = row /\ \A x \in Deliveries \ {d} : delivery'[x] = delivery[x]
  BY <1>2 DEF WebhookInv, Webhooks!TypeOK
<1>6. ~Webhooks!Locked(d)
  BY DEF Webhooks!Free, WebhookInv, WebhooksHeld, Webhooks!Locked, Webhooks!Is
<1>7. Webhooks!Replays(d) = {} /\ (delivery[d] # None => delivery[d].source = None)
  BY DEF Webhooks!Free, WebhookInv, ReplayedOnce, Webhooks!Is
<1>8. WebhooksHeld' /\ AttemptsRemain'
  <2>1. WebhooksHeld'
    BY <1>4, <1>6, WebhookRows DEF WebhookInv, WebhooksHeld, Webhooks!Is, Webhooks!Locked
  <2>2. AttemptsRemain'
    BY <1>1, <1>4, PlatformBounds DEF WebhookInv, AttemptsRemain, Webhooks!Is
  <2> QED  BY <2>1, <2>2
<1>9. ReplayedOnce'
  <2> SUFFICES ASSUME NEW x \in Deliveries
               PROVE  /\ \A r, s \in Webhooks!Replays(x)' : r = s
                      /\ (Webhooks!Replays(x))' # {} => Webhooks!Is(x, "FAILED")'
    BY DEF ReplayedOnce
  <2>1. (Webhooks!Replays(x))' = IF x = source THEN {d} ELSE Webhooks!Replays(x) \ {d}
    BY <1>1, <1>4, NoneIsNull DEF Webhooks!Replays
  <2> QED  BY <1>4, <1>7, <2>1, NoneIsNull DEF WebhookInv, ReplayedOnce, Webhooks!Is
<1>10. \A x \in Deliveries : RowStep(x)
  BY <1>1, <1>4 DEF RowStep, Queued, Webhooks!Is
<1> QED  BY <1>3, <1>8, <1>9, <1>10 DEF WebhookInv

\* Only a row's own dispatcher writes it, and all its rows are pending.
LEMMA CommitBatchKeeps ==
    ASSUME WebhookInv, NEW w \in Dispatchers, Webhooks!CommitBatch(w)
    PROVE  WebhookInv' /\ \A x \in Deliveries : RowStep(x)
<1> DEFINE rows == webhookBatch[w].rows
<1>1. webhookBatch[w] # None /\ rows \subseteq Deliveries /\ webhookBatch[w].enabled \in BOOLEAN
  BY WebhookRows DEF Webhooks!CommitBatch, Webhooks!Batch
<1>2. PICK reply \in [rows -> Webhooks!Replies] :
        delivery' = [d \in Deliveries |->
                       IF d \in rows
                       THEN Webhooks!AfterSend(delivery[d], webhookBatch[w].enabled, reply[d])
                       ELSE delivery[d]]
  BY DEF Webhooks!CommitBatch
<1>3. webhookBatch' = [webhookBatch EXCEPT ![w] = None] /\ enabled' = enabled
  BY DEF Webhooks!CommitBatch
<1>4. \A d \in rows : /\ Webhooks!Is(d, "PENDING") /\ delivery[d] \in Webhooks!Delivery
                      /\ delivery[d].attempts < MaxAttempts
  BY <1>1, WebhookRows DEF WebhookInv, WebhooksHeld, AttemptsRemain, Webhooks!Is
<1>5. \A d \in rows :
        /\ delivery'[d] \in Webhooks!Delivery /\ delivery'[d].source = delivery[d].source
        /\ delivery'[d].attempts = delivery[d].attempts + 1 /\ delivery'[d].attempts <= MaxAttempts
        /\ \/ delivery'[d].status = "PENDING" /\ delivery'[d].attempts < MaxAttempts
           \/ delivery'[d].status \in {"DELIVERED", "FAILED"}
  <2> TAKE d \in rows
  <2>1. delivery'[d] = Webhooks!AfterSend(delivery[d], webhookBatch[w].enabled, reply[d])
    BY <1>1, <1>2
  <2>2. delivery[d].status = "PENDING"
    BY <1>4 DEF Webhooks!Is
  <2> QED  BY <1>1, <1>4, <2>1, <2>2, AfterSendRow
<1>6. \A d \in Deliveries \ rows : delivery'[d] = delivery[d]
  BY <1>2
<1> HIDE DEF rows
<1>7. \A d \in rows : delivery'[d] # None
  BY <1>5, NoneIsNull
<1>8. Webhooks!TypeOK'
  <2>1. delivery' \in [Deliveries -> Webhooks!Delivery \cup {None}]
    <3>1. \A d \in Deliveries : delivery'[d] \in Webhooks!Delivery \cup {None}
      BY <1>5, <1>6 DEF WebhookInv, Webhooks!TypeOK
    <3>2. delivery' = [d \in Deliveries |-> delivery'[d]]
      BY <1>2
    <3> QED  BY <3>1, <3>2
  <2> QED  BY <1>3, <2>1 DEF WebhookInv, Webhooks!TypeOK
<1>9. \A v \in Dispatchers : webhookBatch'[v] # None =>
        v # w /\ webhookBatch'[v] = webhookBatch[v]
  BY <1>3 DEF WebhookInv, Webhooks!TypeOK
<1>10. WebhooksHeld'
  BY <1>1, <1>6, <1>9, WebhookRows DEF WebhookInv, WebhooksHeld, Webhooks!Is, rows
<1>11. AttemptsRemain'
  BY <1>5, <1>6 DEF WebhookInv, AttemptsRemain, Webhooks!Is
<1>12. ReplayedOnce'
  <2>1. \A d \in Deliveries : (Webhooks!Replays(d))' = Webhooks!Replays(d)
    BY <1>4, <1>5, <1>6, <1>7 DEF Webhooks!Replays, Webhooks!Is
  <2>2. \A d \in Deliveries : Webhooks!Is(d, "FAILED") => Webhooks!Is(d, "FAILED")'
    BY <1>4, <1>6 DEF Webhooks!Is
  <2> QED  BY <2>1, <2>2 DEF WebhookInv, ReplayedOnce
<1>13. \A x \in Deliveries : RowStep(x)
  <2> TAKE x \in Deliveries
  <2>1. CASE x \in rows
    BY <1>4, <1>5, <1>7, <2>1 DEF RowStep, Attempted, Webhooks!Is
  <2>2. CASE x \notin rows
    BY <1>6, <2>2 DEF RowStep
  <2> QED  BY <2>1, <2>2
<1> QED  BY <1>8, <1>10, <1>11, <1>12, <1>13 DEF WebhookInv

LEMMA WebhookStep ==
    ASSUME WebhookInv, Webhooks!Next \/ UNCHANGED webhooks
    PROVE  WebhookInv' /\ \A x \in Deliveries : RowStep(x)
<1>1. ASSUME UNCHANGED <<delivery, webhookBatch>>, enabled' \in BOOLEAN
      PROVE  WebhookInv' /\ \A x \in Deliveries : RowStep(x)
  BY <1>1 DEF WebhookInv, Webhooks!TypeOK, WebhooksHeld, AttemptsRemain, ReplayedOnce,
     Webhooks!Is, Webhooks!Replays, RowStep
<1>2. ASSUME NEW d \in Deliveries, Webhooks!Enqueue(d)
      PROVE  WebhookInv' /\ \A x \in Deliveries : RowStep(x)
  BY <1>2, InsertKeeps DEF Webhooks!Enqueue
<1>3. ASSUME NEW s \in Deliveries, NEW d \in Deliveries, Webhooks!Replay(s, d)
      PROVE  WebhookInv' /\ \A x \in Deliveries : RowStep(x)
  BY <1>3, InsertKeeps DEF Webhooks!Replay
<1>4. ASSUME NEW d \in Deliveries, Webhooks!ForgetChain(d)
      PROVE  WebhookInv' /\ \A x \in Deliveries : RowStep(x)
  <2>1. /\ delivery' = [delivery EXCEPT ![d] = None] /\ UNCHANGED <<enabled, webhookBatch>>
        /\ delivery[d] # None /\ ~Webhooks!Is(d, "PENDING") /\ ~Webhooks!Locked(d)
        /\ Webhooks!Replays(d) = {}
    BY <1>4 DEF Webhooks!ForgetChain
  <2>2. delivery'[d] = None /\ \A x \in Deliveries \ {d} : delivery'[x] = delivery[x]
    BY <2>1 DEF WebhookInv, Webhooks!TypeOK
  <2>3. Webhooks!TypeOK'
    BY <2>1 DEF WebhookInv, Webhooks!TypeOK
  <2>4. WebhooksHeld' /\ AttemptsRemain'
    BY <2>1, <2>2, WebhookRows DEF WebhookInv, WebhooksHeld, AttemptsRemain, Webhooks!Is,
       Webhooks!Locked
  <2>5. \A x \in Deliveries : (Webhooks!Replays(x))' = Webhooks!Replays(x) \ {d}
    BY <2>2 DEF Webhooks!Replays
  <2>6. ReplayedOnce'
    BY <2>1, <2>2, <2>5 DEF WebhookInv, ReplayedOnce, Webhooks!Is
  <2>7. \A x \in Deliveries : RowStep(x)
    BY <2>1, <2>2 DEF RowStep, Forgotten
  <2> QED  BY <2>3, <2>4, <2>6, <2>7 DEF WebhookInv
<1>5. ASSUME NEW d \in Deliveries, Webhooks!BackoffEnds(d)
      PROVE  WebhookInv' /\ \A x \in Deliveries : RowStep(x)
  <2> DEFINE row == [delivery[d] EXCEPT !.available = TRUE]
  <2>1. /\ delivery[d] # None /\ delivery[d] \in Webhooks!Delivery
        /\ delivery[d].status = "PENDING"
    BY <1>5, WebhookRows DEF Webhooks!BackoffEnds, Webhooks!Is
  <2>2. /\ row \in Webhooks!Delivery /\ row.status = "PENDING"
        /\ row.attempts = delivery[d].attempts /\ row.source = delivery[d].source
    BY <2>1 DEF Webhooks!Delivery
  <2>3. delivery' = [delivery EXCEPT ![d] = row] /\ UNCHANGED <<enabled, webhookBatch>>
    BY <1>5 DEF Webhooks!BackoffEnds
  <2> HIDE DEF row
  <2>4. row # None
    BY <2>2, NoneIsNull
  <2>5. delivery'[d] = row /\ \A x \in Deliveries \ {d} : delivery'[x] = delivery[x]
    BY <2>3 DEF WebhookInv, Webhooks!TypeOK
  <2>6. Webhooks!TypeOK'
    BY <2>2, <2>3 DEF WebhookInv, Webhooks!TypeOK
  <2>7. WebhooksHeld'
    BY <2>2, <2>3, <2>4, <2>5, WebhookRows DEF WebhookInv, WebhooksHeld, Webhooks!Is
  <2>8. AttemptsRemain'
    BY <2>1, <2>2, <2>5 DEF WebhookInv, AttemptsRemain, Webhooks!Is
  <2>9. \A x \in Deliveries : (Webhooks!Replays(x))' = Webhooks!Replays(x)
    BY <2>1, <2>2, <2>4, <2>5 DEF Webhooks!Replays
  <2>10. ReplayedOnce'
    BY <2>1, <2>5, <2>9 DEF WebhookInv, ReplayedOnce, Webhooks!Is
  <2>11. \A x \in Deliveries : RowStep(x)
    BY <2>1, <2>2, <2>4, <2>5 DEF RowStep, Waited, Webhooks!Is
  <2> QED  BY <2>6, <2>7, <2>8, <2>10, <2>11 DEF WebhookInv
<1>6. ASSUME NEW w \in Dispatchers, Webhooks!TakeBatch(w)
      PROVE  WebhookInv' /\ \A x \in Deliveries : RowStep(x)
  <2> DEFINE due == {d \in Deliveries : Webhooks!Due(d) /\ ~Webhooks!Locked(d)}
             taken == [rows |-> due, enabled |-> enabled]
  <2>1. webhookBatch' = [webhookBatch EXCEPT ![w] = taken] /\ UNCHANGED <<enabled, delivery>>
    BY <1>6 DEF Webhooks!TakeBatch
  <2>2. taken \in Webhooks!Batch /\ taken.rows = due
    BY DEF WebhookInv, Webhooks!TypeOK, Webhooks!Batch
  <2>3. \A d \in due : Webhooks!Is(d, "PENDING") /\ ~Webhooks!Locked(d)
    BY DEF Webhooks!Due
  <2> HIDE DEF taken, due
  <2>4. Webhooks!TypeOK'
    BY <2>1, <2>2 DEF WebhookInv, Webhooks!TypeOK
  <2>5. webhookBatch'[w] = taken
        /\ \A v \in Dispatchers \ {w} : webhookBatch'[v] = webhookBatch[v]
    BY <2>1 DEF WebhookInv, Webhooks!TypeOK
  <2>6. WebhooksHeld'
    BY <2>1, <2>2, <2>3, <2>5 DEF WebhookInv, WebhooksHeld, Webhooks!Is, Webhooks!Locked
  <2>7. AttemptsRemain' /\ ReplayedOnce' /\ \A x \in Deliveries : RowStep(x)
    BY <2>1 DEF WebhookInv, AttemptsRemain, ReplayedOnce, Webhooks!Is, Webhooks!Replays, RowStep
  <2> QED  BY <2>4, <2>6, <2>7 DEF WebhookInv
<1>7. ASSUME NEW w \in Dispatchers, Webhooks!DispatcherLost(w)
      PROVE  WebhookInv' /\ \A x \in Deliveries : RowStep(x)
  <2>1. webhookBatch' = [webhookBatch EXCEPT ![w] = None] /\ UNCHANGED <<enabled, delivery>>
    BY <1>7 DEF Webhooks!DispatcherLost
  <2>2. \A v \in Dispatchers : webhookBatch'[v] # None => webhookBatch'[v] = webhookBatch[v]
    BY <2>1 DEF WebhookInv, Webhooks!TypeOK
  <2> QED
    BY <2>1, <2>2 DEF WebhookInv, Webhooks!TypeOK, WebhooksHeld, AttemptsRemain, ReplayedOnce,
       Webhooks!Is, Webhooks!Replays, RowStep
<1>8. CASE UNCHANGED webhooks
  BY <1>1, <1>8 DEF webhooks, WebhookInv, Webhooks!TypeOK
<1>9. ASSUME NEW new \in BOOLEAN, Webhooks!SetEnabled(new)
      PROVE  WebhookInv' /\ \A x \in Deliveries : RowStep(x)
  BY <1>1, <1>9 DEF Webhooks!SetEnabled
<1> QED
  BY <1>2, <1>3, <1>4, <1>5, <1>6, <1>7, <1>8, <1>9, CommitBatchKeeps DEF Webhooks!Next

LEMMA WebhookInvariant == Spec => []WebhookInv
<1>1. Init => WebhookInv
  BY DEF Init, Webhooks!Init, WebhookInv, Webhooks!TypeOK, WebhooksHeld, AttemptsRemain,
     ReplayedOnce, Webhooks!Is, Webhooks!Replays
<1>2. WebhookInv /\ [Next]_vars => WebhookInv'
  BY WebhookStep, EachMoves
<1> QED  BY <1>1, <1>2, PTL DEF Spec

\* The replays of a delivery form one line of failed deliveries
\* (replay_failed_quality_webhook_delivery locks the source it looks at).
THEOREM ReplaysInLine == Spec => []ReplaysFormALine
<1>1. ASSUME WebhookInv
      PROVE  ReplaysFormALine
  <2> SUFFICES ASSUME NEW d \in Deliveries
               PROVE  Webhooks!Cardinality(Webhooks!Replays(d)) <= 1
    BY <1>1 DEF ReplaysFormALine, Webhooks!ReplaysFormALine, WebhookInv, ReplayedOnce
  <2>1. Webhooks!Cardinality(Webhooks!Replays(d)) = Cardinality(Webhooks!Replays(d))
    BY DEF Webhooks!Cardinality, Cardinality
  <2>2. Webhooks!Replays(d) = {} \/ \E r : Webhooks!Replays(d) = {r}
    BY <1>1 DEF WebhookInv, ReplayedOnce
  <2>3. CASE Webhooks!Replays(d) = {}
    <3>1. Cardinality({}) = 0
      BY FS_EmptySet
    <3> QED  BY <2>1, <2>3, <3>1
  <2>4. ASSUME NEW r, Webhooks!Replays(d) = {r}
        PROVE  Webhooks!Cardinality(Webhooks!Replays(d)) <= 1
    <3>1. Cardinality({r}) = 1
      BY FS_Singleton
    <3> QED  BY <2>1, <2>4, <3>1
  <2> QED  BY <2>2, <2>3, <2>4
<1> QED  BY <1>1, WebhookInvariant, PTL

\* Every step of the webhooks' table is a step of the queue, or leaves it alone.
LEMMA WebhooksAreQueued ==
    ASSUME WebhookInv, WebhookInv', \A x \in Deliveries : RowStep(x)
    PROVE  Webhooks!Queue!Next
<1> DEFINE Row(r) == IF r = None THEN None ELSE [status |-> r.status, attempts |-> r.attempts]
           old == [d \in Deliveries |-> Row(delivery[d])]
           new == [d \in Deliveries |-> Row(delivery'[d])]
<1>1. \A d \in Deliveries :
        /\ delivery[d] # None => Row(delivery[d]) # None
        /\ delivery'[d] # None => Row(delivery'[d]) # None
  <2> SUFFICES ASSUME NEW r \in Webhooks!Delivery
               PROVE  [status |-> r.status, attempts |-> r.attempts] # None
    BY NoneIsNull DEF WebhookInv, Webhooks!TypeOK
  <2>1. [status |-> r.status, attempts |-> r.attempts] \in
          [status : {"PENDING", "DELIVERED", "FAILED", "CANCELED"}, attempts : 0..MaxAttempts]
    BY DEF Webhooks!Delivery
  <2> QED  BY <2>1, NoneIsNull
<1>2. SUFFICES ASSUME NEW d \in Deliveries
               PROVE  \/ new[d] = old[d]
                      \/ Webhooks!Queue!Enqueue(old[d], new[d])
                      \/ Webhooks!Queue!Attempt(old[d], new[d])
                      \/ Webhooks!Queue!Cancel(old[d], new[d])
                      \/ Webhooks!Queue!Forget(old[d], new[d])
  BY DEF Webhooks!Queue!Next
<1>3. old[d] = Row(delivery[d]) /\ new[d] = Row(delivery'[d])
  OBVIOUS
<1>4. delivery[d] # None => delivery[d].status \in {"PENDING", "DELIVERED", "FAILED"}
  BY DEF WebhookInv, Webhooks!TypeOK, Webhooks!Delivery
<1>5. CASE delivery'[d] = delivery[d]
  BY <1>3, <1>5
<1>6. CASE Queued(d)
  <2>1. delivery[d] # None => delivery[d].status # "PENDING"
    BY <1>6 DEF Queued, Webhooks!Free, Webhooks!Is
  <2>2. delivery'[d] # None /\ delivery'[d].status = "PENDING" /\ delivery'[d].attempts = 0
    BY <1>6 DEF Queued, Webhooks!Is
  <2> QED
    BY <1>3, <1>4, <2>1, <2>2 DEF Webhooks!Queue!Enqueue, Webhooks!Queue!Settled
<1>7. CASE Attempted(d)
  BY <1>1, <1>3, <1>7 DEF Attempted, Webhooks!Is, Webhooks!Queue!Attempt
<1>8. CASE Waited(d)
  BY <1>3, <1>8 DEF Waited, Webhooks!Is
<1>9. CASE Forgotten(d)
  BY <1>1, <1>3, <1>4, <1>9 DEF Forgotten, Webhooks!Is, Webhooks!Queue!Forget, Webhooks!Queue!Settled
<1> QED  BY <1>5, <1>6, <1>7, <1>8, <1>9 DEF RowStep

\* The webhooks' table implements the queue.
LEMMA WebhooksKeepQueue == Spec => Webhooks!KeepsQueue
<1>1. Init => Webhooks!Queue!Init
  BY DEF Init, Webhooks!Init, Webhooks!Queue!Init
<1>2. WebhookInv /\ WebhookInv' /\ [Next]_vars => Webhooks!Queue!Next
  BY WebhookStep, WebhooksAreQueued, EachMoves
<1> QED
  BY <1>1, <1>2, WebhookInvariant, PTL DEF Spec, Webhooks!KeepsQueue, Webhooks!Queue!Spec

-----------------------------------------------------------------------------
(* Run e-mails                                                             *)

\* A dispatcher has locked the rows of its batch: they are pending, and its own.
MailsHeld ==
    \A w \in Mailers : \A k \in mailBatch[w] :
        Emails!Is(k, "PENDING") /\ \A v \in Mailers : k \in mailBatch[v] => v = w

MailAttemptsRemain ==
    \A k \in Emails!Mails : Emails!Is(k, "PENDING") => mail[k].attempts < MaxAttempts

\* Only the call that ends a run queues its e-mails.
NoMailBeforeEnd ==
    \A r \in Runs : mailRun[r] # "ended" => \A a \in Addresses : mail[<<r, a>>] = None

MailInv == Emails!TypeOK /\ MailsHeld /\ MailAttemptsRemain /\ NoMailBeforeEnd

LEMMA MailRows ==
    ASSUME MailInv
    PROVE  /\ \A k \in Emails!Mails : mail[k] # None => mail[k] \in Emails!Mail
           /\ \A w \in Mailers : mailBatch[w] \subseteq Emails!Mails
           /\ Emails!Selected \subseteq Addresses
BY DEF MailInv, Emails!TypeOK, Emails!Selected, Emails!Preference

\* What a step does to a row, of whose status and attempts each is clear.
MailQueued(k) ==
    /\ mail[k] = None /\ mail'[k] = Emails!New
MailAttempted(k) ==
    /\ Emails!Is(k, "PENDING") /\ mail'[k] \in Emails!Mail
    /\ mail'[k].attempts = mail[k].attempts + 1 /\ mail'[k].attempts <= MaxAttempts
    /\ \/ mail'[k].status = "PENDING" /\ mail'[k].attempts < MaxAttempts
       \/ mail'[k].status \in {"DELIVERED", "FAILED"}
MailWaited(k) ==
    /\ Emails!Is(k, "PENDING") /\ mail'[k] \in Emails!Mail
    /\ mail'[k].status = "PENDING" /\ mail'[k].attempts = mail[k].attempts
MailCanceled(k) ==
    /\ Emails!Is(k, "PENDING") /\ mail'[k] = [mail[k] EXCEPT !.status = "CANCELED"]
MailStep(k) ==
    \/ mail'[k] = mail[k] \/ MailQueued(k) \/ MailAttempted(k)
    \/ MailWaited(k) \/ MailCanceled(k)

\* The loop's body counts the attempt and gives up in time.
LEMMA AfterSendMail ==
    ASSUME NEW row \in Emails!Mail, row.status = "PENDING", row.attempts < MaxAttempts,
           NEW delivered \in BOOLEAN, NEW new, new = Emails!AfterSend(row, delivered)
    PROVE  /\ new \in Emails!Mail
           /\ new.attempts = row.attempts + 1 /\ new.attempts <= MaxAttempts
           /\ \/ new.status = "PENDING" /\ new.attempts < MaxAttempts
              \/ new.status \in {"DELIVERED", "FAILED"}
<1>1. row.attempts \in 0..MaxAttempts /\ MaxAttempts \in Nat
  BY PlatformBounds DEF Emails!Mail
<1> DEFINE attempts == row.attempts + 1
<1>2. attempts \in 0..MaxAttempts /\ attempts = row.attempts + 1 /\ attempts <= MaxAttempts
  BY <1>1
<1>3. \/ new = [row EXCEPT !.attempts = attempts, !.status = "FAILED"]
      \/ new = [row EXCEPT !.attempts = attempts, !.status = "DELIVERED"]
      \/ attempts < MaxAttempts /\ new = [row EXCEPT !.attempts = attempts, !.available = FALSE]
  BY <1>1 DEF Emails!AfterSend
<1> HIDE DEF attempts
<1>4. new \in Emails!Mail
  BY <1>2, <1>3 DEF Emails!Mail
<1>5. new.attempts = attempts
  BY <1>3 DEF Emails!Mail
<1>6. \/ new.status = "PENDING" /\ attempts < MaxAttempts
      \/ new.status \in {"DELIVERED", "FAILED"}
  BY <1>3 DEF Emails!Mail
<1> QED  BY <1>2, <1>4, <1>5, <1>6

\* Rows that nobody holds, and rows that are held and stay pending, keep the
\* dispatchers' locks in order.
LEMMA MailTyped ==
    ASSUME MailInv, \A k \in Emails!Mails : MailStep(k), mail' = [k \in Emails!Mails |-> mail'[k]]
    PROVE  /\ mail' \in [Emails!Mails -> Emails!Mail \cup {None}]
           /\ MailAttemptsRemain'
<1> SUFFICES ASSUME NEW k \in Emails!Mails
             PROVE  /\ mail'[k] \in Emails!Mail \cup {None}
                    /\ Emails!Is(k, "PENDING")' => mail'[k].attempts < MaxAttempts
  BY DEF MailAttemptsRemain
<1>1. CASE mail'[k] = mail[k]
  BY <1>1 DEF MailInv, Emails!TypeOK, MailAttemptsRemain, Emails!Is
<1>2. CASE MailQueued(k)
  <2>1. Emails!New \in Emails!Mail /\ Emails!New.attempts < MaxAttempts
    BY PlatformBounds DEF Emails!New, Emails!Mail
  <2> QED  BY <1>2, <2>1 DEF MailQueued
<1>3. CASE MailAttempted(k)
  BY <1>3 DEF MailAttempted, Emails!Is
<1>4. CASE MailWaited(k)
  BY <1>4 DEF MailWaited, MailInv, MailAttemptsRemain, Emails!Is
<1>5. CASE MailCanceled(k)
  <2>1. mail[k] \in Emails!Mail
    BY <1>5, MailRows DEF MailCanceled, Emails!Is
  <2>2. mail'[k] \in Emails!Mail /\ mail'[k].status = "CANCELED"
    BY <1>5, <2>1 DEF MailCanceled, Emails!Mail
  <2> QED  BY <2>2 DEF Emails!Is
<1> QED  BY <1>1, <1>2, <1>3, <1>4, <1>5 DEF MailStep

\* update_run_email_preference cancels what nobody has locked.
LEMMA UpdatePreferenceKeeps ==
    ASSUME MailInv, NEW new \in Emails!Preference, Emails!UpdatePreference(new)
    PROVE  MailInv' /\ \A k \in Emails!Mails : MailStep(k)
<1> DEFINE changed == \/ preference = None /\ new.emails # {}
                      \/ preference # None /\ \/ preference.emails # new.emails
                                              \/ preference.selected # new.selected
           cancels == ~new.enabled \/ changed
<1>1. /\ cancels => \A k \in Emails!Mails : Emails!Is(k, "PENDING") => ~Emails!Locked(k)
      /\ mail' = [k \in Emails!Mails |-> IF cancels /\ Emails!Is(k, "PENDING")
                                         THEN [mail[k] EXCEPT !.status = "CANCELED"]
                                         ELSE mail[k]]
      /\ preference' = new /\ UNCHANGED <<mailRun, chosen, mailBatch>>
  BY DEF Emails!UpdatePreference
<1> HIDE DEF cancels
<1>2. \A k \in Emails!Mails : MailStep(k)
  BY <1>1 DEF MailStep, MailCanceled
<1>3. mail' = [k \in Emails!Mails |-> mail'[k]]
  BY <1>1
<1>4. \A w \in Mailers : \A k \in mailBatch[w] : mail'[k] = mail[k]
  BY <1>1, MailRows DEF MailInv, MailsHeld, Emails!Locked
<1>5. MailsHeld'
  BY <1>1, <1>4 DEF MailInv, MailsHeld, Emails!Is
<1>6. NoMailBeforeEnd'
  <2>1. \A k \in Emails!Mails : mail[k] = None => mail'[k] = None
    BY <1>1 DEF Emails!Is
  <2> QED  BY <1>1, <2>1 DEF MailInv, NoMailBeforeEnd, Emails!Mails
<1>7. Emails!TypeOK'
  BY <1>1, <1>2, <1>3, MailTyped DEF MailInv, Emails!TypeOK
<1> QED  BY <1>2, <1>3, <1>5, <1>6, <1>7, MailTyped DEF MailInv

\* New rows are nobody's.
LEMMA MailsInserted ==
    ASSUME MailInv, NEW rows \in SUBSET Emails!Mails, \A k \in rows : mail[k] = None,
           mail' = [k \in Emails!Mails |-> IF k \in rows THEN Emails!New ELSE mail[k]],
           UNCHANGED mailBatch
    PROVE  MailsHeld' /\ \A k \in Emails!Mails : MailStep(k)
<1>1. \A w \in Mailers : \A k \in mailBatch[w] : mail'[k] = mail[k]
  BY MailRows DEF MailInv, MailsHeld, Emails!Is
<1>2. MailsHeld'
  BY <1>1 DEF MailInv, MailsHeld, Emails!Is
<1>3. \A k \in Emails!Mails : MailStep(k)
  BY DEF MailStep, MailQueued
<1> QED  BY <1>2, <1>3

LEMMA SendTestKeeps ==
    ASSUME MailInv, NEW t \in Tests, Emails!SendTest(t)
    PROVE  MailInv' /\ \A k \in Emails!Mails : MailStep(k)
<1> DEFINE rows == {t} \X Emails!Selected
<1>1. /\ mail' = [k \in Emails!Mails |-> IF k \in rows THEN Emails!New ELSE mail[k]]
      /\ UNCHANGED <<preference, mailRun, chosen, mailBatch>>
      /\ \A a \in Addresses : mail[<<t, a>>] = None
  BY DEF Emails!SendTest
<1>2. rows \in SUBSET Emails!Mails /\ \A k \in rows : mail[k] = None
  BY <1>1, MailRows DEF Emails!Mails
<1>3. \A r \in Runs, a \in Addresses : <<r, a>> \notin rows /\ <<r, a>> \in Emails!Mails
  BY KeysDiffer DEF Emails!Mails
<1> HIDE DEF rows
<1>4. MailsHeld' /\ \A k \in Emails!Mails : MailStep(k)
  BY <1>1, <1>2, MailsInserted
<1>5. mail' = [k \in Emails!Mails |-> mail'[k]]
  BY <1>1
<1>6. NoMailBeforeEnd'
  BY <1>1, <1>3 DEF MailInv, NoMailBeforeEnd
<1>7. Emails!TypeOK'
  BY <1>1, <1>4, <1>5, MailTyped DEF MailInv, Emails!TypeOK
<1> QED  BY <1>4, <1>5, <1>6, <1>7, MailTyped DEF MailInv

LEMMA CommitEndKeeps ==
    ASSUME MailInv, NEW r \in Runs, Emails!CommitEnd(r)
    PROVE  MailInv' /\ \A k \in Emails!Mails : MailStep(k)
<1> DEFINE rows == {r} \X chosen[r]
<1>1. /\ mail' = [k \in Emails!Mails |-> IF k \in rows THEN Emails!New ELSE mail[k]]
      /\ mailRun' = [mailRun EXCEPT ![r] = "ended"] /\ chosen' = [chosen EXCEPT ![r] = {}]
      /\ UNCHANGED <<preference, mailBatch>> /\ mailRun[r] = "ending"
  BY DEF Emails!CommitEnd
<1>2. rows \in SUBSET Emails!Mails /\ \A k \in rows : mail[k] = None
  <2>1. chosen[r] \subseteq Addresses
    BY DEF MailInv, Emails!TypeOK
  <2> QED  BY <1>1, <2>1 DEF Emails!Mails, MailInv, NoMailBeforeEnd
<1>3. \A x \in Runs, a \in Addresses : <<x, a>> \in Emails!Mails /\ (x # r => <<x, a>> \notin rows)
  BY DEF Emails!Mails
<1> HIDE DEF rows
<1>4. MailsHeld' /\ \A k \in Emails!Mails : MailStep(k)
  BY <1>1, <1>2, MailsInserted
<1>5. mail' = [k \in Emails!Mails |-> mail'[k]]
  BY <1>1
<1>6. NoMailBeforeEnd'
  BY <1>1, <1>3 DEF MailInv, NoMailBeforeEnd, Emails!TypeOK
<1>7. Emails!TypeOK'
  BY <1>1, <1>4, <1>5, MailTyped DEF MailInv, Emails!TypeOK
<1> QED  BY <1>4, <1>5, <1>6, <1>7, MailTyped DEF MailInv

LEMMA CommitMailsKeeps ==
    ASSUME MailInv, NEW w \in Mailers, Emails!CommitBatch(w)
    PROVE  MailInv' /\ \A k \in Emails!Mails : MailStep(k)
<1> DEFINE rows == mailBatch[w]
<1>1. PICK gone \in SUBSET rows :
        mail' = [k \in Emails!Mails |-> IF k \in rows THEN Emails!AfterSend(mail[k], k \in gone)
                                        ELSE mail[k]]
  BY DEF Emails!CommitBatch
<1>2. mailBatch' = [mailBatch EXCEPT ![w] = {}] /\ UNCHANGED <<preference, mailRun, chosen>>
  BY DEF Emails!CommitBatch
<1>3. \A k \in rows : /\ k \in Emails!Mails /\ Emails!Is(k, "PENDING")
                      /\ mail[k] \in Emails!Mail /\ mail[k].attempts < MaxAttempts
                      /\ mail[k].status = "PENDING"
  BY MailRows DEF MailInv, MailsHeld, MailAttemptsRemain, Emails!Is
<1>4. \A k \in rows : MailAttempted(k)
  <2> TAKE k \in rows
  <2> DEFINE delivered == k \in gone
  <2>1. mail'[k] = Emails!AfterSend(mail[k], delivered) /\ delivered \in BOOLEAN
    BY <1>1, <1>3
  <2> HIDE DEF delivered
  <2> QED  BY <1>3, <2>1, AfterSendMail DEF MailAttempted
<1>5. \A k \in Emails!Mails \ rows : mail'[k] = mail[k]
  BY <1>1
<1>6. mail' = [k \in Emails!Mails |-> mail'[k]]
  BY <1>1
<1>7. mailBatch'[w] = {} /\ \A v \in Mailers \ {w} : mailBatch'[v] = mailBatch[v]
  BY <1>2 DEF MailInv, Emails!TypeOK
<1>8. \A v \in Mailers \ {w} : \A k \in mailBatch[v] : mail'[k] = mail[k]
  BY <1>5, MailRows DEF MailInv, MailsHeld
<1>9. MailsHeld'
  BY <1>7, <1>8 DEF MailInv, MailsHeld, Emails!Is
<1>10. NoMailBeforeEnd'
  <2>1. \A k \in Emails!Mails : mail[k] = None => mail'[k] = None
    BY <1>3, <1>5 DEF Emails!Is
  <2> QED  BY <1>2, <2>1 DEF MailInv, NoMailBeforeEnd, Emails!Mails
<1>11. \A k \in Emails!Mails : MailStep(k)
  BY <1>4, <1>5 DEF MailStep
<1>12. Emails!TypeOK'
  BY <1>2, <1>6, <1>11, MailTyped DEF MailInv, Emails!TypeOK
<1> QED  BY <1>6, <1>9, <1>10, <1>11, <1>12, MailTyped DEF MailInv

LEMMA MailNext ==
    ASSUME MailInv, Emails!Next \/ UNCHANGED emails
    PROVE  MailInv' /\ \A k \in Emails!Mails : MailStep(k)
<1> USE DEF MailInv
<1>1. ASSUME NEW r \in Runs, Emails!EndRun(r) \/ Emails!AbandonEnd(r) \/ Emails!ReapRun(r)
      PROVE  MailInv' /\ \A k \in Emails!Mails : MailStep(k)
  <2>1. UNCHANGED <<preference, mail, mailBatch>>
    BY <1>1 DEF Emails!EndRun, Emails!AbandonEnd, Emails!ReapRun
  <2>2. mailRun' \in [Runs -> {"open", "ending", "ended"}]
        /\ \A x \in Runs : mailRun'[x] # "ended" => mailRun[x] # "ended"
    BY <1>1 DEF Emails!EndRun, Emails!AbandonEnd, Emails!ReapRun, Emails!TypeOK
  <2>3. chosen' \in [Runs -> SUBSET Addresses]
    BY <1>1, MailRows DEF Emails!EndRun, Emails!AbandonEnd, Emails!ReapRun, Emails!TypeOK
  <2> QED
    BY <2>1, <2>2, <2>3 DEF Emails!TypeOK, MailsHeld, MailAttemptsRemain, NoMailBeforeEnd,
       Emails!Is, MailStep
<1>2. ASSUME NEW k \in Emails!Mails, Emails!BackoffEnds(k)
      PROVE  MailInv' /\ \A x \in Emails!Mails : MailStep(x)
  <2> DEFINE row == [mail[k] EXCEPT !.available = TRUE]
  <2>1. mail[k] # None /\ mail[k] \in Emails!Mail /\ mail[k].status = "PENDING"
    BY <1>2, MailRows DEF Emails!BackoffEnds, Emails!Is
  <2>2. row \in Emails!Mail /\ row.status = "PENDING" /\ row.attempts = mail[k].attempts
    BY <2>1 DEF Emails!Mail
  <2>3. mail' = [mail EXCEPT ![k] = row] /\ UNCHANGED <<preference, mailRun, chosen, mailBatch>>
    BY <1>2 DEF Emails!BackoffEnds
  <2> HIDE DEF row
  <2>4. row # None
    BY <2>2, NoneIsNull
  <2>5. mail'[k] = row /\ \A x \in Emails!Mails \ {k} : mail'[x] = mail[x]
    BY <2>3 DEF Emails!TypeOK
  <2>6. mail' = [x \in Emails!Mails |-> mail'[x]]
    BY <2>3 DEF Emails!TypeOK
  <2>7. \A x \in Emails!Mails : MailStep(x)
    BY <2>1, <2>2, <2>5 DEF MailStep, MailWaited, Emails!Is
  <2>8. MailsHeld'
    BY <2>2, <2>3, <2>4, <2>5, MailRows DEF MailsHeld, Emails!Is
  <2>9. NoMailBeforeEnd'
    BY <2>1, <2>3, <2>5 DEF NoMailBeforeEnd, Emails!Mails
  <2>10. Emails!TypeOK'
    BY <2>3, <2>6, <2>7, MailTyped DEF Emails!TypeOK
  <2> QED  BY <2>6, <2>7, <2>8, <2>9, <2>10, MailTyped
<1>3. ASSUME NEW w \in Mailers, Emails!TakeBatch(w) \/ Emails!DispatcherLost(w)
      PROVE  MailInv' /\ \A x \in Emails!Mails : MailStep(x)
  <2>1. UNCHANGED <<preference, mailRun, chosen, mail>>
    BY <1>3 DEF Emails!TakeBatch, Emails!DispatcherLost
  <2>2. PICK rows \in SUBSET Emails!Mails :
          /\ mailBatch' = [mailBatch EXCEPT ![w] = rows]
          /\ \A k \in rows : Emails!Is(k, "PENDING") /\ ~Emails!Locked(k)
    BY <1>3 DEF Emails!TakeBatch, Emails!DispatcherLost
  <2>3. mailBatch'[w] = rows /\ \A v \in Mailers \ {w} : mailBatch'[v] = mailBatch[v]
    BY <2>2 DEF Emails!TypeOK
  <2>4. MailsHeld'
    BY <2>1, <2>2, <2>3 DEF MailsHeld, Emails!Is, Emails!Locked
  <2>5. Emails!TypeOK'
    BY <2>1, <2>2 DEF Emails!TypeOK
  <2> QED
    BY <2>1, <2>4, <2>5 DEF MailAttemptsRemain, NoMailBeforeEnd, Emails!Is, MailStep
<1>4. CASE UNCHANGED emails
  BY <1>4 DEF emails, Emails!TypeOK, MailsHeld, MailAttemptsRemain, NoMailBeforeEnd,
     Emails!Is, MailStep
<1> QED
  BY <1>1, <1>2, <1>3, <1>4, UpdatePreferenceKeeps, SendTestKeeps, CommitEndKeeps,
     CommitMailsKeeps DEF Emails!Next

LEMMA MailInvariant == Spec => []MailInv
<1>1. Init => MailInv
  <2> SUFFICES ASSUME Init PROVE MailInv
    OBVIOUS
  <2>1. Emails!TypeOK
    BY DEF Init, Emails!Init, Emails!TypeOK
  <2> QED
    BY <2>1 DEF Init, Emails!Init, MailInv, MailsHeld, MailAttemptsRemain,
       NoMailBeforeEnd, Emails!Is, Emails!Mails
<1>2. MailInv /\ [Next]_vars => MailInv'
  BY MailNext, EachMoves
<1> QED  BY <1>1, <1>2, PTL DEF Spec

\* Every step of the e-mails' table is a step of the queue, or leaves it alone.
LEMMA MailsAreQueued ==
    ASSUME MailInv, MailInv', \A k \in Emails!Mails : MailStep(k)
    PROVE  Emails!Queue!Next
<1> DEFINE Row(r) == IF r = None THEN None ELSE [status |-> r.status, attempts |-> r.attempts]
           old == [k \in Emails!Mails |-> Row(mail[k])]
           new == [k \in Emails!Mails |-> Row(mail'[k])]
<1>1. \A k \in Emails!Mails :
        /\ mail[k] # None => Row(mail[k]) # None
        /\ mail'[k] # None => Row(mail'[k]) # None
  <2> SUFFICES ASSUME NEW r \in Emails!Mail
               PROVE  [status |-> r.status, attempts |-> r.attempts] # None
    BY NoneIsNull DEF MailInv, Emails!TypeOK
  <2>1. [status |-> r.status, attempts |-> r.attempts] \in
          [status : {"PENDING", "DELIVERED", "FAILED", "CANCELED"}, attempts : 0..MaxAttempts]
    BY DEF Emails!Mail
  <2> QED  BY <2>1, NoneIsNull
<1>2. SUFFICES ASSUME NEW k \in Emails!Mails
               PROVE  \/ new[k] = old[k]
                      \/ Emails!Queue!Enqueue(old[k], new[k])
                      \/ Emails!Queue!Attempt(old[k], new[k])
                      \/ Emails!Queue!Cancel(old[k], new[k])
                      \/ Emails!Queue!Forget(old[k], new[k])
  BY DEF Emails!Queue!Next
<1>3. old[k] = Row(mail[k]) /\ new[k] = Row(mail'[k])
  OBVIOUS
<1>4. CASE mail'[k] = mail[k]
  BY <1>3, <1>4
<1>5. CASE MailQueued(k)
  <2>1. Emails!New \in Emails!Mail
    BY PlatformBounds DEF Emails!New, Emails!Mail
  <2>2. new[k] = [status |-> "PENDING", attempts |-> 0]
    BY <1>3, <1>5, <2>1, NoneIsNull DEF MailQueued, Emails!New
  <2> QED  BY <1>3, <1>5, <2>2 DEF MailQueued, Emails!Queue!Enqueue
<1>6. CASE MailAttempted(k) \/ MailWaited(k)
  <2>1. mail'[k] # None /\ mail[k] # None
    BY <1>6, NoneIsNull DEF MailAttempted, MailWaited, Emails!Is
  <2> QED
    BY <1>1, <1>3, <1>6, <2>1 DEF MailAttempted, MailWaited, Emails!Is, Emails!Queue!Attempt
<1>7. CASE MailCanceled(k)
  <2>1. mail[k] # None /\ mail[k] \in Emails!Mail /\ mail[k].status = "PENDING"
    BY <1>7, MailRows DEF MailCanceled, Emails!Is
  <2>2. /\ mail'[k] = [mail[k] EXCEPT !.status = "CANCELED"]
        /\ mail'[k] \in Emails!Mail
    BY <1>7, <2>1 DEF MailCanceled, Emails!Mail
  <2>3. mail'[k] # None
    BY <2>2, NoneIsNull
  <2>4. mail'[k].status = "CANCELED" /\ mail'[k].attempts = mail[k].attempts
    BY <2>1, <2>2 DEF Emails!Mail
  <2>5. new[k] = [old[k] EXCEPT !.status = "CANCELED"] /\ old[k].status = "PENDING"
    BY <1>3, <2>1, <2>3, <2>4
  <2> QED  BY <1>1, <1>3, <2>1, <2>5 DEF Emails!Queue!Cancel
<1> QED  BY <1>4, <1>5, <1>6, <1>7 DEF MailStep

\* The webhooks' and the e-mails' tables implement the queue: an attempt that is
\* recorded is counted once and a row that was settled, or cancelled while a
\* dispatcher looked on, is never touched again (dispatch_quality_webhook_batch,
\* dispatch_run_email_batch, update_run_email_preference).
THEOREM QueuesImplemented == Spec => QueuesAreKept
<1>1. Init => Emails!Queue!Init
  BY DEF Init, Emails!Init, Emails!Queue!Init
<1>2. MailInv /\ MailInv' /\ [Next]_vars => Emails!Queue!Next
  BY MailNext, MailsAreQueued, EachMoves
<1>3. Spec => Emails!KeepsQueue
  BY <1>1, <1>2, MailInvariant, PTL DEF Spec, Emails!KeepsQueue, Emails!Queue!Spec
<1> QED  BY <1>3, WebhooksKeepQueue DEF QueuesAreKept
================================================================================
