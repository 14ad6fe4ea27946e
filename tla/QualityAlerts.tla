---------------------------- MODULE QualityAlerts ----------------------------
(***************************************************************************)
(* The quality alerts of one project: what quality-alerts computes for     *)
(* each metric, the notices it queues, and the calls by which people       *)
(* configure, silence and acknowledge.                                     *)
(*                                                                         *)
(* An evaluator holds the configuration's row from its selection to its    *)
(* commit and other evaluators skip it, so one variable stands for all of  *)
(* them.  A call holds the project's row, so one variable stands for all   *)
(* calls.  The evaluator's inserts refer to the project and so wait for    *)
(* the call that holds it, while that call waits for a row the evaluator   *)
(* holds: PostgreSQL ends one of the two.                                  *)
(*                                                                         *)
(* Clocks are compared and never counted: due, cooling and silenced say    *)
(* on which side of the current time a stored moment lies.                 *)
(***************************************************************************)
EXTENDS Naturals

CONSTANTS Metrics, None

Levels == {"WARNING", "CRITICAL"}
Statuses == {"NO_DATA", "STABLE"} \cup Levels

\* QUALITY_ALERT_RANK.
Rank == [NO_DATA |-> 0, STABLE |-> 1, WARNING |-> 2, CRITICAL |-> 3]

VARIABLES
    signal,      \* the status the runs of the project yield for each metric
    alert,       \* quality_alert_states
    told,        \* the status of the last notice queued, and whether an edit came after it
    config,      \* quality_webhook_configs
    evaluation,  \* the evaluation in progress
    call         \* the call in progress, by the row it will lock next

vars == <<signal, alert, told, config, evaluation, call>>

Alert == [current : Statuses, active : Levels \cup {None},
          cooling : BOOLEAN, acknowledged : Statuses \cup {None}]
Config == [enabled : BOOLEAN, minimum : Levels, next : {"due", "later", None},
           silenced : BOOLEAN]
Evaluation == [step : {"selected", "locked"}, signal : [Metrics -> Statuses], quiet : BOOLEAN]

TypeOK ==
    /\ signal \in [Metrics -> Statuses]
    /\ alert \in [Metrics -> Alert \cup {None}]
    /\ told \in [Metrics -> [status : Statuses \cup {None}, anew : BOOLEAN]]
    /\ config \in Config \cup {None}
    /\ evaluation \in Evaluation \cup {None}
    /\ call \in {"config", "state", None}

Init ==
    /\ signal = [m \in Metrics |-> "NO_DATA"]
    /\ alert = [m \in Metrics |-> None]
    /\ told = [m \in Metrics |-> [status |-> None, anew |-> FALSE]]
    /\ config = None /\ evaluation = None /\ call = None

-----------------------------------------------------------------------------
(* Time and the project's runs *)

\* calculate_quality_comparison yields another status.
SignalChanges(m, s) ==
    /\ signal' = [signal EXCEPT ![m] = s]
    /\ UNCHANGED <<alert, told, config, evaluation, call>>

IntervalElapses ==
    /\ evaluation = None /\ config # None /\ config.next = "later"
    /\ config' = [config EXCEPT !.next = "due"]
    /\ UNCHANGED <<signal, alert, told, evaluation, call>>

\* An evaluation compares with the moment it began at.
CooldownEnds(m) ==
    /\ evaluation = None /\ alert[m] # None /\ alert[m].cooling
    /\ alert' = [alert EXCEPT ![m].cooling = FALSE]
    /\ UNCHANGED <<signal, told, config, evaluation, call>>

SilenceEnds ==
    /\ evaluation = None /\ config # None /\ config.silenced
    /\ config' = [config EXCEPT !.silenced = FALSE]
    /\ UNCHANGED <<signal, alert, told, evaluation, call>>

-----------------------------------------------------------------------------
(* The evaluator *)

\* evaluate_quality_alert_batch up to the loop: the configuration's row must
\* be free, and stays locked; silence_active is what it says now.
Select ==
    /\ evaluation = None /\ config # None /\ call # "config"
    /\ config.enabled /\ config.next = "due"
    /\ evaluation' = [step |-> "selected", signal |-> signal, quiet |-> config.silenced]
    /\ UNCHANGED <<signal, alert, told, config, call>>

\* The comparison is computed, then the states are locked.
LockStates ==
    /\ evaluation # None /\ evaluation.step = "selected" /\ call # "state"
    /\ evaluation' = [evaluation EXCEPT !.step = "locked", !.signal = signal]
    /\ UNCHANGED <<signal, alert, told, config, call>>

FirstState(s) == [current |-> s, active |-> None, cooling |-> FALSE, acknowledged |-> None]

\* decide_quality_alert_event: the event, and the level notified from now on.
Decide(s, a, minimum) ==
    LET worse == a.active # None /\ Rank[s] > Rank[a.active]
        better == a.active # None /\ Rank[s] < Rank[a.active]
        qualifies == Rank[s] >= Rank[minimum]
    IN  CASE s = "NO_DATA" -> <<"none", a.active>>
          [] s = "STABLE" /\ a.active # None -> <<"recovered", None>>
          [] s \in Levels /\ worse -> <<"escalated", s>>
          [] s \in Levels /\ better -> <<"deescalated", IF qualifies THEN s ELSE None>>
          [] a.active = None /\ qualifies /\ ~a.cooling -> <<"triggered", s>>
          [] OTHER -> <<"none", a.active>>

\* The state's row before the event is looked at.
Observed(m) ==
    LET s == evaluation.signal[m]
    IN  IF alert[m] = None THEN FirstState(s)
        ELSE [alert[m] EXCEPT !.current = s,
                  !.acknowledged = IF alert[m].current = s THEN @ ELSE None]

\* Variant: a level that outlasts the cooldown is notified again.
DecisionAgain(m) ==
    LET s == evaluation.signal[m]
    IN  IF Observed(m).active = s /\ ~Observed(m).cooling THEN <<"triggered", s>>
        ELSE Decide(s, Observed(m), config.minimum)

Decision(m) == Decide(evaluation.signal[m], Observed(m), config.minimum)
Notifies(m) == Decision(m)[1] # "none" /\ ~evaluation.quiet

\* Variant: a silence keeps the notice back and still records it as sent.
NotifiedSilently(m) ==
    IF Decision(m)[1] = "none" THEN Observed(m)
    ELSE [Observed(m) EXCEPT !.active = Decision(m)[2], !.acknowledged = None,
                             !.cooling = Decision(m)[2] # None \/ @]

\* The state's row after its notice was queued, or was not.
Notified(m) ==
    IF ~Notifies(m) THEN Observed(m)
    ELSE [Observed(m) EXCEPT !.active = Decision(m)[2], !.acknowledged = None,
                             !.cooling = Decision(m)[2] # None \/ @]

\* A new state, a changed status and a notice insert rows that refer to the
\* project.
Unchanged(m) ==
    alert[m] # None /\ alert[m].current = evaluation.signal[m] /\ ~Notifies(m)
Inserts == \E m \in Metrics : ~Unchanged(m)

\* _evaluate_project and the commit.
Evaluate ==
    /\ evaluation # None /\ evaluation.step = "locked"
    /\ Inserts => call = None
    /\ alert' = [m \in Metrics |-> Notified(m)]
    /\ told' = [m \in Metrics |->
                 IF Notifies(m) THEN [status |-> evaluation.signal[m], anew |-> FALSE] ELSE told[m]]
    /\ config' = [config EXCEPT !.next = "later"]
    /\ evaluation' = None
    /\ UNCHANGED <<signal, call>>

\* The evaluator's process ends, or its transaction is chosen in a deadlock.
EvaluatorLost ==
    /\ evaluation # None
    /\ evaluation' = None
    /\ UNCHANGED <<signal, alert, told, config, call>>

-----------------------------------------------------------------------------
(* The calls *)

\* _project with for_update, then a wait for the row the call is about.
TakeProject(kind) ==
    /\ call = None
    /\ call' = kind
    /\ UNCHANGED <<signal, alert, told, config, evaluation>>

StatesLocked == evaluation # None /\ evaluation.step = "locked"
HoldsConfig == call = "config" /\ evaluation = None
HoldsState == call = "state" /\ ~StatesLocked

\* Variant: what was notified outlives the activation.
KeptNotified(a) == a

Cleared(a) ==
    IF a = None THEN None
    ELSE [a EXCEPT !.active = None, !.cooling = FALSE, !.acknowledged = None]

\* update_quality_webhook_config: another activation forgets what was notified,
\* the receivers do not.
UpdateConfig(enabled, minimum) ==
    LET old == IF config # None THEN config
               ELSE [enabled |-> FALSE, minimum |-> "WARNING", next |-> None, silenced |-> FALSE]
        activation == old.enabled # enabled \/ old.minimum # minimum
    IN  /\ HoldsConfig
        /\ config' = [old EXCEPT !.enabled = enabled, !.minimum = minimum,
                          !.next = IF ~enabled THEN None
                                   ELSE IF activation \/ @ = None THEN "due" ELSE @]
        /\ alert' = [m \in Metrics |-> IF activation THEN Cleared(alert[m]) ELSE alert[m]]
        /\ told' = [m \in Metrics |-> [told[m] EXCEPT !.anew = @ \/ activation]]
        /\ call' = None
        /\ UNCHANGED <<signal, evaluation>>

\* Variant: the silence is written without the configuration's lock.
SetSilenceUnlocked ==
    /\ call = "config" /\ config # None /\ config.enabled
    /\ config' = [config EXCEPT !.silenced = TRUE, !.next = "due"]
    /\ call' = None
    /\ UNCHANGED <<signal, alert, told, evaluation>>

\* set_quality_alert_silence.
SetSilence ==
    /\ HoldsConfig /\ config # None /\ config.enabled
    /\ config' = [config EXCEPT !.silenced = TRUE, !.next = "due"]
    /\ call' = None
    /\ UNCHANGED <<signal, alert, told, evaluation>>

\* clear_quality_alert_silence; one that has already ended is cleared too.
ClearSilence ==
    /\ HoldsConfig /\ config # None
    /\ config' = [config EXCEPT !.silenced = FALSE,
                                !.next = IF config.enabled THEN "due" ELSE None]
    /\ call' = None
    /\ UNCHANGED <<signal, alert, told, evaluation>>

\* acknowledge_quality_alert.
Acknowledge(m) ==
    /\ HoldsState /\ alert[m] # None /\ alert[m].current \in Levels
    /\ alert' = [alert EXCEPT ![m].acknowledged = alert[m].current]
    /\ call' = None
    /\ UNCHANGED <<signal, told, config, evaluation>>

\* clear_quality_alert_acknowledgement.
ClearAcknowledgement(m) ==
    /\ HoldsState /\ alert[m] # None
    /\ alert' = [alert EXCEPT ![m].acknowledged = None]
    /\ call' = None
    /\ UNCHANGED <<signal, told, config, evaluation>>

\* The call is refused, or changes nothing.
Refuse ==
    /\ HoldsConfig \/ HoldsState
    /\ call' = None
    /\ UNCHANGED <<signal, alert, told, config, evaluation>>

Answer ==
    \/ \E enabled \in BOOLEAN, minimum \in Levels : UpdateConfig(enabled, minimum)
    \/ SetSilence
    \/ ClearSilence
    \/ \E m \in Metrics : Acknowledge(m) \/ ClearAcknowledgement(m)
    \/ Refuse

\* PostgreSQL finds the call and the evaluator waiting for each other.
BreakDeadlock ==
    /\ StatesLocked /\ Inserts /\ call # None
    /\ \/ call' = None /\ UNCHANGED evaluation
       \/ evaluation' = None /\ UNCHANGED call
    /\ UNCHANGED <<signal, alert, told, config>>

-----------------------------------------------------------------------------
Next ==
    \/ \E m \in Metrics, s \in Statuses : SignalChanges(m, s)
    \/ IntervalElapses
    \/ \E m \in Metrics : CooldownEnds(m)
    \/ SilenceEnds
    \/ Select
    \/ LockStates
    \/ Evaluate
    \/ EvaluatorLost
    \/ \E kind \in {"config", "state"} : TakeProject(kind)
    \/ Answer
    \/ BreakDeadlock

Spec == Init /\ [][Next]_vars

\* Time passes, and the evaluator's process is restarted and now and then lives
\* long enough.
Fairness ==
    /\ WF_vars(IntervalElapses)
    /\ \A m \in Metrics : SF_vars(CooldownEnds(m))
    /\ WF_vars(Select)
    /\ SF_vars(LockStates)
    /\ SF_vars(Evaluate)

-----------------------------------------------------------------------------
(* Properties *)

\* The platform decides on what the receivers last heard: the level it counts as
\* notified (quality_alert_states, edited by every call and evaluation) is the
\* status of the last notice it queued, and a notice of a level that still
\* qualifies is remembered, across silences, cooldowns, lost evaluators and
\* edits.  Another activation (update_quality_webhook_config) may make
\* it forget what it sent, and never makes it remember something else.
ReceiverKnowsTheAlert ==
    \A m \in Metrics :
        LET believed == IF alert[m] = None THEN None ELSE alert[m].active
            last == told[m].status
        IN  /\ believed # None => last = believed
            /\ (last \in Levels /\ Rank[last] >= Rank[config.minimum] /\ ~told[m].anew)
                   => believed = last

Notice(m) == Evaluate /\ Notifies(m)

\* Two notices of a metric in a row say different things unless the
\* configuration was activated anew in between: neither repeated evaluations
\* nor lost ones, nor a silence or a cooldown that ends, repeat a notice
\* (decide_quality_alert_event over the row as the transactions left it).
ConsecutiveNoticesDiffer ==
    [][\A m \in Metrics :
           Notice(m) => evaluation.signal[m] # told[m].status \/ told[m].anew]_vars

\* No notice is queued by _evaluate_project while a silence is in force,
\* although the silence may be set while an evaluation is under way.
QuietWhileSilenced == [][\A m \in Metrics : Notice(m) => ~config.silenced]_vars

\* Once the status, the configuration and the calls have come to rest, the
\* notices queued catch up with the status (NO_DATA says nothing), whatever
\* silence, cooldown or lost evaluation came before: the last one speaks of it
\* if it qualifies, and otherwise no level counts as notified any more.
Rests(m, s) ==
    /\ signal[m] = s /\ call = None
    /\ config # None /\ config.enabled /\ ~config.silenced
Level(s) == IF s \in Levels /\ Rank[s] >= Rank[config.minimum] THEN s ELSE None
CaughtUp(m, s) ==
    /\ alert[m] # None /\ alert[m].active = Level(s)
    /\ Level(s) # None => told[m].status = s
NoticesCatchUp ==
    \A m \in Metrics, s \in Statuses \ {"NO_DATA"} : <>[]Rests(m, s) => <>[]CaughtUp(m, s)
=============================================================================
