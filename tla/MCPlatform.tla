----------------------------- MODULE MCPlatform -----------------------------
(***************************************************************************)
(* The components around the run control, checked side by side.  They share *)
(* no state, so a behaviour of their composition shows each of them a      *)
(* behaviour of its own: focus chooses the component that moves, and the   *)
(* others stay in their initial states.                                    *)
(***************************************************************************)
EXTENDS Naturals, FiniteSets

CONSTANTS
    None,
    Metrics,
    Deliveries, Followed, Dispatchers,  \* rows are alike: one of them is followed
    Runs, Tests, Addresses, Mailers,
    People, Callers,
    Members, Admins,
    Executors, Tickets, Gateways,
    Chatters,
    MaxAttempts, MaxEvents, Editors, MaxCases, MaxQuestions

VARIABLES
    focus,
    signal, alert, told, config, evaluation, call,
    enabled, delivery, webhookBatch,
    preference, mailRun, chosen, mail, mailBatch,
    marker, user, live, identityRequest,
    role, accessRequest,
    mode, status, canceled, timeline, sent, task, pc, created, verified,
    forwarded, outcome, present, child, written, log, result, intruder,
    ended, display, registration, found, ticket, opening, watched,
    adapter, tag, asked, workspace, preflight, executed, process, report, turn,
    next, round, stopped, results, verdict,
    conversation, messages, work

Alerts == INSTANCE QualityAlerts
Webhooks == INSTANCE WebhookDeliveries
                WITH Ids <- Deliveries, batch <- webhookBatch
Emails == INSTANCE RunEmails
              WITH Dispatchers <- Mailers, run <- mailRun, batch <- mailBatch
Identities == INSTANCE Identity WITH Users <- People, request <- identityRequest
Accesses == INSTANCE Access WITH Administrators <- Admins, request <- accessRequest
Tasks == INSTANCE Execution
Views == INSTANCE LiveView
Adapters == INSTANCE Runners
                WITH N <- MaxCases, child <- process, pc <- turn, canceled <- stopped, result <- results
Chats == INSTANCE Conversations WITH Callers <- Chatters

\* Bounds are numbers, and an attempt is made at least.
ASSUME PlatformBounds ==
    /\ MaxEvents \in Nat /\ MaxAttempts \in Nat \ {0}
    /\ MaxCases \in Nat /\ MaxQuestions \in Nat

\* The dedupe_key of a run's e-mail names the run, that of a test a message of
\* its own.
ASSUME KeysDiffer == Runs \cap Tests = {}

\* The services' own credentials belong to no user, and a session's id is
\* none of the words the store keeps beside it.
ASSUME NamesDiffer ==
    /\ (Members \cup Admins) \cap {"runner", "verifier"} = {}
    /\ "used" \notin Executors \cup {None}

\* None stands for NULL, which is no value of a column and no row of a table.
ASSUME NoneIsNull ==
    /\ None \notin Nat \cup Deliveries \cup People \cup Executors
    /\ None \notin Alerts!Statuses \cup Alerts!Alert \cup Alerts!Config \cup Alerts!Evaluation
    /\ None \notin Webhooks!Delivery \cup Webhooks!Batch \cup Emails!Mail
    /\ None \notin [status : {"PENDING", "DELIVERED", "FAILED", "CANCELED"},
                    attempts : 0..MaxAttempts]
    /\ None \notin Identities!User \cup Identities!Request
    /\ None \notin Accesses!Capacities \cup Accesses!Request
    /\ None \notin Tasks!Document \cup Adapters!Results \cup Adapters!Verdicts

-----------------------------------------------------------------------------
alerts == <<signal, alert, told, config, evaluation, call>>
webhooks == <<enabled, delivery, webhookBatch>>
emails == <<preference, mailRun, chosen, mail, mailBatch>>
identities == <<marker, user, live, identityRequest>>
accesses == <<role, accessRequest>>
tasks == <<mode, status, canceled, timeline, sent, task, pc, created, verified,
           forwarded, outcome, present, child, written, log, result, intruder>>
views == <<ended, display, registration, found, ticket, opening, watched>>
adapters == <<adapter, tag, asked, workspace, preflight, executed, process, report, turn,
              next, round, stopped, results, verdict>>
chats == <<conversation, messages, work>>
vars == <<focus, alerts, webhooks, emails, identities, accesses, tasks, views, adapters, chats>>

Init ==
    /\ focus \in {"alerts", "webhooks", "emails", "identities", "accesses",
                  "tasks", "views", "adapters", "chats"}
    /\ Alerts!Init /\ Webhooks!Init /\ Emails!Init /\ Identities!Init
    /\ Accesses!Init /\ Tasks!Init /\ Views!Init /\ Adapters!Init
    /\ Chats!Init
    \* Of a component that does not move one initial state is enough.
    /\ focus # "tasks" => mode = "SUBPROCESS"
    /\ focus # "adapters" => adapter = "WEB" /\ tag = [c \in 1..MaxCases |-> "plain"]

\* The component in focus takes a step of its own.
Move ==
    \/ /\ focus = "alerts" /\ Alerts!Next
       /\ UNCHANGED <<webhooks, emails, identities, accesses, tasks, views, adapters, chats>>
    \/ /\ focus = "webhooks" /\ Webhooks!Next
       /\ UNCHANGED <<alerts, emails, identities, accesses, tasks, views, adapters, chats>>
    \/ /\ focus = "emails" /\ Emails!Next
       /\ UNCHANGED <<alerts, webhooks, identities, accesses, tasks, views, adapters, chats>>
    \/ /\ focus = "identities" /\ Identities!Next
       /\ UNCHANGED <<alerts, webhooks, emails, accesses, tasks, views, adapters, chats>>
    \/ /\ focus = "accesses" /\ Accesses!Next
       /\ UNCHANGED <<alerts, webhooks, emails, identities, tasks, views, adapters, chats>>
    \/ /\ focus = "tasks" /\ Tasks!Next
       /\ UNCHANGED <<alerts, webhooks, emails, identities, accesses, views, adapters, chats>>
    \/ /\ focus = "views" /\ Views!Next
       /\ UNCHANGED <<alerts, webhooks, emails, identities, accesses, tasks, adapters, chats>>
    \/ /\ focus = "adapters" /\ Adapters!Next
       /\ UNCHANGED <<alerts, webhooks, emails, identities, accesses, tasks, views, chats>>
    \/ /\ focus = "chats" /\ Chats!Next
       /\ UNCHANGED <<alerts, webhooks, emails, identities, accesses, tasks, views, adapters>>

\* The task of a run, its view, its adapter and a deleted conversation end
\* once and for all.
Rest ==
    /\ focus \in {"tasks", "views", "adapters", "chats"}
    /\ UNCHANGED <<alerts, webhooks, emails, identities, accesses, tasks, views, adapters, chats>>

Next == (Move \/ Rest) /\ UNCHANGED focus

\* A component in its initial state has no step that is fair.
Fairness == Alerts!Fairness /\ Webhooks!Fairness(Followed)

Spec == Init /\ [][Next]_vars /\ Fairness

-----------------------------------------------------------------------------
(* The properties of the components, by the names of this instance *)

\* Every component keeps its variables in their types.
TypesOK ==
    /\ Alerts!TypeOK /\ Webhooks!TypeOK /\ Emails!TypeOK /\ Identities!TypeOK
    /\ Accesses!TypeOK /\ Tasks!TypeOK /\ Views!TypeOK /\ Adapters!TypeOK
    /\ Chats!TypeOK

\* The level that counts as notified is what the last notice said (_evaluate_project).
ReceiverKnowsTheAlert == Alerts!ReceiverKnowsTheAlert
\* No notice is queued while a silence is in force (set_quality_alert_silence).
QuietWhileSilenced == Alerts!QuietWhileSilenced
\* At rest the notices catch up with the status (decide_quality_alert_event).
NoticesCatchUp == Alerts!NoticesCatchUp
\* Two notices in a row differ unless an activation came between them.
ConsecutiveNoticesDiffer == Alerts!ConsecutiveNoticesDiffer
\* Both outgoing queues implement DeliveryQueue (dispatch_quality_webhook_batch,
\* dispatch_run_email_batch, update_run_email_preference).
QueuesAreKept == Webhooks!KeepsQueue /\ Emails!KeepsQueue
\* A failed delivery has one chain of replays.
ReplaysFormALine == Webhooks!ReplaysFormALine
\* A queued webhook delivery is settled (dispatch_quality_webhook_batch).
DeliverySettles == Webhooks!DeliverySettles(Followed)
\* One bootstrap_admin succeeds.
BootstrapOnce == Identities!BootstrapOnce
\* No route lets a role write beyond its duties.
DutiesAreKept == Accesses!DutiesAreKept
\* A kept result that claims isolation comes from a verified workload.
EvidenceWasVerified == Tasks!EvidenceWasVerified
\* The run's events are all reported before its result (_reconcile_events).
EventsPrecedeResult == Tasks!EventsPrecedeResult
\* Reports from one workspace are of the result it holds (_existing_result).
RetriesRepeatTheReport == Tasks!RetriesRepeatTheReport
\* Only its own executor takes a shown display away (LiveViewPublisher.unpublish).
ShownRunStaysPublished == Views!ShownRunStaysPublished
\* No retry, crash or redelivery executes a case that changes data again.
MutatingRunsOnce == Adapters!MutatingRunsOnce
\* Every case of a final result is accounted for (_terminal_status).
ResultsAreEarned == Adapters!ResultsAreEarned
\* A model's answer is stored once, whoever else writes (save_ai_chat_answer).
AnswersAreKept == Chats!AnswersAreKept
=============================================================================
