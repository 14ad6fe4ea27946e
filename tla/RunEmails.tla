------------------------------ MODULE RunEmails ------------------------------
(***************************************************************************)
(* The e-mails that tell a user how his runs ended: his preference, the    *)
(* rows queued when a run ends, and the dispatchers that send them.        *)
(*                                                                         *)
(* A call that ends a run reads the preference, never locking it, and      *)
(* inserts its rows with its commit.  The preference's update cancels the  *)
(* queued rows it can see and waits for those a dispatcher has locked.     *)
(* A row's key is its dedupe_key: a run, or a test, and an address.        *)
(***************************************************************************)
EXTENDS Naturals

CONSTANTS
    Runs,         \* runs the user created
    Tests,        \* test messages
    Addresses,    \* e-mail addresses
    Dispatchers,  \* processes that send
    MaxAttempts,  \* RUN_EMAIL_MAX_ATTEMPTS
    None

Mails == (Runs \cup Tests) \X Addresses

VARIABLES
    preference,  \* run_email_preferences
    run,         \* whether each run goes on, is being ended, or has ended
    chosen,      \* the addresses a call that ends a run has read
    mail,        \* run_email_deliveries
    batch        \* for each dispatcher the rows it has locked

vars == <<preference, run, chosen, mail, batch>>

Preference == [enabled : BOOLEAN, emails : SUBSET Addresses, selected : SUBSET Addresses]
Mail == [status : {"PENDING", "DELIVERED", "FAILED", "CANCELED"},
         attempts : 0..MaxAttempts, available : BOOLEAN]

TypeOK ==
    /\ preference \in Preference \cup {None}
    /\ run \in [Runs -> {"open", "ending", "ended"}]
    /\ chosen \in [Runs -> SUBSET Addresses]
    /\ mail \in [Mails -> Mail \cup {None}]
    /\ batch \in [Dispatchers -> SUBSET Mails]

Init ==
    /\ preference = None
    /\ run = [r \in Runs |-> "open"]
    /\ chosen = [r \in Runs |-> {}]
    /\ mail = [k \in Mails |-> None]
    /\ batch = [w \in Dispatchers |-> {}]

Is(k, status) == mail[k] # None /\ mail[k].status = status
Locked(k) == \E w \in Dispatchers : k \in batch[w]
New == [status |-> "PENDING", attempts |-> 0, available |-> TRUE]

\* _selected_preference_emails.
Selected == IF preference = None THEN {} ELSE preference.selected

-----------------------------------------------------------------------------
(* The user *)

\* RunEmailPreferenceUpdate.require_enabled_destination.
Valid(new) == new.selected \subseteq new.emails /\ (new.enabled => new.selected # {})

\* Variant: the rows a dispatcher holds are written without waiting for it.
UpdateAtOnce(new) ==
    LET changed == preference # None /\ preference # new
    IN  /\ Valid(new)
        /\ preference' = new
        /\ mail' = [k \in Mails |-> IF (~new.enabled \/ changed) /\ Is(k, "PENDING")
                                    THEN [mail[k] EXCEPT !.status = "CANCELED"] ELSE mail[k]]
        /\ UNCHANGED <<run, chosen, batch>>

\* update_run_email_preference.
UpdatePreference(new) ==
    LET changed == \/ preference = None /\ new.emails # {}
                   \/ preference # None /\ \/ preference.emails # new.emails
                                           \/ preference.selected # new.selected
        cancels == ~new.enabled \/ changed
    IN  /\ Valid(new)
        /\ cancels => \A k \in Mails : Is(k, "PENDING") => ~Locked(k)
        /\ preference' = new
        /\ mail' = [k \in Mails |-> IF cancels /\ Is(k, "PENDING")
                                    THEN [mail[k] EXCEPT !.status = "CANCELED"]
                                    ELSE mail[k]]
        /\ UNCHANGED <<run, chosen, batch>>

\* enqueue_run_email_test, whether or not notices are enabled.
SendTest(t) ==
    /\ Selected # {}
    /\ \A a \in Addresses : mail[<<t, a>>] = None
    /\ mail' = [k \in Mails |-> IF k \in {t} \X Selected THEN New ELSE mail[k]]
    /\ UNCHANGED <<preference, run, chosen, batch>>

-----------------------------------------------------------------------------
(* The ends of runs *)

\* enqueue_run_result_email in record_run_result or in the cancel of a queued
\* run; the user may not want to hear of this status.
EndRun(r) ==
    /\ run[r] = "open"
    /\ run' = [run EXCEPT ![r] = "ending"]
    /\ \E wanted \in BOOLEAN :
         chosen' = [chosen EXCEPT ![r] =
                      IF wanted /\ preference # None /\ preference.enabled THEN Selected ELSE {}]
    /\ UNCHANGED <<preference, mail, batch>>

CommitEnd(r) ==
    /\ run[r] = "ending"
    /\ run' = [run EXCEPT ![r] = "ended"]
    /\ mail' = [k \in Mails |-> IF k \in {r} \X chosen[r] THEN New ELSE mail[k]]
    /\ chosen' = [chosen EXCEPT ![r] = {}]
    /\ UNCHANGED <<preference, batch>>

\* The call's process is lost before its commit.
AbandonEnd(r) ==
    /\ run[r] = "ending"
    /\ run' = [run EXCEPT ![r] = "open"]
    /\ chosen' = [chosen EXCEPT ![r] = {}]
    /\ UNCHANGED <<preference, mail, batch>>

\* process_run_reliability: the reaper ends the run and queues nothing.
ReapRun(r) ==
    /\ run[r] = "open"
    /\ run' = [run EXCEPT ![r] = "ended"]
    /\ UNCHANGED <<preference, chosen, mail, batch>>

-----------------------------------------------------------------------------
(* The dispatchers *)

\* _retry_at: the moment of the next attempt has come.
BackoffEnds(k) ==
    /\ Is(k, "PENDING") /\ ~mail[k].available
    /\ mail' = [mail EXCEPT ![k].available = TRUE]
    /\ UNCHANGED <<preference, run, chosen, batch>>

\* dispatch_run_email_batch: the select, which skips locked rows.
TakeBatch(w) ==
    LET due == {k \in Mails : Is(k, "PENDING") /\ mail[k].available /\ ~Locked(k)}
    IN  /\ batch[w] = {} /\ due # {}
        /\ batch' = [batch EXCEPT ![w] = due]
        /\ UNCHANGED <<preference, run, chosen, mail>>

\* The loop's body for one row, sent or not.
AfterSend(row, sent) ==
    LET attempts == row.attempts + 1
    IN  CASE sent -> [row EXCEPT !.attempts = attempts, !.status = "DELIVERED"]
          [] ~sent /\ attempts >= MaxAttempts ->
                [row EXCEPT !.attempts = attempts, !.status = "FAILED"]
          [] OTHER -> [row EXCEPT !.attempts = attempts, !.available = FALSE]

CommitBatch(w) ==
    /\ batch[w] # {}
    /\ \E sent \in SUBSET batch[w] :
         mail' = [k \in Mails |-> IF k \in batch[w] THEN AfterSend(mail[k], k \in sent)
                                  ELSE mail[k]]
    /\ batch' = [batch EXCEPT ![w] = {}]
    /\ UNCHANGED <<preference, run, chosen>>

DispatcherLost(w) ==
    /\ batch[w] # {}
    /\ batch' = [batch EXCEPT ![w] = {}]
    /\ UNCHANGED <<preference, run, chosen, mail>>

Next ==
    \/ \E new \in Preference : UpdatePreference(new)
    \/ \E t \in Tests : SendTest(t)
    \/ \E r \in Runs : EndRun(r) \/ CommitEnd(r) \/ AbandonEnd(r) \/ ReapRun(r)
    \/ \E k \in Mails : BackoffEnds(k)
    \/ \E w \in Dispatchers : TakeBatch(w) \/ CommitBatch(w) \/ DispatcherLost(w)

Spec == Init /\ [][Next]_vars

-----------------------------------------------------------------------------
(* Properties *)

Queue == INSTANCE DeliveryQueue WITH
    Ids <- Mails,
    row <- [k \in Mails |-> IF mail[k] = None THEN None
                            ELSE [status |-> mail[k].status, attempts |-> mail[k].attempts]]

\* A change of preference that cancels (update_run_email_preference) and a
\* dispatcher that commits its batch never undo each other: a cancelled e-mail
\* stays cancelled, a sent one stays sent.
KeepsQueue == Queue!Spec

\* No queued notice of a run goes to an address the user has given up ("avoid
\* sending on to the old address").
NoMailToOldAddress ==
    \A r \in Runs, a \in Addresses :
        Is(<<r, a>>, "PENDING") => preference.enabled /\ a \in preference.selected
=============================================================================
