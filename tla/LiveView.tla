------------------------------- MODULE LiveView -------------------------------
(***************************************************************************)
(* Watching a headed run: executors publish the display of their workload  *)
(* under the run's key, the API hands out tickets for what is published    *)
(* and the gateway turns a ticket into a connection.                       *)
(*                                                                         *)
(* A redelivered task gives the run another executor while the earlier one *)
(* still cleans up, so a display is named by its session.  The key and the *)
(* tickets expire in Redis by themselves.                                  *)
(***************************************************************************)
EXTENDS Naturals, FiniteSets

CONSTANTS
    Executors,  \* executions of the run, each with one session_id
    Tickets,    \* live-view tickets
    Gateways,   \* connections the gateway is opening
    None

VARIABLES
    ended,         \* the run is in a terminal status
    display,       \* the workload of each executor, and whether it is published
    registration,  \* the session under live_view_session_key, or None
    found,         \* the session an API call has read and will make a ticket for
    ticket,        \* the session of each ticket in Redis, or None
    opening,       \* the session of the ticket each gateway consumed, or None
    watched        \* how often each ticket became a connection

vars == <<ended, display, registration, found, ticket, opening, watched>>

Displays == {"none", "shown", "published", "closing", "gone"}

\* A ticket opens one connection at most.
TypeOK ==
    /\ ended \in BOOLEAN
    /\ display \in [Executors -> Displays]
    /\ registration \in Executors \cup {None}
    /\ found \in Executors \cup {None}
    /\ ticket \in [Tickets -> Executors \cup {None, "used"}]
    /\ opening \in [Gateways -> (Executors \X Tickets) \cup {None}]
    /\ watched \in [Tickets -> 0..1]

Init ==
    /\ ended = FALSE
    /\ display = [e \in Executors |-> "none"]
    /\ registration = None /\ found = None
    /\ ticket = [t \in Tickets |-> None]
    /\ opening = [g \in Gateways |-> None]
    /\ watched = [t \in Tickets |-> 0]

RunEnds ==
    /\ ~ended /\ ended' = TRUE
    /\ UNCHANGED <<display, registration, found, ticket, opening, watched>>

-----------------------------------------------------------------------------
(* The executors *)

\* execute up to the readiness of the display that run_live_view_executor
\* serves.  _reclaim_stale_resources has removed an earlier workload of the run.
Show(e) ==
    /\ display[e] = "none"
    /\ display' = [x \in Executors |->
                     IF x = e THEN "shown"
                     ELSE IF display[x] = "published" THEN "closing" ELSE display[x]]
    /\ UNCHANGED <<ended, registration, found, ticket, opening, watched>>

\* LiveViewPublisher.publish: whatever the key named is overwritten.
Publish(e) ==
    /\ display[e] = "shown"
    /\ display' = [display EXCEPT ![e] = "published"]
    /\ registration' = e
    /\ UNCHANGED <<ended, found, ticket, opening, watched>>

\* The workload ends, with its display; its executor is still to clean up.
Close(e) ==
    /\ display[e] \in {"shown", "published"}
    /\ display' = [display EXCEPT ![e] = IF @ = "published" THEN "closing" ELSE "gone"]
    /\ UNCHANGED <<ended, registration, found, ticket, opening, watched>>

\* Variant: the key is deleted whoever published last.
UnpublishAny(e) ==
    /\ display[e] = "closing"
    /\ display' = [display EXCEPT ![e] = "gone"]
    /\ registration' = None
    /\ UNCHANGED <<ended, found, ticket, opening, watched>>

\* LiveViewPublisher.unpublish compares before it deletes.
Unpublish(e) ==
    /\ display[e] = "closing"
    /\ display' = [display EXCEPT ![e] = "gone"]
    /\ registration' = IF registration = e THEN None ELSE registration
    /\ UNCHANGED <<ended, found, ticket, opening, watched>>

\* The executor is lost, or cannot reach Redis.
LeavePublished(e) ==
    /\ display[e] = "closing"
    /\ display' = [display EXCEPT ![e] = "gone"]
    /\ UNCHANGED <<ended, registration, found, ticket, opening, watched>>

\* The key outlives the longest execution, so it expires after its workload.
Expire ==
    /\ registration # None /\ display[registration] = "gone"
    /\ registration' = None
    /\ UNCHANGED <<ended, display, found, ticket, opening, watched>>

-----------------------------------------------------------------------------
(* The API *)

\* issue_live_view_ticket up to the registration.
Find ==
    /\ ~ended /\ found = None /\ registration # None
    /\ found' = registration
    /\ UNCHANGED <<ended, display, registration, ticket, opening, watched>>

\* RedisLiveViewStore.issue_ticket.
Issue(t) ==
    /\ found # None /\ ticket[t] = None
    /\ ticket' = [ticket EXCEPT ![t] = found]
    /\ found' = None
    /\ UNCHANGED <<ended, display, registration, opening, watched>>

\* The call fails, or its ticket expires unseen.
GiveUp ==
    /\ found # None /\ found' = None
    /\ UNCHANGED <<ended, display, registration, ticket, opening, watched>>

-----------------------------------------------------------------------------
(* The gateway *)

Is(t) == ticket[t] \in Executors

TicketExpires(t) ==
    /\ Is(t)
    /\ ticket' = [ticket EXCEPT ![t] = "used"]
    /\ UNCHANGED <<ended, display, registration, found, opening, watched>>

\* Variant: the ticket is read and left to expire.
ConsumeAgain(g, t) ==
    /\ opening[g] = None /\ Is(t)
    /\ opening' = [opening EXCEPT ![g] = <<ticket[t], t>>]
    /\ UNCHANGED <<ended, display, registration, found, ticket, watched>>

\* LiveViewTicketConsumer.consume up to the GETDEL of the ticket.
Consume(g, t) ==
    /\ opening[g] = None /\ Is(t)
    /\ opening' = [opening EXCEPT ![g] = <<ticket[t], t>>]
    /\ ticket' = [ticket EXCEPT ![t] = "used"]
    /\ UNCHANGED <<ended, display, registration, found, watched>>

\* The rest of consume and _proxy_vnc: only the session that is published now.
Connect(g) ==
    /\ opening[g] # None
    /\ registration = opening[g][1] /\ display[registration] = "published"
    /\ watched' = [watched EXCEPT ![opening[g][2]] = @ + 1]
    /\ opening' = [opening EXCEPT ![g] = None]
    /\ UNCHANGED <<ended, display, registration, found, ticket>>

\* The ticket's session is over: the socket is closed with 4403, or breaks.
Reject(g) ==
    /\ opening[g] # None
    /\ opening' = [opening EXCEPT ![g] = None]
    /\ UNCHANGED <<ended, display, registration, found, ticket, watched>>

Next ==
    \/ RunEnds
    \/ \E e \in Executors : Show(e) \/ Publish(e) \/ Close(e) \/ Unpublish(e) \/ LeavePublished(e)
    \/ Expire \/ Find \/ GiveUp
    \/ \E t \in Tickets : Issue(t) \/ TicketExpires(t)
    \/ \E g \in Gateways, t \in Tickets : Consume(g, t)
    \/ \E g \in Gateways : Connect(g) \/ Reject(g)

Spec == Init /\ [][Next]_vars

-----------------------------------------------------------------------------
(* Properties *)

\* A late cleanup never takes away what another executor published: the key is
\* overwritten or expires, but is not deleted while the display it names is shown.
ShownRunStaysPublished ==
    [][\A e \in Executors : registration = e /\ display[e] = "published" => registration' # None]_vars
=============================================================================
