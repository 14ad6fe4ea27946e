------------------------------- MODULE Identity -------------------------------
(***************************************************************************)
(* The platform's users, their sessions and the calls that administer      *)
(* them.                                                                   *)
(*                                                                         *)
(* Every call is one transaction that locks nothing: it reads who calls,   *)
(* then the rows it looks at, and writes with its commit what it decided   *)
(* from them, other calls committing in between.  Only the columns that    *)
(* differ from what was read are written.                                  *)
(***************************************************************************)
EXTENDS Naturals, FiniteSets

CONSTANTS
    Users,    \* usernames
    Callers,  \* calls in progress
    Editors,  \* bound: how many of them are update_user
    None

VARIABLES
    marker,  \* the user who completed identity.bootstrapped
    user,    \* users, with the actor of the audit log's creation entry
    live,    \* users with an auth_session neither revoked nor expired
    request  \* for each caller its call

vars == <<marker, user, live, request>>

Account == [admin : BOOLEAN, active : BOOLEAN]
User == [admin : BOOLEAN, active : BOOLEAN, creator : Users]
Operations == {"logout", "create", "update", "reset", "revoke"}
Request ==
    [op : {"bootstrap", "login"}, target : Users]
    \cup [op : Operations, by : Users, target : Users]
    \cup [op : {"write"}, target : Users, before : Account, after : Account]

TypeOK ==
    /\ marker \in Users \cup {None}
    /\ user \in [Users -> User \cup {None}]
    /\ live \subseteq Users
    /\ request \in [Callers -> Request \cup {None}]

Init ==
    /\ marker = None /\ live = {}
    /\ user = [u \in Users |-> None]
    /\ request = [c \in Callers |-> None]

Active(u) == user[u] # None /\ user[u].active
Administrators == {u \in Users : Active(u) /\ user[u].admin}
Is(c, op) == request[c] # None /\ request[c].op = op
Return(c) == request' = [request EXCEPT ![c] = None]

\* A session's time is up (expires_at), or its user has no other.
Expire(u) ==
    /\ u \in live
    /\ live' = live \ {u}
    /\ UNCHANGED <<marker, user, request>>

\* Any call may be refused, or its connection lost, before its commit.
Abandon(c) ==
    /\ request[c] # None /\ Return(c)
    /\ UNCHANGED <<marker, user, live>>

-----------------------------------------------------------------------------
(* Without a session *)

\* bootstrap_admin up to the count of users.
BeginBootstrap(c, u) ==
    /\ request[c] = None /\ \A v \in Users : user[v] = None
    /\ request' = [request EXCEPT ![c] = [op |-> "bootstrap", target |-> u]]
    /\ UNCHANGED <<marker, user, live>>

\* Variant: the marker's key is not unique.
CommitBootstrapAgain(c) ==
    LET u == request[c].target
    IN  /\ Is(c, "bootstrap") /\ user[u] = None
        /\ marker' = u
        /\ user' = [user EXCEPT ![u] = [admin |-> TRUE, active |-> TRUE, creator |-> u]]
        /\ Return(c)
        /\ UNCHANGED live

\* bootstrap_admin's commit: the marker and the username are unique keys.
CommitBootstrap(c) ==
    LET u == request[c].target
    IN  /\ Is(c, "bootstrap") /\ marker = None /\ user[u] = None
        /\ marker' = u
        /\ user' = [user EXCEPT ![u] = [admin |-> TRUE, active |-> TRUE, creator |-> u]]
        /\ Return(c)
        /\ UNCHANGED live

\* authenticate up to the password's verification.
BeginLogin(c, u) ==
    /\ request[c] = None /\ Active(u)
    /\ request' = [request EXCEPT ![c] = [op |-> "login", target |-> u]]
    /\ UNCHANGED <<marker, user, live>>

\* authenticate's commit: the session is inserted whatever became of the user.
CommitLogin(c) ==
    /\ Is(c, "login")
    /\ live' = live \cup {request[c].target}
    /\ Return(c)
    /\ UNCHANGED <<marker, user>>

-----------------------------------------------------------------------------
(* With a session *)

\* current_principal.
Authenticated(u) == u \in live /\ Active(u)

\* require_system_admin, asked of the principal that was read.
MayCall(u, op) == op = "logout" \/ user[u].admin

Updates == {c \in Callers : Is(c, "update") \/ Is(c, "write")}

Begin(c, u, op, target) ==
    /\ request[c] = None /\ Authenticated(u) /\ MayCall(u, op)
    /\ op = "update" => Cardinality(Updates) < Editors
    /\ op = "create" => user[target] = None
    /\ op = "logout" => target = u
    /\ request' = [request EXCEPT ![c] = [op |-> op, by |-> u, target |-> target]]
    /\ UNCHANGED <<marker, user, live>>

\* logout and revoke_managed_session: one of the sessions the user may have.
CommitRevocation(c) ==
    /\ Is(c, "logout") \/ Is(c, "revoke")
    /\ live' \in {live, live \ {request[c].target}}
    /\ Return(c)
    /\ UNCHANGED <<marker, user>>

\* create_user.
CommitCreate(c) ==
    /\ Is(c, "create") /\ user[request[c].target] = None
    /\ \E admin \in BOOLEAN :
         user' = [user EXCEPT ![request[c].target] =
                    [admin |-> admin, active |-> TRUE, creator |-> request[c].by]]
    /\ Return(c)
    /\ UNCHANGED <<marker, live>>

\* reset_user_password with _revoke_user_sessions.
CommitReset(c) ==
    /\ Is(c, "reset") /\ user[request[c].target] # None
    /\ live' = live \ {request[c].target}
    /\ Return(c)
    /\ UNCHANGED <<marker, user>>

\* Variant: an administrator may demote or disable itself, and the last one.
AllowsAnything(by, target, after) == TRUE

\* update_user's refusal to edit oneself, and _ensure_admin_remains.
AllowsUpdate(by, target, after) ==
    LET remains == after.admin /\ after.active
    IN  /\ target = by => remains
        /\ target \in Administrators /\ ~remains => Cardinality(Administrators) > 1

\* update_user up to its assignments.
CheckUpdate(c, after) ==
    LET target == request[c].target
    IN  /\ Is(c, "update") /\ user[target] # None
        /\ AllowsUpdate(request[c].by, target, after)
        /\ request' = [request EXCEPT ![c] =
                         [op |-> "write", target |-> target, after |-> after,
                          before |-> [admin |-> user[target].admin,
                                      active |-> user[target].active]]]
        /\ UNCHANGED <<marker, user, live>>

\* update_user's flush and commit; a disabled user's sessions are revoked.
CommitUpdate(c) ==
    LET target == request[c].target
        before == request[c].before
        after == request[c].after
    IN  /\ Is(c, "write")
        /\ user' = [user EXCEPT
             ![target].admin = IF before.admin # after.admin THEN after.admin ELSE @,
             ![target].active = IF before.active # after.active THEN after.active ELSE @]
        /\ live' = IF after.active THEN live ELSE live \ {target}
        /\ Return(c)
        /\ UNCHANGED marker

-----------------------------------------------------------------------------
Next ==
    \/ \E u \in Users : Expire(u)
    \/ \E c \in Callers, u \in Users : BeginBootstrap(c, u) \/ BeginLogin(c, u)
    \/ \E c \in Callers, u, target \in Users, op \in Operations : Begin(c, u, op, target)
    \/ \E c \in Callers :
         \/ CommitBootstrap(c) \/ CommitLogin(c) \/ CommitRevocation(c)
         \/ CommitCreate(c) \/ CommitReset(c)
         \/ \E after \in Account : CheckUpdate(c, after)
         \/ CommitUpdate(c) \/ Abandon(c)

Spec == Init /\ [][Next]_vars

-----------------------------------------------------------------------------
(* Properties *)

\* One bootstrap ever succeeds, although several may have counted no users:
\* the only user that nobody else created is the one the marker names.
BootstrapOnce ==
    \A u \in Users : user[u] # None /\ user[u].creator = u => marker = u

\* Once bootstrapped, the system has an active administrator ("system must
\* keep at least one active system administrator").
AdministratorRemains == marker # None => Administrators # {}
=============================================================================
