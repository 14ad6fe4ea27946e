------------------------------- MODULE Access -------------------------------
(***************************************************************************)
(* Who may ask the control plane for what: the permission that each route  *)
(* asks for and the kind of state it then writes, and the authorisation of *)
(* one request while others change the roles of the project's members.     *)
(*                                                                         *)
(* A route is the pair of what it needs and what it writes; routes of one  *)
(* resource that agree in both are one pair.  Needs are the permissions of *)
(* authorize_project, "admin" (require_system_admin), "session" (any       *)
(* user), "open" (the route carries its own secret), "runner" and          *)
(* "verifier" (the services' own credentials).                             *)
(***************************************************************************)
EXTENDS Naturals

CONSTANTS
    Members,         \* users who may belong to the project
    Administrators,  \* system administrators
    None

Roles == {"VIEWER", "TESTER", "REVIEWER", "PROJECT_ADMIN"}
Users == Members \cup Administrators
Services == {"runner", "verifier"}

Reads == {"project:read", "baseline:read", "run:read"}

\* PROJECT_PERMISSIONS; "*" stands for all of them.
Permissions ==
    [VIEWER |-> Reads,
     TESTER |-> Reads \cup {"run:create", "run:cancel", "change:read",
                            "change:create", "change:edit", "change:submit"},
     REVIEWER |-> Reads \cup {"change:read", "change:review"},
     PROJECT_ADMIN |-> {"*"}]

-----------------------------------------------------------------------------
(* The routes *)

Read(needs) == [needs |-> needs, writes |-> None]
Write(needs, writes) == [needs |-> needs, writes |-> writes]

PoolRoutes == {Read("session"), Read("admin"), Write("admin", "platform"),
               Write("runner", "progress")}
ProjectRoutes == {Write("admin", "platform"), Read("session"),
                  Read("project:read"), Write("project:manage", "settings")}
QualityRoutes == {Read("project:read"), Read("run:read"), Write("project:manage", "settings")}
AlertRoutes == {Read("project:read"), Write("project:manage", "settings")}
ScheduleRoutes == {Read("project:read"), Write("project:manage", "settings")}
TargetRoutes == {Read("project:read"), Write("project:manage", "settings")}
\* Publishing past the review is left to system administrators.
BaselineRoutes == {Write("admin", "baseline"), Read("baseline:read")}
PackageRoutes == {Write("admin", "settings"), Write("project:manage", "settings"),
                  Read("project:read")}
PackageStateRoutes == {Write("verifier", "evidence"), Write("project:manage", "settings")}
RunRoutes == {Write("run:create", "run"), Read("run:read")}
RunListRoutes == {Read("run:read"), Write("run:cancel", "run"), Write("run:create", "run")}
InternalRoutes == {Read("runner"), Write("runner", "progress")}
ChangeRoutes == {Write("change:create", "change"), Read("change:read"),
                 Write("change:edit", "change"), Write("change:submit", "change")}
\* Variant: publishing asks for what a submission asks for.
ReviewRoutesBySubmitters == {Write("change:review", "decision"), Write("run:create", "run"),
                             Write("change:submit", "baseline")}
ReviewRoutes == {Write("change:review", "decision"), Write("run:create", "run"),
                 Write("baseline:publish", "baseline")}
ReleaseRoutes == {Write("project:manage", "settings"), Read("project:manage")}
ModelRoutes == {Read("admin"), Read("session"), Write("admin", "platform")}
AssistantRoutes == {Read("run:read"), Write("run:read", "own")}
SessionRoutes == {Write("open", "own"), Write("session", "own"), Read("session")}
UserRoutes == {Write("admin", "platform"), Read("admin")}
MemberRoutes == {Write("member:manage", "members"), Read("member:manage"), Read("project:read")}

Routes ==
    UNION {PoolRoutes, ProjectRoutes, QualityRoutes, AlertRoutes, ScheduleRoutes,
           TargetRoutes, BaselineRoutes, PackageRoutes, PackageStateRoutes, RunRoutes,
           RunListRoutes, InternalRoutes, ChangeRoutes, ReviewRoutes, ReleaseRoutes,
           ModelRoutes, AssistantRoutes, SessionRoutes, UserRoutes, MemberRoutes}

-----------------------------------------------------------------------------
VARIABLES
    role,     \* project_members
    request   \* the request that is followed, authorised and not yet answered

vars == <<role, request>>

Capacities == Roles \cup Services \cup {"SYSTEM_ADMIN", "USER"}
Request == [by : Users \cup Services, as : Capacities, writes : {None, "settings", "platform",
            "baseline", "evidence", "run", "progress", "change", "decision", "own", "members"}]

TypeOK ==
    /\ role \in [Users -> Roles \cup {None}]
    /\ request \in Request \cup {None}

\* create_project makes its creator, a system administrator, a PROJECT_ADMIN.
Init ==
    /\ \E u \in Administrators :
         role = [v \in Users |-> IF v = u THEN "PROJECT_ADMIN" ELSE None]
    /\ request = None

\* require_runner_token and current_supply_chain_verifier.
ServiceMay(service, needs) == needs = service

\* What a caller acts as when he is granted what the route needs, or None:
\* current_principal, require_system_admin and authorize_project.
Capacity(caller, needs) ==
    CASE caller \in Services -> IF ServiceMay(caller, needs) THEN caller ELSE None
      [] caller \in Users /\ needs \in {"session", "open"} -> "USER"
      [] caller \in Administrators /\ needs \notin Services \cup {"session", "open"} ->
            "SYSTEM_ADMIN"
      [] caller \in Users \ Administrators /\ role[caller] # None
            /\ needs \notin Services \cup {"session", "open", "admin"}
            /\ Permissions[role[caller]] \cap {needs, "*"} # {} -> role[caller]
      [] OTHER -> None

\* A route's dependencies and its authorisation.
Authorize(caller, route) ==
    /\ request = None
    /\ Capacity(caller, route.needs) # None
    /\ request' = [by |-> caller, as |-> Capacity(caller, route.needs),
                   writes |-> route.writes]
    /\ UNCHANGED role

\* upsert_project_member by this request; nobody demotes the only
\* PROJECT_ADMIN he counts.
OtherAdmins(u) == {v \in Users \ {u} : role[v] = "PROJECT_ADMIN"}
MaySet(u, new) == role[u] = "PROJECT_ADMIN" /\ new # "PROJECT_ADMIN" => OtherAdmins(u) # {}

SetMember(u, new) ==
    /\ request # None /\ request.writes = "members"
    /\ MaySet(u, new)
    /\ role' = [role EXCEPT ![u] = new]
    /\ request' = None

\* remove_project_member by this request.
RemoveMember(u) ==
    /\ request # None /\ request.writes = "members"
    /\ role[u] # None /\ MaySet(u, None)
    /\ role' = [role EXCEPT ![u] = None]
    /\ request' = None

\* The rest of the handler, modelled with its component, or a refusal.
Answer ==
    /\ request # None /\ request' = None
    /\ UNCHANGED role

\* Requests of others set the roles of members meanwhile.
OthersEdit(u, new) ==
    /\ request # None /\ MaySet(u, new)
    /\ role' = [role EXCEPT ![u] = new]
    /\ UNCHANGED request

Next ==
    \/ \E caller \in Users \cup Services, route \in Routes : Authorize(caller, route)
    \/ \E u \in Users, new \in Roles : SetMember(u, new)
    \/ \E u \in Users : RemoveMember(u)
    \/ Answer
    \/ \E u \in Users, new \in Roles \cup {None} : OthersEdit(u, new)

Spec == Init /\ [][Next]_vars

-----------------------------------------------------------------------------
(* Properties *)

\* The table of core permissions of the identity milestone: what each role may
\* change, besides what is its own.
Duties ==
    [SYSTEM_ADMIN |-> {"platform", "settings", "members", "baseline", "change",
                       "decision", "run", "own"},
     PROJECT_ADMIN |-> {"settings", "members", "baseline", "change", "decision", "run", "own"},
     TESTER |-> {"change", "run", "own"},
     REVIEWER |-> {"decision", "own"},
     VIEWER |-> {"own"},
     USER |-> {"own"},
     runner |-> {"progress"},
     verifier |-> {"evidence"}]

\* No route lets anyone write what the duties of the role he was authorised
\* with do not cover, although each route names its own permission.
DutiesAreKept ==
    request # None /\ request.writes # None => request.writes \in Duties[request.as]
=============================================================================
