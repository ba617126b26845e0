------------------------------ MODULE Permissions ------------------------------
(***************************************************************************)
(* Roles and permissions (permissions/permissions.service.ts, the guards   *)
(* of common/guards). An override is checked against the role that was     *)
(* read; the role may change before it is stored.                          *)
(***************************************************************************)
EXTENDS Accounts

CONSTANTS
    DefaultOn,      \* of each role, what it has unless that is taken away
    CompanyKeys,    \* permissions within a company; the others are the platform's
    UsersPermissions,   \* company.users.permissions
    PlatformCompanies   \* the company that owns the platform, if it is one of these

ASSUME PermissionsAssumption ==
    /\ DefaultOn \in [Roles -> SUBSET Keys] /\ CompanyKeys \subseteq Keys
    /\ UsersPermissions \in CompanyKeys
    /\ PlatformCompanies \subseteq DOMAIN Founded

MANAGER_ROLES == {"SUPER_ADMIN", "COMPANY_ADMIN"}

\* The override of a permission, or the role's default.
Holds(r, k) == IF k \in DOMAIN r.keys THEN r.keys[k] ELSE k \in DefaultOn[r.role]

\* A super administrator of the platform's own company has all permissions.
Fixed(r) ==
    IF r.role = "COMPANY_ADMIN" THEN CompanyKeys
    ELSE (Keys \ CompanyKeys)
         \union (IF r.company \in PlatformCompanies THEN CompanyKeys ELSE {})

ResolvePermissions(u) ==
    LET r == users[u] IN
    IF r.role \in MANAGER_ROLES THEN Fixed(r)
    ELSE { k \in RoleKeys[r.role] : Holds(r, k) }

\* JwtAuthGuard, assertCompanyActiveForUser
CanActivate(u) == Exists(u) /\ users[u].active /\ companies[users[u].company].active

\* isPlatformSuperAdmin
IsPlatformSuperAdmin(u) ==
    users[u].role = "SUPER_ADMIN" /\ users[u].company \in PlatformCompanies

\* PermissionsGuard: what an endpoint requires.
HasPermission(u, k) ==
    \/ IsPlatformSuperAdmin(u) /\ k \notin CompanyKeys
    \/ k \in ResolvePermissions(u)

\* Who may manage whom (assertCanManageTargetUserPermissions).
Manages(g, u) ==
    /\ CanActivate(g) /\ HasPermission(g, UsersPermissions)
    /\ users[g].role \in MANAGER_ROLES
    /\ users[g].role = "COMPANY_ADMIN" => users[g].company = users[u].company

\* updateUserPermissions reads the granter, the target and what its role allows.
GrantLoad(q) ==
    /\ Starts(q)
    /\ \E g, u \in Ids, ks \in Overrides \ {NoKeys} :
         /\ Manages(g, u)
         /\ users[g].role = "COMPANY_ADMIN" =>
              \A k \in DOMAIN ks : ks[k] => k \in ResolvePermissions(g)
         /\ DOMAIN ks \subseteq RoleKeys[users[u].role]
         /\ To(q, [Idle EXCEPT !.pc = "grant", !.acct = u, !.keys = ks])
    /\ UNCHANGED <<accountState, notices>>

Grant(q) ==
    LET l == loc[q]
        old == users[l.acct].keys IN
    /\ At(q, "grant")
    /\ Patch([users EXCEPT ![l.acct].keys =
                [k \in DOMAIN old \union DOMAIN l.keys |->
                   IF k \in DOMAIN l.keys THEN l.keys[k] ELSE old[k]]])
    /\ Done(q)
    /\ UNCHANGED notices

RoleLoad(q) ==
    /\ Starts(q)
    /\ \E g, u \in Ids, r \in Roles :
         /\ Manages(g, u)
         /\ users[u].role # "SUPER_ADMIN"
         /\ users[g].role = "COMPANY_ADMIN" => r \notin {"SUPER_ADMIN", "SIMPLEX_STAFF"}
         /\ To(q, [Idle EXCEPT !.pc = "role", !.acct = u, !.role = r])
    /\ UNCHANGED <<accountState, notices>>

\* Bug: the overrides stay when the role changes.
BugChangeRole(q) ==
    /\ At(q, "role")
    /\ Patch([users EXCEPT ![loc[q].acct].role = loc[q].role])
    /\ Done(q)
    /\ UNCHANGED notices

\* updateUserRole: the overrides go with the old role.
ChangeRole(q) ==
    /\ At(q, "role")
    /\ Patch([users EXCEPT ![loc[q].acct].role = loc[q].role,
                           ![loc[q].acct].keys = NoKeys])
    /\ Done(q)
    /\ UNCHANGED notices

PermissionsStep(q) == GrantLoad(q) \/ Grant(q) \/ RoleLoad(q) \/ ChangeRole(q)
=============================================================================
