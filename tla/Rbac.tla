-------------------------------- MODULE Rbac --------------------------------
(***************************************************************************)
(* The access policy: the role hierarchy, the rules every role carries,    *)
(* their translation into CASL abilities, and the roles each REST and      *)
(* GraphQL route asks for before a service is reached.                     *)
(*                                                                         *)
(* Sources: src/rbac, src/security/access-grant.ts, the @Security and      *)
(* authGuard decorations of the controllers and resolvers.                 *)
(*                                                                         *)
(* Roles, actions and scopes are the strings of the code.  No rule of      *)
(* ROLE_DEFINITIONS has the effect "deny", so the order of the rules (the  *)
(* last matching CASL rule decides) does not matter and a role's rules are *)
(* a set.                                                                  *)
(***************************************************************************)
EXTENDS Naturals

Role == {"ADMIN", "MANAGER", "USER"}

\* The roles the UpdateRole enum (and so the update-role codec) accepts.
UpdateRole == {"MANAGER", "USER"}

Kind == {"USER", "ANONYMOUS", "SYSTEM"}

None == "none"

SelfService == {"user.update-profile", "user.update-username",
                "user.update-email", "user.update-password",
                "user.update-picture", "user.delete-picture"}

UserPermission == SelfService \cup
    {"user.create", "user.read", "user.delete",
     "user.update-role", "user.update-status"}

CronPermission == {"cron-job.read", "cron-job.configure"}

Permission == UserPermission \cup CronPermission

-----------------------------------------------------------------------------
(* Role definitions                                                        *)

Scoped(permissions, access) ==
    {[permission |-> p, access |-> access] : p \in permissions}

Includes == [ADMIN   |-> {"MANAGER", "USER"},
             MANAGER |-> {"USER"},
             USER    |-> {}]

Rules == [ADMIN   |-> Scoped(CronPermission, None)
                      \cup Scoped({"user.delete", "user.update-role"}, "managed")
                      \cup Scoped(SelfService, "included"),
          MANAGER |-> Scoped({"user.create", "user.update-status"}, "managed"),
          USER    |-> Scoped({"user.read"}, None) \cup Scoped(SelfService, "own")]

includedRoles[role \in Role] ==
    {role} \cup UNION {includedRoles[included] : included \in Includes[role]}

rulesForRole(role) == UNION {Rules[included] : included \in includedRoles[role]}

-----------------------------------------------------------------------------
(* Abilities                                                               *)

\* An actor is [kind, id, role]; the role of a non-USER actor is None.
RulesOf(actor) ==
    IF actor.kind = "USER" THEN rulesForRole(actor.role) ELSE {}

\* Mutant: the caller's own role is not filtered out.
managedRolesWithOwn(role) == includedRoles[role]

managedRoles(role) == includedRoles[role] \ {role}

ScopeRoles(access, role) ==
    IF access = "managed" THEN managedRoles(role) ELSE includedRoles[role]

\* A subject is [id, role, assignedRole], with None for an absent field.
userSubject(id, role, assignedRole) ==
    [id |-> id, role |-> role, assignedRole |-> assignedRole]

\* The bare subject type: CASL does not look at the conditions of the rules.
SubjectType == userSubject(None, None, None)

Matches(actor, rule, subject) ==
    \/ rule.access = None
    \/ subject = SubjectType
    \/ rule.access = "own" /\ subject.id = actor.id
    \/ /\ rule.access \in {"managed", "included"}
       /\ subject.role \in ScopeRoles(rule.access, actor.role)
       /\ rule.permission = "user.update-role" =>
            subject.assignedRole \in ScopeRoles(rule.access, actor.role)

can(actor, permission, subject) ==
    \/ actor.kind = "SYSTEM"
    \/ \E rule \in RulesOf(actor) :
          rule.permission = permission /\ Matches(actor, rule, subject)

-----------------------------------------------------------------------------
(* Route guards                                                            *)

\* The role every route of CronJobController names in @Security.
CronRestRole == "ADMIN"

\* The role every operation of CronJobResolver names in authGuard.
CronGraphqlRole == "ADMIN"

\* Mutant: the REST route of delete-picture asks for ADMIN.
RestRoleAdminPicture(permission) ==
    CASE permission \in CronPermission -> CronRestRole
      [] permission \in {"user.create", "user.update-status"} -> "MANAGER"
      [] permission \in {"user.update-role", "user.delete", "user.delete-picture"} -> "ADMIN"
      [] OTHER -> "USER"

\* The role a REST route names in @Security.
RestRole(permission) ==
    CASE permission \in CronPermission -> CronRestRole
      [] permission \in {"user.create", "user.update-status"} -> "MANAGER"
      [] permission \in {"user.update-role", "user.delete"} -> "ADMIN"
      [] OTHER -> "USER"

\* The role a GraphQL resolver names in authGuard.
GraphqlRole(permission) ==
    CASE permission \in CronPermission -> CronGraphqlRole
      [] permission \in {"user.create", "user.update-status"} -> "MANAGER"
      [] permission \in {"user.update-role", "user.delete", "user.delete-picture"} -> "ADMIN"
      [] OTHER -> "USER"

RouteRole(transport, permission) ==
    IF transport = "REST" THEN RestRole(permission) ELSE GraphqlRole(permission)

\* AccessGrant.issue: an enabled account whose role includes the route's role.
Issue(identity, routeRole) ==
    /\ identity.enable
    /\ routeRole \in includedRoles[identity.role]
=============================================================================
