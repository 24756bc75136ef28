---------------------------- MODULE RbacTheorems ----------------------------
(***************************************************************************)
(* What the role definitions expand to, and which calls they allow: the    *)
(* facts the theorems about accounts rest on.                              *)
(***************************************************************************)
EXTENDS Rbac, TLAPS

\* The recursive expansion of the hierarchy, role by role.
LEMMA HierarchyExpanded ==
    /\ includedRoles["ADMIN"] = {"ADMIN", "MANAGER", "USER"}
    /\ includedRoles["MANAGER"] = {"MANAGER", "USER"}
    /\ includedRoles["USER"] = {"USER"}
<1> DEFINE Expansion == [role \in Role |->
                IF role = "ADMIN" THEN {"ADMIN", "MANAGER", "USER"}
                ELSE IF role = "MANAGER" THEN {"MANAGER", "USER"} ELSE {"USER"}]
           Step(f, role) ==
                {role} \cup UNION {f[included] : included \in Includes[role]}
<1>1. \A role \in Role : Expansion[role] = Step(Expansion, role)
  <2>1. /\ Expansion["ADMIN"] = {"ADMIN", "MANAGER", "USER"}
        /\ Expansion["MANAGER"] = {"MANAGER", "USER"}
        /\ Expansion["USER"] = {"USER"}
    BY DEF Role
  <2>2. /\ Includes["ADMIN"] = {"MANAGER", "USER"}
        /\ Includes["MANAGER"] = {"USER"}
        /\ Includes["USER"] = {}
    BY DEF Includes
  <2> HIDE DEF Expansion
  <2>3. QED BY <2>1, <2>2 DEF Role
<1>2. \E f : f = [role \in Role |-> Step(f, role)]
  <2>1. Expansion = [role \in Role |-> Expansion[role]]
    OBVIOUS
  <2> HIDE DEF Expansion, Step
  <2>2. [role \in Role |-> Expansion[role]] = [role \in Role |-> Step(Expansion, role)]
    BY <1>1
  <2>3. QED BY <2>1, <2>2
<1>3. includedRoles = [role \in Role |-> Step(includedRoles, role)]
  BY <1>2, Zenon DEF includedRoles
<1>4. \A role \in Role : includedRoles[role] =
         {role} \cup UNION {includedRoles[included] : included \in Includes[role]}
  BY <1>3
<1>5. includedRoles["USER"] = {"USER"}
  BY <1>4 DEF Role, Includes
<1>6. includedRoles["MANAGER"] = {"MANAGER", "USER"}
  BY <1>4, <1>5 DEF Role, Includes
<1>7. includedRoles["ADMIN"] = {"ADMIN", "MANAGER", "USER"}
  BY <1>4, <1>5, <1>6 DEF Role, Includes
<1>8. QED BY <1>5, <1>6, <1>7

\* A role carries its own rules and those of the roles it includes.
LEMMA RulesExpanded ==
    /\ rulesForRole("ADMIN") = Rules["ADMIN"] \cup Rules["MANAGER"] \cup Rules["USER"]
    /\ rulesForRole("MANAGER") = Rules["MANAGER"] \cup Rules["USER"]
    /\ rulesForRole("USER") = Rules["USER"]
BY HierarchyExpanded DEF rulesForRole

\* The scope of every rule, by its permission and the role that declares it.
LEMMA ScopesOfRules ==
    /\ \A rule \in Rules["ADMIN"] :
         /\ rule.permission \in {"user.delete", "user.update-role"} => rule.access = "managed"
         /\ rule.permission \in SelfService => rule.access = "included"
         /\ rule.permission \notin {"user.create", "user.update-status"}
    /\ \A rule \in Rules["MANAGER"] :
         /\ rule.permission \in {"user.create", "user.update-status"}
         /\ rule.access = "managed"
    /\ \A rule \in Rules["USER"] :
         /\ rule.permission \in SelfService \cup {"user.read"}
         /\ rule.permission \in SelfService => rule.access = "own"
BY DEF Rules, Scoped, SelfService, CronPermission, None

\* Management permissions reach strictly lower roles only, on both ends of a
\* role change, and only ADMIN has the permissions to delete and to promote.
LEMMA ManagementIsDownward ==
    ASSUME NEW actor, actor.kind # "SYSTEM", actor.kind = "USER" => actor.role \in Role,
           NEW permission \in {"user.create", "user.update-status",
                               "user.update-role", "user.delete"},
           NEW subject, subject # SubjectType,
           can(actor, permission, subject)
    PROVE  /\ subject.role \in UpdateRole
           /\ actor.kind = "USER"
           /\ actor.role \in {"ADMIN", "MANAGER"}
           /\ permission \in {"user.update-role", "user.delete"} => actor.role = "ADMIN"
           /\ actor.role = "MANAGER" => subject.role = "USER"
           /\ permission = "user.update-role" => subject.assignedRole \in UpdateRole
<1>1. PICK rule \in RulesOf(actor) :
         rule.permission = permission /\ Matches(actor, rule, subject)
  BY DEF can
<1>2. actor.kind = "USER" /\ actor.role \in Role /\ rule \in rulesForRole(actor.role)
  BY <1>1 DEF RulesOf
<1>3. rule \in Rules["ADMIN"] \cup Rules["MANAGER"] \cup Rules["USER"]
  BY <1>2, RulesExpanded DEF Role
<1>4. rule.access = "managed" /\ rule \notin Rules["USER"]
  BY <1>1, <1>3, ScopesOfRules DEF SelfService
<1>5. subject.role \in managedRoles(actor.role)
  BY <1>1, <1>4 DEF Matches, ScopeRoles, None
<1>6. permission = "user.update-role" => subject.assignedRole \in managedRoles(actor.role)
  BY <1>1, <1>4 DEF Matches, ScopeRoles, None
<1>7. actor.role \in {"ADMIN", "MANAGER"}
  BY <1>2, <1>4, RulesExpanded DEF Role
<1>8. rule \in Rules["MANAGER"] => permission \in {"user.create", "user.update-status"}
  BY <1>1, ScopesOfRules
<1>9. permission \in {"user.update-role", "user.delete"} => actor.role = "ADMIN"
  BY <1>2, <1>4, <1>7, <1>8, RulesExpanded
<1>10. QED
  BY <1>2, <1>5, <1>6, <1>7, <1>9, HierarchyExpanded DEF managedRoles, UpdateRole

\* ADMIN has every management permission on every lower role.
LEMMA AdminManages ==
    ASSUME NEW actor, actor.kind = "USER", actor.role = "ADMIN",
           NEW permission \in {"user.create", "user.update-status",
                               "user.update-role", "user.delete"},
           NEW subject, subject.role \in UpdateRole,
           permission = "user.update-role" => subject.assignedRole \in UpdateRole
    PROVE  can(actor, permission, subject)
<1> DEFINE rule == [permission |-> permission, access |-> "managed"]
<1>1. rule \in Rules["ADMIN"] \cup Rules["MANAGER"]
  BY DEF Rules, Scoped
<1>2. rule \in RulesOf(actor)
  BY <1>1, RulesExpanded DEF RulesOf
<1>3. managedRoles("ADMIN") = UpdateRole
  BY HierarchyExpanded DEF managedRoles, UpdateRole
<1>4. Matches(actor, rule, subject)
  BY <1>3 DEF Matches, ScopeRoles
<1>5. QED BY <1>2, <1>4 DEF can

\* Self-service permissions reach the caller's own account, and every account
\* when the caller is ADMIN; nothing else.
LEMMA SelfServiceScope ==
    ASSUME NEW actor, actor.kind = "USER", actor.role \in Role,
           NEW permission \in SelfService,
           NEW subject, subject # SubjectType, subject.role \in Role
    PROVE  can(actor, permission, subject) <=>
               actor.role = "ADMIN" \/ subject.id = actor.id
<1>1. ASSUME can(actor, permission, subject), actor.role # "ADMIN"
      PROVE  subject.id = actor.id
  <2>1. PICK rule \in RulesOf(actor) :
           rule.permission = permission /\ Matches(actor, rule, subject)
    BY <1>1 DEF can
  <2>2. rule \in Rules["MANAGER"] \cup Rules["USER"]
    BY <1>1, <2>1, RulesExpanded DEF RulesOf, Role
  <2>3. rule.access = "own"
    BY <2>1, <2>2, ScopesOfRules DEF SelfService
  <2>4. QED BY <2>1, <2>3 DEF Matches, None
<1>2. ASSUME actor.role = "ADMIN"
      PROVE  can(actor, permission, subject)
  <2> DEFINE rule == [permission |-> permission, access |-> "included"]
  <2>1. rule \in RulesOf(actor)
    BY <1>2, RulesExpanded DEF RulesOf, Rules, Scoped
  <2>2. Matches(actor, rule, subject)
    BY <1>2, HierarchyExpanded DEF Matches, ScopeRoles, Role, SelfService
  <2>3. QED BY <2>1, <2>2 DEF can
<1>3. ASSUME subject.id = actor.id
      PROVE  can(actor, permission, subject)
  <2> DEFINE rule == [permission |-> permission, access |-> "own"]
  <2>1. rule \in Rules["USER"]
    BY DEF Rules, Scoped
  <2>2. rule \in RulesOf(actor)
    BY <2>1, RulesExpanded DEF RulesOf, Role
  <2>3. QED BY <1>3, <2>2 DEF can, Matches
<1>4. QED BY <1>1, <1>2, <1>3
=============================================================================
