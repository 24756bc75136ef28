---------------------------- MODULE RoleHierarchy ----------------------------
(***************************************************************************)
(* The validation of the role definitions when the program is loaded, for  *)
(* any list of definitions, and the expansion of a validated hierarchy.    *)
(* The recursion of validateCycles is an explicit stack of the roles being *)
(* visited, each with the included roles its loop has still to visit.      *)
(*                                                                         *)
(* Source: src/rbac/role-hierarchy.ts.                                     *)
(***************************************************************************)
EXTENDS Naturals, FiniteSets, SequencesExt

CONSTANTS Roles,          \* the members of the Role enum
          Foreign,        \* a value that is no member
          MaxDefinitions  \* bound on the length of the list

VARIABLES definitions,  \* ROLE_DEFINITIONS, a list of [role, includes]
          rules,        \* the kinds of rules they carry
          step,         \* the validation being run, or its outcome
          pending,      \* the keys validateCycles has still to visit
          visiting, visited,
          stack         \* the activations of visit(), the innermost last

vars == <<definitions, rules, step, pending, visiting, visited, stack>>

Definition == [role: Roles, includes: SUBSET (Roles \cup {Foreign})]

\* A rule is on the subject User or on another one, with an access scope or
\* without; an unknown subject is none of policy.ts.
Rule == [subject: {"User", "other", "unknown"}, scoped: BOOLEAN]

\* The kinds of rules role-definitions.ts has.
ActualRules == {[subject |-> "User", scoped |-> TRUE], [subject |-> "User", scoped |-> FALSE],
                [subject |-> "other", scoped |-> FALSE]}

Lists == UNION {[1..n -> Definition] : n \in 0..MaxDefinitions}

Defined == {definitions[i].role : i \in DOMAIN definitions}

\* definitionByRole: the last definition of a role counts.
Includes(role) ==
    IF role \in Defined
    THEN LET last == CHOOSE i \in DOMAIN definitions :
                        /\ definitions[i].role = role
                        /\ \A j \in DOMAIN definitions : definitions[j].role = role => j <= i
         IN  definitions[last].includes
    ELSE {}

Init ==
    /\ definitions \in Lists
    /\ \E rule \in Rule : rules = ActualRules \cup {rule}
    /\ step = "roles"
    /\ pending = {} /\ visiting = {} /\ visited = {} /\ stack = <<>>

-----------------------------------------------------------------------------

Continue(next) == step' = next /\ UNCHANGED <<definitions, rules, visiting, visited, stack>>

\* Every role of the enum is defined once.
validateUniqueRoles ==
    /\ step = "roles"
    /\ Continue(IF Cardinality(Defined) = Len(definitions) /\ Roles \subseteq Defined
                THEN "includes" ELSE "refused")
    /\ UNCHANGED pending

\* Only defined roles are included.
validateIncludes ==
    /\ step = "includes"
    /\ IF \A i \in DOMAIN definitions : definitions[i].includes \subseteq Defined
       THEN Continue("cycles") /\ pending' = Defined
       ELSE Continue("refused") /\ UNCHANGED pending

\* A call of visit(): a role being visited closes a cycle, a visited one returns.
visit(role, rest) ==
    \/ /\ role \in visiting
       /\ step' = "cycle" /\ stack' = rest /\ UNCHANGED visiting
    \/ /\ role \notin visiting /\ role \in visited
       /\ stack' = rest /\ UNCHANGED <<step, visiting>>
    \/ /\ role \notin visiting /\ role \notin visited
       /\ visiting' = visiting \cup {role}
       /\ stack' = Append(rest, [role |-> role, todo |-> Includes(role)])
       /\ UNCHANGED step

\* The loop of validateCycles calls visit on the next key.
VisitKey ==
    /\ step = "cycles" /\ stack = <<>>
    /\ \E role \in pending :
         /\ pending' = pending \ {role}
         /\ visit(role, <<>>)
    /\ UNCHANGED <<definitions, rules, visited>>

\* The loop of the innermost visit calls it on the next included role.
VisitIncluded ==
    /\ step = "cycles" /\ stack # <<>>
    /\ LET top == stack[Len(stack)] IN
       \E role \in top.todo :
         visit(role, Append(Front(stack), [top EXCEPT !.todo = @ \ {role}]))
    /\ UNCHANGED <<definitions, rules, pending, visited>>

\* Mutant: a role stays in visiting after its visit.
ReturnKeeping ==
    /\ step = "cycles" /\ stack # <<>>
    /\ stack[Len(stack)].todo = {}
    /\ stack' = Front(stack)
    /\ UNCHANGED <<definitions, rules, step, pending, visiting, visited>>

\* The innermost visit has been through all included roles.
Return ==
    /\ step = "cycles" /\ stack # <<>>
    /\ LET top == stack[Len(stack)] IN
       /\ top.todo = {}
       /\ visiting' = visiting \ {top.role}
       /\ visited' = visited \cup {top.role}
    /\ stack' = Front(stack)
    /\ UNCHANGED <<definitions, rules, step, pending>>

\* No key is left: there is no cycle.
NoCycle ==
    /\ step = "cycles" /\ stack = <<>> /\ pending = {}
    /\ Continue("rules")
    /\ UNCHANGED pending

validateRule(rule) ==
    /\ rule.subject # "unknown"
    /\ rule.subject = "User" \/ ~rule.scoped

Accept ==
    /\ step = "rules"
    /\ Continue(IF \A rule \in rules : validateRule(rule) THEN "accepted" ELSE "refused")
    /\ UNCHANGED pending

Next ==
    \/ validateUniqueRoles \/ validateIncludes
    \/ VisitKey \/ VisitIncluded \/ Return \/ NoCycle \/ Accept

Spec == Init /\ [][Next]_vars

\* Mutant: nested roles are not expanded.
includedRolesDirect == [role \in Roles |-> {role} \cup Includes(role)]

\* includedRoles of a validated hierarchy.
includedRoles ==
    LET included[role \in Roles] ==
            {role} \cup UNION {{r} \cup included[r] : r \in Includes(role)}
    IN  included

\* The rules defineAbilityFor throws at, when a request first asks for an ability.
NotImplemented(rule) == rule.scoped /\ rule.subject # "User"

-----------------------------------------------------------------------------

\* A set of roles is closed if it has whatever its members include.
Closed(set) == \A role \in set : Includes(role) \subseteq set

\* A path of one or more includes leads from a role to another: the other one is in
\* every closed set that has what the first one includes.
Reaches(role, other) ==
    \A set \in SUBSET (Roles \cup {Foreign}) :
        Includes(role) \subseteq set /\ Closed(set) => other \in set

Cyclic == \E role \in Roles : Reaches(role, role)

\* "Fail fast": when the program is loaded, the depth-first search finds the cycles
\* and nothing but cycles (a hierarchy with diamonds is accepted: ADMIN includes
\* USER both directly and through MANAGER), and an accepted policy has no rule
\* that a later request fails on.
FailsFast ==
    /\ step \in {"rules", "accepted"} => ~Cyclic
    /\ step = "cycle" => Cyclic
    /\ step = "accepted" => \A rule \in rules : ~NotImplemented(rule)

\* In an accepted hierarchy the expansion that abilities and route guards rely on
\* is the reflexive and transitive closure of includes.
ExpansionIsClosure ==
    step = "accepted" =>
        \A role \in Roles :
            includedRoles[role] = {role} \cup {r \in Roles : Reaches(role, r)}
=============================================================================
