---------------------------- MODULE AccessControl ----------------------------
(***************************************************************************)
(* The access policy from the load of the program to the answers of its    *)
(* calls: the role definitions are validated while role-hierarchy.ts is    *)
(* loaded, and only a program whose definitions were accepted serves calls *)
(* with them.  Any list of definitions is validated; the calls are decided *)
(* with those of role-definitions.ts.                                      *)
(*                                                                         *)
(* Sources: src/rbac/role-hierarchy.ts, src/rbac/role-definitions.ts.      *)
(***************************************************************************)
EXTENDS AccessDecision, Sequences

CONSTANTS Foreign,        \* a name that is no role
          MaxDefinitions  \* bound on the length of the list of definitions

ASSUME ForeignAssumption == Foreign \notin Role
ASSUME LengthAssumption == MaxDefinitions \in Nat

VARIABLES definitions, rules, step, pending, visiting, visited, stack

hierarchy == <<definitions, rules, step, pending, visiting, visited, stack>>

H == INSTANCE RoleHierarchy WITH Roles <- Role

ROLE_DEFINITIONS ==
    <<[role |-> "ADMIN", includes |-> {"MANAGER", "USER"}],
      [role |-> "MANAGER", includes |-> {"USER"}],
      [role |-> "USER", includes |-> {}]>>

ControlInit == Init /\ H!Init

\* A module is loaded, and its validation goes on.
LoadPolicy == H!Next /\ UNCHANGED vars

\* The program is up with its own definitions.
Serve ==
    /\ step = "accepted" /\ definitions = ROLE_DEFINITIONS /\ rules = H!ActualRules
    /\ Next
    /\ UNCHANGED hierarchy

ControlNext == LoadPolicy \/ Serve

ControlSpec == ControlInit /\ [][ControlNext]_<<vars, hierarchy>>

-----------------------------------------------------------------------------
(* The properties of the validation; those of the calls are AccessDecision's. *)

\* An accepted policy has no cycle and no rule that a later request fails on, and
\* one refused for a cycle has a cycle.
FailsFast == H!FailsFast

\* The expansion of an accepted hierarchy is its closure, and the calls are
\* decided with the expansion the validation accepted.
ExpansionIsClosure ==
    /\ H!ExpansionIsClosure
    /\ verdict # "idle" => \A role \in Role : H!includedRoles[role] = includedRoles[role]
=============================================================================
