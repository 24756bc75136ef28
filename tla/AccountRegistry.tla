--------------------------- MODULE AccountRegistry ---------------------------
(***************************************************************************)
(* What the accounts promise to everyone else: a collection in which every *)
(* operation is one atomic step that checks its condition on the very      *)
(* documents it changes.  There are no requests, no copies and no looking  *)
(* up before writing here; UserAdministration has all of these and is      *)
(* shown to implement this module.                                         *)
(*                                                                         *)
(* Sources: the operations of src/services/user.service.ts, the unique     *)
(* fields of src/models/user.model.ts, and the scopes of                   *)
(* src/rbac/role-definitions.ts.                                           *)
(***************************************************************************)
CONSTANTS Users,         \* the identifiers documents may get, never used twice
          Fields,        \* the fields an account has besides role and status
          UniqueFields,  \* those of them no two accounts may share
          Names          \* the values of the fields

VARIABLE accounts

Role == {"ADMIN", "MANAGER", "USER"}

Enrolled(u) == accounts[u].state = "live"

\* An account below ADMIN: the only ones the managed scopes reach.
Managed(u) == Enrolled(u) /\ accounts[u].role # "ADMIN"

Free(field, name, u) ==
    \A v \in Users \ {u} : ~Enrolled(v) \/ accounts[v].contact[field] # name

\* No document: not yet inserted, or deleted.
Absent(state) == [state |-> state, role |-> "USER", enable |-> FALSE,
                  contact |-> [field \in Fields |-> "none"]]

Init == accounts = [u \in Users |-> Absent("unborn")]

Put(u, account) == accounts' = [accounts EXCEPT ![u] = account]

\* register, create and the create-user script.
Enrol(u) ==
    /\ accounts[u].state = "unborn"
    /\ \E role \in Role, enable \in BOOLEAN, contact \in [Fields -> Names] :
         /\ \A field \in UniqueFields : Free(field, contact[field], u)
         /\ Put(u, [state |-> "live", role |-> role, enable |-> enable,
                    contact |-> contact])

\* updateRole: between the roles below ADMIN.
AssignRole(u) ==
    /\ Managed(u)
    /\ \E role \in Role \ {"ADMIN"} : Put(u, [accounts[u] EXCEPT !.role = role])

\* updateStatus.
SetStatus(u) ==
    /\ Managed(u)
    /\ \E enable \in BOOLEAN : Put(u, [accounts[u] EXCEPT !.enable = enable])

\* updateProfile, updatePassword, updateEmail and updateUsername.
SetField(u) ==
    /\ Enrolled(u)
    /\ \E field \in Fields, name \in Names :
         /\ field \in UniqueFields => Free(field, name, u)
         /\ Put(u, [accounts[u] EXCEPT
                      !.contact = [@ EXCEPT ![field] = name]])

\* delete: the identifier is never used again.
Remove(u) ==
    /\ Managed(u)
    /\ Put(u, Absent("gone"))

Next == \E u \in Users :
    Enrol(u) \/ AssignRole(u) \/ SetStatus(u) \/ SetField(u) \/ Remove(u)

Spec == Init /\ [][Next]_accounts
=============================================================================
