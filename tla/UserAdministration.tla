------------------------- MODULE UserAdministration -------------------------
(***************************************************************************)
(* Accounts administered by concurrent requests.  Every operation of       *)
(* UserService follows one pattern: the bearer token is turned into an     *)
(* actor by reading its account, the target is read, the ability is        *)
(* checked on that copy, the unique fields are looked up, and the document *)
(* is then written without a condition on what was read.  Other requests   *)
(* run between any two of these steps.                                     *)
(*                                                                         *)
(* Sources: src/services/user.service.ts, src/services/auth.service.ts,    *)
(* src/models/user.model.ts, src/api/common/utils/auth.util.ts,            *)
(* scripts/create-user.script.ts.                                          *)
(*                                                                         *)
(* A document is abstracted to its role, its status and the fields a       *)
(* request can write; its picture is PictureStore's.  Profile and password *)
(* are one value each.                                                     *)
(***************************************************************************)
EXTENDS Rbac, FiniteSets

CONSTANTS Users,         \* the identifiers documents may get, never used twice
          Requests,      \* slots of requests in flight
          Fields,        \* the fields an instance tracks
          Names,         \* the values of these fields
          Ops            \* the operations an instance exercises

ASSUME FieldsAssumption ==
    Fields \subseteq {"email", "username", "profile", "password"}
ASSUME IdentifiersAssumption == None \notin Users
ASSUME NamesAssumption == None \notin Names

VARIABLES users,     \* the users collection
          requests   \* what each request holds between its awaits

vars == <<users, requests>>

Management == {"user.update-role", "user.update-status", "user.delete"}
FieldUpdates == {"user.update-email", "user.update-username",
                 "user.update-profile", "user.update-password"}
Creations == {"auth.register", "user.create"}

\* The uniquely indexed fields of the schema.
UniqueFields == Fields \cap {"email", "username"}

\* A field a request does not write, or a document does not have, is None.
Contact == [Fields -> Names \cup {None}]
NoContact == [f \in Fields |-> None]
Full == [Fields -> Names]

Document == [state: {"unborn", "live", "gone"}, role: Role, enable: BOOLEAN,
             contact: Contact]
Unborn == [state |-> "unborn", role |-> "USER", enable |-> FALSE, contact |-> NoContact]
Gone == [state |-> "gone", role |-> "USER", enable |-> FALSE, contact |-> NoContact]

Live(u) == users[u].state = "live"

Actor == [kind: Kind, id: Users \cup {None}, role: Role \cup {None}]
Anonymous == [kind |-> "ANONYMOUS", id |-> None, role |-> None]
System == [kind |-> "SYSTEM", id |-> None, role |-> None]

\* pending: the unique fields whose availability is still to be looked up.
Request == [pc: {"idle", "load", "store"}, op: Ops \cup {None}, actor: Actor,
            target: Users \cup {None}, role: Role, enable: BOOLEAN,
            contact: Contact, pending: SUBSET UniqueFields]

Written(contact) == {f \in Fields : contact[f] # None}

Become(r, request) == requests' = [requests EXCEPT ![r] = request]

\* A finished request keeps nothing.
Idle == [pc |-> "idle", op |-> None, actor |-> Anonymous, target |-> None,
         role |-> "USER", enable |-> FALSE, contact |-> NoContact, pending |-> {}]

Finish(r) == Become(r, Idle)

Init ==
    /\ users = [u \in Users |-> Unborn]
    /\ requests = [r \in Requests |-> Idle]

-----------------------------------------------------------------------------
(* The start of a request, up to its first read of the target              *)

\* The finite pool of identifiers bounds the creations in flight.
IdentifierLeft ==
    Cardinality({r \in Requests : requests[r].pc # "idle" /\ requests[r].op \in Creations})
        < Cardinality({u \in Users : users[u].state = "unborn"})

\* auth.util authorize: the account the token names is read and granted.
Authenticated(u, permission) ==
    Live(u) /\ Issue(users[u], RouteRole("REST", permission))

UserActor(u) == [kind |-> "USER", id |-> u, role |-> users[u].role]

StartCreation(r, op, actor, role, enable, contact) ==
    /\ requests[r].pc = "idle"
    /\ op \in Ops
    /\ IdentifierLeft
    /\ Become(r, [pc |-> "store", op |-> op, actor |-> actor, target |-> None,
                  role |-> role, enable |-> enable, contact |-> contact,
                  pending |-> UniqueFields])
    /\ UNCHANGED users

\* AuthService.register: no actor is asked for, the role is the schema's default.
Register(r) ==
    \E enable \in BOOLEAN, contact \in Full :
        StartCreation(r, "auth.register", Anonymous, "USER", enable, contact)

\* UserService.create for a caller: both transports offer UpdateRole only, and
\* the ability is checked on the role of the input before anything is awaited.
Create(r) ==
    \E u \in Users, role \in UpdateRole, enable \in BOOLEAN, contact \in Full :
        /\ Authenticated(u, "user.create")
        /\ can(UserActor(u), "user.create", userSubject(None, role, None))
        /\ StartCreation(r, "user.create", UserActor(u), role, enable, contact)

\* UserService.create under ExecutionContext.system(): the create-user script.
ScriptCreate(r) ==
    \E role \in Role, contact \in Full :
        /\ can(System, "user.create", userSubject(None, role, None))
        /\ StartCreation(r, "user.create", System, role, TRUE, contact)

StartUpdate(r, op, target, role, enable, contact) ==
    /\ requests[r].pc = "idle"
    /\ op \in Ops
    /\ \E u \in Users :
         /\ Authenticated(u, op)
         /\ Become(r, [pc |-> "load", op |-> op, actor |-> UserActor(u),
                       target |-> target, role |-> role, enable |-> enable,
                       contact |-> contact, pending |-> {}])
    /\ UNCHANGED users

UpdateRoleOf(r) ==
    \E target \in Users, role \in UpdateRole :
        StartUpdate(r, "user.update-role", target, role, FALSE, NoContact)

UpdateStatus(r) ==
    \E target \in Users, enable \in BOOLEAN :
        StartUpdate(r, "user.update-status", target, "USER", enable, NoContact)

Delete(r) ==
    \E target \in Users :
        StartUpdate(r, "user.delete", target, "USER", FALSE, NoContact)

OpOf(field) ==
    CASE field = "email"    -> "user.update-email"
      [] field = "username" -> "user.update-username"
      [] field = "profile"  -> "user.update-profile"
      [] field = "password" -> "user.update-password"

\* updateProfile, updatePassword, updateEmail and updateUsername.
UpdateField(r) ==
    \E field \in Fields, target \in Users, name \in Names :
        StartUpdate(r, OpOf(field), target, "USER", FALSE,
                    [NoContact EXCEPT ![field] = name])

-----------------------------------------------------------------------------
(* The rest of a request                                                   *)

\* The subject the ability is checked on: a copy of the target.
SubjectOf(request) ==
    userSubject(request.target, users[request.target].role,
                IF request.op = "user.update-role" THEN request.role ELSE None)

\* Mutant: the ability is not checked on the target that was read.
LoadUnchecked(r) ==
    LET request == requests[r] IN
    /\ request.pc = "load"
    /\ IF Live(request.target)
       THEN Become(r, [request EXCEPT !.pc = "store",
                                      !.pending = Written(request.contact) \cap UniqueFields])
       ELSE Finish(r)
    /\ UNCHANGED users

\* comparePassword: the new password is the one of the copy.
SamePassword(request) ==
    /\ request.op = "user.update-password"
    /\ users[request.target].contact["password"] = request.contact["password"]

\* getUserByIdOrThrow, then authorize in the same turn, then the comparison of
\* the password with the hash of the copy.
Load(r) ==
    LET request == requests[r] IN
    /\ request.pc = "load"
    /\ IF /\ Live(request.target)
          /\ can(request.actor, request.op, SubjectOf(request))
          /\ ~SamePassword(request)
       THEN Become(r, [request EXCEPT !.pc = "store",
                                      !.pending = Written(request.contact) \cap UniqueFields])
       ELSE Finish(r)
    /\ UNCHANGED users

\* isEmailAvailable and isUsernameAvailable, and the condition of the unique
\* indexes: another live document has the value.
Taken(field, name, id) ==
    \E v \in Users \ {id} : Live(v) /\ users[v].contact[field] = name

LookUp(r) ==
    LET request == requests[r] IN
    /\ request.pc = "store"
    /\ \E field \in request.pending :
         IF Taken(field, request.contact[field], request.target)
         THEN Finish(r)
         ELSE Become(r, [request EXCEPT !.pending = @ \ {field}])
    /\ UNCHANGED users

Ready(r, ops) ==
    requests[r].pc = "store" /\ requests[r].pending = {} /\ requests[r].op \in ops

\* The unique indexes refuse a write that would repeat a value.
IndexRefuses(request) ==
    \E field \in Written(request.contact) \cap UniqueFields :
        Taken(field, request.contact[field], request.target)

\* User.create: the document is inserted unless an index refuses it.
StoreNew(r) ==
    LET request == requests[r] IN
    /\ Ready(r, Creations)
    /\ IF IndexRefuses(request)
       THEN UNCHANGED users
       ELSE \E u \in Users :
              /\ users[u].state = "unborn"
              /\ users' = [users EXCEPT ![u] =
                   [state |-> "live", role |-> request.role,
                    enable |-> request.enable, contact |-> request.contact]]
    /\ Finish(r)

\* User.updateOne({ _id }): the stored document is changed if it still exists,
\* whatever it has become since it was read.
StoreUpdate(r) ==
    LET request == requests[r]
        document == users[request.target]
    IN
    /\ Ready(r, {"user.update-role", "user.update-status"} \cup FieldUpdates)
    /\ IF ~Live(request.target) \/ IndexRefuses(request)
       THEN UNCHANGED users
       ELSE users' = [users EXCEPT ![request.target] =
              [state |-> "live",
               role |-> IF request.op = "user.update-role"
                        THEN request.role ELSE document.role,
               enable |-> IF request.op = "user.update-status"
                          THEN request.enable ELSE document.enable,
               contact |-> [f \in Fields |->
                              IF request.contact[f] # None
                              THEN request.contact[f] ELSE document.contact[f]]]]
    /\ Finish(r)

\* User.deleteOne({ _id }).
StoreDelete(r) ==
    LET target == requests[r].target IN
    /\ Ready(r, {"user.delete"})
    /\ users' = IF Live(target) THEN [users EXCEPT ![target] = Gone] ELSE users
    /\ Finish(r)

Start(r) ==
    \/ Register(r) \/ Create(r) \/ ScriptCreate(r)
    \/ UpdateRoleOf(r) \/ UpdateStatus(r) \/ Delete(r)
    \/ UpdateField(r)

Step(r) ==
    Load(r) \/ LookUp(r) \/ StoreNew(r) \/ StoreUpdate(r) \/ StoreDelete(r)

Next == \E r \in Requests : Start(r) \/ Step(r)

Spec == Init /\ [][Next]_vars

-----------------------------------------------------------------------------

Coherent(request) ==
    /\ request.pc # "idle" => request.op \in Ops
    /\ request.pc = "load" => request.op \in Management \cup FieldUpdates
    /\ request.op \in Management \cup FieldUpdates => request.target \in Users
    /\ request.op \in Creations => request.target = None
    /\ request.op \in Creations => request.contact \in Full
    /\ request.op \in Management => request.contact = NoContact
    /\ request.op \in FieldUpdates => \E field \in Fields, name \in Names :
         request.contact = [NoContact EXCEPT ![field] = name]
    /\ request.pending \subseteq Written(request.contact) \cap UniqueFields
    /\ request.actor.kind = "USER" => request.actor.id \in Users /\ request.actor.role \in Role

\* The state holds documents and requests of the declared shapes, a request has a
\* target exactly when it updates an existing account, writes all fields, one
\* or none according to its operation, and waits for look-ups only of unique
\* fields it is about to write.
TypeOK ==
    /\ users \in [Users -> Document]
    /\ requests \in [Requests -> Request]
    /\ \A r \in Requests : Coherent(requests[r])

Administrator(u) == Live(u) /\ users[u].role = "ADMIN"

\* The unique indexes hold although availability is looked up long before the
\* write: no two live accounts have the same e-mail address or username.
UniqueContacts ==
    \A u, v \in Users : u # v /\ Live(u) /\ Live(v) =>
        \A f \in UniqueFields :
            users[u].contact[f] = None \/ users[u].contact[f] # users[v].contact[f]

\* The abilities make administrators untouchable through the API, and the races
\* between reading a target and writing it open no way around them: a live
\* ADMIN is never demoted, disabled or deleted, and an account becomes ADMIN
\* only by being created so by the system script.
AdministratorsAreFixed ==
    [][\A u \in Users :
         /\ Administrator(u) => Administrator(u)' /\ users[u]'.enable = users[u].enable
         /\ ~Administrator(u) /\ Administrator(u)' =>
              \E r \in Requests : requests[r].op = "user.create"
                                  /\ requests[r].actor = System]_vars

\* What a request under way can count on in the collection db as it is now,
\* and not only in the copies it made: an actor that was ADMIN still is; a
\* checked management operation still has a lower target; a checked update of a field is
\* by the account itself or by an ADMIN; and no ADMIN is in the making but by
\* the system script.
Entitled(db, request) ==
    /\ request.actor.kind = "USER" /\ request.actor.role = "ADMIN" =>
         /\ db[request.actor.id].state = "live"
         /\ db[request.actor.id].role = "ADMIN"
    /\ request.op \in Management \cup FieldUpdates => request.actor.kind = "USER"
    /\ request.op = "user.update-role" => request.role \in UpdateRole
    /\ request.op \in Creations /\ request.actor # System => request.role \in UpdateRole
    /\ request.op = "user.create" =>
         \/ request.actor = System
         \/ request.actor.kind = "USER" /\ request.actor.role \in {"ADMIN", "MANAGER"}
    /\ request.op = "auth.register" => request.actor = Anonymous
    /\ request.pc = "store" /\ request.op \in Management =>
         /\ db[request.target].state # "unborn"
         /\ db[request.target].role # "ADMIN"
         /\ \/ request.actor.role = "ADMIN"
            \/ request.actor.role = "MANAGER" /\ request.op = "user.update-status"
    /\ request.pc = "store" /\ request.op \in FieldUpdates =>
         request.actor.role = "ADMIN" \/ request.target = request.actor.id

\* Every request in flight keeps what it was entitled to when it was checked,
\* whatever the other requests write meanwhile.
Entitlement == \A r \in Requests : Entitled(users, requests[r])

\* r writes the collection in this step.
Commits(r) ==
    requests[r].pc = "store" /\ requests[r]'.pc = "idle" /\ users' # users

\* The ability is checked on copies of the actor and of the target that are
\* stale by the time of the write.  Still, whatever ran in between, a write for
\* a caller is one the caller's present role allows on the target as it is now,
\* except the two operations MANAGER has of its own: a manager may be demoted,
\* or the target promoted, while they are under way.
AuthorityOutlivesTheCheck ==
    [][\A r \in Requests :
         LET request == requests[r]
             subject == IF request.op = "user.create"
                        THEN userSubject(None, request.role, None)
                        ELSE SubjectOf(request)
         IN  /\ Commits(r)
             /\ request.actor.kind = "USER"
             /\ ~ /\ request.actor.role = "MANAGER"
                  /\ request.op \in {"user.create", "user.update-status"}
             => /\ Live(request.actor.id)
                /\ can(UserActor(request.actor.id), request.op, subject)]_vars

\* The README: MANAGER can update the status of managed roles (USER).
ManagersManageUsers ==
    [][\A r \in Requests :
         /\ Commits(r)
         /\ requests[r].op = "user.update-status"
         /\ requests[r].actor.role = "MANAGER"
         => users[requests[r].target].role = "USER"]_vars

\* Every interleaving of requests is one of atomic operations on the accounts:
\* whatever was read, looked up and checked beforehand, each write is a step of
\* AccountRegistry, which checks its condition on the documents it changes.
Registry == INSTANCE AccountRegistry WITH accounts <- users

Implements == Registry!Spec
=============================================================================
