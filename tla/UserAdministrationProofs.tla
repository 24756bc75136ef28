---------------------- MODULE UserAdministrationProofs ----------------------
(***************************************************************************)
(* Theorems about UserAdministration, for any number of accounts, requests *)
(* in flight and names.                                                    *)
(***************************************************************************)
EXTENDS UserAdministration, RbacTheorems

\* A slot without a request is well formed.
LEMMA IdleIsARequest == Idle \in Request /\ Coherent(Idle)
BY DEF Idle, Request, Coherent, Anonymous, Actor, Kind, Role, NoContact, Contact,
       Management, FieldUpdates, Creations, Written, None

\* An identifier without a document is well formed.
LEMMA UnbornIsADocument == Unborn \in Document /\ Gone \in Document
BY DEF Unborn, Gone, Document, Role, NoContact, Contact

\* A request that takes a well-formed value leaves the requests well formed.
LEMMA BecomeKeepsTypes ==
    ASSUME NEW r \in Requests, NEW request \in Request, Coherent(request),
           requests \in [Requests -> Request],
           \A s \in Requests : Coherent(requests[s]),
           Become(r, request)
    PROVE  /\ requests' \in [Requests -> Request]
           /\ \A s \in Requests : Coherent(requests[s])'
<1>1. requests' = [requests EXCEPT ![r] = request]
  BY DEF Become
<1>2. \A s \in Requests : requests'[s] = IF s = r THEN request ELSE requests[s]
  BY <1>1
<1>3. \A s \in Requests : Coherent(requests'[s])
  BY <1>2
<1>4. QED BY <1>1, <1>3

\* A request that ends leaves a well-formed slot.
LEMMA FinishKeepsTypes ==
    ASSUME NEW r \in Requests, TypeOK, Finish(r)
    PROVE  /\ requests' \in [Requests -> Request]
           /\ \A s \in Requests : Coherent(requests[s])'
BY IdleIsARequest, BecomeKeepsTypes DEF Finish, TypeOK

\* Every account read for authentication is a well-formed actor.
LEMMA UserActorType ==
    ASSUME TypeOK, NEW u \in Users
    PROVE  UserActor(u) \in Actor /\ UserActor(u).kind = "USER"
           /\ UserActor(u).id = u /\ UserActor(u).role = users[u].role
           /\ UserActor(u).role \in Role
BY DEF UserActor, Actor, Kind, TypeOK, Document

\* A creation starts well formed.
LEMMA CreationType ==
    ASSUME TypeOK, NEW r \in Requests, NEW op \in Creations, NEW actor \in Actor,
           NEW role \in Role, NEW enable \in BOOLEAN, NEW contact \in Full,
           actor.kind = "USER" => actor.id \in Users /\ actor.role \in Role,
           StartCreation(r, op, actor, role, enable, contact)
    PROVE  TypeOK'
<1> DEFINE request == [pc |-> "store", op |-> op, actor |-> actor, target |-> None,
                       role |-> role, enable |-> enable, contact |-> contact,
                       pending |-> UniqueFields]
<1>1. op \in Ops /\ Become(r, request) /\ users' = users
  BY DEF StartCreation
<1>2. contact \in Contact /\ Written(contact) \cap UniqueFields = UniqueFields
  BY NamesAssumption DEF Full, Contact, Written, UniqueFields
<1>3. request \in Request
  BY <1>1, <1>2 DEF Request
<1>4. Coherent(request)
  BY <1>1, <1>2 DEF Coherent, Creations, Management, FieldUpdates
<1> HIDE DEF request
<1>5. QED BY <1>1, <1>3, <1>4, BecomeKeepsTypes DEF TypeOK

\* An update starts well formed.
LEMMA UpdateType ==
    ASSUME TypeOK, NEW r \in Requests, NEW op \in Management \cup FieldUpdates,
           NEW target \in Users, NEW role \in Role, NEW enable \in BOOLEAN,
           NEW contact \in Contact,
           op \in Management => contact = NoContact,
           op \in FieldUpdates => \E field \in Fields, name \in Names :
               contact = [NoContact EXCEPT ![field] = name],
           StartUpdate(r, op, target, role, enable, contact)
    PROVE  TypeOK'
<1>1. PICK u \in Users :
         Become(r, [pc |-> "load", op |-> op, actor |-> UserActor(u),
                    target |-> target, role |-> role, enable |-> enable,
                    contact |-> contact, pending |-> {}])
  BY DEF StartUpdate
<1> DEFINE request == [pc |-> "load", op |-> op, actor |-> UserActor(u),
                       target |-> target, role |-> role, enable |-> enable,
                       contact |-> contact, pending |-> {}]
<1>2. op \in Ops /\ users' = users
  BY DEF StartUpdate
<1>3. request \in Request
  BY <1>2, UserActorType DEF Request
<1>4. Coherent(request)
  BY <1>2, UserActorType DEF Coherent, Management, FieldUpdates, Creations
<1>5. Become(r, request)
  BY <1>1
<1> HIDE DEF request
<1>6. QED BY <1>2, <1>3, <1>4, <1>5, BecomeKeepsTypes DEF TypeOK

\* No fields at all are well formed.
LEMMA NoContactType == NoContact \in Contact
BY DEF NoContact, Contact

\* A field is written by an operation of its own.
LEMMA OpOfField ==
    ASSUME NEW field \in Fields
    PROVE  OpOf(field) \in FieldUpdates \ Management
BY FieldsAssumption DEF OpOf, FieldUpdates, Management

\* A start leaves everything well formed.
LEMMA StartKeepsTypes ==
    ASSUME TypeOK, NEW r \in Requests, Start(r)
    PROVE  TypeOK'
<1>1. CASE Register(r)
  <2>1. Anonymous \in Actor /\ Anonymous.kind # "USER" /\ "USER" \in Role
        /\ "auth.register" \in Creations
    BY DEF Anonymous, Actor, Kind, Role, Creations
  <2>2. QED BY <1>1, <2>1, CreationType DEF Register
<1>2. CASE Create(r)
  <2>1. "user.create" \in Creations /\ UpdateRole \subseteq Role
    BY DEF Creations, UpdateRole, Role
  <2>2. PICK u \in Users, role \in UpdateRole, enable \in BOOLEAN, contact \in Full :
           StartCreation(r, "user.create", UserActor(u), role, enable, contact)
    BY <1>2 DEF Create
  <2>3. UserActor(u) \in Actor /\ UserActor(u).id \in Users /\ UserActor(u).role \in Role
    BY UserActorType
  <2>4. QED BY <2>1, <2>2, <2>3, CreationType
<1>3. CASE ScriptCreate(r)
  <2>1. System \in Actor /\ System.kind # "USER" /\ "user.create" \in Creations
    BY DEF System, Actor, Kind, Role, Creations
  <2>2. QED BY <1>3, <2>1, CreationType DEF ScriptCreate
<1>4. CASE UpdateRoleOf(r)
  BY <1>4, UpdateType, NoContactType DEF UpdateRoleOf, Management, FieldUpdates, UpdateRole, Role
<1>5. CASE UpdateStatus(r)
  BY <1>5, UpdateType, NoContactType DEF UpdateStatus, Management, FieldUpdates, Role
<1>6. CASE Delete(r)
  BY <1>6, UpdateType, NoContactType DEF Delete, Management, FieldUpdates, Role
<1>7. CASE UpdateField(r)
  <2>1. PICK field \in Fields, target \in Users, name \in Names :
           StartUpdate(r, OpOf(field), target, "USER", FALSE,
                       [NoContact EXCEPT ![field] = name])
    BY <1>7 DEF UpdateField
  <2>2. OpOf(field) \in FieldUpdates \ Management
    BY OpOfField
  <2>3. [NoContact EXCEPT ![field] = name] \in Contact
    BY NoContactType DEF Contact
  <2>4. QED BY <2>1, <2>2, <2>3, UpdateType DEF Role
<1>8. QED BY <1>1, <1>2, <1>3, <1>4, <1>5, <1>6, <1>7 DEF Start

\* A later step of a request leaves everything well formed.
LEMMA StepKeepsTypes ==
    ASSUME TypeOK, NEW r \in Requests, Step(r)
    PROVE  TypeOK'
<1> DEFINE request == requests[r]
<1>1. request \in Request /\ Coherent(request)
  BY DEF TypeOK
<1>2. CASE Load(r)
  <2>1. users' = users
    BY <1>2 DEF Load
  <2>2. CASE Finish(r)
    BY <2>1, <2>2, FinishKeepsTypes DEF TypeOK
  <2>3. CASE Become(r, [request EXCEPT !.pc = "store", !.pending = Written(request.contact) \cap UniqueFields])
    <3> DEFINE loaded == [request EXCEPT !.pc = "store", !.pending = Written(request.contact) \cap UniqueFields]
    <3>1. loaded \in Request /\ Coherent(loaded)
      BY <1>1, <1>2 DEF Request, Coherent, Written, Load
    <3>2. Become(r, loaded)
      BY <2>3
    <3> HIDE DEF loaded
    <3>3. QED BY <2>1, <3>1, <3>2, BecomeKeepsTypes DEF TypeOK
  <2>4. QED BY <1>2, <2>2, <2>3 DEF Load
<1>3. CASE LookUp(r)
  <2>1. users' = users
    BY <1>3 DEF LookUp
  <2>2. CASE Finish(r)
    BY <2>1, <2>2, FinishKeepsTypes DEF TypeOK
  <2>3. ASSUME NEW field \in request.pending,
               Become(r, [request EXCEPT !.pending = @ \ {field}])
        PROVE  TypeOK'
    <3> DEFINE looked == [request EXCEPT !.pending = request.pending \ {field}]
    <3>1. looked \in Request /\ Coherent(looked)
      BY <1>1 DEF Request, Coherent
    <3>2. Become(r, looked)
      BY <1>1, <2>3 DEF Request
    <3> HIDE DEF looked
    <3>3. QED BY <2>1, <3>1, <3>2, BecomeKeepsTypes DEF TypeOK
  <2>4. QED BY <1>3, <2>2, <2>3 DEF LookUp
<1>4. CASE StoreNew(r)
  <2>1. Finish(r)
    BY <1>4 DEF StoreNew
  <2>2. [state |-> "live", role |-> request.role, enable |-> request.enable,
         contact |-> request.contact] \in Document
    BY <1>1 DEF Request, Document
  <2>3. users' \in [Users -> Document]
    BY <1>4, <2>2 DEF StoreNew, TypeOK
  <2>4. QED BY <2>1, <2>3, FinishKeepsTypes DEF TypeOK
<1>5. CASE StoreUpdate(r)
  <2>1. Finish(r)
    BY <1>5 DEF StoreUpdate
  <2>2. request.target \in Users
    BY <1>1, <1>5 DEF StoreUpdate, Ready, Coherent, Management
  <2>3. users[request.target] \in Document
    BY <2>2 DEF TypeOK
  <2> DEFINE old == users[request.target]
             new == [state |-> "live",
                     role |-> IF request.op = "user.update-role"
                              THEN request.role ELSE old.role,
                     enable |-> IF request.op = "user.update-status"
                                THEN request.enable ELSE old.enable,
                     contact |-> [f \in Fields |->
                                    IF request.contact[f] # None
                                    THEN request.contact[f] ELSE old.contact[f]]]
  <2>4. new.contact \in Contact
    BY <1>1, <2>3 DEF Request, Document, Contact
  <2>5. new \in Document
    BY <1>1, <2>3, <2>4 DEF Request, Document
  <2>6. users' = users \/ users' = [users EXCEPT ![request.target] = new]
    BY <1>5 DEF StoreUpdate
  <2> HIDE DEF new
  <2>7. users' \in [Users -> Document]
    BY <2>5, <2>6 DEF TypeOK
  <2>8. QED BY <2>1, <2>7, FinishKeepsTypes DEF TypeOK
<1>6. CASE StoreDelete(r)
  <2>1. Finish(r)
    BY <1>6 DEF StoreDelete
  <2>2. users' \in [Users -> Document]
    BY <1>6, UnbornIsADocument DEF StoreDelete, TypeOK
  <2>3. QED BY <2>1, <2>2, FinishKeepsTypes DEF TypeOK
<1>7. QED BY <1>2, <1>3, <1>4, <1>5, <1>6 DEF Step

\* Type correctness: documents and requests keep their shapes in every
\* interleaving of any number of requests.
THEOREM TypeCorrect == Spec => []TypeOK
<1>1. Init => TypeOK
  BY IdleIsARequest, UnbornIsADocument DEF Init, TypeOK
<1>2. TypeOK /\ [Next]_vars => TypeOK'
  <2> SUFFICES ASSUME TypeOK, [Next]_vars PROVE TypeOK'
    OBVIOUS
  <2>1. CASE Next
    BY <2>1, StartKeepsTypes, StepKeepsTypes DEF Next
  <2>2. CASE UNCHANGED vars
    BY <2>2 DEF vars, TypeOK
  <2>3. QED BY <2>1, <2>2
<1>3. QED BY <1>1, <1>2, PTL DEF Spec

-----------------------------------------------------------------------------

\* Only the three stores write the collection.
LEMMA OnlyStoresWrite ==
    ASSUME NEW r \in Requests, Start(r) \/ Load(r) \/ LookUp(r)
    PROVE  users' = users
BY DEF Start, Register, Create, ScriptCreate, StartCreation, UpdateRoleOf,
       UpdateStatus, Delete, UpdateField, StartUpdate, Load, LookUp

\* The unique indexes keep the values of a field apart.
THEOREM ContactsStayUnique == Spec => []UniqueContacts
<1>1. Init => UniqueContacts
  BY DEF Init, UniqueContacts, Live, Unborn
<1>2. TypeOK /\ UniqueContacts /\ [Next]_vars => UniqueContacts'
  <2> SUFFICES ASSUME TypeOK, UniqueContacts, [Next]_vars PROVE UniqueContacts'
    OBVIOUS
  <2>1. CASE users' = users
    BY <2>1 DEF UniqueContacts, Live
  <2>2. ASSUME NEW r \in Requests, StoreNew(r), users' # users
        PROVE  UniqueContacts'
    <3> DEFINE request == requests[r]
    <3>1. PICK w \in Users : users' = [users EXCEPT ![w] =
             [state |-> "live", role |-> request.role,
              enable |-> request.enable, contact |-> request.contact]]
      BY <2>2 DEF StoreNew
    <3>2. \A f \in UniqueFields : request.contact[f] # None =>
             \A v \in Users \ {request.target} : Live(v) =>
                users[v].contact[f] # request.contact[f]
      BY <2>2 DEF StoreNew, IndexRefuses, Taken, Written, UniqueFields
    <3>3. request.target \notin Users
      BY <2>2, IdentifiersAssumption DEF StoreNew, Ready, TypeOK, Coherent
    <3>4. \A u \in Users : users'[u] = IF u = w
             THEN [state |-> "live", role |-> request.role,
                   enable |-> request.enable, contact |-> request.contact]
             ELSE users[u]
      BY <3>1 DEF TypeOK
    <3>5. QED BY <3>2, <3>3, <3>4 DEF UniqueContacts, Live
  <2>3. ASSUME NEW r \in Requests, StoreUpdate(r), users' # users
        PROVE  UniqueContacts'
    <3> DEFINE request == requests[r]
    <3>1. request.target \in Users
      BY <2>3 DEF StoreUpdate, Ready, Management, TypeOK, Coherent
    <3>2. Live(request.target) /\ ~IndexRefuses(request)
      BY <2>3 DEF StoreUpdate
    <3>3. \A u \in Users \ {request.target} : users'[u] = users[u]
      BY <2>3, <3>1 DEF StoreUpdate, TypeOK
    <3>4. \A f \in UniqueFields : users'[request.target].contact[f] =
             IF request.contact[f] # None
             THEN request.contact[f] ELSE users[request.target].contact[f]
      BY <2>3, <3>1, <3>2 DEF StoreUpdate, TypeOK, UniqueFields
    <3>5. \A f \in UniqueFields : request.contact[f] # None =>
             \A v \in Users \ {request.target} : Live(v) =>
                users[v].contact[f] # request.contact[f]
      BY <3>2 DEF IndexRefuses, Taken, Written, UniqueFields
    <3>6. QED BY <3>1, <3>2, <3>3, <3>4, <3>5 DEF UniqueContacts, Live
  <2>4. ASSUME NEW r \in Requests, StoreDelete(r)
        PROVE  UniqueContacts'
    BY <2>4 DEF StoreDelete, UniqueContacts, Live, Gone, Unborn, TypeOK
  <2>5. ASSUME NEW r \in Requests, Start(r) \/ Load(r) \/ LookUp(r)
        PROVE  users' = users
    BY <2>5, OnlyStoresWrite
  <2>6. CASE Next
    BY <2>1, <2>2, <2>3, <2>4, <2>5, <2>6 DEF Next, Step
  <2>7. QED BY <2>1, <2>6 DEF vars
<1>3. QED BY <1>1, <1>2, TypeCorrect, PTL DEF Spec

-----------------------------------------------------------------------------

\* What one step does to one document: nothing, an insertion, an update of a
\* live document that touches its role only for a role update and its status
\* only for a status update, or a removal.
LEMMA EffectOnADocument ==
    ASSUME TypeOK, Next, NEW u \in Users
    PROVE  \/ users'[u] = users[u]
           \/ \E r \in Requests :
                /\ requests[r].pc = "store" /\ requests[r].op \in Creations
                /\ users[u].state = "unborn"
                /\ users'[u].state = "live" /\ users'[u].role = requests[r].role
           \/ \E r \in Requests :
                /\ requests[r].pc = "store"
                /\ requests[r].op \in Management \cup FieldUpdates
                /\ requests[r].target = u
                /\ users[u].state = "live" /\ users'[u].state = "live"
                /\ users'[u].role # users[u].role =>
                     /\ requests[r].op = "user.update-role"
                     /\ users'[u].role = requests[r].role
                /\ users'[u].enable # users[u].enable =>
                     requests[r].op = "user.update-status"
           \/ \E r \in Requests :
                /\ requests[r].pc = "store" /\ requests[r].op = "user.delete"
                /\ requests[r].target = u
                /\ users[u].state = "live" /\ users'[u] = Gone
<1>1. PICK r \in Requests : Start(r) \/ Step(r)
  BY DEF Next
<1>2. CASE Start(r) \/ Load(r) \/ LookUp(r)
  BY <1>2, OnlyStoresWrite
<1>3. CASE StoreNew(r)
  BY <1>3 DEF StoreNew, Ready, TypeOK
<1>4. CASE StoreUpdate(r)
  <2>1. requests[r].target \in Users
    BY <1>4 DEF StoreUpdate, Ready, Management, TypeOK, Coherent
  <2>2. CASE users' = users
    BY <2>2
  <2>3. CASE users' # users
    <3>1. Live(requests[r].target) /\ ~IndexRefuses(requests[r])
      BY <1>4, <2>3 DEF StoreUpdate
    <3>2. CASE u # requests[r].target
      BY <1>4, <3>2 DEF StoreUpdate, TypeOK
    <3>3. CASE u = requests[r].target
      <4>1. /\ users'[u].state = "live"
            /\ users'[u].role = IF requests[r].op = "user.update-role"
                                THEN requests[r].role ELSE users[u].role
            /\ users'[u].enable = IF requests[r].op = "user.update-status"
                                  THEN requests[r].enable ELSE users[u].enable
        BY <1>4, <2>1, <3>1, <3>3 DEF StoreUpdate, TypeOK
      <4>2. requests[r].pc = "store" /\ requests[r].op \in Management \cup FieldUpdates
        BY <1>4 DEF StoreUpdate, Ready, Management
      <4>3. QED BY <3>1, <3>3, <4>1, <4>2 DEF Live
    <3>4. QED BY <3>2, <3>3
  <2>4. QED BY <2>2, <2>3
<1>5. CASE StoreDelete(r)
  BY <1>5 DEF StoreDelete, Ready, Live, TypeOK
<1>6. QED BY <1>1, <1>2, <1>3, <1>4, <1>5 DEF Step

\* No step takes the role, the status or the document of an ADMIN.
LEMMA AdministratorsPersist ==
    ASSUME TypeOK, Entitlement, Next,
           NEW u \in Users, users[u].state = "live", users[u].role = "ADMIN"
    PROVE  /\ users'[u].state = "live" /\ users'[u].role = "ADMIN"
           /\ users'[u].enable = users[u].enable
<1>1. \A r \in Requests :
         requests[r].pc = "store" /\ requests[r].op \in Management => requests[r].target # u
  BY DEF Entitlement, Entitled
<1>2. QED BY <1>1, EffectOnADocument DEF Management

\* No step gives ADMIN to an account that has been created without it.
LEMMA OthersStayBelow ==
    ASSUME TypeOK, Entitlement, Next,
           NEW u \in Users, users[u].state # "unborn", users[u].role # "ADMIN"
    PROVE  users'[u].state # "unborn" /\ users'[u].role # "ADMIN"
<1>1. \A r \in Requests : requests[r].op = "user.update-role" => requests[r].role # "ADMIN"
  BY DEF Entitlement, Entitled, UpdateRole
<1>2. Gone.state # "unborn" /\ Gone.role # "ADMIN"
  BY DEF Gone, Unborn
<1>3. QED BY <1>1, <1>2, EffectOnADocument

\* What a request is entitled to survives the writes of every step.
LEMMA EntitledPersists ==
    ASSUME TypeOK, Entitlement, Next,
           NEW request, request \in Request, Coherent(request), Entitled(users, request)
    PROVE  Entitled(users', request)
<1>1. request.actor.kind = "USER" /\ request.actor.role = "ADMIN" =>
         /\ users'[request.actor.id].state = "live"
         /\ users'[request.actor.id].role = "ADMIN"
  BY AdministratorsPersist DEF Entitled, Coherent
<1>2. request.pc = "store" /\ request.op \in Management =>
         /\ users'[request.target].state # "unborn"
         /\ users'[request.target].role # "ADMIN"
  BY OthersStayBelow DEF Entitled, Coherent
<1>3. QED BY <1>1, <1>2 DEF Entitled

\* A slot without a request needs no authority.
LEMMA IdleIsEntitled == Entitled(users', Idle)
BY DEF Entitled, Idle, Anonymous, System, Management, FieldUpdates, Creations, None

\* A request starts entitled: to a creation its ability allows, or to nothing
\* yet when its target is still to be read.
LEMMA StartIsEntitled ==
    ASSUME TypeOK, NEW r \in Requests, Start(r)
    PROVE  \E request : requests' = [requests EXCEPT ![r] = request]
                        /\ Entitled(users, request)
<1>1. CASE Register(r)
  <2>1. PICK enable \in BOOLEAN, contact \in Full :
           StartCreation(r, "auth.register", Anonymous, "USER", enable, contact)
    BY <1>1 DEF Register
  <2> DEFINE request == [pc |-> "store", op |-> "auth.register", actor |-> Anonymous,
                         target |-> None, role |-> "USER", enable |-> enable,
                         contact |-> contact, pending |-> UniqueFields]
  <2>2. Entitled(users, request)
    BY DEF Entitled, Anonymous, Management, FieldUpdates, UpdateRole
  <2>3. QED BY <2>1, <2>2 DEF StartCreation, Become
<1>2. CASE Create(r)
  <2>1. PICK u \in Users, role \in UpdateRole, enable \in BOOLEAN, contact \in Full :
           /\ Authenticated(u, "user.create")
           /\ can(UserActor(u), "user.create", userSubject(None, role, None))
           /\ StartCreation(r, "user.create", UserActor(u), role, enable, contact)
    BY <1>2 DEF Create
  <2> DEFINE request == [pc |-> "store", op |-> "user.create", actor |-> UserActor(u),
                         target |-> None, role |-> role, enable |-> enable,
                         contact |-> contact, pending |-> UniqueFields]
  <2>2. userSubject(None, role, None) # SubjectType
    BY DEF userSubject, SubjectType, UpdateRole, None
  <2>3. UserActor(u).role \in {"ADMIN", "MANAGER"}
    BY <2>1, <2>2, UserActorType, ManagementIsDownward
  <2>4. Live(u)
    BY <2>1 DEF Authenticated
  <2>5. Entitled(users, request)
    BY <2>3, <2>4, UserActorType DEF Entitled, Management, FieldUpdates, Live
  <2>6. QED BY <2>1, <2>5 DEF StartCreation, Become
<1>3. CASE ScriptCreate(r)
  <2>1. PICK role \in Role, contact \in Full :
           StartCreation(r, "user.create", System, role, TRUE, contact)
    BY <1>3 DEF ScriptCreate
  <2> DEFINE request == [pc |-> "store", op |-> "user.create", actor |-> System,
                         target |-> None, role |-> role, enable |-> TRUE,
                         contact |-> contact, pending |-> UniqueFields]
  <2>2. Entitled(users, request)
    BY DEF Entitled, System, Management, FieldUpdates
  <2>3. QED BY <2>1, <2>2 DEF StartCreation, Become
<1>4. ASSUME NEW op \in Management \cup FieldUpdates, NEW target, NEW role, NEW enable,
             NEW contact, op = "user.update-role" => role \in UpdateRole,
             StartUpdate(r, op, target, role, enable, contact)
      PROVE  \E request : requests' = [requests EXCEPT ![r] = request]
                          /\ Entitled(users, request)
  <2>1. PICK u \in Users :
           /\ Authenticated(u, op)
           /\ requests' = [requests EXCEPT ![r] =
                 [pc |-> "load", op |-> op, actor |-> UserActor(u), target |-> target,
                  role |-> role, enable |-> enable, contact |-> contact, pending |-> {}]]
    BY <1>4 DEF StartUpdate, Become
  <2> DEFINE request == [pc |-> "load", op |-> op, actor |-> UserActor(u),
                         target |-> target, role |-> role, enable |-> enable,
                         contact |-> contact, pending |-> {}]
  <2>2. Live(u)
    BY <2>1 DEF Authenticated
  <2>3. Entitled(users, request)
    BY <1>4, <2>2, UserActorType DEF Entitled, Management, FieldUpdates, Creations, Live
  <2>4. QED BY <2>1, <2>3
<1>5. CASE UpdateRoleOf(r)
  BY <1>4, <1>5 DEF UpdateRoleOf, Management
<1>6. CASE UpdateStatus(r) \/ Delete(r)
  BY <1>4, <1>6 DEF UpdateStatus, Delete, Management
<1>7. CASE UpdateField(r)
  <2>1. PICK field \in Fields, target \in Users, name \in Names :
           StartUpdate(r, OpOf(field), target, "USER", FALSE,
                       [NoContact EXCEPT ![field] = name])
    BY <1>7 DEF UpdateField
  <2>2. OpOf(field) \in FieldUpdates /\ OpOf(field) # "user.update-role"
    BY OpOfField DEF Management
  <2>3. QED BY <1>4, <2>1, <2>2
<1>8. QED BY <1>1, <1>2, <1>3, <1>5, <1>6, <1>7 DEF Start

\* The ability check on the copy of the target entitles the request to its write.
LEMMA LoadEntitles ==
    ASSUME TypeOK, NEW r \in Requests, Entitled(users, requests[r]),
           requests[r].pc = "load", Live(requests[r].target),
           can(requests[r].actor, requests[r].op, SubjectOf(requests[r]))
    PROVE  Entitled(users, [requests[r] EXCEPT !.pc = "store",
                                !.pending = Written(requests[r].contact) \cap UniqueFields])
<1> DEFINE request == requests[r]
           subject == SubjectOf(request)
<1>1. request \in Request /\ request.op \in Management \cup FieldUpdates
      /\ request.target \in Users
  BY DEF TypeOK, Coherent
<1>2. users[request.target].role \in Role
  BY <1>1 DEF TypeOK, Document
<1>3. subject # SubjectType /\ subject.role = users[request.target].role
      /\ subject.id = request.target
  BY <1>2 DEF SubjectOf, userSubject, SubjectType, Role, None
<1>4. request.actor.kind = "USER" /\ request.actor.role \in Role
  BY <1>1 DEF Entitled, TypeOK, Coherent
<1>5. CASE request.op \in Management
  <2>1. /\ users[request.target].role # "ADMIN"
        /\ \/ request.actor.role = "ADMIN"
           \/ request.actor.role = "MANAGER" /\ request.op = "user.update-status"
    BY <1>3, <1>4, <1>5, ManagementIsDownward DEF Management, UpdateRole
  <2>2. QED BY <1>1, <1>5, <2>1 DEF Entitled, Request, Live, Management, FieldUpdates
<1>6. CASE request.op \in FieldUpdates
  <2>1. request.actor.role = "ADMIN" \/ request.target = request.actor.id
    BY <1>2, <1>3, <1>4, <1>6, SelfServiceScope DEF FieldUpdates, SelfService
  <2>2. QED BY <1>1, <1>6, <2>1 DEF Entitled, Request, Management, FieldUpdates
<1>7. QED BY <1>1, <1>5, <1>6

\* Entitlement is inductive.
LEMMA EntitlementStep ==
    ASSUME TypeOK, Entitlement, Next
    PROVE  Entitlement'
<1>1. PICK r \in Requests : Start(r) \/ Step(r)
  BY DEF Next
<1>2. requests \in [Requests -> Request] /\ \A s \in Requests :
         Coherent(requests[s]) /\ Entitled(users, requests[s])
  BY DEF TypeOK, Entitlement
<1>3. ASSUME NEW request, requests' = [requests EXCEPT ![r] = request],
             Entitled(users', request)
      PROVE  Entitlement'
  <2>1. ASSUME NEW s \in Requests PROVE Entitled(users', requests'[s])
    <3>1. CASE s = r
      BY <1>2, <1>3, <3>1
    <3>2. CASE s # r
      <4>1. requests'[s] = requests[s]
        BY <1>2, <1>3, <3>2
      <4>2. requests[s] \in Request
        BY <1>2
      <4>3. Entitled(users', requests[s])
        BY <1>2, <4>2, EntitledPersists
      <4>4. QED BY <4>1, <4>3
    <3>3. QED BY <3>1, <3>2
  <2>2. QED BY <2>1 DEF Entitlement
<1>4. CASE Start(r)
  <2>1. users' = users
    BY <1>4, OnlyStoresWrite
  <2>2. QED BY <1>3, <1>4, <2>1, StartIsEntitled
<1>5. CASE Finish(r)
  BY <1>3, <1>5, IdleIsEntitled DEF Finish, Become
<1>6. CASE Load(r) /\ ~Finish(r)
  <2> DEFINE loaded == [requests[r] EXCEPT !.pc = "store",
                           !.pending = Written(requests[r].contact) \cap UniqueFields]
  <2>1. requests' = [requests EXCEPT ![r] = loaded] /\ users' = users
    BY <1>6 DEF Load, Become
  <2>2. Entitled(users, loaded)
    BY <1>2, <1>6, LoadEntitles DEF Load
  <2> HIDE DEF loaded
  <2>3. QED BY <1>3, <2>1, <2>2
<1>7. CASE LookUp(r) /\ ~Finish(r)
  <2>1. PICK field \in requests[r].pending :
           Become(r, [requests[r] EXCEPT !.pending = @ \ {field}])
    BY <1>7 DEF LookUp
  <2> DEFINE looked == [requests[r] EXCEPT !.pending = requests[r].pending \ {field}]
  <2>2. requests' = [requests EXCEPT ![r] = looked] /\ users' = users
    BY <1>2, <1>7, <2>1 DEF Become, LookUp, Request
  <2>3. Entitled(users, looked)
    BY <1>2 DEF Entitled, Request
  <2> HIDE DEF looked
  <2>4. QED BY <1>3, <2>2, <2>3
<1>8. QED BY <1>1, <1>4, <1>5, <1>6, <1>7 DEF Step, StoreNew, StoreUpdate, StoreDelete

\* Whatever requests run concurrently, each keeps what it was entitled to at its
\* checks until it writes.
THEOREM EntitlementHolds == Spec => []Entitlement
<1>1. Init => Entitlement
  <2>1. Entitled(users, Idle)
    BY DEF Entitled, Idle, Anonymous, System, Management, FieldUpdates, Creations, None
  <2>2. QED BY <2>1 DEF Init, Entitlement
<1>2. TypeOK /\ Entitlement /\ [Next]_vars => Entitlement'
  BY EntitlementStep DEF vars, Entitlement
<1>3. QED BY <1>1, <1>2, TypeCorrect, PTL DEF Spec

\* For every number of accounts and of racing requests: an ADMIN is never
\* demoted, disabled or deleted through the API, and only the system script
\* makes an account ADMIN.
THEOREM AdministratorsFixed == Spec => AdministratorsAreFixed
<1>1. ASSUME TypeOK, Entitlement, Next, NEW u \in Users
      PROVE  /\ Administrator(u) => Administrator(u)' /\ users[u]'.enable = users[u].enable
             /\ ~Administrator(u) /\ Administrator(u)' =>
                  \E r \in Requests : requests[r].op = "user.create"
                                      /\ requests[r].actor = System
  <2>1. Administrator(u) => Administrator(u)' /\ users[u]'.enable = users[u].enable
    BY <1>1, AdministratorsPersist DEF Administrator, Live
  <2>2. ASSUME ~Administrator(u), Administrator(u)'
        PROVE  \E r \in Requests : requests[r].op = "user.create"
                                   /\ requests[r].actor = System
    <3>1. users[u].state = "unborn"
      BY <1>1, <2>2, EffectOnADocument, OthersStayBelow DEF Administrator, Live, Gone, Unborn
    <3>2. PICK r \in Requests :
             requests[r].op \in Creations /\ users'[u].role = requests[r].role
      BY <1>1, <2>2, <3>1, EffectOnADocument DEF Administrator, Live
    <3>3. requests[r].role = "ADMIN"
      BY <2>2, <3>2 DEF Administrator
    <3>4. requests[r].actor = System /\ requests[r].op = "user.create"
      BY <1>1, <3>2, <3>3 DEF Entitlement, Entitled, UpdateRole, Creations, Anonymous, System
    <3>5. QED BY <3>4
  <2>3. QED BY <2>1, <2>2
<1>2. TypeOK /\ Entitlement /\ [Next]_vars =>
         [\A u \in Users :
            /\ Administrator(u) => Administrator(u)' /\ users[u]'.enable = users[u].enable
            /\ ~Administrator(u) /\ Administrator(u)' =>
                 \E r \in Requests : requests[r].op = "user.create"
                                     /\ requests[r].actor = System]_vars
  BY <1>1
<1>3. QED BY <1>2, TypeCorrect, EntitlementHolds, PTL DEF Spec, AdministratorsAreFixed

\* A write for a caller is one the caller's present role allows on the present
\* target, unless it is a creation or a status change started by a MANAGER.
LEMMA CommitIsAuthorized ==
    ASSUME TypeOK, Entitlement, NEW r \in Requests, Step(r), users' # users,
           requests[r].actor.kind = "USER",
           ~ /\ requests[r].actor.role = "MANAGER"
             /\ requests[r].op \in {"user.create", "user.update-status"}
    PROVE  /\ Live(requests[r].actor.id)
           /\ can(UserActor(requests[r].actor.id), requests[r].op,
                  IF requests[r].op = "user.create"
                  THEN userSubject(None, requests[r].role, None)
                  ELSE SubjectOf(requests[r]))
<1> DEFINE request == requests[r]
           actor == UserActor(request.actor.id)
<1>1. request \in Request /\ Coherent(request) /\ Entitled(users, request)
  BY DEF TypeOK, Entitlement
<1>2. request.actor.id \in Users
  BY <1>1 DEF Coherent
<1>3. /\ actor.kind = "USER" /\ actor.id = request.actor.id
      /\ actor.role = users[request.actor.id].role /\ actor.role \in Role
  BY <1>2, UserActorType
<1>4. request.actor.role = "ADMIN" => Live(request.actor.id) /\ actor.role = "ADMIN"
  BY <1>1, <1>3 DEF Entitled, Live
<1>5. request.pc = "store" /\ request.op \in Creations \cup Management \cup FieldUpdates
  <2>1. ~(Load(r) \/ LookUp(r))
    BY OnlyStoresWrite
  <2>2. QED BY <2>1 DEF Step, StoreNew, StoreUpdate, StoreDelete, Ready, Management
<1>6. CASE request.op \in Creations
  <2>1. request.op = "user.create" /\ request.actor.role = "ADMIN"
    BY <1>1, <1>6 DEF Entitled, Creations, Anonymous, System
  <2>2. request.role \in UpdateRole
    BY <1>1, <1>6 DEF Entitled, System
  <2>3. can(actor, "user.create", userSubject(None, request.role, None))
    BY <1>3, <1>4, <2>1, <2>2, AdminManages DEF userSubject
  <2>4. QED BY <1>4, <2>1, <2>3
<1>7. ASSUME request.op \notin Creations
      PROVE  /\ request.target \in Users /\ Live(request.target)
             /\ users[request.target].role \in Role
  BY <1>1, <1>5, <1>7 DEF Coherent, TypeOK, Document, Step, StoreNew, StoreUpdate,
     StoreDelete, Ready, Load, LookUp
<1>8. CASE request.op \in Management
  <2>1. request.op \notin Creations /\ request.op # "user.create"
    BY <1>8 DEF Management, Creations
  <2>2. request.actor.role = "ADMIN"
    BY <1>1, <1>5, <1>8 DEF Entitled
  <2>3. users[request.target].role \in UpdateRole
    BY <1>1, <1>5, <1>7, <1>8, <2>1 DEF Entitled, UpdateRole, Role
  <2>4. request.op = "user.update-role" => request.role \in UpdateRole
    BY <1>1 DEF Entitled
  <2>5. can(actor, request.op, SubjectOf(request))
    BY <1>3, <1>4, <1>8, <2>2, <2>3, <2>4, AdminManages DEF SubjectOf, userSubject, Management
  <2>6. QED BY <1>4, <2>1, <2>2, <2>5
<1>9. CASE request.op \in FieldUpdates
  <2>1. request.op \notin Creations /\ request.op # "user.create"
    BY <1>9 DEF FieldUpdates, Creations
  <2>2. request.actor.role = "ADMIN" \/ request.target = request.actor.id
    BY <1>1, <1>5, <1>9 DEF Entitled
  <2>3. Live(request.actor.id)
    BY <1>4, <1>7, <2>1, <2>2
  <2>4. SubjectOf(request) # SubjectType /\ SubjectOf(request).role \in Role
        /\ SubjectOf(request).id = request.target
    BY <1>7, <2>1 DEF SubjectOf, userSubject, SubjectType, Role, None
  <2>5. can(actor, request.op, SubjectOf(request))
    BY <1>3, <1>4, <1>9, <2>2, <2>4, SelfServiceScope DEF FieldUpdates, SelfService
  <2>6. QED BY <2>1, <2>3, <2>5
<1>10. QED BY <1>5, <1>6, <1>8, <1>9

\* The staleness of the copies is harmless for every write but those two of
\* MANAGER, for any number of requests.
THEOREM AuthorityOutlives == Spec => AuthorityOutlivesTheCheck
<1> DEFINE Authorized ==
      \A r \in Requests :
         LET request == requests[r]
             subject == IF request.op = "user.create"
                        THEN userSubject(None, request.role, None)
                        ELSE SubjectOf(request)
         IN  /\ Commits(r)
             /\ request.actor.kind = "USER"
             /\ ~ /\ request.actor.role = "MANAGER"
                  /\ request.op \in {"user.create", "user.update-status"}
             => /\ Live(request.actor.id)
                /\ can(UserActor(request.actor.id), request.op, subject)
<1>1. ASSUME TypeOK, Next, NEW r \in Requests, Commits(r)
      PROVE  Step(r) /\ users' # users
  <2>1. PICK s \in Requests : Start(s) \/ Step(s)
    BY <1>1 DEF Next
  <2>2. Step(s)
    BY <1>1, <2>1, OnlyStoresWrite DEF Commits
  <2>3. \E request : requests' = [requests EXCEPT ![s] = request]
    <3>1. CASE Finish(s)
      BY <3>1 DEF Finish, Become
    <3>2. CASE Load(s) /\ ~Finish(s)
      BY <3>2 DEF Load, Become
    <3>3. CASE LookUp(s) /\ ~Finish(s)
      BY <3>3 DEF LookUp, Become
    <3>4. QED BY <2>2, <3>1, <3>2, <3>3 DEF Step, StoreNew, StoreUpdate, StoreDelete
  <2>4. s = r
    BY <1>1, <2>3 DEF Commits, TypeOK
  <2>5. QED BY <1>1, <2>2, <2>4 DEF Commits
<1>2. TypeOK /\ Entitlement /\ [Next]_vars => [Authorized]_vars
  BY <1>1, CommitIsAuthorized
<1>3. QED
  BY <1>2, TypeCorrect, EntitlementHolds, PTL DEF Spec, AuthorityOutlivesTheCheck

-----------------------------------------------------------------------------
(* UserAdministration implements AccountRegistry                           *)

\* An insertion the indexes let through is an enrolment.
LEMMA InsertionEnrols ==
    ASSUME TypeOK, NEW r \in Requests, StoreNew(r), users' # users
    PROVE  Registry!Next
<1> DEFINE request == requests[r]
<1>1. PICK w \in Users :
         /\ users[w].state = "unborn"
         /\ users' = [users EXCEPT ![w] =
              [state |-> "live", role |-> request.role,
               enable |-> request.enable, contact |-> request.contact]]
  BY DEF StoreNew
<1>2. /\ request \in Request /\ Coherent(request) /\ request.op \in Creations
      /\ request.target \notin Users
  BY IdentifiersAssumption DEF StoreNew, Ready, TypeOK, Coherent
<1>3. /\ request.role \in Registry!Role /\ request.enable \in BOOLEAN
      /\ request.contact \in [Fields -> Names]
  BY <1>2 DEF Request, Coherent, Full, Role, Registry!Role
<1>4. ASSUME NEW field \in UniqueFields
      PROVE  Registry!Free(field, request.contact[field], w)
  <2>1. field \in Written(request.contact)
    BY <1>3, <1>4, NamesAssumption DEF Written, UniqueFields
  <2>2. ~Taken(field, request.contact[field], request.target)
    BY <1>4, <2>1 DEF StoreNew, IndexRefuses
  <2>3. QED
    BY <1>2, <2>2 DEF Taken, Live, Registry!Free, Registry!Enrolled
<1>5. Registry!Enrol(w)
  BY <1>1, <1>3, <1>4 DEF Registry!Enrol, Registry!Put
<1>6. QED BY <1>5 DEF Registry!Next

\* The document an update writes differs from the stored one in what its
\* operation is about, and in nothing else.
LEMMA UpdateEffect ==
    ASSUME TypeOK, NEW r \in Requests, StoreUpdate(r), users' # users
    PROVE  LET request == requests[r]
               u == request.target
           IN  /\ u \in Users /\ Live(u) /\ ~IndexRefuses(request)
               /\ request.pc = "store"
               /\ request.op = "user.update-role" =>
                    Registry!Put(u, [users[u] EXCEPT !.role = request.role])
               /\ request.op = "user.update-status" =>
                    Registry!Put(u, [users[u] EXCEPT !.enable = request.enable])
               /\ request.op \in FieldUpdates =>
                    \E field \in Fields, name \in Names :
                      /\ request.contact = [NoContact EXCEPT ![field] = name]
                      /\ Registry!Put(u, [users[u] EXCEPT
                           !.contact = [@ EXCEPT ![field] = name]])
<1> DEFINE request == requests[r]
           u == request.target
           old == users[u]
           contact == [f \in Fields |-> IF request.contact[f] # None
                                        THEN request.contact[f] ELSE old.contact[f]]
           new == [state |-> "live",
                   role |-> IF request.op = "user.update-role"
                            THEN request.role ELSE old.role,
                   enable |-> IF request.op = "user.update-status"
                              THEN request.enable ELSE old.enable,
                   contact |-> contact]
<1>1. request \in Request /\ Coherent(request) /\ request.pc = "store"
      /\ request.op \in {"user.update-role", "user.update-status"} \cup FieldUpdates
  BY DEF StoreUpdate, Ready, TypeOK
<1>2. u \in Users
  BY <1>1 DEF Coherent, Management
<1>3. Live(u) /\ ~IndexRefuses(request) /\ users' = [users EXCEPT ![u] = new]
  BY DEF StoreUpdate
<1>4. old \in Document /\ old.state = "live"
  BY <1>2, <1>3 DEF TypeOK, Live
<1>5. old = [state |-> old.state, role |-> old.role, enable |-> old.enable,
             contact |-> old.contact]
      /\ old.contact \in [Fields -> Names \cup {None}]
  BY <1>4 DEF Document, Contact
<1>6. CASE request.op \in {"user.update-role", "user.update-status"}
  <2>1. request.contact = NoContact
    BY <1>1, <1>6 DEF Coherent, Management
  <2>2. \A f \in Fields : request.contact[f] = None
    BY <2>1 DEF NoContact
  <2>3. contact = [f \in Fields |-> old.contact[f]]
    BY <2>2
  <2>4. contact = old.contact
    BY <1>5, <2>3
  <2> HIDE DEF contact
  <2>5. CASE request.op = "user.update-role"
    <3>1. new = [old EXCEPT !.role = request.role]
      BY <1>4, <1>5, <2>4, <2>5
    <3>2. Registry!Put(u, [users[u] EXCEPT !.role = request.role])
      BY <1>3, <3>1 DEF Registry!Put
    <3>3. request.op \notin FieldUpdates
      BY <2>5 DEF FieldUpdates
    <3>4. QED BY <1>1, <1>2, <1>3, <2>5, <3>2, <3>3
  <2>6. CASE request.op = "user.update-status"
    <3>1. new = [old EXCEPT !.enable = request.enable]
      BY <1>4, <1>5, <2>4, <2>6
    <3>2. Registry!Put(u, [users[u] EXCEPT !.enable = request.enable])
      BY <1>3, <3>1 DEF Registry!Put
    <3>3. request.op \notin FieldUpdates
      BY <2>6 DEF FieldUpdates
    <3>4. QED BY <1>1, <1>2, <1>3, <2>6, <3>2, <3>3
  <2>7. QED BY <1>6, <2>5, <2>6
<1>7. CASE request.op \in FieldUpdates
  <2>1. PICK field \in Fields, name \in Names :
           request.contact = [NoContact EXCEPT ![field] = name]
    BY <1>1, <1>7 DEF Coherent
  <2>2. \A f \in Fields : request.contact[f] = IF f = field THEN name ELSE None
    BY <2>1 DEF NoContact
  <2>3. contact = [old.contact EXCEPT ![field] = name]
    BY <1>5, <2>2, NamesAssumption
  <2> HIDE DEF contact
  <2>4. request.op \notin {"user.update-role", "user.update-status"}
    BY <1>7 DEF FieldUpdates
  <2>5. new = [old EXCEPT !.contact = [@ EXCEPT ![field] = name]]
    BY <1>4, <1>5, <2>3, <2>4
  <2>6. Registry!Put(u, [users[u] EXCEPT !.contact = [@ EXCEPT ![field] = name]])
    BY <1>3, <2>5 DEF Registry!Put
  <2>7. QED BY <1>1, <1>2, <1>3, <2>1, <2>4, <2>6
<1>8. QED BY <1>1, <1>6, <1>7

\* An update is the registry's, although its checks were made on copies.
LEMMA UpdateIsAtomic ==
    ASSUME TypeOK, Entitlement, NEW r \in Requests, StoreUpdate(r), users' # users
    PROVE  Registry!Next
<1> DEFINE request == requests[r]
           u == request.target
<1>1. u \in Users /\ Live(u) /\ ~IndexRefuses(request) /\ request.pc = "store"
  BY UpdateEffect
<1>2. Registry!Enrolled(u)
  BY <1>1 DEF Live, Registry!Enrolled
<1>3. request.op \in Management => Registry!Managed(u)
  BY <1>1, <1>2 DEF Entitlement, Entitled, Registry!Managed
<1>4. CASE request.op = "user.update-role"
  <2>1. request.role \in Registry!Role \ {"ADMIN"}
    BY <1>4 DEF Entitlement, Entitled, UpdateRole, Registry!Role
  <2>2. Registry!Put(u, [users[u] EXCEPT !.role = request.role])
    BY <1>4, UpdateEffect
  <2>3. Registry!AssignRole(u)
    BY <1>3, <1>4, <2>1, <2>2 DEF Registry!AssignRole, Management
  <2>4. QED BY <1>1, <2>3 DEF Registry!Next
<1>5. CASE request.op = "user.update-status"
  <2>1. request.enable \in BOOLEAN
    BY DEF TypeOK, Request
  <2>2. Registry!Put(u, [users[u] EXCEPT !.enable = request.enable])
    BY <1>5, UpdateEffect
  <2>3. Registry!SetStatus(u)
    BY <1>3, <1>5, <2>1, <2>2 DEF Registry!SetStatus, Management
  <2>4. QED BY <1>1, <2>3 DEF Registry!Next
<1>6. CASE request.op \in FieldUpdates
  <2>1. PICK field \in Fields, name \in Names :
           /\ request.contact = [NoContact EXCEPT ![field] = name]
           /\ Registry!Put(u, [users[u] EXCEPT !.contact = [@ EXCEPT ![field] = name]])
    BY <1>6, UpdateEffect
  <2>2. ASSUME field \in UniqueFields
        PROVE  Registry!Free(field, name, u)
    <3>1. request.contact[field] = name /\ field \in Written(request.contact)
      BY <2>1, NamesAssumption DEF NoContact, Written
    <3>2. ~Taken(field, name, u)
      BY <1>1, <2>2, <3>1 DEF IndexRefuses
    <3>3. QED BY <3>2 DEF Taken, Live, Registry!Free, Registry!Enrolled
  <2>3. Registry!SetField(u)
    BY <1>2, <2>1, <2>2 DEF Registry!SetField
  <2>4. QED BY <1>1, <2>3 DEF Registry!Next
<1>7. QED BY <1>4, <1>5, <1>6 DEF StoreUpdate, Ready

\* The absent documents of both specifications are the same.
LEMMA AbsenceIsTheSame ==
    Registry!Absent("unborn") = Unborn /\ Registry!Absent("gone") = Gone
<1>1. [field \in Fields |-> "none"] = NoContact
  BY DEF NoContact, None
<1>2. \A state : Registry!Absent(state) =
         [state |-> state, role |-> "USER", enable |-> FALSE, contact |-> NoContact]
  BY <1>1 DEF Registry!Absent
<1>3. QED BY <1>2 DEF Unborn, Gone

\* A deletion reaches accounts below ADMIN only.
LEMMA DeletionRemoves ==
    ASSUME TypeOK, Entitlement, NEW r \in Requests, StoreDelete(r), users' # users
    PROVE  Registry!Next
<1> DEFINE u == requests[r].target
<1>1. requests[r].pc = "store" /\ requests[r].op = "user.delete" /\ u \in Users
  BY DEF StoreDelete, Ready, TypeOK, Coherent, Management
<1>2. Live(u) /\ users' = [users EXCEPT ![u] = Gone]
  BY DEF StoreDelete
<1>3. users[u].role # "ADMIN"
  BY <1>1 DEF Entitlement, Entitled, Management
<1>4. Registry!Remove(u)
  BY <1>2, <1>3, AbsenceIsTheSame
  DEF Live, Registry!Remove, Registry!Managed, Registry!Enrolled, Registry!Put
<1>5. QED BY <1>1, <1>4 DEF Registry!Next

\* For any number of accounts, requests and names: whatever the requests read,
\* looked up and checked before, every write is one atomic operation of
\* AccountRegistry, whose conditions are on the documents it changes.
THEOREM Implementation == Spec => Implements
<1>1. Init => Registry!Init
  BY AbsenceIsTheSame DEF Init, Registry!Init
<1>2. TypeOK /\ Entitlement /\ [Next]_vars => [Registry!Next]_users
  <2> SUFFICES ASSUME TypeOK, Entitlement, Next, users' # users PROVE Registry!Next
    BY DEF vars
  <2>1. PICK r \in Requests : Start(r) \/ Step(r)
    BY DEF Next
  <2>2. ~(Start(r) \/ Load(r) \/ LookUp(r))
    BY OnlyStoresWrite
  <2>3. QED
    BY <2>1, <2>2, InsertionEnrols, UpdateIsAtomic, DeletionRemoves DEF Step
<1>3. QED
  BY <1>1, <1>2, TypeCorrect, EntitlementHolds, PTL DEF Spec, Implements, Registry!Spec
=============================================================================
