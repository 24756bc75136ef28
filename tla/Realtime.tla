------------------------------ MODULE Realtime ------------------------------
(***************************************************************************)
(* The realtime interface: sockets authenticate, watch accounts and are    *)
(* sent the events the services publish.  A gateway handler awaits the     *)
(* database twice, for the account of the token and for the watched        *)
(* account; other handlers of the same socket, disconnections, service     *)
(* calls and the shutdown of the server run in between.                    *)
(*                                                                         *)
(* Sources: src/api/socket.io, src/events/core/event-bus.ts,               *)
(* src/services/user.service.ts and src/server.ts.  Socket.IO and MongoDB  *)
(* are external.  The role of an account is left out: every role includes  *)
(* USER, the one the gateway asks for.  Who may call which service is the  *)
(* subject of AccessDecision.                                              *)
(*                                                                         *)
(* An account can be named by several texts: idSchema accepts upper-case   *)
(* hexadecimal digits and changes nothing.  MongoDB finds the account by   *)
(* each of them; rooms are named by the text itself.                       *)
(***************************************************************************)
EXTENDS Naturals, FiniteSets

CONSTANTS Users,     \* the accounts there may be, no identifier used twice
          Spellings, \* the ways to write an identifier that idSchema accepts
          Canonical, \* the one of them user.id has
          Sockets,   \* the connections clients may open
          Handlers,  \* slots of gateway handlers in flight
          Calls,     \* slots of service calls in flight
          Events,    \* the events published, a subset of Event
          None       \* no value

\* The text of an identifier, and the one the program writes.
Id == [user: Users, as: Spellings]
id(u) == [user |-> u, as |-> Canonical]

\* The events the bridge listens to, by the rooms they are delivered to.
SelfOnly == {"user.role.updated", "user.password.updated"}
WatchOnly == {"user.status.updated"}
SelfAndWatch == {"user.created", "user.profile.updated", "user.email.updated",
                 "user.username.updated", "user.picture.updated",
                 "user.picture.deleted", "user.deleted"}
Event == {"user.read"} \cup SelfOnly \cup WatchOnly \cup SelfAndWatch

ASSUME EventsAssumption == Events \subseteq Event
ASSUME SpellingAssumption == Canonical \in Spellings
ASSUME NoneAssumption == None \notin Users \cup Sockets \cup Id

VARIABLES accounts, \* the users collection
          sockets,  \* the connections: their state, the account of their token
          rooms,    \* the rooms a socket is in
          handlers,
          calls,
          answers,  \* the ids a client was last told it is subscribed to
          sent,     \* the event the last step published, and the copies each socket got
          bridge,   \* the bridge is subscribed to the event bus
          server

vars == <<accounts, sockets, rooms, handlers, calls, answers, sent, bridge, server>>

Account == {"unborn", "enabled", "disabled", "gone"}
Socket == [state: {"new", "connected", "closed"}, owner: Users \cup {None}]
Room == {"self", "watch"} \X Id

Handler == [pc: {"idle", "auth", "admitted", "refused", "exists", "found"},
            event: {"$connect", "user.subscribe", "user.unsubscribe", None},
            socket: Sockets \cup {None}, target: Id \cup {None}]

Call == [pc: {"idle", "load", "write", "emit"}, event: Event \cup {None},
         actor: Users \cup {None}, target: Id \cup {None}]

Publication == [event: Event \cup {None}, target: Id \cup {None},
                copies: [Sockets -> 0..3]]

IdleHandler == [pc |-> "idle", event |-> None, socket |-> None, target |-> None]
IdleCall == [pc |-> "idle", event |-> None, actor |-> None, target |-> None]
Silence == [event |-> None, target |-> None, copies |-> [s \in Sockets |-> 0]]

\* userRoom, by the text of the id.
self(i) == <<"self", i>>

\* Mutant: one name for both rooms of an account.
watchAsSelf(i) == <<"self", i>>

watch(i) == <<"watch", i>>

Connected(s) == sockets[s].state = "connected"
Exists(u) == accounts[u] \in {"enabled", "disabled"}

Init ==
    /\ accounts \in [Users -> {"unborn", "enabled"}]
    /\ sockets = [s \in Sockets |-> [state |-> "new", owner |-> None]]
    /\ rooms = [s \in Sockets |-> {}]
    /\ handlers = [h \in Handlers |-> IdleHandler]
    /\ calls = [c \in Calls |-> IdleCall]
    /\ answers = [s \in Sockets |-> {}]
    /\ sent = Silence
    /\ bridge = TRUE
    /\ server = "up"

-----------------------------------------------------------------------------
(* Connections                                                             *)

\* Nothing is sent.
Quiet == sent' = Silence

Handle(h, handler) == handlers' = [handlers EXCEPT ![h] = handler]
Await(h, pc) == handlers' = [handlers EXCEPT ![h].pc = pc]

\* BaseGateway.register dispatches $connect; the other events of the socket do
\* not wait for it.
Connect(s, h) ==
    \E u \in Users :
        /\ server # "closed"
        /\ sockets[s].state = "new" /\ handlers[h].pc = "idle"
        /\ accounts[u] # "unborn"
        /\ sockets' = [sockets EXCEPT ![s].state = "connected", ![s].owner = u]
        /\ Handle(h, [pc |-> "auth", event |-> "$connect", socket |-> s, target |-> None])
        /\ UNCHANGED <<accounts, rooms, calls, answers, bridge, server>>
        /\ Quiet

\* Socket.IO takes closed sockets out of their rooms; handlers go on.
Close(closing) ==
    /\ sockets' = [s \in Sockets |->
                     IF s \in closing THEN [sockets[s] EXCEPT !.state = "closed"] ELSE sockets[s]]
    /\ rooms' = [s \in Sockets |-> IF s \in closing THEN {} ELSE rooms[s]]
    /\ answers' = [s \in Sockets |-> IF s \in closing THEN {} ELSE answers[s]]

Disconnect(s) ==
    /\ Connected(s)
    /\ Close({s})
    /\ UNCHANGED <<accounts, handlers, calls, bridge, server>>
    /\ Quiet

\* A client asks to watch an account, or to stop; None is an unusable id.
Request(s, h) ==
    \E event \in {"user.subscribe", "user.unsubscribe"}, target \in Id \cup {None} :
        /\ Connected(s) /\ handlers[h].pc = "idle"
        /\ Handle(h, [pc |-> "auth", event |-> event, socket |-> s, target |-> target])
        /\ UNCHANGED <<accounts, sockets, rooms, calls, answers, bridge, server>>
        /\ Quiet

-----------------------------------------------------------------------------
(* Gateway handlers                                                        *)

\* A request that fails is answered by its error, which changes nothing.
Fail(h) == Handle(h, IdleHandler)

\* Mutant: a client may watch its own account.
CheckAnyTarget(h) ==
    IF handlers[h].target = None THEN Fail(h) ELSE Await(h, "exists")

\* handleRoom, up to the look-up of the target.  A client that spells its own id in
\* another way is not recognized.
CheckTarget(h) ==
    LET handler == handlers[h]
        own == handler.target = id(sockets[handler.socket].owner)
    IN  IF handler.target = None \/ (handler.event = "user.subscribe" /\ own)
        THEN Fail(h)
        ELSE Await(h, "exists")

\* authMiddleware: the token is verified and its account is read; by then the token
\* may have expired, and the database may fail to answer.  An admitted request goes
\* on at once.
Authorize(h) ==
    LET handler == handlers[h] IN
    /\ handler.pc = "auth"
    /\ \/ /\ accounts[sockets[handler.socket].owner] = "enabled"
          /\ IF handler.event = "$connect" THEN Await(h, "admitted") ELSE CheckTarget(h)
       \/ IF handler.event = "$connect" THEN Await(h, "refused") ELSE Fail(h)
    /\ UNCHANGED <<accounts, sockets, rooms, calls, answers, bridge, server>>
    /\ Quiet

\* Mutant: a connection that is refused is only told so.
RefuseOpen(h) ==
    /\ handlers[h].pc = "refused"
    /\ Fail(h)
    /\ UNCHANGED <<accounts, sockets, rooms, calls, answers, bridge, server>>
    /\ Quiet

\* handleError: a connection that is refused is closed.
Refuse(h) ==
    /\ handlers[h].pc = "refused"
    /\ Close({handlers[h].socket})
    /\ Fail(h)
    /\ UNCHANGED <<accounts, calls, bridge, server>>
    /\ Quiet

\* Socket.join, which does nothing on a closed socket.
Join(s, room) == rooms' = IF Connected(s) THEN [rooms EXCEPT ![s] = @ \cup {room}] ELSE rooms

\* connect: the self room.
JoinSelf(h) ==
    LET handler == handlers[h] IN
    /\ handler.pc = "admitted"
    /\ Join(handler.socket, self(id(sockets[handler.socket].owner)))
    /\ Handle(h, IdleHandler)
    /\ UNCHANGED <<accounts, sockets, calls, answers, bridge, server>>
    /\ Quiet

\* UserService.exists, if the database can be read; an absent account is denied.
LookUp(h) ==
    /\ handlers[h].pc = "exists"
    /\ \/ Exists(handlers[h].target.user) /\ Await(h, "found")
       \/ Fail(h)
    /\ UNCHANGED <<accounts, sockets, rooms, calls, answers, bridge, server>>
    /\ Quiet

\* The client gets a positive answer, unless its socket is gone.
Answer(s, i, subscribed) ==
    answers' = IF ~Connected(s) THEN answers
               ELSE IF subscribed THEN [answers EXCEPT ![s] = @ \cup {i}]
               ELSE [answers EXCEPT ![s] = @ \ {i}]

\* Mutant: a client that asked twice is not answered as subscribed.
handleRoomToggling(h) ==
    LET handler == handlers[h]
        s == handler.socket
        room == watch(handler.target)
    IN
    /\ handler.pc = "found"
    /\ IF room \in rooms[s]
       THEN rooms' = [rooms EXCEPT ![s] = @ \ {room}]
       ELSE Join(s, room)
    /\ Answer(s, handler.target, handler.event = "user.subscribe")
    /\ Handle(h, IdleHandler)
    /\ UNCHANGED <<accounts, sockets, calls, bridge, server>>
    /\ Quiet

\* The end of handleRoom: whether the socket is in the room is read, changed and
\* answered at once.
handleRoom(h) ==
    LET handler == handlers[h]
        s == handler.socket
        room == watch(handler.target)
    IN
    /\ handler.pc = "found"
    /\ IF handler.event = "user.subscribe"
       THEN Join(s, room)
       ELSE rooms' = [rooms EXCEPT ![s] = @ \ {room}]
    /\ Answer(s, handler.target, handler.event = "user.subscribe")
    /\ Handle(h, IdleHandler)
    /\ UNCHANGED <<accounts, sockets, calls, bridge, server>>
    /\ Quiet

-----------------------------------------------------------------------------
(* Service calls and the events they publish                               *)

Enter(c, call) == calls' = [calls EXCEPT ![c] = call]
Reach(c, pc) == calls' = [calls EXCEPT ![c].pc = pc]

\* An admitted call of a service, by an account that was enabled when asked; a
\* refused one publishes nothing.
StartCall(c) ==
    \E event \in Events, actor \in Users, target \in Id :
        /\ server # "closed"
        /\ calls[c].pc = "idle"
        /\ accounts[actor] = "enabled"
        /\ (event = "user.created") = (accounts[target.user] = "unborn")
        /\ event = "user.created" =>
             target.as = Canonical /\ \A d \in Calls : calls[d].target # target
        /\ Enter(c, [pc |-> IF event = "user.created" THEN "write" ELSE "load",
                     event |-> event, target |-> target,
                     actor |-> IF event = "user.read" THEN actor ELSE None])
        /\ UNCHANGED <<accounts, sockets, rooms, handlers, answers, bridge, server>>
        /\ Quiet

\* The target is read: an absent one ends the call.
LoadTarget(c) ==
    LET call == calls[c] IN
    /\ call.pc = "load"
    /\ IF ~Exists(call.target.user) THEN Enter(c, IdleCall)
       ELSE Reach(c, IF call.event = "user.read" THEN "emit" ELSE "write")
    /\ UNCHANGED <<accounts, sockets, rooms, handlers, answers, bridge, server>>
    /\ Quiet

\* User.create, updateOne or deleteOne; nothing changes if the target is gone.
Store(c) ==
    LET call == calls[c]
        values == CASE call.event = "user.created" -> {"enabled", "disabled"}
                    [] call.event = "user.deleted" -> {"gone"}
                    [] call.event = "user.status.updated" -> {"enabled", "disabled"}
                    [] OTHER -> {accounts[call.target.user]}
    IN
    /\ call.pc = "write"
    /\ \E value \in values :
         accounts' = IF accounts[call.target.user] = "gone" THEN accounts
                     ELSE [accounts EXCEPT ![call.target.user] = value]
    /\ Reach(c, "emit")
    /\ UNCHANGED <<sockets, rooms, handlers, answers, bridge, server>>
    /\ Quiet

\* SOCKET_EVENT_DELIVERY.
Delivery(event, actor, target) ==
    CASE event = "user.read" -> <<self(id(actor)), self(target), watch(target)>>
      [] event \in SelfOnly -> <<self(target)>>
      [] event \in WatchOnly -> <<watch(target)>>
      [] event \in SelfAndWatch -> <<self(target), watch(target)>>

\* SocketBridge.deliver: one emission per room, to every socket in the room.
Copies(event, actor, target) ==
    LET delivery == Delivery(event, actor, target)
    IN  [s \in Sockets |-> Cardinality({i \in DOMAIN delivery : delivery[i] \in rooms[s]})]

\* How the event names its target: findById and create take the id from the
\* document, the other operations as their caller wrote it.
Named(call) ==
    IF call.event \in {"user.read", "user.created"} THEN id(call.target.user) ELSE call.target

\* EventBus.publish: the bridge delivers before emit returns.
Publish(c) ==
    LET call == calls[c] IN
    /\ call.pc = "emit"
    /\ sent' = [event |-> call.event, target |-> Named(call),
                copies |-> IF bridge THEN Copies(call.event, call.actor, Named(call))
                           ELSE Silence.copies]
    /\ Enter(c, IdleCall)
    /\ UNCHANGED <<accounts, sockets, rooms, handlers, answers, bridge, server>>

-----------------------------------------------------------------------------
(* Shutdown                                                                *)

\* Mutant: the bridge is shut down at once.
SignalUnbridged ==
    /\ server = "up"
    /\ server' = "stopping"
    /\ bridge' = FALSE
    /\ UNCHANGED <<accounts, sockets, rooms, handlers, calls, answers>>
    /\ Quiet

\* gracefulShutdown: the cron scheduler is shut down first, which takes a while;
\* connections that are open when the server stops listening go on meanwhile.
Signal ==
    /\ server = "up"
    /\ server' = "stopping"
    /\ UNCHANGED <<accounts, sockets, rooms, handlers, calls, answers, bridge>>
    /\ Quiet

\* Then gateways, bridge and sockets go at once; calls in flight may go on.
CloseServer ==
    /\ server = "stopping"
    /\ server' = "closed"
    /\ bridge' = FALSE
    /\ Close({s \in Sockets : Connected(s)})
    /\ UNCHANGED <<accounts, handlers, calls>>
    /\ Quiet

-----------------------------------------------------------------------------

Next ==
    \/ \E s \in Sockets, h \in Handlers : Connect(s, h) \/ Request(s, h)
    \/ \E s \in Sockets : Disconnect(s)
    \/ \E h \in Handlers :
         \/ Authorize(h) \/ Refuse(h) \/ JoinSelf(h)
         \/ LookUp(h) \/ handleRoom(h)
    \/ \E c \in Calls : StartCall(c) \/ LoadTarget(c) \/ Store(c) \/ Publish(c)
    \/ Signal
    \/ CloseServer

Spec == Init /\ [][Next]_vars

-----------------------------------------------------------------------------

\* All variables have the declared shapes, and a closed socket stays out of every
\* room, although handlers that were admitted before it closed join later.
TypeOK ==
    /\ accounts \in [Users -> Account]
    /\ sockets \in [Sockets -> Socket]
    /\ rooms \in [Sockets -> SUBSET Room]
    /\ handlers \in [Handlers -> Handler]
    /\ calls \in [Calls -> Call]
    /\ answers \in [Sockets -> SUBSET Id]
    /\ sent \in Publication
    /\ bridge \in BOOLEAN
    /\ server \in {"up", "stopping", "closed"}
    /\ \A s \in Sockets : ~Connected(s) => rooms[s] = {}

\* A client watches the ids it was last told, in whatever order its requests are
\* answered: an answer overtaken by a later join or leave would leave it with
\* events it gave up or without those it waits for.
WatchFollowsAnswer ==
    \A s \in Sockets : Connected(s) =>
        {i \in Id : watch(i) \in rooms[s]} = answers[s]

\* A socket stays connected only as its authenticated owner: once its $connect
\* handler is through it is in the self room or closed, also when its account was
\* disabled or its token expired meanwhile.
OwnersAreReached ==
    \A s \in Sockets :
        Connected(s) /\ (\A h \in Handlers : handlers[h].socket = s => handlers[h].event # "$connect")
            => self(id(sockets[s].owner)) \in rooms[s]

Published == sent'.event # None

\* No socket is sent an event twice, but for user.read, whose reader may be the
\* target or watch it: the self and the watch room of one id share no socket, and
\* an event goes to the rooms of one spelling.
NoDuplicates ==
    [][\A s \in Sockets :
         sent'.copies[s] <= IF sent'.event = "user.read" THEN 2 ELSE 1]_vars

\* Changes of a role or a password are told only to sockets of the account
\* itself, whatever rooms the other sockets have joined.
PrivateToOwner ==
    [][Published /\ sent'.event \in SelfOnly =>
         \A s \in Sockets : sent'.copies[s] > 0 => sockets[s].owner = sent'.target.user]_vars

\* Until the sockets are closed, also while the server waits for its cron jobs,
\* every client that was told it is subscribed to an id is sent the account's events
\* that name it by the same text.
WatchersNotified ==
    [][Published /\ sent'.event \notin SelfOnly =>
         \A s \in Sockets :
           Connected(s) /\ sent'.target \in answers[s] => sent'.copies[s] > 0]_vars

\* Who is told that an account was deleted will not find it any more.
DeletionIsTrue ==
    [][Published /\ sent'.event = "user.deleted" => accounts[sent'.target.user] = "gone"]_vars
=============================================================================
