--------------------------- MODULE RealtimeProofs ---------------------------
(***************************************************************************)
(* Proofs about Realtime, for any accounts, sockets, handlers, calls and   *)
(* events.                                                                 *)
(***************************************************************************)
EXTENDS Realtime, FiniteSetTheorems, TLAPS

\* A self room is named by the owner's id, a watch room by any other text, and a client
\* whose socket is closed was told nothing.
Owned ==
    \A s \in Sockets :
      /\ sockets[s].state # "new" => sockets[s].owner \in Users
      /\ ~Connected(s) => answers[s] = {}
      /\ \A i \in Id : self(i) \in rooms[s] => i = id(sockets[s].owner)
      /\ \A i \in Id : watch(i) \in rooms[s] => i # id(sockets[s].owner)

\* What a handler holds: a socket that has been connected, and, after the checks
\* of handleRoom, an id that is not the client's own as the program writes it.
Handling ==
    \A h \in Handlers :
      \/ handlers[h] = IdleHandler
      \/ /\ handlers[h].pc # "idle"
         /\ handlers[h].socket \in Sockets
         /\ sockets[handlers[h].socket].state # "new"
         /\ handlers[h].pc \in {"exists", "found"} =>
              /\ handlers[h].event # "$connect"
              /\ handlers[h].target \in Id
              /\ handlers[h].event = "user.subscribe" =>
                   handlers[h].target # id(sockets[handlers[h].socket].owner)

\* What a service call holds: a deletion that is to be announced is a fact.
Calling ==
    \A c \in Calls :
      \/ calls[c] = IdleCall
      \/ /\ calls[c].pc # "idle"
         /\ calls[c].event \in Event
         /\ calls[c].event = "user.read" => calls[c].actor \in Users
         /\ calls[c].target \in Id
         /\ calls[c].pc = "emit" /\ calls[c].event = "user.deleted" =>
              accounts[calls[c].target.user] = "gone"

\* Sockets and bridge end together.
Bridged ==
    /\ server # "closed" => bridge
    /\ server = "closed" => \A s \in Sockets : ~Connected(s)

IInv == /\ TypeOK /\ Owned /\ Handling /\ Calling /\ Bridged
        /\ WatchFollowsAnswer /\ OwnersAreReached

-----------------------------------------------------------------------------

\* The first states satisfy the invariant.
LEMMA InitInv == Init => IInv
<1> SUFFICES ASSUME Init PROVE IInv
  OBVIOUS
<1>1. TypeOK
  <2>1. sent \in Publication
    BY DEF Init, Silence, Publication
  <2>2. handlers \in [Handlers -> Handler] /\ calls \in [Calls -> Call]
    BY DEF Init, IdleHandler, Handler, IdleCall, Call
  <2>3. QED
    BY <2>1, <2>2 DEF Init, TypeOK, Account, Socket, Room
<1>2. Owned /\ WatchFollowsAnswer /\ OwnersAreReached /\ Bridged
  BY DEF Init, Owned, WatchFollowsAnswer, OwnersAreReached, Bridged, Connected
<1>3. Handling /\ Calling
  BY DEF Init, Handling, Calling
<1> QED
  BY <1>1, <1>2, <1>3 DEF IInv

\* Admission, where a request goes on to the look-up of an id that is not its own.
LEMMA Authorizing ==
    ASSUME TypeOK, NEW h \in Handlers, Authorize(h)
    PROVE  /\ handlers[h].pc = "auth" /\ UNCHANGED <<sockets, rooms>>
           /\ LET handler == handlers[h] IN
              \/ /\ handler.event = "$connect"
                 /\ \E pc \in {"admitted", "refused"} :
                      handlers' = [handlers EXCEPT ![h].pc = pc]
              \/ /\ handler.event # "$connect"
                 /\ handlers' = [handlers EXCEPT ![h] = IdleHandler]
              \/ /\ handler.event # "$connect"
                 /\ handler.target \in Id
                 /\ handler.event = "user.subscribe" =>
                      handler.target # id(sockets[handler.socket].owner)
                 /\ handlers' = [handlers EXCEPT ![h].pc = "exists"]
BY DEF Authorize, CheckTarget, Fail, Handle, Await, TypeOK, Handler

\* A handler goes on with what it holds.
LEMMA StepHandling ==
    TypeOK /\ Handling /\ [Next]_vars => Handling'
<1> SUFFICES ASSUME TypeOK, Handling, [Next]_vars PROVE Handling'
  OBVIOUS
<1> USE DEF TypeOK, Handling, Handler, Socket, IdleHandler, Connected
<1>1. ASSUME NEW s \in Sockets, NEW h \in Handlers, Connect(s, h) PROVE Handling'
  BY <1>1 DEF Connect, Handle, Await
<1>2. ASSUME NEW s \in Sockets, NEW h \in Handlers, Request(s, h) PROVE Handling'
  BY <1>2 DEF Request, Handle, Await
<1>3. ASSUME NEW s \in Sockets, Disconnect(s) PROVE Handling'
  BY <1>3 DEF Disconnect, Close
<1>4. ASSUME NEW h \in Handlers, Authorize(h) PROVE Handling'
  <2>1. UNCHANGED sockets /\ handlers[h].pc = "auth"
    BY <1>4, Authorizing
  <2>2. CASE handlers' = [handlers EXCEPT ![h] = IdleHandler]
    BY <2>1, <2>2
  <2>3. ASSUME NEW pc \in {"admitted", "refused"}, handlers' = [handlers EXCEPT ![h].pc = pc]
        PROVE  Handling'
    BY <2>1, <2>3
  <2>4. CASE /\ handlers' = [handlers EXCEPT ![h].pc = "exists"]
             /\ handlers[h].event # "$connect" /\ handlers[h].target \in Id
             /\ handlers[h].event = "user.subscribe" =>
                  handlers[h].target # id(sockets[handlers[h].socket].owner)
    BY <2>1, <2>4
  <2>5. QED
    BY <1>4, <2>2, <2>3, <2>4, Authorizing
<1>5. ASSUME NEW h \in Handlers, Refuse(h) PROVE Handling'
  BY <1>5 DEF Refuse, Fail, Handle, Await, Close
<1>6. ASSUME NEW h \in Handlers, JoinSelf(h) PROVE Handling'
  BY <1>6 DEF JoinSelf, Handle, Await, Join
<1>7. ASSUME NEW h \in Handlers, LookUp(h) PROVE Handling'
  <2>1. \/ handlers' = [handlers EXCEPT ![h] = IdleHandler]
        \/ handlers' = [handlers EXCEPT ![h].pc = "found"]
    BY <1>7 DEF LookUp, Await, Fail, Handle
  <2>2. handlers[h].pc = "exists" /\ UNCHANGED sockets
    BY <1>7 DEF LookUp
  <2>3. QED
    BY <2>1, <2>2
<1>8. ASSUME NEW h \in Handlers, handleRoom(h) PROVE Handling'
  BY <1>8 DEF handleRoom, Handle, Await, Join
<1>9. ASSUME NEW c \in Calls, StartCall(c) PROVE Handling'
  BY <1>9 DEF StartCall
<1>10. ASSUME NEW c \in Calls, LoadTarget(c) PROVE Handling'
  BY <1>10 DEF LoadTarget
<1>11. ASSUME NEW c \in Calls, Store(c) PROVE Handling'
  BY <1>11 DEF Store
<1>12. ASSUME NEW c \in Calls, Publish(c) PROVE Handling'
  BY <1>12 DEF Publish
<1>13. CASE Signal
  BY <1>13 DEF Signal
<1>14. CASE CloseServer
  BY <1>14 DEF CloseServer, Close
<1>15. CASE UNCHANGED vars
  BY <1>15 DEF vars
<1> QED
  BY <1>1, <1>2, <1>3, <1>4, <1>5, <1>6, <1>7, <1>8, <1>9,
     <1>10, <1>11, <1>12, <1>13, <1>14, <1>15 DEF Next

\* A service call goes on with what it holds; accounts that are gone stay gone.
LEMMA StepCalling ==
    TypeOK /\ Calling /\ [Next]_vars => Calling'
<1> SUFFICES ASSUME TypeOK, Calling, [Next]_vars PROVE Calling'
  OBVIOUS
<1> USE DEF TypeOK, Calling, Call, Account, IdleCall, Exists
<1>1. ASSUME NEW s \in Sockets, NEW h \in Handlers, Connect(s, h) PROVE Calling'
  BY <1>1 DEF Connect
<1>2. ASSUME NEW s \in Sockets, NEW h \in Handlers, Request(s, h) PROVE Calling'
  BY <1>2 DEF Request
<1>3. ASSUME NEW s \in Sockets, Disconnect(s) PROVE Calling'
  BY <1>3 DEF Disconnect
<1>4. ASSUME NEW h \in Handlers, Authorize(h) PROVE Calling'
  BY <1>4 DEF Authorize
<1>5. ASSUME NEW h \in Handlers, Refuse(h) PROVE Calling'
  BY <1>5 DEF Refuse
<1>6. ASSUME NEW h \in Handlers, JoinSelf(h) PROVE Calling'
  BY <1>6 DEF JoinSelf
<1>7. ASSUME NEW h \in Handlers, LookUp(h) PROVE Calling'
  BY <1>7 DEF LookUp
<1>8. ASSUME NEW h \in Handlers, handleRoom(h) PROVE Calling'
  BY <1>8 DEF handleRoom
<1>9. ASSUME NEW c \in Calls, StartCall(c) PROVE Calling'
  BY <1>9, EventsAssumption DEF StartCall, Enter, Reach
<1>10. ASSUME NEW c \in Calls, LoadTarget(c) PROVE Calling'
  BY <1>10 DEF LoadTarget, Enter, Reach
<1>11. ASSUME NEW c \in Calls, Store(c) PROVE Calling'
  <2>1. calls[c].target.user \in Users
    BY <1>11 DEF Store, Id
  <2>2. QED
    BY <1>11, <2>1 DEF Store, Reach
<1>12. ASSUME NEW c \in Calls, Publish(c) PROVE Calling'
  BY <1>12 DEF Publish, Enter
<1>13. CASE Signal
  BY <1>13 DEF Signal
<1>14. CASE CloseServer
  BY <1>14 DEF CloseServer
<1>15. CASE UNCHANGED vars
  BY <1>15 DEF vars
<1> QED
  BY <1>1, <1>2, <1>3, <1>4, <1>5, <1>6, <1>7, <1>8, <1>9,
     <1>10, <1>11, <1>12, <1>13, <1>14, <1>15 DEF Next

\* The first handler of a socket.
LEMMA Connecting ==
    ASSUME NEW s \in Sockets, NEW h \in Handlers, Connect(s, h)
    PROVE  handlers' = [handlers EXCEPT ![h] =
                          [pc |-> "auth", event |-> "$connect", socket |-> s, target |-> None]]
BY DEF Connect, Handle

\* Handlers keep their shape.
LEMMA StepHandlers ==
    TypeOK /\ Handling /\ [Next]_vars => handlers' \in [Handlers -> Handler]
<1> SUFFICES ASSUME TypeOK, Handling, [Next]_vars PROVE handlers' \in [Handlers -> Handler]
  OBVIOUS
<1> USE DEF TypeOK, Handling, Handler, Socket, IdleHandler, Connected
<1>1. ASSUME NEW s \in Sockets, NEW h \in Handlers, Connect(s, h) PROVE handlers' \in [Handlers -> Handler]
  <2>1. handlers' = [handlers EXCEPT ![h] =
                       [pc |-> "auth", event |-> "$connect", socket |-> s, target |-> None]]
    BY <1>1, Connecting
  <2>2. [pc |-> "auth", event |-> "$connect", socket |-> s, target |-> None] \in Handler
    OBVIOUS
  <2>3. handlers \in [Handlers -> Handler]
    OBVIOUS
  <2>4. QED
    BY <2>1, <2>2, <2>3
<1>2. ASSUME NEW s \in Sockets, NEW h \in Handlers, Request(s, h) PROVE handlers' \in [Handlers -> Handler]
  BY <1>2 DEF Request, Handle, Await
<1>3. ASSUME NEW s \in Sockets, Disconnect(s) PROVE handlers' \in [Handlers -> Handler]
  BY <1>3 DEF Disconnect
<1>4. ASSUME NEW h \in Handlers, Authorize(h) PROVE handlers' \in [Handlers -> Handler]
  <2>1. UNCHANGED sockets /\ handlers[h].pc = "auth"
    BY <1>4, Authorizing
  <2>2. CASE handlers' = [handlers EXCEPT ![h] = IdleHandler]
    BY <2>1, <2>2
  <2>3. ASSUME NEW pc \in {"admitted", "refused"}, handlers' = [handlers EXCEPT ![h].pc = pc]
        PROVE  handlers' \in [Handlers -> Handler]
    BY <2>1, <2>3
  <2>4. CASE /\ handlers' = [handlers EXCEPT ![h].pc = "exists"]
             /\ handlers[h].event # "$connect" /\ handlers[h].target \in Id
             /\ handlers[h].event = "user.subscribe" =>
                  handlers[h].target # id(sockets[handlers[h].socket].owner)
    BY <2>1, <2>4
  <2>5. QED
    BY <1>4, <2>2, <2>3, <2>4, Authorizing
<1>5. ASSUME NEW h \in Handlers, Refuse(h) PROVE handlers' \in [Handlers -> Handler]
  BY <1>5 DEF Refuse, Fail, Handle, Await
<1>6. ASSUME NEW h \in Handlers, JoinSelf(h) PROVE handlers' \in [Handlers -> Handler]
  BY <1>6 DEF JoinSelf, Handle, Await
<1>7. ASSUME NEW h \in Handlers, LookUp(h) PROVE handlers' \in [Handlers -> Handler]
  <2>1. \/ handlers' = [handlers EXCEPT ![h] = IdleHandler]
        \/ handlers' = [handlers EXCEPT ![h].pc = "found"]
    BY <1>7 DEF LookUp, Await, Fail, Handle
  <2>2. QED
    BY <2>1
<1>8. ASSUME NEW h \in Handlers, handleRoom(h) PROVE handlers' \in [Handlers -> Handler]
  BY <1>8 DEF handleRoom, Handle, Await
<1>9. ASSUME NEW c \in Calls, StartCall(c) PROVE handlers' \in [Handlers -> Handler]
  BY <1>9 DEF StartCall
<1>10. ASSUME NEW c \in Calls, LoadTarget(c) PROVE handlers' \in [Handlers -> Handler]
  BY <1>10 DEF LoadTarget
<1>11. ASSUME NEW c \in Calls, Store(c) PROVE handlers' \in [Handlers -> Handler]
  BY <1>11 DEF Store
<1>12. ASSUME NEW c \in Calls, Publish(c) PROVE handlers' \in [Handlers -> Handler]
  BY <1>12 DEF Publish
<1>13. CASE Signal
  BY <1>13 DEF Signal
<1>14. CASE CloseServer
  BY <1>14 DEF CloseServer
<1>15. CASE UNCHANGED vars
  BY <1>15 DEF vars
<1> QED
  BY <1>1, <1>2, <1>3, <1>4, <1>5, <1>6, <1>7, <1>8, <1>9,
     <1>10, <1>11, <1>12, <1>13, <1>14, <1>15 DEF Next

\* Calls and accounts keep their shape.
LEMMA StepCalls ==
    TypeOK /\ Calling /\ [Next]_vars =>
        calls' \in [Calls -> Call] /\ accounts' \in [Users -> Account]
<1> SUFFICES ASSUME TypeOK, Calling, [Next]_vars
             PROVE  calls' \in [Calls -> Call] /\ accounts' \in [Users -> Account]
  OBVIOUS
<1> USE DEF TypeOK, Calling, Call, Account, IdleCall
<1>1. ASSUME NEW c \in Calls, StartCall(c)
      PROVE  calls' \in [Calls -> Call] /\ accounts' \in [Users -> Account]
  BY <1>1, EventsAssumption DEF StartCall, Enter
<1>2. ASSUME NEW c \in Calls, LoadTarget(c)
      PROVE  calls' \in [Calls -> Call] /\ accounts' \in [Users -> Account]
  BY <1>2 DEF LoadTarget, Enter, Reach
<1>3. ASSUME NEW c \in Calls, Store(c)
      PROVE  calls' \in [Calls -> Call] /\ accounts' \in [Users -> Account]
  <2>1. calls[c].target.user \in Users
    BY <1>3 DEF Store, Id
  <2>2. QED
    BY <1>3, <2>1 DEF Store, Reach
<1>4. ASSUME NEW c \in Calls, Publish(c)
      PROVE  calls' \in [Calls -> Call] /\ accounts' \in [Users -> Account]
  BY <1>4 DEF Publish, Enter
<1>5. CASE UNCHANGED <<calls, accounts>>
  BY <1>5
<1> QED
  BY <1>1, <1>2, <1>3, <1>4, <1>5
  DEF Next, vars, Connect, Request, Disconnect, Authorize, Refuse, JoinSelf,
      LookUp, handleRoom, Signal, CloseServer

\* The new value of sockets that are closed.
LEMMA ClosedSockets ==
    ASSUME TypeOK, NEW closing \in SUBSET Sockets, Close(closing)
    PROVE  /\ sockets' \in [Sockets -> Socket]
           /\ \A s \in Sockets :
                /\ sockets'[s].owner = sockets[s].owner
                /\ sockets'[s].state =
                     IF s \in closing THEN "closed" ELSE sockets[s].state
BY DEF TypeOK, Socket, Close

\* Sockets, bridge and server keep their shape, and end together.
LEMMA StepSockets ==
    TypeOK /\ Handling /\ Bridged /\ [Next]_vars =>
        /\ sockets' \in [Sockets -> Socket] /\ bridge' \in BOOLEAN
        /\ server' \in {"up", "stopping", "closed"} /\ Bridged'
<1> DEFINE Goal == /\ sockets' \in [Sockets -> Socket] /\ bridge' \in BOOLEAN
                   /\ server' \in {"up", "stopping", "closed"} /\ Bridged'
<1> SUFFICES ASSUME TypeOK, Handling, Bridged, [Next]_vars PROVE Goal
  OBVIOUS
<1> USE DEF TypeOK, Bridged, Connected
<1>1. ASSUME NEW s \in Sockets, NEW h \in Handlers, Connect(s, h) PROVE Goal
  <2>1. PICK u \in Users : sockets' = [sockets EXCEPT ![s].state = "connected", ![s].owner = u]
    BY <1>1 DEF Connect
  <2>2. server # "closed" /\ UNCHANGED <<bridge, server>>
    BY <1>1 DEF Connect
  <2>3. QED
    BY <2>1, <2>2 DEF Socket
<1>2. ASSUME NEW s \in Sockets, Disconnect(s) PROVE Goal
  <2>1. UNCHANGED <<bridge, server>>
    BY <1>2 DEF Disconnect
  <2>2. QED
    BY <1>2, <2>1, ClosedSockets DEF Disconnect
<1>3. ASSUME NEW h \in Handlers, Refuse(h) PROVE Goal
  <2>1. /\ {handlers[h].socket} \in SUBSET Sockets /\ UNCHANGED <<bridge, server>>
        /\ Close({handlers[h].socket})
    BY <1>3 DEF Refuse, Handling, IdleHandler
  <2>2. /\ sockets' \in [Sockets -> Socket]
        /\ \A s \in Sockets : Connected(s)' => Connected(s)
    BY <2>1, ClosedSockets
  <2>3. QED
    BY <2>1, <2>2
<1>4. CASE CloseServer
  <2> DEFINE all == {s \in Sockets : Connected(s)}
  <2>1. Close(all) /\ bridge' = FALSE /\ server' = "closed"
    BY <1>4 DEF CloseServer
  <2>2. all \in SUBSET Sockets
    OBVIOUS
  <2>3. /\ sockets' \in [Sockets -> Socket]
        /\ \A s \in Sockets : sockets'[s].state = IF s \in all THEN "closed" ELSE sockets[s].state
    BY <2>1, <2>2, ClosedSockets
  <2>4. QED
    BY <2>1, <2>3
<1>5. CASE Signal
  BY <1>5 DEF Signal
<1>6. CASE UNCHANGED <<sockets, bridge, server>>
  BY <1>6
<1> HIDE DEF Goal
<1> QED
  BY <1>1, <1>2, <1>3, <1>4, <1>5, <1>6
  DEF Next, vars, Request, Authorize, JoinSelf, LookUp, handleRoom,
      StartCall, LoadTarget, Store, Publish

\* Rooms and answers keep their shape, and a closed socket has none.
LEMMA StepRooms ==
    TypeOK /\ Handling /\ Owned /\ [Next]_vars =>
        /\ rooms' \in [Sockets -> SUBSET Room]
        /\ answers' \in [Sockets -> SUBSET Id]
        /\ \A t \in Sockets : ~Connected(t)' => rooms'[t] = {} /\ answers'[t] = {}
<1> DEFINE Goal == /\ rooms' \in [Sockets -> SUBSET Room]
                   /\ answers' \in [Sockets -> SUBSET Id]
                   /\ \A t \in Sockets : ~Connected(t)' => rooms'[t] = {} /\ answers'[t] = {}
<1> SUFFICES ASSUME TypeOK, Handling, Owned, [Next]_vars PROVE Goal
  OBVIOUS
<1> USE DEF TypeOK, Handling, Owned, Socket, Room, Connected, self, watch, IdleHandler
<1>1. ASSUME NEW s \in Sockets, NEW h \in Handlers, Connect(s, h) PROVE Goal
  BY <1>1 DEF Connect
<1>2. ASSUME NEW s \in Sockets, Disconnect(s) PROVE Goal
  BY <1>2 DEF Disconnect, Close
<1>3. ASSUME NEW h \in Handlers, Refuse(h) PROVE Goal
  BY <1>3 DEF Refuse, Close
<1>4. ASSUME NEW h \in Handlers, JoinSelf(h) PROVE Goal
  <2>1. id(sockets[handlers[h].socket].owner) \in Id
    BY <1>4, SpellingAssumption DEF JoinSelf, Id, id
  <2>2. QED
    BY <1>4, <2>1 DEF JoinSelf, Join
<1>5. ASSUME NEW h \in Handlers, handleRoom(h) PROVE Goal
  BY <1>5 DEF handleRoom, Join, Answer
<1>6. CASE CloseServer
  BY <1>6 DEF CloseServer, Close
<1>7. CASE UNCHANGED <<sockets, rooms, answers>>
  BY <1>7
<1> HIDE DEF Goal
<1> QED
  BY <1>1, <1>2, <1>3, <1>4, <1>5, <1>6, <1>7
  DEF Next, vars, Request, Authorize, LookUp, StartCall,
      LoadTarget, Store, Publish, Signal

\* Rooms stay with those they are meant for.
LEMMA StepOwned ==
    TypeOK /\ Handling /\ Owned /\ [Next]_vars =>
        Owned'
<1> SUFFICES ASSUME TypeOK, Handling, Owned, [Next]_vars PROVE Owned'
  OBVIOUS
<1> USE DEF TypeOK, Handling, Owned, Socket, Room, Connected, self, watch, IdleHandler
<1>1. ASSUME NEW s \in Sockets, NEW h \in Handlers, Connect(s, h) PROVE Owned'
  BY <1>1 DEF Connect
<1>2. ASSUME NEW s \in Sockets, Disconnect(s) PROVE Owned'
  BY <1>2 DEF Disconnect, Close
<1>3. ASSUME NEW h \in Handlers, Refuse(h) PROVE Owned'
  BY <1>3 DEF Refuse, Close
<1>4. ASSUME NEW h \in Handlers, JoinSelf(h) PROVE Owned'
  BY <1>4 DEF JoinSelf, Join
<1>5. ASSUME NEW h \in Handlers, handleRoom(h) PROVE Owned'
  BY <1>5 DEF handleRoom, Join, Answer
<1>6. CASE CloseServer
  BY <1>6 DEF CloseServer, Close
<1>7. CASE UNCHANGED <<sockets, rooms, answers>>
  BY <1>7
<1> QED
  BY <1>1, <1>2, <1>3, <1>4, <1>5, <1>6, <1>7
  DEF Next, vars, Request, Authorize, LookUp, StartCall,
      LoadTarget, Store, Publish, Signal

\* What a client is told of a room is what the step did to it.
LEMMA StepWatch ==
    TypeOK /\ Handling /\ Owned /\ WatchFollowsAnswer /\ [Next]_vars =>
        WatchFollowsAnswer'
<1> SUFFICES ASSUME TypeOK, Handling, Owned, WatchFollowsAnswer, [Next]_vars PROVE WatchFollowsAnswer'
  OBVIOUS
<1> USE DEF TypeOK, Handling, Owned, WatchFollowsAnswer, Socket, Room, Connected, self, watch, IdleHandler
<1>1. ASSUME NEW s \in Sockets, NEW h \in Handlers, Connect(s, h) PROVE WatchFollowsAnswer'
  BY <1>1 DEF Connect
<1>2. ASSUME NEW s \in Sockets, Disconnect(s) PROVE WatchFollowsAnswer'
  BY <1>2 DEF Disconnect, Close
<1>3. ASSUME NEW h \in Handlers, Refuse(h) PROVE WatchFollowsAnswer'
  BY <1>3 DEF Refuse, Close
<1>4. ASSUME NEW h \in Handlers, JoinSelf(h) PROVE WatchFollowsAnswer'
  BY <1>4 DEF JoinSelf, Join
<1>5. ASSUME NEW h \in Handlers, handleRoom(h) PROVE WatchFollowsAnswer'
  BY <1>5 DEF handleRoom, Join, Answer
<1>6. CASE CloseServer
  BY <1>6 DEF CloseServer, Close
<1>7. CASE UNCHANGED <<sockets, rooms, answers>>
  BY <1>7
<1> QED
  BY <1>1, <1>2, <1>3, <1>4, <1>5, <1>6, <1>7
  DEF Next, vars, Request, Authorize, LookUp, StartCall,
      LoadTarget, Store, Publish, Signal

\* A step that neither closes a socket nor takes a self room away, and ends no
\* $connect handler, leaves the owners where they are.
LEMMA OwnersStay ==
    ASSUME OwnersAreReached, NEW h \in Handlers, UNCHANGED sockets,
           \A g \in Handlers \ {h} : handlers'[g] = handlers[g],
           handlers[h].socket \in Sockets /\ handlers[h].event = "$connect" =>
               handlers'[h].socket = handlers[h].socket /\ handlers'[h].event = "$connect",
           \A s \in Sockets, u \in Users \cup {None} :
             self(id(u)) \in rooms[s] => self(id(u)) \in rooms'[s],
           TypeOK
    PROVE  OwnersAreReached'
<1> SUFFICES ASSUME NEW s \in Sockets, Connected(s),
                    \A g \in Handlers : handlers'[g].socket = s => handlers'[g].event # "$connect"
             PROVE  self(id(sockets[s].owner)) \in rooms'[s]
  BY DEF OwnersAreReached, Connected
<1>1. \A g \in Handlers : handlers[g].socket = s => handlers[g].event # "$connect"
  OBVIOUS
<1>2. self(id(sockets[s].owner)) \in rooms[s]
  BY <1>1 DEF OwnersAreReached
<1>3. sockets[s].owner \in Users \cup {None}
  BY DEF TypeOK, Socket
<1> QED
  BY <1>2, <1>3

\* A socket is left without a $connect handler only in its self room or closed.
LEMMA StepOwners ==
    TypeOK /\ Handling /\ OwnersAreReached /\ [Next]_vars => OwnersAreReached'
<1> SUFFICES ASSUME TypeOK, Handling, OwnersAreReached, [Next]_vars
             PROVE  OwnersAreReached'
  OBVIOUS
<1>1. ASSUME NEW s \in Sockets, NEW h \in Handlers, Connect(s, h) PROVE OwnersAreReached'
  <2>1. PICK u \in Users : sockets' = [sockets EXCEPT ![s].state = "connected", ![s].owner = u]
    BY <1>1 DEF Connect
  <2>2. handlers' = [handlers EXCEPT ![h] =
                       [pc |-> "auth", event |-> "$connect", socket |-> s, target |-> None]]
    BY <1>1, Connecting
  <2>3. handlers[h] = IdleHandler /\ UNCHANGED rooms
    BY <1>1 DEF Connect, Handling
  <2>4. ASSUME NEW t \in Sockets, t # s, Connected(t)',
               \A g \in Handlers : handlers'[g].socket = t => handlers'[g].event # "$connect"
        PROVE  self(id(sockets'[t].owner)) \in rooms'[t]
    <3>1. sockets'[t] = sockets[t]
      BY <2>1, <2>4 DEF TypeOK
    <3>2. \A g \in Handlers : handlers[g].socket = t => handlers[g].event # "$connect"
      BY <2>2, <2>3, <2>4, NoneAssumption DEF TypeOK, IdleHandler
    <3>3. QED
      BY <2>3, <2>4, <3>1, <3>2 DEF OwnersAreReached, Connected
  <2>5. handlers'[h].socket = s /\ handlers'[h].event = "$connect"
    BY <2>2 DEF TypeOK
  <2>6. QED
    BY <2>4, <2>5 DEF OwnersAreReached
<1>2. ASSUME NEW s \in Sockets, NEW h \in Handlers, Request(s, h) PROVE OwnersAreReached'
  <2>1. handlers[h] = IdleHandler /\ UNCHANGED <<sockets, rooms>>
    BY <1>2 DEF Request, Handling
  <2>2. \A g \in Handlers \ {h} : handlers'[g] = handlers[g]
    BY <1>2 DEF Request, Handle, TypeOK
  <2>3. QED
    BY <2>1, <2>2, OwnersStay, NoneAssumption DEF IdleHandler
<1>3. ASSUME NEW h \in Handlers, Authorize(h) PROVE OwnersAreReached'
  <2>1. \A g \in Handlers \ {h} : handlers'[g] = handlers[g]
    BY <1>3, Authorizing DEF TypeOK
  <2>2. handlers[h].event = "$connect" =>
          handlers'[h].socket = handlers[h].socket /\ handlers'[h].event = "$connect"
    BY <1>3, Authorizing DEF TypeOK, Handler
  <2>3. UNCHANGED <<sockets, rooms>>
    BY <1>3, Authorizing
  <2>4. QED
    BY <2>1, <2>2, <2>3, OwnersStay
<1>4. ASSUME NEW h \in Handlers, Refuse(h) PROVE OwnersAreReached'
  <2>1. /\ handlers' = [handlers EXCEPT ![h] = IdleHandler]
        /\ Close({handlers[h].socket})
    BY <1>4 DEF Refuse, Fail, Handle
  <2>2. handlers[h].socket \in Sockets
    BY <1>4 DEF Refuse, Handling, IdleHandler
  <2>3. ASSUME NEW t \in Sockets, Connected(t)',
               \A g \in Handlers : handlers'[g].socket = t => handlers'[g].event # "$connect"
        PROVE  self(id(sockets'[t].owner)) \in rooms'[t]
    <3>1. t # handlers[h].socket
      BY <2>1, <2>2, <2>3, ClosedSockets DEF Connected
    <3>2. sockets'[t] = sockets[t] /\ rooms'[t] = rooms[t]
      BY <2>1, <3>1 DEF Close, TypeOK
    <3>3. \A g \in Handlers : handlers[g].socket = t => handlers[g].event # "$connect"
      BY <2>1, <2>3, <3>1 DEF TypeOK
    <3>4. QED
      BY <2>3, <3>2, <3>3 DEF OwnersAreReached, Connected
  <2>4. QED
    BY <2>3 DEF OwnersAreReached
<1>5. ASSUME NEW h \in Handlers, JoinSelf(h) PROVE OwnersAreReached'
  <2> DEFINE s == handlers[h].socket
  <2>1. /\ handlers' = [handlers EXCEPT ![h] = IdleHandler]
        /\ Join(s, self(id(sockets[s].owner))) /\ UNCHANGED sockets
    BY <1>5 DEF JoinSelf, Handle
  <2>2. s \in Sockets
    BY <1>5 DEF JoinSelf, Handling, IdleHandler
  <2> HIDE DEF s
  <2>3. ASSUME NEW t \in Sockets, t # s, Connected(t),
               \A g \in Handlers : handlers'[g].socket = t => handlers'[g].event # "$connect"
        PROVE  self(id(sockets[t].owner)) \in rooms'[t]
    <3>1. \A g \in Handlers : handlers[g].socket = t => handlers[g].event # "$connect"
      BY <2>1, <2>3 DEF TypeOK, s
    <3>2. QED
      BY <2>1, <2>3, <3>1 DEF OwnersAreReached, Join, TypeOK
  <2>4. Connected(s) => self(id(sockets[s].owner)) \in rooms'[s]
    BY <2>1, <2>2 DEF Join, TypeOK
  <2>5. QED
    BY <2>1, <2>3, <2>4 DEF OwnersAreReached, Connected
<1>6. ASSUME NEW h \in Handlers, LookUp(h) PROVE OwnersAreReached'
  <2>1. \A g \in Handlers \ {h} : handlers'[g] = handlers[g]
    BY <1>6 DEF LookUp, Fail, Handle, Await, TypeOK
  <2>2. UNCHANGED <<sockets, rooms>>
    BY <1>6 DEF LookUp
  <2>3. handlers[h].event # "$connect"
    BY <1>6 DEF LookUp, Handling, IdleHandler
  <2>4. QED
    BY <2>1, <2>2, <2>3, OwnersStay
<1>7. ASSUME NEW h \in Handlers, handleRoom(h) PROVE OwnersAreReached'
  <2>1. (\A g \in Handlers \ {h} : handlers'[g] = handlers[g]) /\ UNCHANGED sockets
    BY <1>7 DEF handleRoom, Handle, TypeOK
  <2>2. handlers[h].event # "$connect" /\ handlers[h].socket \in Sockets
    BY <1>7 DEF handleRoom, Handling, IdleHandler
  <2>3. \A s \in Sockets, u \in Users \cup {None} :
             self(id(u)) \in rooms[s] => self(id(u)) \in rooms'[s]
    BY <1>7, <2>2 DEF handleRoom, Join, TypeOK, self, watch
  <2>4. QED
    BY <2>1, <2>2, <2>3, OwnersStay
<1>8. ASSUME NEW s \in Sockets, Disconnect(s) PROVE OwnersAreReached'
  BY <1>8 DEF Disconnect, Close, TypeOK, OwnersAreReached, Connected
<1>9. CASE CloseServer
  BY <1>9 DEF CloseServer, Close, TypeOK, OwnersAreReached, Connected
<1>10. CASE UNCHANGED <<sockets, handlers, rooms>>
  BY <1>10 DEF OwnersAreReached, Connected
<1> QED
  BY <1>1, <1>2, <1>3, <1>4, <1>5, <1>6, <1>7, <1>8, <1>9, <1>10
  DEF Next, vars, StartCall, LoadTarget, Store, Publish, Signal

-----------------------------------------------------------------------------
(* What a publication sends                                                *)

\* The numbers of copies a list of up to n rooms can lead to.
LEMMA CountsOfRooms ==
    ASSUME NEW n \in Nat \ {0}, NEW T \in SUBSET (1..n)
    PROVE  /\ Cardinality(T) \in 0..n
           /\ T # {} => Cardinality(T) > 0
           /\ \A i \in 1..n : i \notin T => Cardinality(T) <= n - 1
<1>1. IsFiniteSet(1..n) /\ Cardinality(1..n) = n
  BY FS_Interval
<1>2. IsFiniteSet(T) /\ Cardinality(T) <= n /\ Cardinality(T) \in Nat
  BY <1>1, FS_Subset, FS_CardinalityType
<1>3. T # {} => Cardinality(T) # 0
  BY <1>2, FS_EmptySet
<1>4. ASSUME NEW i \in 1..n, i \notin T PROVE Cardinality(T) <= n - 1
  <2>1. IsFiniteSet((1..n) \ {i}) /\ Cardinality((1..n) \ {i}) = n - 1
    BY <1>1, FS_RemoveElement
  <2>2. T \in SUBSET ((1..n) \ {i})
    BY <1>4
  <2>3. Cardinality(T) <= Cardinality((1..n) \ {i})
    BY <2>1, <2>2, FS_Subset
  <2>4. QED
    BY <2>1, <2>3
<1> QED
  BY <1>2, <1>3, <1>4

\* The copies of an event a socket gets, by the rooms it is in.
LEMMA CopiesOfRooms ==
    ASSUME NEW event \in Event, NEW actor, NEW target \in Id, NEW s \in Sockets
    PROVE  LET n == Copies(event, actor, target)[s] IN
           /\ n \in 0..3
           /\ event \in SelfOnly /\ n > 0 => self(target) \in rooms[s]
           /\ event \notin SelfOnly /\ watch(target) \in rooms[s] => n > 0
           /\ ~(self(target) \in rooms[s] /\ watch(target) \in rooms[s]) =>
                n <= IF event = "user.read" THEN 2 ELSE 1
<1> DEFINE delivery == Delivery(event, actor, target)
           T == {i \in DOMAIN delivery : delivery[i] \in rooms[s]}
<1>1. Copies(event, actor, target)[s] = Cardinality(T)
  BY DEF Copies
<1>2. CASE event = "user.read"
  <2>1. delivery = <<self(id(actor)), self(target), watch(target)>>
    BY <1>2 DEF Delivery, SelfOnly, WatchOnly, SelfAndWatch
  <2>2. T \in SUBSET (1..3)
    BY <2>1
  <2>3. /\ watch(target) \in rooms[s] => T # {}
        /\ self(target) \notin rooms[s] => 2 \notin T
        /\ watch(target) \notin rooms[s] => 3 \notin T
    BY <2>1
  <2> HIDE DEF T, delivery
  <2>4. /\ Cardinality(T) \in 0..3
        /\ T # {} => Cardinality(T) > 0
        /\ 2 \notin T \/ 3 \notin T => Cardinality(T) <= 2
    BY <2>2, CountsOfRooms
  <2>5. event \notin SelfOnly
    BY <1>2 DEF SelfOnly
  <2>6. QED
    BY <1>1, <1>2, <2>3, <2>4, <2>5
<1>3. CASE event \in SelfOnly
  <2>1. delivery = <<self(target)>> /\ event # "user.read"
    BY <1>3 DEF Delivery, SelfOnly, WatchOnly, SelfAndWatch
  <2>2. T \in SUBSET (1..1)
    BY <2>1
  <2>3. self(target) \notin rooms[s] => 1 \notin T
    BY <2>1
  <2> HIDE DEF T, delivery
  <2>4. /\ Cardinality(T) \in 0..1
        /\ 1 \notin T => Cardinality(T) <= 0
    BY <2>2, CountsOfRooms
  <2>5. QED
    BY <1>1, <1>3, <2>1, <2>3, <2>4
<1>4. CASE event \in WatchOnly
  <2>1. delivery = <<watch(target)>> /\ event # "user.read" /\ event \notin SelfOnly
    BY <1>4 DEF Delivery, SelfOnly, WatchOnly, SelfAndWatch
  <2>2. T \in SUBSET (1..1)
    BY <2>1
  <2>3. watch(target) \in rooms[s] => T # {}
    BY <2>1
  <2> HIDE DEF T, delivery
  <2>4. /\ Cardinality(T) \in 0..1
        /\ T # {} => Cardinality(T) > 0
    BY <2>2, CountsOfRooms
  <2>5. QED
    BY <1>1, <2>1, <2>3, <2>4
<1>5. CASE event \in SelfAndWatch
  <2>1. delivery = <<self(target), watch(target)>> /\ event # "user.read" /\ event \notin SelfOnly
    BY <1>5 DEF Delivery, SelfOnly, WatchOnly, SelfAndWatch
  <2>2. T \in SUBSET (1..2)
    BY <2>1
  <2>3. /\ watch(target) \in rooms[s] => T # {}
        /\ self(target) \notin rooms[s] => 1 \notin T
        /\ watch(target) \notin rooms[s] => 2 \notin T
    BY <2>1
  <2> HIDE DEF T, delivery
  <2>4. QED
    BY <1>1, <2>1, <2>2, <2>3, CountsOfRooms
<1> QED
  BY <1>2, <1>3, <1>4, <1>5 DEF Event

\* A step is quiet or publishes the event of a call, to the rooms or to nobody.
LEMMA StepSent ==
    ASSUME Calling, [Next]_vars
    PROVE  \/ sent' = Silence
           \/ UNCHANGED vars
           \/ /\ UNCHANGED <<accounts, sockets, rooms, answers, bridge, server>>
              /\ \E c \in Calls :
                   /\ calls[c].event \in Event
                   /\ Named(calls[c]) \in Id
                   /\ calls[c].event = "user.deleted" =>
                        accounts[Named(calls[c]).user] = "gone"
                   /\ sent' = [event |-> calls[c].event, target |-> Named(calls[c]),
                               copies |-> IF bridge
                                          THEN Copies(calls[c].event, calls[c].actor,
                                                      Named(calls[c]))
                                          ELSE Silence.copies]
<1>1. ASSUME NEW c \in Calls, Publish(c)
      PROVE  /\ UNCHANGED <<accounts, sockets, rooms, answers, bridge, server>>
             /\ calls[c].event \in Event
             /\ Named(calls[c]) \in Id
             /\ calls[c].event = "user.deleted" => accounts[Named(calls[c]).user] = "gone"
             /\ sent' = [event |-> calls[c].event, target |-> Named(calls[c]),
                         copies |-> IF bridge
                                    THEN Copies(calls[c].event, calls[c].actor,
                                                Named(calls[c]))
                                    ELSE Silence.copies]
  <2>1. calls[c].pc = "emit"
    BY <1>1 DEF Publish
  <2>2. calls[c] # IdleCall
    BY <2>1 DEF IdleCall
  <2>3. calls[c].target \in Id /\ calls[c].event \in Event
    BY <2>2 DEF Calling
  <2>4. Named(calls[c]) \in Id /\ (calls[c].event = "user.deleted" => Named(calls[c]) = calls[c].target)
    BY <2>3, SpellingAssumption DEF Named, Id, id
  <2>5. QED
    BY <1>1, <2>1, <2>2, <2>3, <2>4 DEF Publish, Calling
<1>2. (\E c \in Calls : Publish(c)) \/ sent' = Silence \/ UNCHANGED vars
  BY DEF Next, Quiet, Connect, Request, Disconnect, Authorize, Refuse, JoinSelf,
         LookUp, handleRoom, StartCall, LoadTarget, Store, Signal,
         CloseServer
<1> QED
  BY <1>1, <1>2

\* The record of what was sent keeps its shape.
LEMMA StepPublication == TypeOK /\ Calling /\ [Next]_vars => sent' \in Publication
<1> SUFFICES ASSUME TypeOK, Calling, [Next]_vars PROVE sent' \in Publication
  OBVIOUS
<1>1. CASE sent' = Silence
  BY <1>1 DEF Silence, Publication
<1>2. CASE UNCHANGED vars
  BY <1>2 DEF vars, TypeOK
<1>3. ASSUME NEW c \in Calls,
             calls[c].event \in Event, Named(calls[c]) \in Id,
             sent' = [event |-> calls[c].event, target |-> Named(calls[c]),
                      copies |-> IF bridge
                                 THEN Copies(calls[c].event, calls[c].actor, Named(calls[c]))
                                 ELSE Silence.copies]
      PROVE  sent' \in Publication
  <2> DEFINE copies == Copies(calls[c].event, calls[c].actor, Named(calls[c]))
  <2>1. \A s \in Sockets : copies[s] \in 0..3
    BY <1>3, CopiesOfRooms
  <2>2. copies \in [Sockets -> 0..3]
    BY <2>1 DEF Copies
  <2>3. Silence.copies \in [Sockets -> 0..3]
    BY DEF Silence
  <2> HIDE DEF copies
  <2>4. sent'.copies \in [Sockets -> 0..3]
    BY <1>3, <2>2, <2>3 DEF copies
  <2>5. QED
    BY <1>3, <2>4 DEF Publication
<1> QED
  BY <1>1, <1>2, <1>3, StepSent

-----------------------------------------------------------------------------

\* Every step keeps the invariant.
LEMMA StepInv == IInv /\ [Next]_vars => IInv'
<1> SUFFICES ASSUME IInv, [Next]_vars PROVE IInv'
  OBVIOUS
<1>1. TypeOK /\ Owned /\ Handling /\ Calling /\ Bridged /\ WatchFollowsAnswer /\ OwnersAreReached
  BY DEF IInv
<1>2. TypeOK'
  BY <1>1, StepHandlers, StepCalls, StepSockets, StepRooms, StepPublication DEF TypeOK
<1> QED
  BY <1>1, <1>2, StepOwned, StepHandling, StepCalling, StepSockets, StepWatch, StepOwners
  DEF IInv

\* The invariant holds for any accounts, sockets, handlers, calls and events.
THEOREM RealtimeInvariant == Spec => []IInv
<1> QED
  BY InitInv, StepInv, PTL DEF Spec

\* The state keeps its shape, and a closed socket stays out of every room.
THEOREM RealtimeTypeCorrect == Spec => []TypeOK
<1>1. IInv => TypeOK
  BY DEF IInv
<1> QED
  BY <1>1, RealtimeInvariant, PTL

\* A client watches exactly what it was last told.
THEOREM WatchesFollow == Spec => []WatchFollowsAnswer
<1>1. IInv => WatchFollowsAnswer
  BY DEF IInv
<1> QED
  BY <1>1, RealtimeInvariant, PTL

\* A connected socket whose $connect handler is through is in its self room.
THEOREM OwnersReached == Spec => []OwnersAreReached
<1>1. IInv => OwnersAreReached
  BY DEF IInv
<1> QED
  BY <1>1, RealtimeInvariant, PTL

\* The copies of a publication, in a state that satisfies the invariant.
LEMMA PublicationsAreRight ==
    IInv /\ [Next]_vars =>
        \/ UNCHANGED vars
        \/ /\ \A s \in Sockets :
                /\ sent'.copies[s] <= IF sent'.event = "user.read" THEN 2 ELSE 1
                /\ Published /\ sent'.event \in SelfOnly /\ sent'.copies[s] > 0 =>
                     sockets[s].owner = sent'.target.user
                /\ Published /\ sent'.event \notin SelfOnly
                     /\ Connected(s) /\ sent'.target \in answers[s] => sent'.copies[s] > 0
           /\ Published /\ sent'.event = "user.deleted" => accounts[sent'.target.user] = "gone"
<1> SUFFICES ASSUME IInv, [Next]_vars, ~UNCHANGED vars
             PROVE  /\ \A s \in Sockets :
                         /\ sent'.copies[s] <= IF sent'.event = "user.read" THEN 2 ELSE 1
                         /\ Published /\ sent'.event \in SelfOnly /\ sent'.copies[s] > 0 =>
                              sockets[s].owner = sent'.target.user
                         /\ Published /\ sent'.event \notin SelfOnly
                              /\ Connected(s) /\ sent'.target \in answers[s] =>
                                sent'.copies[s] > 0
                    /\ Published /\ sent'.event = "user.deleted" =>
                         accounts[sent'.target.user] = "gone"
  OBVIOUS
<1>1. CASE sent' = Silence
  BY <1>1 DEF Silence, Published
<1>2. CASE sent' # Silence
  <2>1. PICK c \in Calls :
          /\ calls[c].event \in Event
          /\ Named(calls[c]) \in Id
          /\ calls[c].event = "user.deleted" => accounts[Named(calls[c]).user] = "gone"
          /\ sent' = [event |-> calls[c].event, target |-> Named(calls[c]),
                      copies |-> IF bridge
                                 THEN Copies(calls[c].event, calls[c].actor, Named(calls[c]))
                                 ELSE Silence.copies]
    BY <1>2, StepSent DEF IInv
  <2>2. /\ sent'.event = calls[c].event /\ sent'.target = Named(calls[c])
        /\ sent'.copies = IF bridge
                          THEN Copies(calls[c].event, calls[c].actor, Named(calls[c]))
                          ELSE Silence.copies
    BY <2>1
  <2>3. ASSUME NEW s \in Sockets
        PROVE  /\ sent'.copies[s] <= IF sent'.event = "user.read" THEN 2 ELSE 1
               /\ sent'.event \in SelfOnly /\ sent'.copies[s] > 0 =>
                    sockets[s].owner = sent'.target.user
               /\ sent'.event \notin SelfOnly /\ Connected(s) /\ sent'.target \in answers[s] =>
                    sent'.copies[s] > 0
    <3> DEFINE target == Named(calls[c])
    <3>0. target = id(sockets[s].owner) => sockets[s].owner = target.user
      BY DEF id
    <3>1. /\ self(target) \in rooms[s] => target = id(sockets[s].owner)
          /\ watch(target) \in rooms[s] => target # id(sockets[s].owner)
      BY <2>1 DEF IInv, Owned
    <3>2. Connected(s) /\ target \in answers[s] => watch(target) \in rooms[s]
      BY <2>1 DEF IInv, WatchFollowsAnswer
    <3>3. CASE bridge
      <4>1. sent'.copies[s] = Copies(calls[c].event, calls[c].actor, target)[s]
        BY <2>2, <3>3
      <4>2. QED
        BY <2>1, <2>2, <3>0, <3>1, <3>2, <4>1, CopiesOfRooms
    <3>4. CASE ~bridge
      <4>1. ~Connected(s)
        BY <3>4 DEF IInv, Bridged
      <4>2. sent'.copies[s] = 0
        BY <2>2, <3>4 DEF Silence
      <4>3. QED
        BY <4>1, <4>2
    <3>5. QED
      BY <3>3, <3>4
  <2>4. QED
    BY <2>1, <2>2, <2>3 DEF Published
<1> QED
  BY <1>1, <1>2

\* No socket is sent an event twice, but for user.read.
THEOREM NoneTwice == Spec => NoDuplicates
<1>1. IInv /\ [Next]_vars =>
        [\A s \in Sockets :
           sent'.copies[s] <= IF sent'.event = "user.read" THEN 2 ELSE 1]_vars
  BY PublicationsAreRight
<1> QED
  BY <1>1, RealtimeInvariant, PTL DEF Spec, NoDuplicates

\* Changes of a role or a password are told to the account itself only.
THEOREM OwnersOnly == Spec => PrivateToOwner
<1>1. IInv /\ [Next]_vars =>
        [Published /\ sent'.event \in SelfOnly =>
           \A s \in Sockets : sent'.copies[s] > 0 => sockets[s].owner = sent'.target.user]_vars
  BY PublicationsAreRight
<1> QED
  BY <1>1, RealtimeInvariant, PTL DEF Spec, PrivateToOwner

\* Every client that was told it is subscribed to an id is sent the account's events that
\* name it by the same text.
THEOREM WatchersAreNotified == Spec => WatchersNotified
<1>1. IInv /\ [Next]_vars =>
        [Published /\ sent'.event \notin SelfOnly =>
           \A s \in Sockets :
             Connected(s) /\ sent'.target \in answers[s] => sent'.copies[s] > 0]_vars
  BY PublicationsAreRight
<1> QED
  BY <1>1, RealtimeInvariant, PTL DEF Spec, WatchersNotified

\* Whoever is told of a deletion will not find the account.
THEOREM DeletionsAreTrue == Spec => DeletionIsTrue
<1>1. IInv /\ [Next]_vars =>
        [Published /\ sent'.event = "user.deleted" => accounts[sent'.target.user] = "gone"]_vars
  BY PublicationsAreRight
<1> QED
  BY <1>1, RealtimeInvariant, PTL DEF Spec, DeletionIsTrue
=============================================================================
