------------------------------ MODULE ClientHandle ----------------------------
(***************************************************************************)
(* TwofacedPoker/Network/ClientHandle.cpp: the workers of the server's     *)
(* clients and the registry of rooms they share.                           *)
(*                                                                         *)
(* A worker (ConnectClient) receives a command at a time, serves it in     *)
(* critical sections of the registry and of its room, and when the         *)
(* connection ends leaves its room and stops the connection.  Connections  *)
(* come and go: a client that connects again is a new user, on any handle  *)
(* the system has free.  What a command does inside a room is RoomThreads' *)
(* and GameManager's; here it only has to find the room.                   *)
(***************************************************************************)
EXTENDS RoomRegistry

CONSTANTS Client,     \* connections the server may have at a time
          Handle,     \* values of SOCKET the system hands out
          InvalidSocket

ASSUME ClientAssumption == IsFiniteSet(Client) /\ InvalidSocket \notin Handle

NoRoom == -1

VARIABLES registry,    \* the RoomRegistry and the seats of its rooms
          pc,          \* where each worker stands
          user,        \* userNumber >= 0: has the client logged in?
          roomNumber,  \* the handler's roomNumber
          socket,      \* the handler's copy of the handle
          stopped,     \* Stop has closed the handle: GetSocket is INVALID_SOCKET
          exiting,     \* Handle_Exit_Room's exitingRoomNumber
          listing,     \* listAvailable: rooms of the snapshot not asked yet
          listed,      \* listAvailable: rooms found with a free seat
          open,        \* history: rooms with a free seat all through the listing
          shutdown     \* main accepts no more, StopAll has begun

worker == <<user, roomNumber, socket, stopped, exiting>>
lists == <<listing, listed>>
vars == <<registry, pc, worker, lists, open, shutdown>>

Init ==
    /\ registry = EmptyRegistry
    /\ pc = [c \in Client |-> "absent"]
    /\ user = [c \in Client |-> FALSE]
    /\ roomNumber = [c \in Client |-> NoRoom]
    /\ socket = [c \in Client |-> InvalidSocket]
    /\ stopped = [c \in Client |-> FALSE]
    /\ exiting = [c \in Client |-> NoRoom]
    /\ listing = [c \in Client |-> {}]
    /\ listed = [c \in Client |-> {}]
    /\ open = [c \in Client |-> {}]
    /\ shutdown = FALSE

Goto(c, where) == pc' = [pc EXCEPT ![c] = where]

FreeRooms(reg) == {n \in reg.rooms : HasFreeSeat(reg, n)}

\* A step of a worker, or of main, on the registry: whoever is listing sees
\* only what is free before and after it.
Registry(reg) ==
    /\ registry' = reg
    /\ open' = [c \in Client |-> open[c] \cap FreeRooms(reg)]
    /\ UNCHANGED shutdown

Present(c) == pc[c] # "absent"

\* An open handle is not handed out again.
InUse == {socket[c] : c \in {d \in Client : Present(d) /\ ~ stopped[d]}}
-------------------------------------------------------------------------------
(* The connection begins.                                                  *)

\* main accepts a connection and starts its worker.
Connect(c) ==
    /\ ~ shutdown /\ ~ Present(c)
    /\ \E h \in Handle \ InUse : socket' = [socket EXCEPT ![c] = h]
    /\ Goto(c, "receive")
    /\ UNCHANGED <<user, roomNumber, stopped, exiting, lists>>
    /\ Registry(registry)

\* ReceivePacket returns a command; it is served even if main stops the
\* connection in the meantime.
Receive(c) ==
    /\ pc[c] = "receive" /\ ~ stopped[c]
    /\ Goto(c, "serve")
    /\ UNCHANGED <<worker, lists>>
    /\ Registry(registry)

\* A command that is refused, or that concerns only the inside of the room:
\* its answer changes nothing here.
Answer(c) ==
    /\ pc[c] = "serve"
    /\ Goto(c, "receive")
    /\ UNCHANGED <<worker, lists>>
    /\ Registry(registry)

HandleLogin(c) ==
    /\ pc[c] = "serve" /\ ~ user[c]
    /\ user' = [user EXCEPT ![c] = TRUE]
    /\ Goto(c, "receive")
    /\ UNCHANGED <<roomNumber, socket, stopped, exiting, lists>>
    /\ Registry(registry)
-------------------------------------------------------------------------------
(* Creating and joining a room.                                            *)

\* addUser's checks of the newcomer: its connection is not stopped, and nobody
\* in the room has its user number or its handle.
Welcome(c, members) ==
    ~ stopped[c] /\ \A d \in members : d # c /\ socket[d] # socket[c]

\* A refused command is answered and changes nothing; a create on a stopped
\* connection spends a number.
HandleCreateChattingRoom(c) ==
    /\ pc[c] = "serve" /\ user[c] /\ roomNumber[c] = NoRoom
    /\ registry.next <= MaxRooms
    /\ IF Welcome(c, {})
       THEN /\ roomNumber' = [roomNumber EXCEPT ![c] = registry.next]
            /\ Registry(CreateAndJoin(registry, c))
       ELSE /\ UNCHANGED roomNumber
            /\ Registry(CreateInVain(registry))
    /\ Goto(c, "receive")
    /\ UNCHANGED <<user, socket, stopped, exiting, lists>>

\* Any number may be asked for, one of an old list or one never given out; all
\* but those of rooms with a free seat are refused.
HandleJoinChattingRoom(c, n) ==
    /\ pc[c] = "serve" /\ user[c] /\ roomNumber[c] = NoRoom
    /\ MayJoin(registry, n) /\ Welcome(c, registry.seats[n])
    /\ roomNumber' = [roomNumber EXCEPT ![c] = n]
    /\ Registry(Seat(registry, n, c))
    /\ Goto(c, "receive")
    /\ UNCHANGED <<user, socket, stopped, exiting, lists>>

\* The room the client is in already: it is told the name again, or that the
\* room is gone.
RejoinRoom(c) ==
    /\ pc[c] = "serve" /\ user[c] /\ roomNumber[c] # NoRoom
    /\ roomNumber' = [roomNumber EXCEPT ![c] = IF @ \in registry.rooms THEN @ ELSE NoRoom]
    /\ Goto(c, "receive")
    /\ UNCHANGED <<user, socket, stopped, exiting, lists>>
    /\ Registry(registry)
-------------------------------------------------------------------------------
(* Listing the rooms.                                                      *)

\* listAvailable copies the registered rooms under the mutex ...
Snapshot(c) ==
    /\ pc[c] = "serve"
    /\ Goto(c, "list")
    /\ listing' = [listing EXCEPT ![c] = registry.rooms]
    /\ listed' = [listed EXCEPT ![c] = {}]
    /\ registry' = registry
    /\ open' = [open EXCEPT ![c] = FreeRooms(registry)]
    /\ UNCHANGED <<worker, shutdown>>

\* Mutant of AskRoom: empty rooms, about to be erased, are left out.
AskSharedRoom(c, n) ==
    /\ pc[c] = "list" /\ n \in listing[c]
    /\ \A k \in listing[c] : n <= k
    /\ listing' = [listing EXCEPT ![c] = @ \ {n}]
    /\ listed' = [listed EXCEPT ![c] =
                     IF Cardinality(registry.seats[n]) = 1 THEN @ \cup {n} ELSE @]
    /\ UNCHANGED <<pc, worker>>
    /\ Registry(registry)

\* ... and asks each room of the copy, in order, for its count.
AskRoom(c, n) ==
    /\ pc[c] = "list" /\ n \in listing[c]
    /\ \A k \in listing[c] : n <= k
    /\ listing' = [listing EXCEPT ![c] = @ \ {n}]
    /\ listed' = [listed EXCEPT ![c] =
                     IF HasFreeSeat(registry, n) THEN @ \cup {n} ELSE @]
    /\ UNCHANGED <<pc, worker>>
    /\ Registry(registry)

\* The list, or NO_ROOM, is sent.
SendRoomList(c) ==
    /\ pc[c] = "list" /\ listing[c] = {}
    /\ Goto(c, "receive")
    /\ listed' = [listed EXCEPT ![c] = {}]
    /\ registry' = registry
    /\ open' = [open EXCEPT ![c] = {}]
    /\ UNCHANGED <<worker, listing, shutdown>>
-------------------------------------------------------------------------------
(* Leaving a room and ending the connection.                               *)

\* Where Handle_Exit_Room returns to: the receive loop, or Disconnect.
After(c) == IF pc[c] \in {"serve", "remove", "erase"} THEN "receive" ELSE "stop"

\* Handle_Exit_Room looks the room up and drops the number before it touches
\* the room.
ExitRoom(c, next) ==
    /\ roomNumber[c] # NoRoom
    /\ roomNumber' = [roomNumber EXCEPT ![c] = NoRoom]
    /\ IF roomNumber[c] \in registry.rooms
       THEN /\ exiting' = [exiting EXCEPT ![c] = roomNumber[c]]
            /\ Goto(c, next)
       ELSE UNCHANGED exiting /\ Goto(c, After(c))
    /\ UNCHANGED <<user, socket, stopped, lists>>
    /\ Registry(registry)

HandleExitRoom(c) == pc[c] = "serve" /\ ExitRoom(c, "remove")

\* handlePlayerExit; a worker whose user is not there goes no further.
HandlePlayerExit(c) ==
    /\ pc[c] \in {"remove", "lastRemove"}
    /\ IF c \in registry.seats[exiting[c]]
       THEN /\ Goto(c, IF pc[c] = "remove" THEN "erase" ELSE "lastErase")
            /\ UNCHANGED exiting
       ELSE /\ Goto(c, After(c))
            /\ exiting' = [exiting EXCEPT ![c] = NoRoom]
    /\ UNCHANGED <<user, roomNumber, socket, stopped, lists>>
    /\ Registry(RemoveUser(registry, exiting[c], c))

EraseRoom(c) ==
    /\ pc[c] \in {"erase", "lastErase"}
    /\ Goto(c, After(c))
    /\ exiting' = [exiting EXCEPT ![c] = NoRoom]
    /\ UNCHANGED <<user, roomNumber, socket, stopped, lists>>
    /\ Registry(EraseIfEmpty(registry, exiting[c]))

\* A command of a room finds the room its client is in; if there is none the
\* client is told so and the connection ends.  So it does at Close_Socket.
RoomCommandWithoutRoom(c) ==
    /\ pc[c] = "serve" /\ roomNumber[c] \notin registry.rooms
    /\ Goto(c, "disconnect")
    /\ UNCHANGED <<worker, lists>>
    /\ Registry(registry)

CloseSocket(c) ==
    /\ pc[c] = "serve"
    /\ Goto(c, "disconnect")
    /\ UNCHANGED <<worker, lists>>
    /\ Registry(registry)

\* The client closes, is lost or sends a bad packet, or main has shut its socket
\* down.
ReceiveEnds(c) ==
    /\ pc[c] = "receive"
    /\ Goto(c, "disconnect")
    /\ UNCHANGED <<worker, lists>>
    /\ Registry(registry)

\* Mutant of Disconnect: the connection is stopped without leaving the room.
DisconnectAtOnce(c) ==
    /\ pc[c] = "disconnect"
    /\ Goto(c, "stop")
    /\ UNCHANGED <<worker, lists>>
    /\ Registry(registry)

Disconnect(c) ==
    \/ pc[c] = "disconnect" /\ ExitRoom(c, "lastRemove")
    \/ /\ pc[c] = "disconnect" /\ roomNumber[c] = NoRoom
       /\ Goto(c, "stop")
       /\ UNCHANGED <<worker, lists>>
       /\ Registry(registry)

\* connection->Stop by the worker, whose handler goes: the handle is free.
Stop(c) ==
    /\ pc[c] = "stop"
    /\ Goto(c, "absent")
    /\ user' = [user EXCEPT ![c] = FALSE]
    /\ socket' = [socket EXCEPT ![c] = InvalidSocket]
    /\ stopped' = [stopped EXCEPT ![c] = FALSE]
    /\ UNCHANGED <<roomNumber, exiting, lists>>
    /\ Registry(registry)

\* StopAll begins; then main stops each connection, whatever its worker does.
BeginShutdown ==
    /\ ~ shutdown
    /\ shutdown' = TRUE
    /\ UNCHANGED <<registry, pc, worker, lists, open>>

StopByMain(c) ==
    /\ shutdown /\ Present(c) /\ ~ stopped[c]
    /\ stopped' = [stopped EXCEPT ![c] = TRUE]
    /\ UNCHANGED <<pc, user, roomNumber, socket, exiting, lists>>
    /\ Registry(registry)
-------------------------------------------------------------------------------
\* A worker serves what it has received, and ends once its connection has.
Step(c) ==
    \/ Answer(c) \/ HandleLogin(c) \/ HandleCreateChattingRoom(c)
    \/ \E n \in Made(registry) : HandleJoinChattingRoom(c, n)
    \/ RejoinRoom(c) \/ Snapshot(c) \/ HandleExitRoom(c)
    \/ RoomCommandWithoutRoom(c) \/ CloseSocket(c)
    \/ \E n \in 1..MaxRooms : AskRoom(c, n)
    \/ SendRoomList(c) \/ HandlePlayerExit(c) \/ EraseRoom(c)
    \/ Disconnect(c) \/ Stop(c)
    \/ stopped[c] /\ ReceiveEnds(c)

\* What clients do, if and when they like.
Arrival(c) == Connect(c) \/ Receive(c) \/ ReceiveEnds(c)

Next ==
    \/ \E c \in Client : Step(c) \/ Arrival(c) \/ StopByMain(c)
    \/ BeginShutdown

\* Nothing here has to happen: that a worker whose connection ends does end is
\* ClientWorkerManager's and ClientConnection's matter.
Spec == Init /\ [][Next]_vars
-------------------------------------------------------------------------------
(* Properties.                                                             *)

Places == {"absent", "receive", "serve", "list", "remove", "erase", "disconnect",
           "lastRemove", "lastErase", "stop"}

\* Every variable has its type, no room has a third member.
TypeOK ==
    /\ registry \in [next: 1..(MaxRooms + 1), rooms: SUBSET Made(registry),
                     seats: [Made(registry) -> SUBSET Client]]
    /\ Made(registry) = 1..(registry.next - 1)
    /\ \A n \in Made(registry) : Cardinality(registry.seats[n]) <= 2
    /\ pc \in [Client -> Places]
    /\ user \in [Client -> BOOLEAN]
    /\ roomNumber \in [Client -> Made(registry) \cup {NoRoom}]
    /\ socket \in [Client -> Handle \cup {InvalidSocket}]
    /\ stopped \in [Client -> BOOLEAN]
    /\ exiting \in [Client -> Made(registry) \cup {NoRoom}]
    /\ listing \in [Client -> SUBSET Made(registry)]
    /\ listed \in [Client -> SUBSET Made(registry)]
    /\ open \in [Client -> SUBSET Made(registry)]
    /\ shutdown \in BOOLEAN

\* The room a client thinks of, or is about to leave.
RoomOf(c) == IF pc[c] \in {"remove", "lastRemove"} THEN exiting[c] ELSE roomNumber[c]

\* A client sits in the one room its handler thinks of and in no other, and
\* that room is registered: no command from inside a room is answered with
\* Not_Exist_Room, which would cost the connection (ClientHandle.cpp:82-127),
\* although others leave, join and erase at the same time.
SeatsMatchHandlers ==
    \A c \in Client, n \in Made(registry) :
        /\ c \in registry.seats[n] <=> RoomOf(c) = n
        /\ c \in registry.seats[n] => n \in registry.rooms

\* A room with nobody in it is registered only while the one who left it last
\* is about to erase it: no room leaks when an exit meets a join or another
\* exit (RoomRegistry.cpp:128-150 after GameManager.cpp:32).
NoForgottenRoom ==
    \A n \in registry.rooms : registry.seats[n] = {} =>
        \E c \in Client : pc[c] \in {"erase", "lastErase"} /\ exiting[c] = n

\* A seated client is connected, on a handle that is nobody else's: it leaves
\* its room before its handle is closed and can be given to somebody else, so a
\* room never refuses or removes a newcomer for a ghost's handle (ConnectClient:
\* Disconnect before Stop; addUser and removeUser look users up by handle).
NoGhostHandles ==
    \A c \in Client : (\E n \in Made(registry) : c \in registry.seats[n]) =>
        Present(c) /\ \A d \in Client \ {c} : socket[c] # socket[d]

\* A room that had a free seat all the time is in the list, although the rooms
\* are asked one by one after the registry has been let go
\* (RoomRegistry.cpp:95-125).
ListComplete ==
    \A c \in Client : pc[c] = "list" => open[c] \subseteq listing[c] \cup listed[c]
===============================================================================
