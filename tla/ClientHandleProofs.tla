--------------------------- MODULE ClientHandleProofs --------------------------
(***************************************************************************)
(* Proofs about ClientHandle: for any number of clients, handles and rooms *)
(* the seats of the rooms and the room numbers of the handlers agree, and  *)
(* no room, handle or list entry is forgotten.                             *)
(***************************************************************************)
EXTENDS ClientHandle, FiniteSetTheorems, TLAPS

Exiting == {"remove", "lastRemove", "erase", "lastErase"}

\* What the place of a handler says of its room and its handle.
HandlerInv ==
    /\ \A c \in Client : pc[c] \in Exiting \cup {"absent", "stop"} => roomNumber[c] = NoRoom
    /\ \A c \in Client : pc[c] \in Exiting => exiting[c] \in Made(registry)
    /\ \A c \in Client : socket[c] \in Handle <=> Present(c)
    /\ \A c \in Client : stopped[c] => shutdown
    /\ \A c, d \in Client : c # d /\ Present(c) /\ Present(d) => socket[c] # socket[d]

Inv ==
    /\ TypeOK /\ SeatsMatchHandlers /\ NoForgottenRoom /\ ListComplete
    /\ HandlerInv

\* A seated client has a room number, so it is connected.
LEMMA Ghosts == Inv => NoGhostHandles
BY DEF Inv, TypeOK, SeatsMatchHandlers, HandlerInv, NoGhostHandles, RoomOf,
    NoRoom, Present

LEMMA InitInv == Init => Inv
<1> SUFFICES ASSUME Init PROVE Inv
  OBVIOUS
<1> USE DEF Init, EmptyRegistry, Made, NoRoom
<1>1. TypeOK
  <2>1. 1..(registry.next - 1) = {} /\ Made(registry) = {}
    OBVIOUS
  <2>2. registry \in [next: 1..(MaxRooms + 1), rooms: SUBSET Made(registry),
                      seats: [Made(registry) -> SUBSET Client]]
    BY <2>1, MaxRoomsAssumption
  <2> QED
    BY <2>1, <2>2 DEF TypeOK, Places
<1>2. SeatsMatchHandlers /\ NoForgottenRoom
  BY DEF SeatsMatchHandlers, NoForgottenRoom
<1>3. ListComplete
  BY DEF ListComplete
<1>4. HandlerInv
  BY ClientAssumption DEF HandlerInv, Exiting, Present
<1> QED
  BY <1>1, <1>2, <1>3, <1>4 DEF Inv

LEMMA ConnectInv ==
    ASSUME Inv, NEW c \in Client, Connect(c) PROVE Inv'
<1>1. TypeOK'
  <2>1. registry' = registry /\ shutdown' = shutdown
    BY DEF Connect, Registry
  <2>2. open' \in [Client -> SUBSET Made(registry)]
    BY DEF Inv, TypeOK, Connect, Registry
  <2>3. pc' \in [Client -> Places]
    BY DEF Inv, TypeOK, Connect, Goto, Places
  <2>4. /\ user' \in [Client -> BOOLEAN]
        /\ roomNumber' \in [Client -> Made(registry) \cup {NoRoom}]
        /\ socket' \in [Client -> Handle \cup {InvalidSocket}]
        /\ stopped' \in [Client -> BOOLEAN]
        /\ exiting' \in [Client -> Made(registry) \cup {NoRoom}]
    BY DEF Inv, TypeOK, Connect
  <2>5. listing' \in [Client -> SUBSET Made(registry)] /\ listed' \in [Client -> SUBSET Made(registry)]
    BY DEF Inv, TypeOK, Connect, lists
  <2> QED
    BY <2>1, <2>2, <2>3, <2>4, <2>5 DEF Inv, TypeOK, Made
<1>2. SeatsMatchHandlers'
  BY DEF Inv, Connect, Registry, Goto, SeatsMatchHandlers, RoomOf, Present
<1>3. NoForgottenRoom'
  BY DEF Inv, Connect, Registry, Goto, NoForgottenRoom, Present
<1>4. ListComplete'
  BY DEF Inv, Connect, Registry, Goto, lists, ListComplete
<1>5. HandlerInv'
  BY DEF Inv, Connect, Registry, Goto, InUse, TypeOK, HandlerInv, Exiting,
      Present
<1> QED
  BY <1>1, <1>2, <1>3, <1>4, <1>5 DEF Inv

LEMMA ReceiveInv ==
    ASSUME Inv, NEW c \in Client, Receive(c) PROVE Inv'
<1>1. TypeOK'
  BY DEF Inv, Receive, Registry, Goto, worker, lists, TypeOK, Places
<1>2. SeatsMatchHandlers'
  BY DEF Inv, Receive, Registry, Goto, worker, SeatsMatchHandlers, RoomOf
<1>3. NoForgottenRoom'
  BY DEF Inv, Receive, Registry, Goto, worker, NoForgottenRoom
<1>4. ListComplete'
  BY DEF Inv, Receive, Registry, Goto, lists, ListComplete
<1>5. HandlerInv'
  BY DEF Inv, Receive, Registry, Goto, worker, HandlerInv, Exiting, Present
<1> QED
  BY <1>1, <1>2, <1>3, <1>4, <1>5 DEF Inv

LEMMA AnswerInv ==
    ASSUME Inv, NEW c \in Client, Answer(c) PROVE Inv'
<1>1. TypeOK'
  BY DEF Inv, Answer, Registry, Goto, worker, lists, TypeOK, Places
<1>2. SeatsMatchHandlers'
  BY DEF Inv, Answer, Registry, Goto, worker, SeatsMatchHandlers, RoomOf
<1>3. NoForgottenRoom'
  BY DEF Inv, Answer, Registry, Goto, worker, NoForgottenRoom
<1>4. ListComplete'
  BY DEF Inv, Answer, Registry, Goto, lists, ListComplete
<1>5. HandlerInv'
  BY DEF Inv, Answer, Registry, Goto, worker, HandlerInv, Exiting, Present
<1> QED
  BY <1>1, <1>2, <1>3, <1>4, <1>5 DEF Inv

LEMMA HandleLoginInv ==
    ASSUME Inv, NEW c \in Client, HandleLogin(c) PROVE Inv'
<1>1. TypeOK'
  BY DEF Inv, HandleLogin, Registry, Goto, lists, TypeOK, Places
<1>2. SeatsMatchHandlers'
  BY DEF Inv, HandleLogin, Registry, Goto, SeatsMatchHandlers, RoomOf
<1>3. NoForgottenRoom'
  BY DEF Inv, HandleLogin, Registry, Goto, NoForgottenRoom
<1>4. ListComplete'
  BY DEF Inv, HandleLogin, Registry, Goto, lists, ListComplete
<1>5. HandlerInv'
  BY DEF Inv, HandleLogin, Registry, Goto, HandlerInv, Exiting, Present
<1> QED
  BY <1>1, <1>2, <1>3, <1>4, <1>5 DEF Inv

LEMMA RejoinRoomInv ==
    ASSUME Inv, NEW c \in Client, RejoinRoom(c) PROVE Inv'
<1>1. TypeOK'
  BY DEF Inv, RejoinRoom, Registry, Goto, lists, TypeOK, Places
<1>2. SeatsMatchHandlers'
  BY DEF Inv, RejoinRoom, Registry, Goto, TypeOK, SeatsMatchHandlers, RoomOf
<1>3. NoForgottenRoom'
  BY DEF Inv, RejoinRoom, Registry, Goto, NoForgottenRoom
<1>4. ListComplete'
  BY DEF Inv, RejoinRoom, Registry, Goto, lists, ListComplete
<1>5. HandlerInv'
  BY DEF Inv, RejoinRoom, Registry, Goto, HandlerInv, Exiting, Present
<1> QED
  BY <1>1, <1>2, <1>3, <1>4, <1>5 DEF Inv

LEMMA SnapshotInv ==
    ASSUME Inv, NEW c \in Client, Snapshot(c) PROVE Inv'
<1>1. TypeOK'
  BY DEF Inv, Snapshot, Goto, worker, TypeOK, Places, FreeRooms
<1>2. SeatsMatchHandlers'
  <2>1. registry' = registry /\ roomNumber' = roomNumber /\ exiting' = exiting
    BY DEF Snapshot, worker
  <2>2. \A d \in Client : RoomOf(d)' = RoomOf(d)
    BY <2>1 DEF Inv, TypeOK, Snapshot, Goto, RoomOf
  <2> QED
    BY <2>1, <2>2 DEF Inv, SeatsMatchHandlers, Made
<1>3. NoForgottenRoom'
  BY DEF Inv, Snapshot, Goto, worker, NoForgottenRoom
<1>4. ListComplete'
  BY DEF Inv, Snapshot, Goto, TypeOK, ListComplete, FreeRooms
<1>5. HandlerInv'
  BY DEF Inv, Snapshot, Goto, worker, HandlerInv, Exiting, Present
<1> QED
  BY <1>1, <1>2, <1>3, <1>4, <1>5 DEF Inv

LEMMA SendRoomListInv ==
    ASSUME Inv, NEW c \in Client, SendRoomList(c) PROVE Inv'
<1>1. TypeOK'
  BY DEF Inv, SendRoomList, Goto, worker, TypeOK, Places
<1>2. SeatsMatchHandlers'
  BY DEF Inv, SendRoomList, Goto, worker, SeatsMatchHandlers, RoomOf
<1>3. NoForgottenRoom'
  BY DEF Inv, SendRoomList, Goto, worker, NoForgottenRoom
<1>4. ListComplete'
  BY DEF Inv, SendRoomList, Goto, TypeOK, ListComplete
<1>5. HandlerInv'
  BY DEF Inv, SendRoomList, Goto, worker, HandlerInv, Exiting, Present
<1> QED
  BY <1>1, <1>2, <1>3, <1>4, <1>5 DEF Inv

LEMMA RoomCommandWithoutRoomInv ==
    ASSUME Inv, NEW c \in Client, RoomCommandWithoutRoom(c) PROVE Inv'
<1>1. TypeOK'
  BY DEF Inv, RoomCommandWithoutRoom, Registry, Goto, worker, lists, TypeOK,
      Places
<1>2. SeatsMatchHandlers'
  BY DEF Inv, RoomCommandWithoutRoom, Registry, Goto, worker,
      SeatsMatchHandlers, RoomOf
<1>3. NoForgottenRoom'
  BY DEF Inv, RoomCommandWithoutRoom, Registry, Goto, worker, NoForgottenRoom
<1>4. ListComplete'
  BY DEF Inv, RoomCommandWithoutRoom, Registry, Goto, lists, ListComplete
<1>5. HandlerInv'
  BY DEF Inv, RoomCommandWithoutRoom, Registry, Goto, worker, HandlerInv,
      Exiting, Present
<1> QED
  BY <1>1, <1>2, <1>3, <1>4, <1>5 DEF Inv

LEMMA CloseSocketInv ==
    ASSUME Inv, NEW c \in Client, CloseSocket(c) PROVE Inv'
<1>1. TypeOK'
  BY DEF Inv, CloseSocket, Registry, Goto, worker, lists, TypeOK, Places
<1>2. SeatsMatchHandlers'
  BY DEF Inv, CloseSocket, Registry, Goto, worker, SeatsMatchHandlers, RoomOf
<1>3. NoForgottenRoom'
  BY DEF Inv, CloseSocket, Registry, Goto, worker, NoForgottenRoom
<1>4. ListComplete'
  BY DEF Inv, CloseSocket, Registry, Goto, lists, ListComplete
<1>5. HandlerInv'
  BY DEF Inv, CloseSocket, Registry, Goto, worker, HandlerInv, Exiting, Present
<1> QED
  BY <1>1, <1>2, <1>3, <1>4, <1>5 DEF Inv

LEMMA ReceiveEndsInv ==
    ASSUME Inv, NEW c \in Client, ReceiveEnds(c) PROVE Inv'
<1>1. TypeOK'
  BY DEF Inv, ReceiveEnds, Registry, Goto, worker, lists, TypeOK, Places
<1>2. SeatsMatchHandlers'
  BY DEF Inv, ReceiveEnds, Registry, Goto, worker, SeatsMatchHandlers, RoomOf
<1>3. NoForgottenRoom'
  BY DEF Inv, ReceiveEnds, Registry, Goto, worker, NoForgottenRoom
<1>4. ListComplete'
  BY DEF Inv, ReceiveEnds, Registry, Goto, lists, ListComplete
<1>5. HandlerInv'
  BY DEF Inv, ReceiveEnds, Registry, Goto, worker, HandlerInv, Exiting, Present
<1> QED
  BY <1>1, <1>2, <1>3, <1>4, <1>5 DEF Inv

LEMMA StopInv ==
    ASSUME Inv, NEW c \in Client, Stop(c) PROVE Inv'
<1>1. TypeOK'
  BY DEF Inv, Stop, Registry, Goto, lists, TypeOK, Places
<1>2. SeatsMatchHandlers'
  BY DEF Inv, Stop, Registry, Goto, SeatsMatchHandlers, RoomOf
<1>3. NoForgottenRoom'
  BY DEF Inv, Stop, Registry, Goto, NoForgottenRoom
<1>4. ListComplete'
  BY DEF Inv, Stop, Registry, Goto, lists, ListComplete
<1>5. HandlerInv'
  BY ClientAssumption DEF Inv, Stop, Registry, Goto, TypeOK, HandlerInv,
      Exiting, Present
<1> QED
  BY <1>1, <1>2, <1>3, <1>4, <1>5 DEF Inv

LEMMA StopByMainInv ==
    ASSUME Inv, NEW c \in Client, StopByMain(c) PROVE Inv'
<1>1. TypeOK'
  BY DEF Inv, StopByMain, Registry, lists, TypeOK
<1>2. SeatsMatchHandlers'
  BY DEF Inv, StopByMain, Registry, SeatsMatchHandlers, RoomOf
<1>3. NoForgottenRoom'
  BY DEF Inv, StopByMain, Registry, NoForgottenRoom
<1>4. ListComplete'
  BY DEF Inv, StopByMain, Registry, lists, ListComplete
<1>5. HandlerInv'
  BY DEF Inv, StopByMain, Registry, HandlerInv, Present
<1> QED
  BY <1>1, <1>2, <1>3, <1>4, <1>5 DEF Inv

\* The room number of a handler is that of a registered room it sits in, so an
\* exit always finds its room.
LEMMA ExitRoomInv ==
    ASSUME Inv, NEW c \in Client,
           NEW next \in {"remove", "lastRemove"}, pc[c] \in {"serve", "disconnect"},
           ExitRoom(c, next)
    PROVE  Inv'
<1>a. /\ roomNumber[c] \in Made(registry)
      /\ roomNumber[c] \in registry.rooms
  <2>1. roomNumber[c] \in Made(registry) /\ RoomOf(c) = roomNumber[c]
    BY DEF Inv, TypeOK, ExitRoom, RoomOf
  <2> QED
    BY <2>1 DEF Inv, SeatsMatchHandlers
<1>b. /\ pc' = [pc EXCEPT ![c] = next]
      /\ roomNumber' = [roomNumber EXCEPT ![c] = NoRoom]
      /\ exiting' = [exiting EXCEPT ![c] = roomNumber[c]]
      /\ UNCHANGED <<registry, user, socket, stopped, listing, listed, shutdown>>
      /\ open' = [d \in Client |-> open[d] \cap FreeRooms(registry)]
  BY <1>a DEF ExitRoom, Goto, Registry, lists
<1>1. TypeOK'
  BY <1>a, <1>b DEF Inv, TypeOK, Places, Made
<1>2. SeatsMatchHandlers'
  <2>1. \A d \in Client : RoomOf(d)' = RoomOf(d)
    BY <1>b DEF Inv, TypeOK, RoomOf
  <2> QED
    BY <2>1, <1>b DEF Inv, SeatsMatchHandlers, Made
<1>3. NoForgottenRoom'
  BY <1>b DEF Inv, TypeOK, NoForgottenRoom
<1>4. ListComplete'
  BY <1>b DEF Inv, TypeOK, ListComplete
<1>5. HandlerInv'
  <2>1. \A d \in Client : Present(d)' <=> Present(d)
    BY <1>b DEF Inv, TypeOK, Present
  <2>2. \A d \in Client : pc'[d] \in Exiting \cup {"absent", "stop"} => roomNumber'[d] = NoRoom
    BY <1>b DEF Inv, TypeOK, HandlerInv
  <2>3. \A d \in Client : pc'[d] \in Exiting => exiting'[d] \in Made(registry)
    BY <1>a, <1>b DEF Inv, TypeOK, HandlerInv
  <2> QED
    BY <1>b, <2>1, <2>2, <2>3 DEF Inv, HandlerInv, Made
<1> QED
  BY <1>1, <1>2, <1>3, <1>4, <1>5 DEF Inv

LEMMA HandleExitRoomInv ==
    ASSUME Inv, NEW c \in Client, HandleExitRoom(c) PROVE Inv'
<1> QED
  BY ExitRoomInv DEF HandleExitRoom

LEMMA DisconnectInv ==
    ASSUME Inv, NEW c \in Client, Disconnect(c) PROVE Inv'
<1>1. CASE pc[c] = "disconnect" /\ ExitRoom(c, "lastRemove")
  BY <1>1, ExitRoomInv
<1>2. CASE /\ pc[c] = "disconnect" /\ roomNumber[c] = NoRoom
           /\ Goto(c, "stop") /\ UNCHANGED <<worker, lists>> /\ Registry(registry)
  <2> USE <1>2 DEF Goto, worker, lists, Registry
  <2>1. TypeOK'
    BY DEF Inv, TypeOK, Places, Made
  <2>2. SeatsMatchHandlers'
    BY DEF Inv, TypeOK, SeatsMatchHandlers, RoomOf
  <2>3. NoForgottenRoom'
    BY DEF Inv, TypeOK, NoForgottenRoom
  <2>4. ListComplete'
    BY DEF Inv, TypeOK, ListComplete
  <2>5. HandlerInv'
    BY DEF Inv, TypeOK, HandlerInv, Exiting, Present
  <2> QED
    BY <2>1, <2>2, <2>3, <2>4, <2>5 DEF Inv
<1> QED
  BY <1>1, <1>2 DEF Disconnect

LEMMA AskRoomInv ==
    ASSUME Inv, NEW c \in Client, NEW n, AskRoom(c, n) PROVE Inv'
<1>1. TypeOK'
  <2>1. registry' = registry /\ shutdown' = shutdown
    BY DEF AskRoom, Registry
  <2>2. open' \in [Client -> SUBSET Made(registry)]
    BY DEF Inv, TypeOK, AskRoom, Registry
  <2>3. pc' \in [Client -> Places]
    BY DEF Inv, TypeOK, AskRoom
  <2>4. /\ user' \in [Client -> BOOLEAN]
        /\ roomNumber' \in [Client -> Made(registry) \cup {NoRoom}]
        /\ socket' \in [Client -> Handle \cup {InvalidSocket}]
        /\ stopped' \in [Client -> BOOLEAN]
        /\ exiting' \in [Client -> Made(registry) \cup {NoRoom}]
    BY DEF Inv, TypeOK, AskRoom, worker
  <2>5. listing' \in [Client -> SUBSET Made(registry)] /\ listed' \in [Client -> SUBSET Made(registry)]
    BY DEF Inv, TypeOK, AskRoom
  <2> QED
    BY <2>1, <2>2, <2>3, <2>4, <2>5 DEF Inv, TypeOK, Made
<1>2. SeatsMatchHandlers'
  BY DEF Inv, AskRoom, Registry, worker, SeatsMatchHandlers, RoomOf
<1>3. NoForgottenRoom'
  BY DEF Inv, AskRoom, Registry, worker, NoForgottenRoom
<1>4. ListComplete'
  BY DEF Inv, AskRoom, Registry, TypeOK, ListComplete, FreeRooms
<1>5. HandlerInv'
  BY DEF Inv, AskRoom, Registry, worker, HandlerInv, Present
<1> QED
  BY <1>1, <1>2, <1>3, <1>4, <1>5 DEF Inv

LEMMA BeginShutdownInv ==
    ASSUME Inv, BeginShutdown PROVE Inv'
<1>1. TypeOK'
  BY DEF Inv, BeginShutdown, worker, lists, TypeOK
<1>2. SeatsMatchHandlers'
  BY DEF Inv, BeginShutdown, worker, SeatsMatchHandlers, RoomOf
<1>3. NoForgottenRoom'
  BY DEF Inv, BeginShutdown, worker, NoForgottenRoom
<1>4. ListComplete'
  BY DEF Inv, BeginShutdown, lists, ListComplete
<1>5. HandlerInv'
  BY DEF Inv, BeginShutdown, worker, HandlerInv, Present
<1> QED
  BY <1>1, <1>2, <1>3, <1>4, <1>5 DEF Inv

(***************************************************************************)
(* The steps that change rooms.                                            *)
(***************************************************************************)

\* A new room, joined by its maker or made in vain.
LEMMA HandleCreateChattingRoomInv ==
    ASSUME Inv, NEW c \in Client, HandleCreateChattingRoom(c) PROVE Inv'
<1> DEFINE n == registry.next
           welcome == Welcome(c, {})
           reg == IF welcome THEN CreateAndJoin(registry, c) ELSE CreateInVain(registry)
<1>0. n \in 1..MaxRooms /\ n \in Nat /\ n \notin Made(registry) /\ NoRoom # n
  BY DEF Inv, TypeOK, NoRoom, HandleCreateChattingRoom
<1>1. /\ reg.next = n + 1
      /\ reg.rooms = registry.rooms \cup (IF welcome THEN {n} ELSE {})
      /\ Made(reg) = Made(registry) \cup {n}
      /\ reg.seats[n] = IF welcome THEN {c} ELSE {}
      /\ \A k \in Made(registry) : reg.seats[k] = registry.seats[k]
  BY <1>0 DEF CreateAndJoin, CreateInVain, Made
<1>2. /\ reg \in [next: 1..(MaxRooms + 1), rooms: SUBSET Made(reg),
                  seats: [Made(reg) -> SUBSET Client]]
      /\ Made(reg) = 1..(reg.next - 1)
  <2>1. reg.next \in 1..(MaxRooms + 1)
    BY <1>0, <1>1, MaxRoomsAssumption
  <2>2. reg.rooms \in SUBSET Made(reg)
    BY <1>1 DEF Inv, TypeOK
  <2>3. reg.seats \in [Made(reg) -> SUBSET Client]
    BY <1>0 DEF Inv, TypeOK, CreateAndJoin, CreateInVain, Made
  <2>4. Made(reg) = 1..(reg.next - 1)
    <3>1. Made(registry) = 1..(n - 1)
      BY DEF Inv, TypeOK
    <3>2. n \in Nat /\ n >= 1
      BY <1>0, MaxRoomsAssumption
    <3>3. reg.next - 1 = n
      BY <3>2, <1>1
    <3> HIDE DEF n, reg
    <3>4. 1..n = 1..(n - 1) \cup {n}
      BY <3>2
    <3> QED
      BY <3>1, <3>3, <3>4, <1>1
  <2> QED
    BY <2>1, <2>2, <2>3, <2>4 DEF CreateAndJoin, CreateInVain
<1>3. /\ registry' = reg /\ shutdown' = shutdown
      /\ open' = [d \in Client |-> open[d] \cap FreeRooms(reg)]
      /\ pc[c] = "serve" /\ pc' = [pc EXCEPT ![c] = "receive"]
      /\ roomNumber[c] = NoRoom
      /\ roomNumber' = IF welcome THEN [roomNumber EXCEPT ![c] = n] ELSE roomNumber
      /\ UNCHANGED <<user, socket, stopped, exiting, listing, listed>>
  BY DEF Registry, HandleCreateChattingRoom, Goto, lists
<1> HIDE DEF n, reg, welcome
<1>4. /\ open' \in [Client -> SUBSET Made(reg)]
      /\ \A d \in Client : open'[d] \subseteq open[d]
  BY <1>2, <1>3 DEF FreeRooms
<1>5. \A d \in Client : RoomOf(d)' = IF d = c /\ welcome THEN n ELSE RoomOf(d)
  BY <1>3 DEF Inv, TypeOK, RoomOf
<1>6. \A d \in Client : RoomOf(d) \in Made(registry) \cup {NoRoom}
  BY DEF Inv, TypeOK, RoomOf
<1>7. RoomOf(c) = NoRoom /\ NoRoom \notin Made(registry)
  BY <1>3 DEF RoomOf, Inv, TypeOK, NoRoom
<1>8. Cardinality({c}) = 1 /\ Cardinality({}) = 0
  BY FS_Singleton, FS_EmptySet
<1>a. TypeOK'
  <2>1. \A k \in Made(reg) : Cardinality(reg.seats[k]) <= 2
    BY <1>1, <1>8 DEF Inv, TypeOK
  <2>2. pc' \in [Client -> Places]
    BY <1>3 DEF Inv, TypeOK, Places
  <2>3. roomNumber' \in [Client -> Made(reg) \cup {NoRoom}]
    BY <1>1, <1>3 DEF Inv, TypeOK
  <2>4. /\ exiting' \in [Client -> Made(reg) \cup {NoRoom}]
        /\ listing' \in [Client -> SUBSET Made(reg)]
        /\ listed' \in [Client -> SUBSET Made(reg)]
    BY <1>1, <1>3 DEF Inv, TypeOK
  <2> QED
    BY <1>2, <1>3, <1>4, <2>1, <2>2, <2>3, <2>4 DEF Inv, TypeOK, Made
<1>b. SeatsMatchHandlers'
  <2> SUFFICES ASSUME NEW d \in Client, NEW k \in Made(reg)
               PROVE  /\ d \in reg.seats[k] <=> RoomOf(d)' = k
                      /\ d \in reg.seats[k] => k \in reg.rooms
    BY <1>3 DEF SeatsMatchHandlers, Made
  <2>1. CASE k = n
    BY <2>1, <1>0, <1>1, <1>5, <1>6
  <2>2. CASE k \in Made(registry)
    BY <2>2, <1>0, <1>1, <1>5, <1>7 DEF Inv, SeatsMatchHandlers
  <2> QED
    BY <2>1, <2>2, <1>1
<1>c. NoForgottenRoom'
  <2> SUFFICES ASSUME NEW k \in reg.rooms, reg.seats[k] = {}
               PROVE  \E d \in Client : pc'[d] \in {"erase", "lastErase"} /\ exiting'[d] = k
    BY <1>3 DEF NoForgottenRoom
  <2>1. k \in registry.rooms /\ k \in Made(registry)
    BY <1>1 DEF Inv, TypeOK
  <2>2. PICK d \in Client : pc[d] \in {"erase", "lastErase"} /\ exiting[d] = k
    BY <2>1, <1>1 DEF Inv, NoForgottenRoom
  <2> QED
    BY <2>2, <1>3 DEF Inv, TypeOK
<1>d. ListComplete'
  BY <1>3, <1>4 DEF Inv, TypeOK, ListComplete
<1>e. HandlerInv'
  BY <1>1, <1>3 DEF Inv, TypeOK, HandlerInv, Present, Exiting
<1> QED
  BY <1>a, <1>b, <1>c, <1>d, <1>e DEF Inv

\* A seat is taken in a registered room.
LEMMA HandleJoinChattingRoomInv ==
    ASSUME Inv, NEW c \in Client, NEW n \in Made(registry), HandleJoinChattingRoom(c, n)
    PROVE  Inv'
<1> DEFINE reg == Seat(registry, n, c)
<1>0. n \in registry.rooms /\ Cardinality(registry.seats[n]) < 2
  BY DEF HandleJoinChattingRoom, MayJoin, HasFreeSeat
<1>1. /\ reg.next = registry.next /\ reg.rooms = registry.rooms
      /\ Made(reg) = Made(registry)
      /\ \A k \in Made(registry) :
            reg.seats[k] = IF k = n THEN registry.seats[n] \cup {c} ELSE registry.seats[k]
      /\ reg \in [next: 1..(MaxRooms + 1), rooms: SUBSET Made(registry),
                  seats: [Made(registry) -> SUBSET Client]]
  BY <1>0 DEF Inv, TypeOK, Seat, Made
<1>2. /\ registry' = reg /\ shutdown' = shutdown
      /\ open' = [d \in Client |-> open[d] \cap FreeRooms(reg)]
      /\ pc[c] = "serve" /\ pc' = [pc EXCEPT ![c] = "receive"]
      /\ roomNumber[c] = NoRoom /\ roomNumber' = [roomNumber EXCEPT ![c] = n]
      /\ UNCHANGED <<user, socket, stopped, exiting, listing, listed>>
  BY DEF Registry, HandleJoinChattingRoom, Goto, lists
<1> HIDE DEF reg
<1>3. /\ open' \in [Client -> SUBSET Made(registry)]
      /\ \A d \in Client : open'[d] \subseteq open[d]
  BY <1>1, <1>2 DEF FreeRooms
<1>4. \A d \in Client : RoomOf(d)' = IF d = c THEN n ELSE RoomOf(d)
  BY <1>2 DEF Inv, TypeOK, RoomOf
<1>5. RoomOf(c) = NoRoom /\ NoRoom \notin Made(registry)
  BY <1>2 DEF RoomOf, Inv, TypeOK, NoRoom
<1>a. TypeOK'
  <2>1. \A k \in Made(reg) : Cardinality(reg.seats[k]) <= 2
    <3>1. IsFiniteSet(registry.seats[n])
      BY ClientAssumption, FS_Subset DEF Inv, TypeOK
    <3>2. Cardinality(registry.seats[n]) \in Nat
      BY <3>1, FS_CardinalityType
    <3>3. Cardinality(registry.seats[n] \cup {c}) = Cardinality(registry.seats[n])
          \/ Cardinality(registry.seats[n] \cup {c}) = Cardinality(registry.seats[n]) + 1
      BY <3>1, FS_AddElement
    <3>4. Cardinality(registry.seats[n] \cup {c}) <= 2
      BY <1>0, <3>2, <3>3
    <3> QED
      BY <1>1, <3>4 DEF Inv, TypeOK
  <2> QED
    BY <1>1, <1>2, <1>3, <2>1 DEF Inv, TypeOK, Made, Places
<1>b. SeatsMatchHandlers'
  BY <1>0, <1>1, <1>2, <1>4, <1>5 DEF Inv, SeatsMatchHandlers, Made
<1>c. NoForgottenRoom'
  <2>1. ASSUME NEW k \in registry.rooms, reg.seats[k] = {}
        PROVE  \E d \in Client : pc'[d] \in {"erase", "lastErase"} /\ exiting[d] = k
    <3>1. k \in Made(registry) /\ registry.seats[k] = {}
      BY <1>1, <2>1 DEF Inv, TypeOK
    <3>2. PICK d \in Client : pc[d] \in {"erase", "lastErase"} /\ exiting[d] = k
      BY <3>1 DEF Inv, NoForgottenRoom
    <3> QED
      BY <1>2, <3>2 DEF Inv, TypeOK
  <2> QED
    BY <1>1, <1>2, <2>1 DEF NoForgottenRoom
<1>d. ListComplete'
  BY <1>2, <1>3 DEF Inv, TypeOK, ListComplete
<1>e. HandlerInv'
  BY <1>1, <1>2 DEF Inv, TypeOK, HandlerInv, Present, Exiting
<1> QED
  BY <1>a, <1>b, <1>c, <1>d, <1>e DEF Inv

\* A seat is given up; whoever does so erases the room next.
LEMMA HandlePlayerExitInv ==
    ASSUME Inv, NEW c \in Client, HandlePlayerExit(c) PROVE Inv'
<1> DEFINE n == exiting[c]
           reg == RemoveUser(registry, n, c)
<1>0. n \in Made(registry) /\ RoomOf(c) = n /\ c \in registry.seats[n]
  BY DEF HandlePlayerExit, Inv, HandlerInv, SeatsMatchHandlers, RoomOf, Exiting
<1>1. /\ reg.next = registry.next /\ reg.rooms = registry.rooms
      /\ Made(reg) = Made(registry)
      /\ \A k \in Made(registry) :
            reg.seats[k] = IF k = n THEN registry.seats[n] \ {c} ELSE registry.seats[k]
      /\ reg \in [next: 1..(MaxRooms + 1), rooms: SUBSET Made(registry),
                  seats: [Made(registry) -> SUBSET Client]]
  BY <1>0 DEF Inv, TypeOK, RemoveUser, Made
<1>2. /\ registry' = reg /\ shutdown' = shutdown
      /\ open' = [d \in Client |-> open[d] \cap FreeRooms(reg)]
      /\ pc[c] \in {"remove", "lastRemove"}
      /\ pc' = [pc EXCEPT ![c] = IF pc[c] = "remove" THEN "erase" ELSE "lastErase"]
      /\ UNCHANGED <<user, roomNumber, socket, stopped, exiting, listing, listed>>
  BY <1>0 DEF Registry, HandlePlayerExit, Goto, lists
<1> HIDE DEF reg
<1>3. /\ open' \in [Client -> SUBSET Made(registry)]
      /\ \A d \in Client : open'[d] \subseteq open[d]
  BY <1>1, <1>2 DEF FreeRooms
<1>4. \A d \in Client : RoomOf(d)' = IF d = c THEN NoRoom ELSE RoomOf(d)
  BY <1>2 DEF Inv, TypeOK, HandlerInv, RoomOf, Exiting
<1>5. NoRoom \notin Made(registry)
  BY DEF Inv, TypeOK, NoRoom
<1>a. TypeOK'
  <2>1. \A k \in Made(reg) : Cardinality(reg.seats[k]) <= 2
    <3>1. IsFiniteSet(registry.seats[n])
      BY <1>0, ClientAssumption, FS_Subset DEF Inv, TypeOK
    <3>2. Cardinality(registry.seats[n] \ {c}) <= Cardinality(registry.seats[n])
      BY <3>1, FS_Subset
    <3>3. Cardinality(registry.seats[n]) <= 2 /\ Cardinality(registry.seats[n]) \in Nat
          /\ Cardinality(registry.seats[n] \ {c}) \in Nat
      BY <1>0, <3>1, FS_CardinalityType, FS_Subset DEF Inv, TypeOK
    <3> QED
      BY <1>1, <3>2, <3>3 DEF Inv, TypeOK
  <2> QED
    BY <1>1, <1>2, <1>3, <2>1 DEF Inv, TypeOK, Made, Places
<1>b. SeatsMatchHandlers'
  BY <1>0, <1>1, <1>2, <1>4, <1>5 DEF Inv, SeatsMatchHandlers, Made
<1>c. NoForgottenRoom'
  <2> SUFFICES ASSUME NEW k \in reg.rooms, reg.seats[k] = {}
               PROVE  \E d \in Client : pc'[d] \in {"erase", "lastErase"} /\ exiting'[d] = k
    BY <1>2 DEF NoForgottenRoom
  <2>1. CASE k = n
    BY <2>1, <1>2 DEF Inv, TypeOK
  <2>2. CASE k # n
    <3>1. k \in registry.rooms /\ registry.seats[k] = {}
      BY <2>2, <1>1 DEF Inv, TypeOK
    <3>2. PICK d \in Client : pc[d] \in {"erase", "lastErase"} /\ exiting[d] = k
      BY <3>1 DEF Inv, NoForgottenRoom
    <3> QED
      BY <3>2, <1>2 DEF Inv, TypeOK
  <2> QED
    BY <2>1, <2>2
<1>d. ListComplete'
  BY <1>2, <1>3 DEF Inv, TypeOK, ListComplete
<1>e. HandlerInv'
  BY <1>1, <1>2 DEF Inv, TypeOK, HandlerInv, Present, Exiting
<1> QED
  BY <1>a, <1>b, <1>c, <1>d, <1>e DEF Inv

\* An empty room goes; one that has been joined in the meantime stays.
LEMMA EraseRoomInv ==
    ASSUME Inv, NEW c \in Client, EraseRoom(c) PROVE Inv'
<1> DEFINE n == exiting[c]
           reg == EraseIfEmpty(registry, n)
<1>0. n \in Made(registry) /\ roomNumber[c] = NoRoom
  BY DEF EraseRoom, Inv, HandlerInv, Exiting
<1>1. /\ reg.next = registry.next /\ reg.rooms = IF registry.seats[n] = {} THEN registry.rooms \ {n} ELSE registry.rooms
      /\ Made(reg) = Made(registry)
      /\ \A k \in Made(registry) :
            reg.seats[k] = registry.seats[k]
      /\ reg \in [next: 1..(MaxRooms + 1), rooms: SUBSET Made(registry),
                  seats: [Made(registry) -> SUBSET Client]]
  BY <1>0 DEF Inv, TypeOK, EraseIfEmpty, Made
<1>2. /\ registry' = reg /\ shutdown' = shutdown
      /\ open' = [d \in Client |-> open[d] \cap FreeRooms(reg)]
      /\ pc[c] \in {"erase", "lastErase"}
      /\ pc' = [pc EXCEPT ![c] = IF pc[c] = "erase" THEN "receive" ELSE "stop"]
      /\ exiting' = [exiting EXCEPT ![c] = NoRoom]
      /\ UNCHANGED <<user, roomNumber, socket, stopped, listing, listed>>
  BY DEF Registry, EraseRoom, After, Goto, lists
<1> HIDE DEF reg
<1>3. /\ open' \in [Client -> SUBSET Made(registry)]
      /\ \A d \in Client : open'[d] \subseteq open[d]
  BY <1>1, <1>2 DEF FreeRooms
<1>4. \A d \in Client : RoomOf(d)' = RoomOf(d)
  BY <1>2 DEF Inv, TypeOK, RoomOf
<1>a. TypeOK'
  <2>1. \A k \in Made(reg) : Cardinality(reg.seats[k]) <= 2
    BY <1>1 DEF Inv, TypeOK
  <2>2. pc' \in [Client -> Places]
    BY <1>2 DEF Inv, TypeOK, Places
  <2>3. exiting' \in [Client -> Made(registry) \cup {NoRoom}]
    BY <1>2 DEF Inv, TypeOK
  <2>4. Made(reg) = 1..(reg.next - 1)
    BY <1>1 DEF Inv, TypeOK
  <2>5. /\ registry' = reg /\ Made(registry') = Made(registry)
        /\ open' \in [Client -> SUBSET Made(registry)]
    BY <1>1, <1>2, <1>3
  <2>6. /\ user' \in [Client -> BOOLEAN]
        /\ roomNumber' \in [Client -> Made(registry) \cup {NoRoom}]
        /\ socket' \in [Client -> Handle \cup {InvalidSocket}]
        /\ stopped' \in [Client -> BOOLEAN]
        /\ listing' \in [Client -> SUBSET Made(registry)]
        /\ listed' \in [Client -> SUBSET Made(registry)]
        /\ shutdown' \in BOOLEAN
    BY <1>2 DEF Inv, TypeOK
  <2> QED
    BY <1>1, <2>1, <2>2, <2>3, <2>4, <2>5, <2>6 DEF TypeOK
<1>b. SeatsMatchHandlers'
  <2> SUFFICES ASSUME NEW d \in Client, NEW k \in Made(registry)
               PROVE  /\ d \in reg.seats[k] <=> RoomOf(d)' = k
                      /\ d \in reg.seats[k] => k \in reg.rooms
    BY <1>1, <1>2 DEF SeatsMatchHandlers
  <2>1. /\ d \in registry.seats[k] <=> RoomOf(d) = k
        /\ d \in registry.seats[k] => k \in registry.rooms
    BY DEF Inv, SeatsMatchHandlers
  <2>2. d \in registry.seats[k] => k \in reg.rooms
    BY <1>1, <2>1
  <2> QED
    BY <1>1, <1>4, <2>1, <2>2
<1>c. NoForgottenRoom'
  <2> SUFFICES ASSUME NEW k \in reg.rooms, reg.seats[k] = {}
               PROVE  \E d \in Client : pc'[d] \in {"erase", "lastErase"} /\ exiting'[d] = k
    BY <1>2 DEF NoForgottenRoom
  <2>1. k # n /\ k \in registry.rooms /\ registry.seats[k] = {}
    BY <1>1 DEF Inv, TypeOK
  <2>2. PICK d \in Client : pc[d] \in {"erase", "lastErase"} /\ exiting[d] = k
    BY <2>1 DEF Inv, NoForgottenRoom
  <2> QED
    BY <2>1, <2>2, <1>2 DEF Inv, TypeOK
<1>d. ListComplete'
  BY <1>2, <1>3 DEF Inv, TypeOK, ListComplete
<1>e. HandlerInv'
  BY <1>0, <1>1, <1>2 DEF Inv, TypeOK, HandlerInv, Present, Exiting
<1> QED
  BY <1>a, <1>b, <1>c, <1>d, <1>e DEF Inv

(***************************************************************************)
(* Together.                                                               *)
(***************************************************************************)

LEMMA StepInv == Inv /\ [Next]_vars => Inv'
<1> SUFFICES ASSUME Inv, [Next]_vars PROVE Inv'
  OBVIOUS
<1>1. CASE UNCHANGED vars
  BY <1>1 DEF Inv, vars, worker, lists, TypeOK, SeatsMatchHandlers,
      NoForgottenRoom, ListComplete, HandlerInv, RoomOf, Present
<1>2. CASE BeginShutdown
  BY <1>2, BeginShutdownInv
<1>3. CASE \E c \in Client : Arrival(c) \/ StopByMain(c)
  BY <1>3, ConnectInv, ReceiveInv, ReceiveEndsInv, StopByMainInv DEF Arrival
<1>4. CASE \E c \in Client : Step(c)
  BY <1>4, AnswerInv, HandleLoginInv, HandleCreateChattingRoomInv,
     HandleJoinChattingRoomInv, RejoinRoomInv, SnapshotInv, HandleExitRoomInv,
     RoomCommandWithoutRoomInv, CloseSocketInv, AskRoomInv, SendRoomListInv,
     HandlePlayerExitInv, EraseRoomInv, DisconnectInv, StopInv, ReceiveEndsInv DEF Step
<1> QED
  BY <1>1, <1>2, <1>3, <1>4 DEF Next

LEMMA InvHolds == Spec => []Inv
<1> QED
  BY InitInv, StepInv, PTL DEF Spec

\* Every variable keeps its type and no room ever has a third member, for any
\* number of clients, handles and rooms.
THEOREM RoomTypes == Spec => []TypeOK
<1>1. Inv => TypeOK
  BY DEF Inv
<1> QED
  BY <1>1, InvHolds, PTL

\* A client sits in the room its handler thinks of, which is registered.
THEOREM SeatsAgree == Spec => []SeatsMatchHandlers
<1>1. Inv => SeatsMatchHandlers
  BY DEF Inv
<1> QED
  BY <1>1, InvHolds, PTL

\* An empty room is registered only while its last member is about to erase it.
THEOREM RoomsAreErased == Spec => []NoForgottenRoom
<1>1. Inv => NoForgottenRoom
  BY DEF Inv
<1> QED
  BY <1>1, InvHolds, PTL

\* Handles are reused, but never while a room still knows the one before.
THEOREM HandlesAreFresh == Spec => []NoGhostHandles
<1> QED
  BY Ghosts, InvHolds, PTL

\* A room that stays free while the rooms are asked is in the list.
THEOREM ListsAreComplete == Spec => []ListComplete
<1>1. Inv => ListComplete
  BY DEF Inv
<1> QED
  BY <1>1, InvHolds, PTL
===============================================================================
