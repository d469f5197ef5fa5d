----------------------------- MODULE RoomRegistry -----------------------------
(***************************************************************************)
(* TwofacedPoker/Room/RoomRegistry.cpp: the rooms of the server.           *)
(*                                                                         *)
(* A room object is known by its number, which is never given out twice.   *)
(* It lives on while a worker holds it, registered or not: seats maps      *)
(* every room made so far to its members, rooms is the set registered.     *)
(* Each operator is a critical section under the registry's mutex and, in  *)
(* it, one under roomMutex.  What goes on inside a room is RoomThreads'.   *)
(***************************************************************************)
EXTENDS Integers, FiniteSets

CONSTANT MaxRooms    \* bound of the model: the numbers nextRoomNumber reaches

ASSUME MaxRoomsAssumption == MaxRooms \in Nat

\* A registry: [next: the next number, rooms: those registered, seats].
EmptyRegistry == [next |-> 1, rooms |-> {}, seats |-> [n \in {} |-> {}]]

Made(registry) == DOMAIN registry.seats

Seat(registry, n, c) ==
    [registry EXCEPT !.seats[n] = @ \cup {c}]

\* createAndJoin whose addUser succeeds.
CreateAndJoin(registry, c) ==
    LET n == registry.next
    IN [next  |-> n + 1,
        rooms |-> registry.rooms \cup {n},
        seats |-> [k \in Made(registry) \cup {n} |->
                      IF k = n THEN {c} ELSE registry.seats[k]]]

\* createAndJoin whose addUser refuses: the number is spent all the same.
CreateInVain(registry) ==
    [next  |-> registry.next + 1,
     rooms |-> registry.rooms,
     seats |-> [k \in Made(registry) \cup {registry.next} |->
                   IF k = registry.next THEN {} ELSE registry.seats[k]]]

HasFreeSeat(registry, n) == Cardinality(registry.seats[n]) < 2

\* Mutant of MayJoin: the room may be full.
MayJoinFull(registry, n) == n \in registry.rooms

\* The checks of tryJoin and addUser that depend on the room alone.
MayJoin(registry, n) == n \in registry.rooms /\ HasFreeSeat(registry, n)

\* removeUser, called through a room the worker has found before.
RemoveUser(registry, n, c) == [registry EXCEPT !.seats[n] = @ \ {c}]

\* Mutant of EraseIfEmpty: it trusts the caller that the room is empty.
Erase(registry, n) == [registry EXCEPT !.rooms = @ \ {n}]

\* Mutant of EraseIfEmpty: it never removes a room.
EraseNothing(registry, n) == registry

\* A room that is gone, or has been joined since it was left, stays as it is.
EraseIfEmpty(registry, n) ==
    [registry EXCEPT !.rooms = IF registry.seats[n] = {} THEN @ \ {n} ELSE @]
===============================================================================
