# TwofacedPoker server: a TLA+ model

TwofacedPoker is a Windows game server in C++17 for a two-player card game. A
client logs in, creates or joins a room, both members get ready, one of them
starts a match, and the server runs it: antes, cards, bets on the front, the
back or both sides, showdowns, settlements, until one player has no chips. This
directory holds a TLA+ model of that server, TLC configurations that check it on
small instances, and proofs, checked with TLAPS, of what holds for every
instance. Paths below are relative to `src/TwofacedPoker/`.

## The system

| Component | State | Operations | Talks to |
|---|---|---|---|
| `Game/BettingRules` | none | `evaluate`: is a bet allowed, does it call or raise | called by RoomManager |
| `Game/RoundResolver` | none | `resolve`: who wins a round | called by RoomManager |
| `Game/SettlementRules` | none | `settle`: where the chips go | called by RoomManager |
| `Game/Deck` | shuffled deque of cards | deal (refills when empty) | owned by GameSession |
| `Game/GameSession` | WAITING or BETTING, whose turn | start, reset, pass turn, deal | owned by GameManager |
| `Game/GameManager` | the session, under `gameMutex` | start, bet, fold, SPECIAL, exit | calls RoomManager, under `gameMutex` |
| `Room/RoomManager` | members, readiness, chips, bets, cards, table, under `roomMutex` | one critical section per method; messages are collected inside it and queued after it | queues messages on ClientConnections |
| `Room/RoomRegistry` | map of rooms, next number, under its mutex | create, join, find, list, erase if empty | calls RoomManager under its mutex |
| `Network/ClientHandle` | one per connection: login, current room | a command at a time, until the connection ends; then leaves the room | calls registry, room and game |
| `Network/ClientConnection` | send queue (256), `stopping`, `stopped`, socket | enqueue, sender thread, stop | enqueued to by every worker of a room |
| `Network/ClientWorkerManager` | list of workers, `stopping` | start, reap finished, stop all | owns connections and threads |
| `Protocol/Packet` | none | length-prefixed receive and send | used by worker and sender |
| `Protocol/*Parser` | none | text to command | used by ClientHandle, GameManager |
| `main.cpp` | stop flag | accept loop, shutdown | starts workers |

There is one worker thread and one sender thread per connection. Two workers
meet in a room: game commands and exits are serialised by `gameMutex`; ready
toggles, joins, `userUpdate` and chat only take `roomMutex`.

What is hard here, and what the properties are for (PROJECT.json lists every
hazard with its line):

* a match is a long sequence of legal commands through several kinds of rounds,
  with chips in five places, sides that outlive a bet, a draw that carries the
  table over, all-ins, capped bonuses and two end checks per round;
* a member may leave at any moment of it;
* each client is told only about changes, and must still see the server's state;
* workers of one room interleave between its critical sections: readiness is
  checked in one and the match started in another, and messages are collected
  under a lock and queued after it;
* rooms are created, filled, emptied and removed by racing workers, handles are
  reused, a list of rooms is old when it is sent;
* a slow client overflows its queue; the accept loop reaps workers while others
  are served, and shutdown has to join every thread, whatever it meets;
* a packet arrives in pieces, or half of it, and the stream may end anywhere.

## Modules

| Module | Models | State |
|---|---|---|
| `Foundation` | the enumerations | |
| `BettingRules`, `RoundResolver`, `SettlementRules` | the rules, as operators on records | |
| `Deck` | the deck as the set of remaining cards | |
| `RoomManager` | a room as a record, each method as a function from the room it finds to the room it leaves | |
| `ClientView` | what the two clients have been told | |
| `GameManager` | one room and its match; the specification of the game | `room`, `session`, `deck`, `view`, `verdict` |
| `Table` | what a room promises about its seats: a match is between two seated players who were ready together | `seated`, `ready`, `playing` |
| `RoomThreads` | the same room as its worker threads see it, one critical section and one `Enqueue` at a time | `ready`, `turn`, `gameMutex`, `pc`, `pending`, `shown` |
| `RoomRegistry` | the registry and the seats of its rooms, each critical section as an operator | |
| `ClientHandle` | the workers of all clients over one registry | `registry`, `pc`, `user`, `roomNumber`, `socket`, `stopped`, `exiting`, `listing`, `listed`, `shutdown`, a history |
| `ClientWorkerManager` | the accept loop, the console handler, the shutdown, the workers' lives | `stopRequested`, `main`, `backlog`, `accepting`, the manager's four, `thread`, `finished`, `connection` |
| `Link` | what a connection promises: a first-in first-out link that may break | `accepted`, `received`, `broken` |
| `ClientConnection` | one connection: its queue, its sender thread and the threads that use it | `queue`, `stopping`, `stopped`, `socket`, `senderPc`, `message`, `pc`, `remote`, two histories, `stranger` |
| `Packet` | framing over a byte stream that moves bytes in any pieces | the stream, both ends, two histories |
| `CommandParsers` | both parsers and the room number of a join | `text` |
| `MC*` | instances for TLC | |
| `*Proofs` | theorems about the module named | |
| `GameRoundProofs` | more theorems about `GameManager`: rounds, cards and what clients see | |

How they are composed:

* `GameManager` EXTENDS `ClientView`, which EXTENDS `RoomManager`, which EXTENDS
  the rules and the deck. `ClientHandle` EXTENDS `RoomRegistry`.
* `Table` is the abstract specification of a room and has two implementations:
  `GameManager`, which has chips and cards and takes a handler as one step, and
  `RoomThreads`, which takes the handlers apart and has no chips.
* `Link` is the abstract specification of a one-way channel and has two
  implementations too: `ClientConnection`, the queue and the threads above
  `SendPacket`, and `Packet`, the bytes below it.
* The other modules take from one another what these two say: the game and the
  room take from a connection that messages arrive in the order they were
  queued; `ClientHandle` takes from a room that members come and go in critical
  sections; `ClientWorkerManager` takes from `ClientHandle` that a worker leaves
  its room and then stops, and from `ClientConnection` that a stop wakes `recv`.

### How they correspond to the code

**The game** (`GameManager` and what it extends).

*State.* `room.users` is the three containers `users`, `socketUserNumber` and
`connections` of RoomManager: they are written in the same critical sections and
hold the same members, so a member is its connection. `room.dealer` is
`dealerChips`. `session` is GameSession without its deck; `deck` is its deck, a
set because nobody sees the order and the shuffle makes every next card
possible. `view` is what the messages collected by RoomManager and GameManager
add up to at each client: messages of a match are queued under `gameMutex`, in
order, on first-in first-out queues. `verdict` records the `Game_result`
broadcasts of the last step.

*Actions.* One per handler: `Join`, `HandlePlayerExit`, `UserReady`,
`HandleGameStart`, `Raise`, `Call`, `Fold`, `Special`. A handler of GameManager
holds `gameMutex` from beginning to end, and nothing outside such handlers reads
or writes chips, bets, cards, table, turn or deck, so a handler is one action.
It contains everything the code does before it returns: a call settles, checks
for the end, takes the antes, deals, checks again, passes the turn. What can run
between its critical sections (ready toggles, joins) touches readiness and
membership only, and is `RoomThreads`' subject.

*Refused commands* (not your turn, illegal bet, match already running, unknown
text) change no state: they are stuttering steps. A count is any integer of
`Counts`.

*The client* is in another repository. The view assumes two things of it: it
forgets the match when it starts, ends or is aborted, and it clears the bets it
shows on `Game_Init`. `Blank`, `NoView` and `TellGameInit` are marked external.

*Integers.* The betting rules compute in 64 bits from 32-bit inputs, and chips
are bounded by the two stacks (`ChipsConserved`), so nothing can overflow.

**The room's threads** (`RoomThreads`). `pc[c]` is the next critical section of
the handler that the worker of `c` runs, `gameMutex` its owner. A section under
`roomMutex` is one step, because nothing blocks in it; `gameMutex` is held over
many. `pending[c]` is the vector of `PendingSend` of the last section: each of
its messages is queued by a step of its own, after `roomMutex` is released and
before the handler's next section, as the code does. `shown` is what a client
displays of its rival's flag and of the turn once it has read what has been
queued for it. Chips are left out: a bet passes the turn or closes a round, and
the end checks may come out either way, with the readiness flags the code leaves
behind in each case (a draw clears them and goes on). The check of the turn in
`BetCommand` belongs to the section under `gameMutex`, so it is made when the
lock is taken; only such sections change the turn.

Readiness is checked in one section, the session started in a later one, and a
member can become unready in between: the match starts all the same. That is
right in the sense of `Table`: the start *happens* at the check, where both were
ready. `MatchRuns` says so, and the refinement shows that nothing the others can
do in between is visible. Likewise a match *ends* where its flags are cleared.

**Rooms and their users** (`RoomRegistry`, `ClientHandle`). A room object is
known by its number, which is never reused, and lives on while a worker holds
it: `seats` has all rooms made, `rooms` those registered. `pc[c]` is where the
worker of a client stands: `"serve"` with a command in hand, `"list"` between
the snapshot of `listAvailable` and its questions to the rooms, one per step, in
order; `"remove"` and `"erase"` between the sections of `Handle_Exit_Room`, and
the same twice more for the exit by `Disconnect`. `user` is whether a user
number has been given; the numbers themselves are only compared for equality and
never reused, so a user is its client, and is new after each `Connect`. Handles
are values the system gives out again when they are closed, which matters
because rooms look users up by handle. What a command does inside the room
changes nothing here (`Answer`); if the room is not found the connection ends
(`RoomCommandWithoutRoom`). `open` is a history variable: the rooms that have
had a free seat since the listing began.

**The server** (`ClientWorkerManager`). `main` goes through its loop one call at
a time: select, the second look at the stop flag, accept, the connection object,
`Start` (which reaps, destroying each finished worker with a stop and a join),
and through `StopAll`. The console handler may set the flag at any step. Every
call that can fail does so at will: select, accept, making the connection (its
sender thread included), making the worker. An `accept` that fails may have taken
a client that was gone again off the listen queue, or, for want of descriptors or
buffers, have left it there for the next round (`AcceptFails`). A worker serves until its client
ends the connection or `recv` returns because it is stopped, then leaves and
stops the connection, sets `finished`, and returns, in separate steps. The
mutex of the manager is held for one step, as only `main` calls its methods.

**The connection** (`ClientConnection`). Every section under `queueMutex` is one
action, and so is every call between two sections (`shutdown`, `notify`, `join`,
`closesocket`), so the threads meet in every order the lock allows. `Owner` is
the worker of the connection, which leaves its receive loop when the socket is
shut down, the client has gone or a command ends it, and then calls `Stop`;
`Main` calls `Stop` from the destructor of the worker; peers are workers that
hold the connection in a `PendingSend`, which they may do after it has ended.
`senderPc` is the sender thread; "asleep" is the wait, which spurious wake-ups
may end. A packet goes out whole or not at all: a partial one never becomes a
message for the client (`Packet` shows why). A message of an illegal size is
refused and changes nothing. `Enqueue` uses the handle after the lock is
released, in a data race with `closesocket` and the assignment of
`INVALID_SOCKET`; the model lets the call do nothing or hit a client accepted
since on the same handle value (`stranger`).

**The framing** (`Packet`). A byte is what it stands for: the i-th byte of a
header or of the k-th body. `send` and `recv` move any number of bytes the
stream has room for, or has; `HeaderComplete` and `BodyComplete` are the ends of
the two `RecvAll`. The sender may close, or the stream be lost with what is
on it, at any byte. A peer that sends a length the server would never
send is `SendBadLength`; a body's worth of bytes or less follows, which a receiver
that read on could take for headers and bodies.

**The parsers** (`CommandParsers`). A text is a sequence of tokens, each a command
word or a character. `ReadInt` is the reader both `std::from_chars` and
`std::stoi` are instances of. `NumbersAreExact` compares the readers with the
set of all spellings of all ints, defined the other way round, from numbers to
texts.

## Runs

`MCGame.cfg` (run `game`) explores every history of one room with two clients
who come, go, get ready and play. Its bounds:

* `DEFAULT_CHIPS = 4` (30 in the code): after the ante three chips are left,
  enough to raise twice on one side, to bet on both sides and raise, to go
  all-in with and without chips left at the opponent, and to win, lose and draw
  several rounds in a row; stacks from 0 to 8 occur;
* `BONUS_CHIPS = 2` (10 in the code): the cap of the bonus bites in some
  settlements and not in others;
* `FACES = 3` (10 in the code): six cards, the smallest deck in which a bet on
  both sides can win, lose and tie, and in which the refill happens every third
  round;
* `Counts = -1 .. 8`: a refused count of each kind and every affordable one.

Two clients fill the room, so a third one could only refuse to fit. Clients are
symmetric: no operator orders or names them. Deadlock is checked.

| Property | What it says |
|---|---|
| `TypeOK` | types; no stack or stake is negative; told members are seated members |
| `SeatsTaken` | a running match has two members, one of whom has the turn |
| `ChipsConserved` | stacks, stakes and table add up to the initial stacks |
| `MoverOwes` | whoever is to move is behind, or nobody has bet: no level round stays open |
| `StakesFitSides` | chips lie on the chosen sides, and never are both players on both |
| `CallIsAffordable` | the mover has a chip, and one on a single side can always call |
| `RoundsResolve` | no showdown meets a round it cannot decide |
| `CardsAreDealtOnce` | the cards in play are two different cards that left the deck |
| `ViewsAgree` | both clients see the server's state whenever somebody is to move |
| `BackCardHidden` | no client knows the other's back while a round is open |
| `WinnerTakesAll` | a match that has a winner leaves the loser nothing, however it was decided |
| `ClosingSideIsFair` | who closes a round makes no difference to its result |
| `ImplementsTable` | the game refines `Table` |

`MCRoomThreads.cfg` (run `room_threads`) has three clients for the two seats:
two play while the third joins as soon as one has left and before the leaver's
handler is done. All flags, turns and messages are finite, so nothing is
bounded; a pending vector never has more than three messages. Deadlock is
checked.

| Property | What it says |
|---|---|
| `TypeOK` | types, no third member |
| `PlayersStay` | a game handler never finds its opponent missing; the one to move is seated |
| `TurnShown` | whenever no game handler runs, every client shows whose turn it is, or none |
| `ImplementsTable` | critical section by critical section, the room refines `Table` |
| `GameMutexFreed` | who has `gameMutex` gives it back: no handler waits for itself or for a reader |

`MCClientHandle.cfg` (run `rooms`) has three clients, which come back as often as
they like, three handles and two room numbers. Three clients are what a race for
one seat takes (one leaving, one joining, one listing), and two rooms let a
client be in one while its old one is still being erased; a handle more than the
connections that are open is never needed. Clients and handles are symmetric.
Deadlock is not checked: nothing is left to happen once `main` has begun to stop
and every connection has ended.

| Property | What it says |
|---|---|
| `TypeOK` | types, no third member of any room |
| `SeatsMatchHandlers` | a client sits in the registered room its handler thinks of, and in no other |
| `NoForgottenRoom` | an empty room stays registered only while its last member is about to erase it |
| `NoGhostHandles` | a seated client is connected, on a handle that is nobody else's |
| `ListComplete` | a room free all through a listing is in the list |

`MCServer.cfg` (run `server`) has three clients: one being accepted, one being
served, one being reaped, which are all the parts a client can play. Deadlock is
not checked: the server is meant to end.

| Property | What it says |
|---|---|
| `TypeOK` | types; main has a connection in hand from accept to the end of `Start` |
| `EverythingHasAnOwner` | each thread and each open connection belongs to one owner who will end it |
| `ServingIsNotDisturbed` | reaping touches only threads that have finished by themselves |
| `ServerStops` | a stop request ends the server, with no thread and no connection left |
| `EverybodyIsAnswered` | if shortages of descriptors and buffers end, whoever knocks is let in or turned away |

`MCPacket.cfg` (run `packets`): `HEADER = 2` and `MAX_PACKET_SIZE = 3` (4 and 1024
in the code) are headers and bodies that arrive in one piece, in two, and in
single bytes; `WIRE = 4` holds the end of one packet and the header of the next,
and is too small for the longest packet, so both ends block; `MaxPackets = 3` is
one received, one on its way and one being sent. What follows a bad length is one
to three bytes, enough for a second header and a body behind it. Deadlock is not
checked.

| Property | What it says |
|---|---|
| `TypeOK` | types; no byte more arrives than there is room for in the buffer |
| `ImplementsLink` | however the stream cuts the packets up, messages arrive whole, once and in order |
| `WholePacketsArrive` | what was sent in full arrives in full, unless the connection is lost; a close or a bad length behind it takes nothing back |
| `ReceiverEnds` | the end of the stream, or a bad length, ends the receiver wherever it stands |

`MCParsers.cfg` (run `parsers`) has every text of up to four tokens over three of
the ten digits: a sign, a space, a number of up to three digits, and something
behind it. `MAX_INT = 20` puts the limits of an int, `-21` and `20`, and numbers
beyond them, `22`, `100`, `222`, among those that can be written.

| Property | What it says |
|---|---|
| `NumbersAreExact` | a count or a room number is read exactly when it spells an int from end to end |
| `NothingIsLost` | command word and payload make up the text again; the rest is chat |

`MCConnection.cfg` (run `connection`) explores one connection, enqueued on by its
own worker and one peer, which are the two workers a room has. Its bounds:
`MAX_QUEUE_SIZE = 2` (256 in the code) is filled while the sender sleeps, holds
a message or is blocked; `MaxMessages = 4` messages accepted is a full queue, one
in the sender's hands and one delivered. A message is named after the thread that
enqueued it. Deadlock is not checked: a closed connection does nothing any more.

| Property | What it says |
|---|---|
| `TypeOK` | types, and a queue within its limit |
| `SocketOutlivesSender` | one thread closes the socket, once, after the sender has ended |
| `ImplementsLink` | the connection refines `Link`: order, no repetition, nothing accepted after the end |
| `SenderWakes` | the sender never sleeps on a queued message: no lost wake-up |
| `BrokenIsClosed` | overflow, failed send, lost client or stop: the worker ends and the socket is closed |
| `StopReturns` | a stop by the main thread returns, and so does the worker it joins |

Five runs check what a comment or the readme of the code says and find that it
does not hold:

* `draw_carries_over` (`DrawCarriesOver`): GameManager.cpp:298 says a draw is not
  the end of the game, but the second end check, in `prepareNextRound`, ends it
  when a player is all-in. Both can have no chips then, and the caller loses.
* `raise_can_be_followed` (`RaiseCanBeFollowed`): BettingRules.cpp:63 says nobody
  is raised beyond what its chips can follow, but the limit counts one chip per
  level, and an opponent bound to both sides pays two.
* `fold_against_both` (`FoldAgainstBoth`): RoundResolver.cpp:24 says a fold
  against a bet on both sides is BOTH_LOSE; the game settles every fold as LOSE.
* `overflow_stops` (`OverflowStopsOnlyFullClient`): ClientConnection.cpp:64 says an
  overflow stops the client whose queue is full; the unlocked `shutdown` can come
  after the handle was closed and given to another client.
* `readiness_in_step` (`ReadinessInStep`, two clients): the readme says the two
  players' ready flags are kept in step, but they are collected under `roomMutex`
  and queued after it. When the rival's toggle falls in between, the older flag is
  queued last, and the client shows it until the next toggle.

*Fairness.* Nothing is assumed of a client, a player or the console: they may stop
at any time, and nothing has to arrive.

* The game, the rooms and the parsers state no fairness and no liveness: nothing
  in them happens by itself.
* `RoomThreads`: a handler that has begun goes on (`WF` of the steps of a worker
  inside a handler, enqueuing included, which never blocks). Taking `gameMutex` is
  not among them: a mutex is owed to nobody in particular, and commands are free.
* `ClientWorkerManager`: `main` and the worker threads are scheduled, and `select`
  returns within its second. A worker sees that its connection is stopped; its
  client need never say a word. `EverybodyIsAnswered` alone assumes `ShortagesEnd`
  as well, strong fairness of an `accept` that takes somebody off the queue: a
  shortage leaves the connection where it is and `main` tries again, so without it
  `accept` could fail for ever, and the code can do nothing about it.
* `Packet`: the receiver calls `recv` again whenever it is not serving, and the
  sender finishes what it has begun as long as the stream takes bytes, be it a
  packet or a bad length. Neither sends nor closes unless it likes to.
* `ClientConnection`: every thread is weakly fair in what it has begun: the
  sender's loop, the rest of an `Enqueue` or a `Stop`, and the failure of `recv` or
  `send` on a socket that is shut down or whose client is known to be gone. That
  needs a scheduler that runs every thread, a `queueMutex` that is eventually
  granted (its sections are short and never block) and `shutdown` waking blocked
  calls, as Winsock does. A client may never read, and then the sender stays in
  `send` until an overflow or a stop; one that vanishes without the system noticing
  is one that never reads. Who enqueues and stops when is free.

Every property has a mutant, an operator beside the definition it would replace
(`Mutant of ...`), that stands for a plausible bug and breaks the property.

## Proofs

**The game.** `GameManagerProofs` shows first, for each operation of the room,
that it takes a table (two different members, every field of its type) to a table
and leaves the sum of all chips as it was; `SettleConserves` is the heart of it.
Then it composes them along the handlers, one lemma per action, into the invariant `MatchInv == TypeOK /\ SeatsTaken /\ ChipsConserved`, which is
inductive, and concludes `TypeCorrectness`, `SeatsStayTaken` and
`ChipConservation`. The three need each other: chips are conserved by operations
on two members, there are two because an exit resets the session and a join needs
a free seat, and stacks stay natural numbers because bets are checked against
them and bonuses capped by them.

`GameRoundProofs` goes on within the match, along the same lines: the fields each
operation leaves, one lemma per handler, and `RoundInv`, which adds to `MatchInv`
the state of a round (`MoverOwes`, `StakesFitSides`, `CallIsAffordable`,
`RoundsResolve`: the limit on raises is what makes the next call affordable, and a
call onto the opponent's sides is what can be resolved), the parity of the deck
(`Even`: the full deck is made of pairs of mirror images and a deal takes two
cards, so a refill never falls between the two cards of a deal, without which
`CardsAreDealtOnce` fails), and `WinnerStays`, what a decided match has left on
the table until the next one. From `RoundInv` follow eight theorems, among them
the refinement of `Table` (`GameImplementsTable`; each handler is one of its steps
or a stutter) and `ClosingSidesAreFair`, which rests on `resolve` and `settle`
being mirror images of themselves.

Its last part adds the clients: one lemma per message says what it changes in
the views and what it leaves alone, one per handler that its messages, in their
order, make up for everything the handler has changed. `ViewInv` is `RoundInv`
with `ViewsAgree` and `BackCardHidden`.

**The connection.** `ClientConnectionProofs` proves, for any set of peers and any
queue limit: its types and the limit (`ConnectionTypes`); the order of shutting
down (`StoppingOrder`, by `StopInv`: only one thread is past the check of
`stopped`, it closes only after the join, and the sender never comes back); and
that it implements `Link` (`ConnectionImplementsLink`). For the last, `OrderInv`
says where the accepted messages are: sent, in the sender's hands, or queued, in
this order; with it a push is an `Accept`, a successful send a `Deliver`, a first
setting of `stopping` a `Break`, and every other step a stutter.

The same module proves the safety halves of the three liveness properties of the
connection, what must be true of a state for the waiting in it to end. `WaitInv`
is inductive next to the types and has a part for each. A sender that sleeps
although there is a message or a stop has a thread that is about to notify it
(`NoLostWakeUp`): whoever pushes or sets `stopping` does so under `queueMutex`
and notifies afterwards. A connection that is to end has its socket shut down, or
a thread about to do that (`NobodyStaysBlocked`). A thread in `join` waits for a
sender that is awake or ended, has been told to stop, and has a socket on which
it cannot block (`JoinsAreMet`). What is left to TLC is that the threads do run.

**The framing.** `PacketProofs` proves, for every header, packet and stream size
and any number of packets, `PacketTypes`, `FramingImplementsLink` and
`NothingHeldBack`. The receiver works on bytes it has not seen arrive, so an
invariant about what it holds is not inductive; `PacketInv` is about the stream.
A function `starts`, which exists but is no variable, gives the place where each
frame begins (`Frames`); what is in the receiver's buffer, on the wire and in the
sender's hands, in this order, is a section of the stream (`Pending`), it begins
where the receiver has got to (`Used`), and each byte is the one that belongs at
its place (`Fits`), also after a peer has sent a bad length. So a complete header
is the length of the next message, and a complete body is that message. A
`SendPacket` is an `Accept` of `Link`, the completion of a body a `Deliver`, a
close, a loss or a bad length a `Break`, and any other transfer of bytes a stutter.
`NothingHeldBack` is the safety half of `WholePacketsArrive`: a receiver that
waits with nothing under way has returned every message that was sent in full.

**The parsers.** `CommandParsersProofs` proves both properties of the parsers for
every text, every width of int and every set of digits. `CommandsLoseNothing` is a
distinction of cases. `NumbersReadExactly` says that two programs agree, one that
reads digits and one that writes them, and needs induction over numbers and texts.
The library's induction theorems take an operator, so the module states induction
with sets: a set of naturals that contains n whenever it contains all below n is
`Nat` (`AllNumbers`, from a least element, from the well-founded inclusion of
intervals), and a set of digit strings with the empty one that is closed under
`Append` has them all (`AllDigitStrings`). By these, `Value` and `Decimal` are
total and inverse to each other up to leading zeros (`PaddedValue`,
`DigitsArePadded`). `SpellsAt` then says what a number looks like
in a text, blanks, a sign, digits; `CountsAreRead` and `RoomsAreRead` show that
each reader finds exactly that, and `SpellingsSpell` that the reference does.

**The rooms.** `ClientHandleProofs` proves for any number of clients, handles and
rooms all five invariants of the run: `RoomTypes`, `SeatsAgree`,
`RoomsAreErased`, `HandlesAreFresh`, `ListsAreComplete`. They need one another and
`HandlerInv`: a worker in the middle of an exit has no room number any more and
knows a room that was made; a handler has a handle exactly while it is present,
and no two have the same one, which holds because only `main` can close a handle
under a worker and it has stopped accepting by then.

**The server.** `ClientWorkerManagerProofs` proves for any set of clients
`ServerTypes`, `OwnersKept`, `ReapingIsQuiet` and `ExitIsClean`, the safety half of
`ServerStops`. `PhaseInv` says what `main` has in hand at each place (a doomed
worker only while it destroys, an empty list once it is stopping), `WorkerInv`
what the flag says of a thread and that nobody knocks who is being served.

**The room's threads.** `RoomThreadsProofs` proves, for any number of clients,
`ThreadTypes`, `PlayersAreThere`, `TurnIsShown` and `ThreadsImplementTable`.
`LockInv` says that the holder of `gameMutex`, and nobody else, is in a section
that needs it, and what it knows of members and turn at each. `MessageInv` says
that only the holder has turn messages still to queue, that each of them carries
the turn due to its receiver, and that a client which has none coming shows the
turn already; so the order in which handlers queue does not matter for the turn,
while it does for readiness (`readiness_in_step`). For the refinement, the match
starts at the check of readiness and closes where the flags are cleared, a
removal is a `Leave`, and every other section and every `Enqueue` is a stutter.

The assumptions are the named ones of the modules: finitely many clients; the
names for nobody, no socket, no owner are not among the clients or the handles;
counts are integers; headers and packets have at least a byte; the largest int and
the length of a text are natural numbers; the initial stack has at least two chips, two seats, at
least two faces, a natural bonus; the main thread, the worker and the peers are
different threads; a queue holds a message. All of them hold of the code's
constants.

What is only model-checked: the liveness properties (`GameMutexFreed`,
`ServerStops`, `EverybodyIsAnswered`, `WholePacketsArrive`, `ReceiverEnds`,
`BrokenIsClosed`, `StopReturns`, `SenderWakes`), which are out of the prover's
reach. For five of them a theorem has the safety half: `ExitIsClean`,
`NothingHeldBack`, `NobodyStaysBlocked`, `JoinsAreMet`, `NoLostWakeUp`. Every other
property of a passing run is a theorem.

## Plan

Done: every component but the start-up of `main` is modelled, and every safety
property a passing run checks is proved. Left: an abstract `Match` (two stacks and
a pot, which a round moves from one to the other) refined by `GameManager`, with
the proof of the refinement.

## Not modelled

* The start-up of `main`: arguments, the port, Winsock, `bind` and `listen`, a
  straight line that returns at the first failure.
* Exceptions for want of memory in the middle of a handler, such as the one a
  creation of a room may throw (ClientHandle.cpp:201).
* Clients that vanish without closing: the code has no timeout, and nothing to
  promise about them. In the models they are clients that neither close nor read.
* Whether `SPECIAL` should be legal at any moment of a round: the code lets the
  mover play it and no text says otherwise. `Special` does what the code does.
* Chat, logging and the wording of messages; the order of the replies to a join;
  messages queued for a member that has left the room since, about which nothing is
  promised (`RoomThreads` has them; `TurnShown` shows that they do no harm).
* `User::winCount`, which nothing writes; `resetAllUsers(PROGRESS)`, which nothing
  calls; branches for a null connection or user in the containers, which nothing
  puts there.
