------------------------------ MODULE RoomThreads -----------------------------
(***************************************************************************)
(* One room as its worker threads see it: the critical sections of         *)
(* RoomManager (roomMutex) and GameManager (gameMutex) one by one, and the *)
(* messages of a section queued one by one after roomMutex is released.    *)
(*                                                                         *)
(* Every client has a worker.  pc[c] is the next critical section of its   *)
(* handler; pending[c] is the vector of PendingSend it has collected and   *)
(* is still queueing, which it finishes before it goes on.  A section      *)
(* under roomMutex is one step, as nothing blocks in it; gameMutex is held *)
(* over many steps.  Chips and cards are left to GameManager.tla: here a   *)
(* bet passes the turn or closes a round, and a closed round ends the      *)
(* match or goes on.                                                       *)
(*                                                                         *)
(* shown is what a client displays once it has read what was queued for it *)
(* so far: its queue is first in first out (Link).  A message no display   *)
(* depends on (chat, IDs, chips, cards, refusals) is left out.             *)
(***************************************************************************)
EXTENDS Integers, FiniteSets, Sequences

CONSTANTS Client,     \* the logged-in clients, one worker each
          NoSocket,   \* INVALID_SOCKET, the turn of a session that waits
          NoOwner     \* gameMutex is free

ASSUME OwnersAssumption ==
    IsFiniteSet(Client) /\ NoSocket \notin Client /\ NoOwner \notin Client

VARIABLES ready,       \* the members and their ready flags, under roomMutex
          turn,        \* the GameSession: whose turn, NoSocket when WAITING
          gameMutex,   \* its owner
          pc,          \* the next section of each worker's handler
          pending,     \* what each worker has collected and not queued yet
          shown        \* what each client displays

vars == <<ready, turn, gameMutex, pc, pending, shown>>

Members == DOMAIN ready
Paired == Cardinality(Members) = 2
Rival(c) == CHOOSE d \in Members : d # c

Sections == {"idle", "update", "check", "start", "deal", "close", "next",
             "drawn", "pass", "finish", "remove", "reset", "unlock"}

Kinds == {"READY", "DONE", "My", "Other", "Final", "Aborted", "Exited",
          "Exit_Room_Complete"}

Display == [rival: {"Unknown", "READY", "DONE"}, turn: {"None", "My", "Other"}]

\* The display of a client that is in no room, or alone in it.
Nothing == [rival |-> "Unknown", turn |-> "None"]

\* A collected message: its receiver and what it does to the display.
Message(to, kind) == [to |-> to, kind |-> kind]

Flag(isReady) == IF isReady THEN "DONE" ELSE "READY"

\* External: what a client shows after a message.  Update_Ready_State carries
\* the rival's flag; the end of a match, or the rival's exit, resets it, as the
\* server has cleared the flags; only a match message changes the turn.
Displayed(display, kind) ==
    CASE kind \in {"READY", "DONE"} -> [display EXCEPT !.rival = kind]
      [] kind \in {"My", "Other"}   -> [display EXCEPT !.turn = kind]
      [] kind = "Final"             -> [rival |-> "READY", turn |-> "None"]
      [] kind = "Aborted"           -> [display EXCEPT !.turn = "None"]
      [] kind = "Exited"            -> [display EXCEPT !.rival = "Unknown"]
      [] kind = "Exit_Room_Complete" -> Nothing

Init ==
    /\ ready = [m \in {} |-> FALSE]
    /\ turn = NoSocket
    /\ gameMutex = NoOwner
    /\ pc = [c \in Client |-> "idle"]
    /\ pending = [c \in Client |-> <<>>]
    /\ shown = [c \in Client |-> Nothing]
-------------------------------------------------------------------------------
(* Where a worker stands.                                                  *)

\* Its handler has come to this section and has queued all it collected.
At(c, section) == pc[c] = section /\ pending[c] = <<>>

\* A section ends: the messages collected in it are queued before the next.
Collect(c, messages, next) ==
    /\ pending' = [pending EXCEPT ![c] = messages]
    /\ pc' = [pc EXCEPT ![c] = next]

\* sendPending: one Enqueue.
SendPending(c) ==
    /\ pending[c] # <<>>
    /\ LET first == Head(pending[c])
       IN shown' = [shown EXCEPT ![first.to] = Displayed(@, first.kind)]
    /\ pending' = [pending EXCEPT ![c] = Tail(@)]
    /\ UNCHANGED <<ready, turn, gameMutex, pc>>

\* A handler of GameManager begins, at the section that serves the command.
Lock(c, section) ==
    /\ At(c, "idle") /\ gameMutex = NoOwner
    /\ gameMutex' = c
    /\ pc' = [pc EXCEPT ![c] = section]
    /\ UNCHANGED <<ready, turn, pending, shown>>

Unlock(c) ==
    /\ At(c, "unlock")
    /\ gameMutex' = NoOwner
    /\ pc' = [pc EXCEPT ![c] = "idle"]
    /\ UNCHANGED <<ready, turn, pending, shown>>
-------------------------------------------------------------------------------
(* Handlers that take roomMutex only.                                      *)

\* Mutant of AddUser: the limit is checked with > instead of >=.
AddUserOverLimit(c) ==
    /\ At(c, "idle")
    /\ c \notin Members /\ ~ Cardinality(Members) > 2
    /\ ready' = [m \in Members \cup {c} |-> IF m = c THEN FALSE ELSE ready[m]]
    /\ UNCHANGED <<turn, gameMutex, pc, pending, shown>>

\* addUser, called by tryJoin or createAndJoin.
AddUser(c) ==
    /\ At(c, "idle")
    /\ c \notin Members /\ Cardinality(Members) < 2
    /\ ready' = [m \in Members \cup {c} |-> IF m = c THEN FALSE ELSE ready[m]]
    /\ UNCHANGED <<turn, gameMutex, pc, pending, shown>>

\* Handle_User_Update: nothing to do for a member alone.
GetRoomCount(c) ==
    /\ At(c, "idle")
    /\ c \in Members /\ Cardinality(Members) > 1
    /\ pc' = [pc EXCEPT ![c] = "update"]
    /\ UNCHANGED <<ready, turn, gameMutex, pending, shown>>

\* userUpdate: each is told the flag of the other, if it is still there.
UserUpdate(c) ==
    /\ At(c, "update")
    /\ Collect(c, IF Paired THEN <<Message(Rival(c), Flag(ready[c])),
                                   Message(c, Flag(ready[Rival(c)]))>>
                            ELSE <<>>, "idle")
    /\ UNCHANGED <<ready, turn, gameMutex, shown>>

\* Handle_User_Ready
HandleUserReady(c, isReady) ==
    /\ At(c, "idle")
    /\ c \in Members /\ Paired
    /\ ready' = [ready EXCEPT ![c] = isReady]
    /\ Collect(c, <<Message(Rival(c), Flag(isReady))>>, "idle")
    /\ UNCHANGED <<turn, gameMutex, shown>>
-------------------------------------------------------------------------------
(* Handlers that hold gameMutex from their first section to their last.    *)

GameStartCommand(c) == c \in Members /\ turn = NoSocket /\ Lock(c, "check")

BetCommand(c) ==
    /\ c \in Members /\ turn = c
    /\ Lock(c, "pass") \/ Lock(c, "close")

\* Mutant of ExitCommand: the room is left without the game's mutex.
ExitWithoutLock(c) ==
    /\ c \in Members /\ At(c, "idle")
    /\ pc' = [pc EXCEPT ![c] = "remove"]
    /\ UNCHANGED <<ready, turn, gameMutex, pending, shown>>

ExitCommand(c) == c \in Members /\ Lock(c, "remove")

\* Mutant of CheckReady: one ready player is enough.
CheckAnyReady(c) ==
    /\ At(c, "check")
    /\ Collect(c, <<>>, IF Paired /\ \E m \in Members : ready[m]
                        THEN "start" ELSE "unlock")
    /\ UNCHANGED <<ready, turn, gameMutex, shown>>

\* All_User_Start_Ready_State
CheckReady(c) ==
    /\ At(c, "check")
    /\ Collect(c, <<>>, IF Paired /\ \A m \in Members : ready[m]
                        THEN "start" ELSE "unlock")
    /\ UNCHANGED <<ready, turn, gameMutex, shown>>

\* gameSession.start, after the check has let go of roomMutex.
StartSession(c) ==
    /\ At(c, "start")
    /\ turn' = c
    /\ pc' = [pc EXCEPT ![c] = "deal"]
    /\ UNCHANGED <<ready, gameMutex, pending, shown>>

TurnMessages(c) ==
    <<Message(c, "My")>> \o
        (IF Paired THEN <<Message(Rival(c), "Other")>> ELSE <<>>)

\* resetAllUsers keeps the flags; the turn goes out before antes and cards.
Deal(c) ==
    /\ At(c, "deal")
    /\ Collect(c, TurnMessages(c), "unlock")
    /\ UNCHANGED <<ready, turn, gameMutex, shown>>

\* passTurnToOpponent and notifyTurnChanged.  A missing opponent resets the
\* session without a word.
PassTurn(c) ==
    /\ At(c, "pass")
    /\ IF Paired
       THEN /\ turn' = Rival(c)
            /\ Collect(c, TurnMessages(Rival(c)), "unlock")
       ELSE /\ turn' = NoSocket
            /\ Collect(c, <<>>, "unlock")
    /\ UNCHANGED <<ready, gameMutex, shown>>

Unready == [m \in Members |-> FALSE]

\* settleRound and endCheck: somebody is out of chips or nobody is; after a
\* draw the flags are cleared all the same and the round is closed as if not.
EndCheck(c) ==
    /\ At(c, "close")
    /\ \/ ready' = ready   /\ pc' = [pc EXCEPT ![c] = "next"]
       \/ ready' = Unready /\ pc' = [pc EXCEPT ![c] = "drawn"]
       \/ ready' = Unready /\ pc' = [pc EXCEPT ![c] = "finish"]
    /\ UNCHANGED <<turn, gameMutex, pending, shown>>

\* prepareNextRound and its endCheck: the ante may have taken the last chip,
\* and whoever was out of chips at a draw still is.
PrepareNextRound(c) ==
    /\ At(c, "next") \/ At(c, "drawn")
    /\ \/ pc[c] = "next" /\ ready' = ready /\ pc' = [pc EXCEPT ![c] = "pass"]
       \/ ready' = Unready /\ pc' = [pc EXCEPT ![c] = "finish"]
    /\ UNCHANGED <<turn, gameMutex, pending, shown>>

\* finishGame: the final result to both, each in a section of its own.
FinishGame(c) ==
    /\ At(c, "finish")
    /\ Collect(c, <<Message(c, "Final")>> \o
                  (IF Paired THEN <<Message(Rival(c), "Final")>> ELSE <<>>), "reset")
    /\ UNCHANGED <<ready, turn, gameMutex, shown>>

\* Mutant of RemoveUser: gameWasRunning is read after the reset.
RemoveQuietly(c) ==
    /\ At(c, "remove")
    /\ ready' = [m \in Members \ {c} |-> FALSE]
    /\ Collect(c, <<Message(c, "Exit_Room_Complete")>> \o
                  (IF Paired THEN <<Message(Rival(c), "Exited")>> ELSE <<>>), "reset")
    /\ UNCHANGED <<turn, gameMutex, shown>>

\* handlePlayerExit as far as removeUser: gameWasRunning is the session's state.
RemoveUser(c) ==
    /\ At(c, "remove")
    /\ ready' = [m \in Members \ {c} |-> FALSE]
    /\ Collect(c, <<Message(c, "Exit_Room_Complete")>> \o
                  (IF Paired THEN <<Message(Rival(c), "Exited")>> ELSE <<>>) \o
                  (IF Paired /\ turn # NoSocket
                   THEN <<Message(Rival(c), "Aborted")>> ELSE <<>>), "reset")
    /\ UNCHANGED <<turn, gameMutex, shown>>

\* Mutant of ResetGame: resetGame, which locks gameMutex, instead of
\* resetGameUnlocked.
ResetGameLocking(c) ==
    /\ At(c, "reset") /\ gameMutex = NoOwner
    /\ turn' = NoSocket
    /\ pc' = [pc EXCEPT ![c] = "unlock"]
    /\ UNCHANGED <<ready, gameMutex, pending, shown>>

\* resetGameUnlocked, the end of finishGame and of handlePlayerExit.
ResetGame(c) ==
    /\ At(c, "reset")
    /\ turn' = NoSocket
    /\ pc' = [pc EXCEPT ![c] = "unlock"]
    /\ UNCHANGED <<ready, gameMutex, pending, shown>>
-------------------------------------------------------------------------------
\* A worker in the middle of a handler.
Step(c) ==
    \/ SendPending(c) \/ UserUpdate(c) \/ CheckReady(c) \/ StartSession(c)
    \/ Deal(c) \/ PassTurn(c) \/ EndCheck(c) \/ PrepareNextRound(c)
    \/ FinishGame(c) \/ RemoveUser(c) \/ ResetGame(c) \/ Unlock(c)

\* A command arrives at an idle worker.
Command(c) ==
    \/ AddUser(c) \/ GetRoomCount(c)
    \/ \E isReady \in BOOLEAN : HandleUserReady(c, isReady)
    \/ GameStartCommand(c) \/ BetCommand(c) \/ ExitCommand(c)

Next == \E c \in Client : Step(c) \/ Command(c)

\* A running handler is scheduled; nobody has to send a command, and a mutex
\* is owed to nobody in particular.
Spec == Init /\ [][Next]_vars /\ \A c \in Client : WF_vars(Step(c))
-------------------------------------------------------------------------------
(* Properties.                                                             *)

\* Every variable has its type; a room never has a third member.
TypeOK ==
    /\ \E seated \in SUBSET Client :
          Cardinality(seated) <= 2 /\ ready \in [seated -> BOOLEAN]
    /\ turn \in Client \cup {NoSocket}
    /\ gameMutex \in Client \cup {NoOwner}
    /\ pc \in [Client -> Sections]
    /\ pending \in [Client -> Seq([to: Client, kind: Kinds])]
    /\ shown \in [Client -> Display]

\* While a handler needs the pair of players it finds it: a game command is
\* served between two seats that stay taken, so passTurnToOpponent and the
\* broadcasts after the ready check never meet the "no opponent" return, and
\* whoever has the turn is seated (GameManager.cpp:50-67, exits take gameMutex).
PlayersStay ==
    /\ \A c \in Client : pc[c] \in {"start", "deal", "close", "next", "drawn",
                                         "pass", "finish"}
                            => Paired /\ c \in Members
    /\ turn # NoSocket /\ (\A c \in Client : pc[c] # "reset")
          => Paired /\ turn \in Members

\* Whenever no game handler runs, every client shows the match the server
\* runs: whose turn it is, or none for those without a match or a seat.  Game
\* messages are queued before gameMutex is released (GameManager.cpp:103).
TurnShown ==
    gameMutex = NoOwner =>
        \A c \in Client : shown[c].turn =
            (IF c \notin Members \/ turn = NoSocket THEN "None"
             ELSE IF turn = c THEN "My" ELSE "Other")

\* The room keeps the promise of Table although readiness is checked in one
\* critical section and the match is started, ended or aborted in later ones:
\* a match begins at the check (GameManager.cpp:155) and ends when endCheck or
\* removeUser has cleared the flags.
MatchRuns ==
    /\ turn # NoSocket \/ \E c \in Client : pc[c] = "start"
    /\ \A c \in Client : pc[c] \notin {"finish", "reset"}

T == INSTANCE Table WITH seated <- Members,
                         ready <- {m \in Members : ready[m]},
                         playing <- MatchRuns

ImplementsTable == T!Spec

\* A handler that has gameMutex gives it back: no handler waits for a lock it
\* holds (resetGame against resetGameUnlocked) or for a message to be read.
GameMutexFreed == \A c \in Client : gameMutex = c ~> gameMutex # c

\* What readme.md:90 and RoomManager.cpp:234 promise: the two players' ready
\* flags are kept in step.  Once every worker has finished, what a member shows
\* of its rival is what the server holds.
ReadinessInStep ==
    (\A c \in Client : At(c, "idle")) /\ Paired =>
        \A c \in Members : shown[c].rival \in {"Unknown", Flag(ready[Rival(c)])}
===============================================================================
