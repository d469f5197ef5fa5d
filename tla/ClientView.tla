------------------------------- MODULE ClientView -----------------------------
(***************************************************************************)
(* What the two clients of a room have been told of the match in progress, *)
(* once they have read everything queued for them.  The queue of a         *)
(* connection is first in first out and every game message is queued under *)
(* gameMutex, so the last value sent is the value the client ends with.    *)
(*                                                                         *)
(* A view is built only from the messages RoomManager collects (MY and     *)
(* OTHER forms).  Two things are the client's, whose code is in another    *)
(* repository: it forgets the match when it starts, ends or is aborted,    *)
(* and it clears the bets it shows when it is sent Game_Init.              *)
(***************************************************************************)
EXTENDS RoomManager

Unknown == -1

NoView == [turn |-> "None", chips |-> Unknown, rivalChips |-> Unknown,
           dealer |-> Unknown, card |-> NoCard, rivalFront |-> 0, rivalBack |-> 0,
           bet |-> <<0, 0>>, rivalBet |-> <<0, 0>>]

Blank(members) == [m \in members |-> NoView]

\* collectChipUpdateUnlocked for member c: MY to c, OTHER to its opponent.
TellChips(views, room, c) ==
    [m \in DOMAIN views |->
        IF m = c THEN [views[m] EXCEPT !.chips = room.users[c].chips]
                 ELSE [views[m] EXCEPT !.rivalChips = room.users[c].chips]]

\* The Dealer Chip_Update broadcast.
TellDealer(views, room) ==
    [m \in DOMAIN views |-> [views[m] EXCEPT !.dealer = room.dealer]]

\* collectBasicBet sends nothing when it collects nothing.
TellBasicBet(views, before, after, c) ==
    IF before = after THEN views
    ELSE TellDealer(TellChips(TellChips(views, after, c),
                              after, Opponent(after, c)), after)

\* Mutant of TellSettlement: the totals are compared after they are assigned.
TellUnchanged(views, before, after, c) == views

\* settleRound sends only the totals it changed.
TellSettlement(views, before, after, c) ==
    LET d   == Opponent(after, c)
        v1  == IF after.dealer # before.dealer THEN TellDealer(views, after) ELSE views
        v2  == IF after.users[c].chips # before.users[c].chips
               THEN TellChips(v1, after, c) ELSE v1
    IN IF after.users[d].chips # before.users[d].chips
       THEN TellChips(v2, after, d) ELSE v2

\* collectBetUpdateUnlocked: the side or sides of this bet, as new totals.
TellBet(views, room, c, requested) ==
    LET Told(shown) ==
            <<IF requested \in {"FRONT", "BOTH"} THEN room.users[c].front ELSE shown[1],
              IF requested \in {"BACK", "BOTH"} THEN room.users[c].back ELSE shown[2]>>
    IN [m \in DOMAIN views |->
           IF m = c THEN [views[m] EXCEPT !.bet = Told(@)]
                    ELSE [views[m] EXCEPT !.rivalBet = Told(@)]]

\* Mutant of TellCards: the opponent is sent both faces.
TellBothFaces(views, room) ==
    [m \in DOMAIN views |->
        LET rival == room.users[Opponent(room, m)]
        IN [views[m] EXCEPT !.card = room.users[m].card, !.rivalFront = rival.card[1],
                            !.rivalBack = rival.card[2]]]

\* updateCards: both faces of one's own card, the front of the opponent's.
\* A new card makes what was known of the old back worthless.
TellCards(views, room) ==
    [m \in DOMAIN views |->
        [views[m] EXCEPT !.card = room.users[m].card,
                         !.rivalFront = room.users[Opponent(room, m)].card[1],
                         !.rivalBack = 0]]

\* printCard: a back face is shown to the opponent of whoever bet on it.
RevealsBack(user) == user.bet \in {"BACK", "BOTH"}

TellBacks(views, room) ==
    [m \in DOMAIN views |->
        LET rival == room.users[Opponent(room, m)]
        IN [views[m] EXCEPT !.rivalBack = IF RevealsBack(rival) THEN rival.card[2] ELSE @]]

\* The Turn broadcasts: My to the player who moves, Other to the other one.
TellTurn(views, c) ==
    [m \in DOMAIN views |-> [views[m] EXCEPT !.turn = IF m = c THEN "My" ELSE "Other"]]

TellGameInit(views) ==
    [m \in DOMAIN views |-> [views[m] EXCEPT !.bet = <<0, 0>>, !.rivalBet = <<0, 0>>]]
===============================================================================
