------------------------------ MODULE GameManager -----------------------------
(***************************************************************************)
(* One room and its match: TwofacedPoker/Game/GameManager.cpp and          *)
(* GameSession.cpp driving RoomManager.                                    *)
(*                                                                         *)
(* A handler holds gameMutex from its first to its last line, and nothing  *)
(* that runs without gameMutex reads or writes chips, bets, cards, turn or *)
(* deck.  Each handler is therefore one action here.  What can slip in     *)
(* between its calls to the room (ready toggles, joins, chat) touches the  *)
(* ready flags and the membership only; those interleavings belong to the  *)
(* thread-level model.  A command that is refused changes nothing and is a *)
(* stuttering step.                                                        *)
(***************************************************************************)
EXTENDS ClientView

CONSTANTS Client,     \* the logged-in connections that may sit in the room
          NoSocket,   \* INVALID_SOCKET
          Counts      \* the chip counts a client may ask to bet

ASSUME ClientAssumption == IsFiniteSet(Client) /\ NoSocket \notin Client
ASSUME CountsAssumption == Counts \subseteq Int

VARIABLES room,      \* the RoomManager
          session,   \* the GameSession: its state and currentTurnSocket
          deck,      \* the cards left in the session's deck
          view,      \* what each member has been told of the match
          verdict    \* the last Game_result broadcast: round result and match winner

vars == <<room, session, deck, view, verdict>>

Waiting == [state |-> "WAITING", turn |-> NoSocket]
Betting(c) == [state |-> "BETTING", turn |-> c]

\* The Game_result broadcasts of a step: the result of a round, from the side
\* of the player who closed it, and the winner if it ended the match.
Verdict(result, winner) == [round |-> result, winner |-> winner]
NoVerdict == Verdict("NONE", NoSocket)

Init ==
    /\ room = EmptyRoom
    /\ session = Waiting
    /\ deck = FullDeck
    /\ view = Blank({})
    /\ verdict = NoVerdict
-------------------------------------------------------------------------------
(* Members come, go and get ready.                                         *)

\* RoomRegistry::createAndJoin or tryJoin
Join(c) ==
    /\ CanAdd(room, c)
    /\ room' = AddUser(room, c)
    /\ view' = Blank(Members(room'))
    /\ UNCHANGED <<session, deck, verdict>>

\* Mutant of HandlePlayerExit: the session is not reset.
ExitMidMatch(c) ==
    /\ c \in Members(room)
    /\ room' = RemoveUser(room, c)
    /\ view' = Blank(Members(room'))
    /\ verdict' = NoVerdict
    /\ UNCHANGED <<session, deck>>

HandlePlayerExit(c) ==
    /\ c \in Members(room)
    /\ room' = RemoveUser(room, c)
    /\ session' = Waiting
    /\ view' = Blank(Members(room'))
    /\ verdict' = NoVerdict
    /\ UNCHANGED deck

\* The flag is taken at any time, a running match included.
UserReady(c, ready) ==
    /\ c \in Members(room) /\ Paired(room)
    /\ room' = SetReady(room, c, ready)
    /\ UNCHANGED <<session, deck, view, verdict>>
-------------------------------------------------------------------------------
(* A round: the ante, the deal, bets in turn, a fold or a showdown.        *)

HandleGameStart(c) ==
    /\ session.state = "WAITING"
    /\ c \in Members(room) /\ AllUserStartReadyState(room)
    /\ session' = Betting(c)
    /\ LET fresh  == ResetAllUsers(room)
           staked == CollectBasicBet(fresh, 1)
           told   == TellBasicBet(TellTurn(TellGameInit(Blank(Members(room))), c),
                                  fresh, staked, c)
       IN \E mine \in Supply(deck) : \E theirs \in Supply(DealCard(deck, mine)) :
            /\ deck' = DealCard(DealCard(deck, mine), theirs)
            /\ room' = UpdateCards(staked, c, mine, theirs)
            /\ view' = TellCards(told, room')
    /\ verdict' = NoVerdict

\* finishGame after endCheck has found a player without chips.
FinishGame(c, final, result) ==
    /\ room' = EndCheck(final, c)
    /\ session' = Waiting
    /\ view' = Blank(Members(final))
    /\ verdict' = Verdict(result, IF EndCheckResult(final, c) = "FINAL_WIN"
                                  THEN c ELSE Opponent(final, c))

\* prepareNextRound: a draw keeps the table and takes no ante.
PrepareNextRound(c, settled, views, result) ==
    LET staked == IF result = "DRAW" THEN settled ELSE CollectBasicBet(settled, 1)
        told   == IF result = "DRAW" THEN views
                  ELSE TellBasicBet(views, settled, staked, c)
        next   == Opponent(settled, c)
    IN \E mine \in Supply(deck) : \E theirs \in Supply(DealCard(deck, mine)) :
        LET dealt == UpdateCards(staked, c, mine, theirs)
        IN /\ deck' = DealCard(DealCard(deck, mine), theirs)
           /\ \/ /\ EndCheckResult(dealt, c) # "PROGRESS"
                 /\ FinishGame(c, dealt, result)
              \/ /\ EndCheckResult(dealt, c) = "PROGRESS"
                 /\ room' = dealt
                 /\ session' = Betting(next)
                 /\ view' = TellTurn(TellGameInit(TellCards(told, dealt)), next)
                 /\ verdict' = Verdict(result, NoSocket)

\* The tail of processRoundEnd: settle, look for a loser, go on.  The first
\* look is overruled by a draw, but its clearing of the ready flags is not.
CloseRound(c, open, views, result) ==
    LET settled == SettleRound(open, c, result)
        told    == TellSettlement(views, open, settled, c)
    IN \/ /\ result # "DRAW" /\ EndCheckResult(settled, c) # "PROGRESS"
          /\ FinishGame(c, settled, result)
          /\ UNCHANGED deck
       \/ /\ result = "DRAW" \/ EndCheckResult(settled, c) = "PROGRESS"
          /\ PrepareNextRound(c, EndCheck(settled, c), told, result)

\* processRoundEnd of a call: cards are shown, then compared.  A round that
\* cannot be resolved would be left as it is, with the cards open.
Showdown(c, open, views) ==
    LET result == CompareCard(open, c)
        shown  == TellBacks(views, open)
    IN IF result = "IMPOSSIBLE"
       THEN /\ room' = open
            /\ view' = shown
            /\ verdict' = Verdict(result, NoSocket)
            /\ UNCHANGED <<session, deck>>
       ELSE CloseRound(c, ClearBetTypes(open), shown, result)

\* The guards of Handle_Game_Event for a betting message.
HasTurn(c) == session.state = "BETTING" /\ session.turn = c

Raise(c, count, side) ==
    /\ HasTurn(c)
    /\ BetChipsResult(room, c, count, side) = "RAISE"
    /\ room' = BetChips(room, c, count, side)
    /\ session' = Betting(Opponent(room, c))
    /\ view' = TellTurn(TellBet(TellChips(view, room', c), room', c, side),
                        Opponent(room, c))
    /\ verdict' = NoVerdict
    /\ UNCHANGED deck

Call(c, count, side) ==
    /\ HasTurn(c)
    /\ BetChipsResult(room, c, count, side) = "CALL"
    /\ LET matched == BetChips(room, c, count, side)
       IN Showdown(c, matched, TellBet(TellChips(view, matched, c), matched, c, side))

\* DIE: the folder loses the round, whatever the opponent bet on.
Fold(c) ==
    /\ HasTurn(c)
    /\ CloseRound(c, room, view, "LOSE")

\* SPECIAL: a showdown of the higher faces at the stakes as they are.
Special(c) ==
    /\ HasTurn(c)
    /\ Showdown(c, SpecialCase(room), view)

Bet(c) ==
    \/ \E count \in Counts, side \in ChipBet :
          Raise(c, count, side) \/ Call(c, count, side)
    \/ Fold(c)
    \/ Special(c)

Next ==
    \E c \in Client :
        \/ Join(c)
        \/ HandlePlayerExit(c)
        \/ \E ready \in BOOLEAN : UserReady(c, ready)
        \/ HandleGameStart(c)
        \/ Bet(c)

Spec == Init /\ [][Next]_vars
-------------------------------------------------------------------------------
(* What must hold of every room.                                           *)

Playing == session.state = "BETTING"

\* The two sides of the table, as seen by the player whose turn it is.
Mover == room.users[session.turn]
Rival == room.users[Opponent(room, session.turn)]

\* Every variable has its type: chips and stakes never go negative, a member
\* has exactly one User object, cards come from the deck's faces.
TypeOK ==
    /\ \E seated \in SUBSET Client : room \in [users: [seated -> User], dealer: Nat]
    /\ session \in [state: {"WAITING", "BETTING"}, turn: Client \cup {NoSocket}]
    /\ deck \in SUBSET FullDeck
    /\ DOMAIN view = Members(room)
    /\ verdict \in [round: RoundResult \cup {"NONE"}, winner: Client \cup {NoSocket}]

\* While a match runs two members are seated and one of them has the turn;
\* otherwise nobody has (GameSession::reset on every exit and every end).
SeatsTaken ==
    IF Playing THEN Paired(room) /\ session.turn \in Members(room)
               ELSE session.turn = NoSocket

\* Antes, bets, settlements, bonuses and carried-over pots only move chips:
\* what the players hold, what they have staked and what lies on the table is
\* always the two initial stacks (RoomManager::settleRound, collectBasicBet).
ChipsConserved ==
    Playing => \A c, d \in Members(room) : c # d =>
        room.users[c].chips + room.users[d].chips + room.dealer
            + Pot(room.users[c], room.users[d]) = 2 * DEFAULT_CHIPS

\* The player to move is behind the opponent's stake, or the round has no bet
\* yet: no accepted bet leaves the stakes level with the round still open
\* (BettingRules::evaluate: level with the opponent is a call).
MoverOwes ==
    Playing => \/ Level(Mover) < Level(Rival)
               \/ Level(Mover) = 0 /\ Level(Rival) = 0

\* Chips lie exactly on the side a player has chosen, equally on two sides for
\* BOTH, and never do both players bet on both sides (a player cannot switch
\* sides within a round, updateBetInfoUnlocked adds to the chosen side only).
StakesFitSides ==
    /\ Playing => \A c \in Members(room) :
          LET u == room.users[c]
          IN \/ u.bet = "NONE"  /\ u.front = 0 /\ u.back = 0
             \/ u.bet = "FRONT" /\ u.front > 0 /\ u.back = 0
             \/ u.bet = "BACK"  /\ u.front = 0 /\ u.back > 0
             \/ u.bet = "BOTH"  /\ u.front > 0 /\ u.back = u.front
    /\ Playing => ~ (Mover.bet = "BOTH" /\ Rival.bet = "BOTH")

\* The player to move always has a chip, and one who is not bound to both
\* sides can pay what it takes to call: a raise beyond the opponent's means is
\* refused (BettingRules.cpp:63-70).
CallIsAffordable ==
    Playing => /\ Mover.chips > 0
               /\ Mover.bet # "BOTH" => Level(Rival) - Level(Mover) <= Mover.chips

\* No call and no SPECIAL ever meets the "Card comparison failed" return that
\* would leave the round open with the cards already shown.
RoundsResolve == verdict.round # "IMPOSSIBLE"

\* The two cards in play are different cards of one deck and neither of them
\* is still in it: a refill never falls between the two cards of a deal.
CardsAreDealtOnce ==
    Playing => \A c, d \in Members(room) :
        /\ room.users[c].card \in FullDeck \ deck
        /\ c # d => room.users[c].card # room.users[d].card

\* Whenever somebody is to move, what each client was told of chips, bets,
\* table, cards and turn is what the server holds, although settlements send
\* only the totals they changed and bets only the sides they touched.
ViewsAgree ==
    Playing => \A m \in Members(room) :
        LET me    == room.users[m]
            rival == room.users[Opponent(room, m)]
            shown == view[m]
        IN /\ shown.turn = (IF session.turn = m THEN "My" ELSE "Other")
           /\ shown.chips = me.chips /\ shown.rivalChips = rival.chips
           /\ shown.dealer = room.dealer
           /\ shown.card = me.card /\ shown.rivalFront = rival.card[1]
           /\ shown.bet = <<me.front, me.back>>
           /\ shown.rivalBet = <<rival.front, rival.back>>

\* While a round is open no client knows its opponent's back face: the faces
\* printCard opens are always replaced by a new deal before the next bet.
BackCardHidden ==
    Playing => \A m \in Members(room) : view[m].rivalBack = 0

\* However a match is decided, also by a draw with somebody all-in, by a bonus or
\* by the next ante: the loser is out of chips, and every chip is with the winner
\* or on the table (endCheck, which prepareNextRound repeats after the deal).
WinnerTakesAll ==
    verdict.winner # NoSocket =>
        /\ room.users[Opponent(room, verdict.winner)].chips = 0
        /\ room.users[verdict.winner].chips + room.dealer = 2 * DEFAULT_CHIPS

\* Handler by handler the room does what Table promises: a match starts with two
\* ready players, nobody's exit leaves one running, and at its end both have to
\* get ready again (All_User_Start_Ready_State, removeUser, endCheck).
T == INSTANCE Table WITH seated <- Members(room),
                         ready <- {m \in Members(room) : room.users[m].ready},
                         playing <- Playing

ImplementsTable == T!Spec

\* The result seen from the other side of the table.
Mirror(result) ==
    CASE result = "WIN"       -> "LOSE"
      [] result = "LOSE"      -> "WIN"
      [] result = "BOTH_WIN"  -> "BOTH_LOSE"
      [] result = "BOTH_LOSE" -> "BOTH_WIN"
      [] OTHER -> result

\* It makes no difference who closes the round: the cards and sides on the
\* table give the mirrored result and the same stacks whichever player is
\* "current" (RoundResolver::resolve and SettlementRules::settle treat a bet on
\* both sides in separate branches for the two players).
ClosingSideIsFair ==
    Playing =>
        LET mine   == Resolve(Mover, Rival)
            theirs == Resolve(Rival, Mover)
            here   == Settle(Mover, Rival, room.dealer, mine)
            there  == Settle(Rival, Mover, room.dealer, theirs)
        IN /\ theirs = Mirror(mine)
           /\ mine # "IMPOSSIBLE" =>
                 here = Totals(there.opponent, there.current, there.dealer)
-------------------------------------------------------------------------------
(* What comments of the code say and the code does not do.                 *)

\* GameManager.cpp:298: a draw carries the pot over and does not end the match.
DrawCarriesOver == verdict.round = "DRAW" => verdict.winner = NoSocket

\* BettingRules.cpp:63: nobody is raised beyond what its chips can follow, so
\* whoever is behind has a bet that calls.
RaiseCanBeFollowed ==
    Playing /\ Level(Mover) < Level(Rival) =>
        \E side \in ChipBet :
            Evaluate(Mover, Rival, Level(Rival) - Level(Mover), side) = "CALL"

\* RoundResolver.cpp:24: folding against a bet on both sides is BOTH_LOSE.
FoldAgainstBoth ==
    [][\A c \in Client :
         Fold(c) /\ room.users[Opponent(room, c)].bet = "BOTH"
            => verdict'.round = ResolveFold(room.users[Opponent(room, c)])]_vars
===============================================================================
