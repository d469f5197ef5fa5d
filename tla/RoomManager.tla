------------------------------ MODULE RoomManager -----------------------------
(***************************************************************************)
(* TwofacedPoker/Room/RoomManager.cpp: the members of one room, their      *)
(* chips, bets and cards, and the chips on the table.                      *)
(*                                                                         *)
(* A room is a record: users maps each member to its User object, dealer   *)
(* is dealerChips.  The three containers users, socketUserNumber and       *)
(* connections are written together in one critical section and describe   *)
(* the same members, so a member is its connection and DOMAIN users is all *)
(* three.  Every method takes roomMutex once: it is a function from the    *)
(* room it finds to the room it leaves.  A method that finds no pair of    *)
(* members returns early; its operator is applied to paired rooms only.    *)
(***************************************************************************)
EXTENDS BettingRules, RoundResolver, SettlementRules, Deck

CONSTANTS DEFAULT_CHIPS,   \* the chips a match starts with, 30 in the code
          MAX_USERS        \* the seats of a room, 2 in the code

ASSUME ChipsAssumption ==
    /\ DEFAULT_CHIPS \in Nat /\ DEFAULT_CHIPS >= 2
    /\ MAX_USERS = 2

NoCard == <<0, 0>>

\* Faces of a card in hand; 0 when none has been dealt.
Card == (0..FACES) \X (0..FACES)

User == [ready: BOOLEAN, chips: Nat, front: Nat, back: Nat,
         card: Card, bet: BetType]

NewUser == [ready |-> FALSE, chips |-> 0, front |-> 0, back |-> 0,
            card |-> NoCard, bet |-> "NONE"]

EmptyRoom == [users |-> [m \in {} |-> NewUser], dealer |-> 0]

Members(room) == DOMAIN room.users

Paired(room) == Cardinality(Members(room)) = 2

\* findOpponentSocketUnlocked and findOpponentUserUnlocked
Opponent(room, c) == CHOOSE d \in Members(room) : d # c
\* The same table with other users.
WithUsers(room, users) == [users |-> users, dealer |-> room.dealer]
-------------------------------------------------------------------------------
CanAdd(room, c) == Cardinality(Members(room)) < MAX_USERS /\ c \notin Members(room)

AddUser(room, c) ==
    WithUsers(room, [m \in Members(room) \cup {c} |->
                        IF m = c THEN NewUser ELSE room.users[m]])

\* A user with the initial stack and neither bets nor cards.
Fresh(ready) == [NewUser EXCEPT !.chips = DEFAULT_CHIPS, !.ready = ready]

\* Whoever remains is not ready, has the default chips and no bets or cards.
RemoveUser(room, c) ==
    [users |-> [m \in Members(room) \ {c} |-> Fresh(FALSE)], dealer |-> 0]

SetReady(room, c, ready) ==
    WithUsers(room, [m \in Members(room) |->
        [room.users[m] EXCEPT !.ready = IF m = c THEN ready ELSE @]])

\* Mutant of AllUserStartReadyState: one ready player is enough.
SomeUserReady(room) ==
    Paired(room) /\ \E m \in Members(room) : room.users[m].ready

AllUserStartReadyState(room) ==
    Paired(room) /\ \A m \in Members(room) : room.users[m].ready

\* resetAllUsers(INIT), the only way it is called; readiness is kept.
ResetAllUsers(room) ==
    [users |-> [m \in Members(room) |-> Fresh(room.users[m].ready)], dealer |-> 0]

\* Both antes are taken or, when a member cannot pay, neither.
CanCollect(room, amount) == \A m \in Members(room) : room.users[m].chips >= amount

Ante(user, amount) == [user EXCEPT !.chips = @ - amount, !.bet = "NONE"]

CollectBasicBet(room, amount) ==
    IF ~ CanCollect(room, amount) THEN room
    ELSE [users  |-> [m \in Members(room) |-> Ante(room.users[m], amount)],
          dealer |-> room.dealer + 2 * amount]

UpdateCards(room, c, mine, theirs) ==
    WithUsers(room, [m \in Members(room) |->
        [room.users[m] EXCEPT !.card = IF m = c THEN mine ELSE theirs]])
-------------------------------------------------------------------------------
\* deductBetUnlocked's own check of a cost the rules have approved.
CanDeduct(user, cost) == cost > 0 /\ user.chips >= cost

\* betChips: CALL, RAISE or IMPOSSIBLE.
BetChipsResult(room, c, count, requested) ==
    IF CanDeduct(room.users[c], Cost(count, requested))
    THEN Evaluate(room.users[c], room.users[Opponent(room, c)], count, requested)
    ELSE "IMPOSSIBLE"

\* deductBetUnlocked, then updateBetInfoUnlocked.
Staked(user, count, requested) ==
    [user EXCEPT !.chips = @ - Cost(count, requested),
                 !.bet   = requested,
                 !.front = IF requested \in {"FRONT", "BOTH"} THEN @ + count ELSE @,
                 !.back  = IF requested \in {"BACK", "BOTH"} THEN @ + count ELSE @]

\* betChips of an allowed bet.
BetChips(room, c, count, requested) ==
    WithUsers(room, [m \in Members(room) |->
        IF m = c THEN Staked(room.users[m], count, requested) ELSE room.users[m]])

HigherFace(card) == IF card[1] < card[2] THEN "BACK" ELSE "FRONT"

\* specialCase: every member is put on the side of its higher face.
SpecialCase(room) ==
    WithUsers(room, [m \in Members(room) |->
        [room.users[m] EXCEPT !.bet = HigherFace(room.users[m].card)]])

CompareCard(room, c) == Resolve(room.users[c], room.users[Opponent(room, c)])

\* compareCard clears the chosen sides once the round has a result.
ClearBetTypes(room) ==
    WithUsers(room, [m \in Members(room) |-> [room.users[m] EXCEPT !.bet = "NONE"]])

Paid(user, chips) == [user EXCEPT !.chips = chips, !.front = 0, !.back = 0]

SettleRound(room, c, result) ==
    LET totals == Settle(room.users[c], room.users[Opponent(room, c)],
                         room.dealer, result)
    IN [users  |-> [m \in Members(room) |->
                      Paid(room.users[m],
                           IF m = c THEN totals.current ELSE totals.opponent)],
        dealer |-> totals.dealer]

\* Mutant of EndCheckResult: the last chip does not keep a player in.
EndCheckResultEarly(room, c) ==
    IF room.users[c].chips <= 1 THEN "FINAL_LOSE"
    ELSE IF room.users[Opponent(room, c)].chips <= 1 THEN "FINAL_WIN" ELSE "PROGRESS"

\* endCheck: the closing player is examined before the opponent.
EndCheckResult(room, c) ==
    IF room.users[c].chips <= 0 THEN "FINAL_LOSE"
    ELSE IF room.users[Opponent(room, c)].chips <= 0 THEN "FINAL_WIN" ELSE "PROGRESS"

\* endCheck clears both ready flags as soon as somebody has no chips.
EndCheck(room, c) ==
    IF EndCheckResult(room, c) = "PROGRESS" THEN room
    ELSE WithUsers(room, [m \in Members(room) |-> [room.users[m] EXCEPT !.ready = FALSE]])
===============================================================================
