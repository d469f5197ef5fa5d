---------------------------- MODULE GameRoundProofs ---------------------------
(***************************************************************************)
(* What holds within a match, for every deck, stack and bonus: RoundInv,   *)
(* one inductive invariant about stakes, cards and the end of a match, and *)
(* with it the refinement of Table. First come the fields each operation   *)
(* of the room leaves, then one lemma per handler. The last part is about  *)
(* the clients: what each has been told is what the server holds, whatever *)
(* the course of the match; one lemma says what each message changes in    *)
(* the views and what it leaves, one per handler what they add up to.      *)
(***************************************************************************)
EXTENDS GameManagerProofs

-------------------------------------------------------------------------------
(* What the operations of the room leave in the fields of its users.       *)

LEMMA ResetAllUsersFields ==
    ASSUME NEW r, NEW c, NEW d, Table(r, c, d)
    PROVE  \A m \in {c, d} :
               LET u == ResetAllUsers(r).users[m]
               IN /\ u.chips = DEFAULT_CHIPS /\ u.front = 0 /\ u.back = 0
                  /\ u.bet = "NONE" /\ u.ready = r.users[m].ready
<1>1. \A m \in {c, d} : r.users[m].ready \in BOOLEAN
  BY OpponentLemma DEF User
<1>. QED
  BY <1>1, OpponentLemma, FreshFields DEF ResetAllUsers

LEMMA CollectBasicBetFields ==
    ASSUME NEW r, NEW c, NEW d, Table(r, c, d),
           NEW amount \in Nat, CanCollect(r, amount)
    PROVE  \A m \in {c, d} :
               LET u == CollectBasicBet(r, amount).users[m]
               IN /\ u.chips = r.users[m].chips - amount
                  /\ u.front = r.users[m].front /\ u.back = r.users[m].back
                  /\ u.bet = "NONE" /\ u.ready = r.users[m].ready
<1>1. \A m \in {c, d} : r.users[m] \in User /\ r.users[m].chips >= amount
  BY OpponentLemma DEF CanCollect
<1>2. \A m \in {c, d} : CollectBasicBet(r, amount).users[m] = Ante(r.users[m], amount)
  BY OpponentLemma DEF CollectBasicBet
<1>. QED
  BY <1>1, <1>2, AnteFields

LEMMA UpdateCardsFields ==
    ASSUME NEW r, NEW c, NEW d, Table(r, c, d), NEW a \in {c, d},
           NEW mine \in Card, NEW theirs \in Card
    PROVE  \A m \in {c, d} :
               LET u == UpdateCards(r, a, mine, theirs).users[m]
               IN /\ u.chips = r.users[m].chips
                  /\ u.front = r.users[m].front /\ u.back = r.users[m].back
                  /\ u.bet = r.users[m].bet /\ u.ready = r.users[m].ready
                  /\ u.card = IF m = a THEN mine ELSE theirs
  BY OpponentLemma DEF UpdateCards, WithUsers, User

LEMMA BetChipsFields ==
    ASSUME NEW r, NEW c, NEW d, Table(r, c, d),
           NEW count \in Nat, NEW side \in ChipBet,
           Cost(count, side) <= r.users[c].chips
    PROVE  LET u == BetChips(r, c, count, side).users[c]
           IN /\ u.chips = r.users[c].chips - Cost(count, side)
              /\ u.front = IF side \in {"FRONT", "BOTH"} THEN r.users[c].front + count
                                                         ELSE r.users[c].front
              /\ u.back = IF side \in {"BACK", "BOTH"} THEN r.users[c].back + count
                                                       ELSE r.users[c].back
              /\ u.bet = side /\ u.ready = r.users[c].ready /\ u.card = r.users[c].card
              /\ BetChips(r, c, count, side).users[d] = r.users[d]
<1>1. BetChips(r, c, count, side).users[c] = Staked(r.users[c], count, side)
  BY OpponentLemma DEF BetChips, WithUsers
<1>2. BetChips(r, c, count, side).users[d] = r.users[d]
  BY OpponentLemma DEF BetChips, WithUsers
<1>3. r.users[c] \in User
  BY OpponentLemma
<1>. QED
  BY <1>1, <1>2, <1>3, StakedFields

LEMMA SpecialCaseFields ==
    ASSUME NEW r, NEW c, NEW d, Table(r, c, d)
    PROVE  \A m \in {c, d} :
               LET u == SpecialCase(r).users[m]
               IN /\ u.bet \in {"FRONT", "BACK"} /\ u.ready = r.users[m].ready
                  /\ u.card = r.users[m].card /\ u.chips = r.users[m].chips
  BY OpponentLemma DEF SpecialCase, WithUsers, User, HigherFace

LEMMA ClearBetTypesFields ==
    ASSUME NEW r, NEW c, NEW d, Table(r, c, d)
    PROVE  \A m \in {c, d} :
               LET u == ClearBetTypes(r).users[m]
               IN /\ u.bet = "NONE" /\ u.ready = r.users[m].ready
                  /\ u.card = r.users[m].card /\ u.chips = r.users[m].chips
  BY OpponentLemma DEF ClearBetTypes, WithUsers, User

LEMMA SettleRoundFields ==
    ASSUME NEW r, NEW c, NEW d, Table(r, c, d), NEW result
    PROVE  \A m \in {c, d} :
               LET u == SettleRound(r, c, result).users[m]
               IN /\ u.front = 0 /\ u.back = 0 /\ u.bet = r.users[m].bet
                  /\ u.ready = r.users[m].ready
<1>. DEFINE t == Settle(r.users[c], r.users[d], r.dealer, result)
<1>1. t.current \in Nat /\ t.opponent \in Nat
  BY OpponentLemma, SettleConserves
<1>. HIDE DEF t
<1>. SUFFICES ASSUME NEW m \in {c, d}
              PROVE  LET u == SettleRound(r, c, result).users[m]
                     IN /\ u.front = 0 /\ u.back = 0 /\ u.bet = r.users[m].bet
                        /\ u.ready = r.users[m].ready
  OBVIOUS
<1>2. PICK n \in Nat : n = IF m = c THEN t.current ELSE t.opponent
  BY <1>1
<1>3. SettleRound(r, c, result).users[m] = Paid(r.users[m], n) /\ r.users[m] \in User
  BY <1>2, OpponentLemma DEF SettleRound, t
<1>. QED
  BY <1>3, PaidFields

\* Either somebody has no chips and nobody is ready any more, or nothing changes.
LEMMA EndCheckFields ==
    ASSUME NEW r, NEW c, NEW d, Table(r, c, d)
    PROVE  /\ EndCheckResult(r, c) = "PROGRESS" =>
                  /\ EndCheck(r, c) = r
                  /\ r.users[c].chips > 0 /\ r.users[d].chips > 0
           /\ EndCheckResult(r, c) # "PROGRESS" =>
                  \A m \in {c, d} : ~ EndCheck(r, c).users[m].ready
           /\ \A m \in {c, d} :
                  LET u == EndCheck(r, c).users[m]
                  IN /\ u.chips = r.users[m].chips
                     /\ u.front = r.users[m].front /\ u.back = r.users[m].back
                     /\ u.bet = r.users[m].bet
<1>1. /\ Members(r) = {c, d} /\ Opponent(r, c) = d
      /\ \A m \in {c, d} : r.users[m] \in User
  BY OpponentLemma
<1>2. EndCheckResult(r, c) = "PROGRESS" =>
          EndCheck(r, c) = r /\ r.users[c].chips > 0 /\ r.users[d].chips > 0
  BY <1>1 DEF EndCheck, EndCheckResult, User
<1>3. EndCheckResult(r, c) # "PROGRESS" =>
          \A m \in {c, d} : EndCheck(r, c).users[m] = [r.users[m] EXCEPT !.ready = FALSE]
  BY <1>1 DEF EndCheck, WithUsers
<1>4. \A u \in User : LET v == [u EXCEPT !.ready = FALSE]
                      IN /\ ~ v.ready /\ v.chips = u.chips /\ v.bet = u.bet
                         /\ v.front = u.front /\ v.back = u.back
  BY DEF User
<1>5. \A m \in {c, d} : LET u == EndCheck(r, c).users[m]
                       IN /\ u.chips = r.users[m].chips /\ u.bet = r.users[m].bet
                          /\ u.front = r.users[m].front /\ u.back = r.users[m].back
  <2>1. CASE EndCheckResult(r, c) = "PROGRESS"
    BY <1>2, <2>1
  <2>2. CASE EndCheckResult(r, c) # "PROGRESS"
    BY <1>1, <1>3, <1>4, <2>2
  <2>. QED
    BY <2>1, <2>2
<1>6. EndCheckResult(r, c) # "PROGRESS" => \A m \in {c, d} : ~ EndCheck(r, c).users[m].ready
  <2>1. \A m \in {c, d} : ~ [r.users[m] EXCEPT !.ready = FALSE].ready
    BY <1>1, <1>4
  <2>. QED
    BY <1>3, <2>1
<1>. QED
  BY <1>2, <1>5, <1>6
-------------------------------------------------------------------------------
(* Cards: the deck is full of pairs, so its size is always even.           *)

Even(S) == IsFiniteSet(S) /\ \E n \in Nat : Cardinality(S) = 2 * n

\* Every card has its mirror image in the deck.
LEMMA FullDeckIsEven == Even(FullDeck) /\ FullDeck # {}
<1>. DEFINE Low  == {card \in FullDeck : card[1] < card[2]}
            High == {card \in FullDeck : card[1] > card[2]}
            swap == [card \in Low |-> <<card[2], card[1]>>]
<1>1. IsFiniteSet(FullDeck) /\ IsFiniteSet(Low) /\ IsFiniteSet(High)
  <2>1. IsFiniteSet((1..FACES) \X (1..FACES))
    <3>1. IsFiniteSet(1..FACES)
      BY FacesAssumption, FS_Interval
    <3>. QED
      BY <3>1, FS_Product
  <2>2. FullDeck \in SUBSET ((1..FACES) \X (1..FACES))
    BY DEF FullDeck
  <2>3. IsFiniteSet(FullDeck)
    BY <2>1, <2>2, FS_Subset
  <2>4. Low \in SUBSET FullDeck /\ High \in SUBSET FullDeck
    OBVIOUS
  <2>. QED
    BY <2>3, <2>4, FS_Subset
<1>2. ExistsBijection(Low, High)
  <2>1. swap \in [Low -> High]
    BY DEF FullDeck
  <2>2. \A a, b \in Low : swap[a] = swap[b] => a = b
    BY DEF FullDeck
  <2>3. ASSUME NEW h \in High PROVE \E a \in Low : swap[a] = h
    <3>1. h[1] \in 1..FACES /\ h[2] \in 1..FACES /\ h[1] > h[2] /\ h = <<h[1], h[2]>>
      BY DEF FullDeck
    <3>2. <<h[2], h[1]>> \in Low
      BY <3>1, FacesAssumption DEF FullDeck
    <3>3. swap[<<h[2], h[1]>>] = h
      BY <3>1, <3>2
    <3>. QED
      BY <3>2, <3>3
  <2>. QED
    BY <2>1, <2>2, <2>3 DEF ExistsBijection, Bijection, Injection, Surjection, IsInjective
<1>3. Cardinality(High) = Cardinality(Low) /\ Cardinality(Low) \in Nat
  BY <1>1, <1>2, FS_Bijection, FS_CardinalityType
<1>4. FullDeck = Low \cup High /\ Low \cap High = {}
  BY FacesAssumption DEF FullDeck
<1>5. <<1, 2>> \in FullDeck
  BY FacesAssumption DEF FullDeck
<1>. HIDE DEF Low, High
<1>6. Cardinality(Low \cup High) = Cardinality(Low) + Cardinality(High) - Cardinality(Low \cap High)
  BY <1>1, FS_Union
<1>7. Cardinality(Low \cap High) = 0
  BY <1>4, FS_EmptySet
<1>8. Cardinality(FullDeck) = 2 * Cardinality(Low)
  BY <1>3, <1>4, <1>6, <1>7
<1>. QED
  BY <1>1, <1>3, <1>5, <1>8 DEF Even

\* Two cards dealt from it are different and gone, and what is left is even again.
LEMMA TwoCards ==
    ASSUME NEW cards \in SUBSET FullDeck, Even(cards),
           NEW mine \in Supply(cards), NEW theirs \in Supply(DealCard(cards, mine))
    PROVE  LET left == DealCard(DealCard(cards, mine), theirs)
           IN /\ mine # theirs /\ Even(left)
              /\ mine \in FullDeck \ left /\ theirs \in FullDeck \ left
<1>. DEFINE full == Supply(cards)
            rest == full \ {mine}
<1>1. Even(full) /\ full \in SUBSET FullDeck
  BY FullDeckIsEven DEF Supply
<1>2. DealCard(cards, mine) = rest
  BY DEF DealCard
<1>. HIDE DEF full
<1>3. mine \in full
  BY DEF full
<1>4. PICK n \in Nat : Cardinality(full) = 2 * n
  BY <1>1 DEF Even
<1>5. IsFiniteSet(rest) /\ Cardinality(rest) = 2 * n - 1
  BY <1>1, <1>3, <1>4, FS_RemoveElement DEF Even
<1>6. rest # {}
  BY <1>4, <1>5, FS_EmptySet
<1>7. Supply(rest) = rest /\ theirs \in rest
  BY <1>2, <1>6 DEF Supply
<1>8. DealCard(rest, theirs) = rest \ {theirs}
  BY <1>7 DEF DealCard
<1>9. IsFiniteSet(rest \ {theirs}) /\ Cardinality(rest \ {theirs}) = 2 * n - 2
  <2>. HIDE DEF rest
  <2>1. Cardinality(rest \ {theirs}) = Cardinality(rest) - 1 /\ IsFiniteSet(rest \ {theirs})
    BY <1>5, <1>7, FS_RemoveElement
  <2>. QED
    BY <1>4, <1>5, <2>1
<1>10. n - 1 \in Nat /\ 2 * n - 2 = 2 * (n - 1)
  BY <1>3, <1>1, <1>4, <1>5, FS_CardinalityType
<1>11. Even(rest \ {theirs})
  BY <1>9, <1>10 DEF Even
<1>. QED
  BY <1>1, <1>2, <1>3, <1>7, <1>8, <1>11
-------------------------------------------------------------------------------
(* The invariant.                                                          *)

\* Chips lie on the chosen side, equally on both sides for BOTH.
Sided(u) ==
    \/ u.bet = "NONE"  /\ u.front = 0 /\ u.back = 0
    \/ u.bet = "FRONT" /\ u.front > 0 /\ u.back = 0
    \/ u.bet = "BACK"  /\ u.front = 0 /\ u.back > 0
    \/ u.bet = "BOTH"  /\ u.front > 0 /\ u.back = u.front

\* A table at which c is to bet against d.
Fair(r, c, d) ==
    LET mover == r.users[c]
        rival == r.users[d]
    IN /\ Sided(mover) /\ Sided(rival)
       /\ ~ (mover.bet = "BOTH" /\ rival.bet = "BOTH")
       /\ Level(mover) < Level(rival) \/ (Level(mover) = 0 /\ Level(rival) = 0)
       /\ mover.chips > 0
       /\ mover.bet # "BOTH" => Level(rival) - Level(mover) <= mover.chips

\* The cards in play are different and not in the deck.
Dealt(r, cards, c, d) ==
    /\ r.users[c].card \in FullDeck \ cards /\ r.users[d].card \in FullDeck \ cards
    /\ r.users[c].card # r.users[d].card

\* l has lost all it had to w and to the table.
Beaten(r, w, l) == r.users[l].chips = 0 /\ r.users[w].chips + r.dealer = 2 * DEFAULT_CHIPS

\* A winner stays the winner until a match starts or somebody leaves.
WinnerStays ==
    verdict.winner # NoSocket =>
        /\ ~ Playing /\ Paired(room) /\ verdict.winner \in Members(room)
        /\ \A l \in Members(room) : l # verdict.winner => Beaten(room, verdict.winner, l)

RoundInv ==
    /\ MatchInv
    /\ MoverOwes /\ StakesFitSides /\ CallIsAffordable /\ RoundsResolve
    /\ Even(deck) /\ CardsAreDealtOnce
    /\ WinnerStays

\* What every step at a table of c and d leaves, as far as rounds go ...
RoundOK(c, d) ==
    /\ Table(room', c, d)
    /\ verdict'.round # "IMPOSSIBLE"
    /\ Even(deck')
    /\ \/ /\ session' = Waiting
          /\ verdict'.winner # NoSocket =>
                \/ verdict'.winner = c /\ Beaten(room', c, d)
                \/ verdict'.winner = d /\ Beaten(room', d, c)
       \/ /\ \/ session' = Betting(c) /\ Fair(room', c, d)
             \/ session' = Betting(d) /\ Fair(room', d, c)
          /\ Dealt(room', deck', c, d)
          /\ verdict'.winner = NoSocket

\* ... and every step of a match that found the room r, as far as readiness goes:
\* the end of a match unreadies both players, whatever goes on both or neither.
FlagsOK(c, d, r) ==
    \/ \A m \in {c, d} : ~ room'.users[m].ready
    \/ session' # Waiting /\ \A m \in {c, d} : room'.users[m].ready = r.users[m].ready

LEMMA RoundOKSuffices ==
    ASSUME NEW c \in Client, NEW d \in Client, MatchInv', RoundOK(c, d)
    PROVE  RoundInv'
<1>1. /\ Members(room') = {c, d} /\ c # d
      /\ Opponent(room', c) = d /\ Opponent(room', d) = c
  BY OpponentLemma DEF RoundOK
<1>2. CASE session' = Waiting
  <2>1. ~ Playing'
    BY <1>2, SessionFields DEF Playing
  <2>2. WinnerStays'
    <3>1. Paired(room')
      BY TableIsPaired DEF RoundOK
    <3>. QED
      BY <1>1, <1>2, <2>1, <3>1, SessionFields DEF RoundOK, WinnerStays
  <2>. QED
    BY <2>1, <2>2 DEF RoundOK, RoundInv, MoverOwes, StakesFitSides, CallIsAffordable,
                      RoundsResolve, CardsAreDealtOnce
<1>3. ASSUME NEW a \in {c, d}, NEW b \in {c, d}, a # b,
             session' = Betting(a), Fair(room', a, b)
      PROVE  RoundInv'
  <2>1. session'.turn = a /\ Opponent(room', session'.turn) = b
    BY <1>1, <1>3, SessionFields
  <2>2. Mover' = room'.users[a] /\ Rival' = room'.users[b]
    BY <2>1 DEF Mover, Rival
  <2>3. MoverOwes' /\ CallIsAffordable'
    BY <1>3, <2>2 DEF Fair, MoverOwes, CallIsAffordable
  <2>4. StakesFitSides'
    BY <1>1, <1>3, <2>2 DEF Fair, Sided, StakesFitSides
  <2>5. Dealt(room', deck', c, d) /\ verdict'.winner = NoSocket
    BY <1>3, SessionFields DEF RoundOK
  <2>6. CardsAreDealtOnce' /\ WinnerStays'
    BY <1>1, <2>5 DEF Dealt, CardsAreDealtOnce, WinnerStays
  <2>. QED
    BY <2>3, <2>4, <2>6 DEF RoundOK, RoundInv, RoundsResolve
<1>. QED
  BY <1>1, <1>2, <1>3 DEF RoundOK

\* What the invariant gives the player who has the turn.
LEMMA FairTurn ==
    ASSUME RoundInv, NEW c \in Client, NEW d \in Client, Table(room, c, d),
           session = Betting(c)
    PROVE  Fair(room, c, d) /\ Dealt(room, deck, c, d) /\ verdict.winner = NoSocket
<1>1. /\ Members(room) = {c, d} /\ c # d /\ Opponent(room, c) = d
      /\ Playing /\ session.turn = c
  BY OpponentLemma, SessionFields DEF Playing
<1>2. Mover = room.users[c] /\ Rival = room.users[d]
  BY <1>1 DEF Mover, Rival
<1>3. Fair(room, c, d)
  BY <1>1, <1>2 DEF RoundInv, MoverOwes, StakesFitSides, CallIsAffordable, Fair, Sided
<1>4. Dealt(room, deck, c, d)
  BY <1>1 DEF RoundInv, CardsAreDealtOnce, Dealt
<1>. QED
  BY <1>1, <1>3, <1>4 DEF RoundInv, WinnerStays
-------------------------------------------------------------------------------
(* The parts of a round.                                                   *)

\* With no bets on the table either player may begin.
LEMMA FreshRoundIsFair ==
    ASSUME NEW r, NEW c, NEW d,
           \A m \in {c, d} : /\ r.users[m].front = 0 /\ r.users[m].back = 0
                              /\ r.users[m].bet = "NONE"
                              /\ r.users[m].chips \in Nat /\ r.users[m].chips > 0
    PROVE  Fair(r, c, d) /\ Fair(r, d, c)
  BY DEF Fair, Sided, Level, Larger

\* endCheck names the winner rightly: the loser has nothing, and with no stakes
\* left everything else is with the winner and on the table.
LEMMA FinishGameRound ==
    ASSUME NEW c \in Client, NEW d \in Client, NEW final, NEW result \in RoundResult,
           NEW r, result # "IMPOSSIBLE",
           Table(final, c, d), Wealth(final, c, d) = 2 * DEFAULT_CHIPS,
           \A m \in {c, d} : final.users[m].front = 0 /\ final.users[m].back = 0,
           EndCheckResult(final, c) # "PROGRESS",
           FinishGame(c, final, result), Even(deck')
    PROVE  RoundOK(c, d) /\ FlagsOK(c, d, r)
<1>1. /\ Members(final) = {c, d} /\ Opponent(final, c) = d
      /\ final.users[c].chips \in Nat /\ final.users[d].chips \in Nat /\ final.dealer \in Nat
  BY OpponentLemma DEF User
<1>2. Table(room', c, d) /\ session' = Waiting
  BY EndCheckTable DEF FinishGame
<1>3. \A m \in {c, d} : ~ room'.users[m].ready /\ room'.users[m].chips = final.users[m].chips
  BY EndCheckFields DEF FinishGame
<1>4. room'.dealer = final.dealer
  BY DEF FinishGame, EndCheck, WithUsers
<1>5. verdict'.round = result
      /\ verdict'.winner = IF EndCheckResult(final, c) = "FINAL_WIN" THEN c ELSE d
  BY <1>1 DEF FinishGame, Verdict
<1>6. final.users[c].chips + final.users[d].chips + final.dealer = 2 * DEFAULT_CHIPS
  BY <1>1, ChipsAssumption DEF Wealth, Pot
<1>7. \/ /\ EndCheckResult(final, c) = "FINAL_WIN" /\ final.users[d].chips = 0
      \/ /\ EndCheckResult(final, c) = "FINAL_LOSE" /\ final.users[c].chips = 0
  BY <1>1 DEF EndCheckResult
<1>8. \/ verdict'.winner = c /\ Beaten(room', c, d)
      \/ verdict'.winner = d /\ Beaten(room', d, c)
  BY <1>1, <1>3, <1>4, <1>5, <1>6, <1>7, ChipsAssumption DEF Beaten
<1>. QED
  BY <1>2, <1>3, <1>5, <1>8 DEF RoundOK, FlagsOK

LEMMA PrepareNextRoundRound ==
    ASSUME NEW c \in Client, NEW d \in Client, NEW settled, NEW views,
           NEW result \in RoundResult, result # "IMPOSSIBLE",
           deck \in SUBSET FullDeck, Even(deck),
           Table(settled, c, d), Wealth(settled, c, d) = 2 * DEFAULT_CHIPS,
           \A m \in {c, d} : settled.users[m].front = 0 /\ settled.users[m].back = 0,
           result = "DRAW" => \A m \in {c, d} : settled.users[m].bet = "NONE",
           result # "DRAW" => CanCollect(settled, 1),
           PrepareNextRound(c, settled, views, result)
    PROVE  RoundOK(c, d) /\ FlagsOK(c, d, settled)
<1>. DEFINE staked == IF result = "DRAW" THEN settled ELSE CollectBasicBet(settled, 1)
            told   == IF result = "DRAW" THEN views
                      ELSE TellBasicBet(views, settled, staked, c)
<1>1. Table(staked, c, d) /\ Wealth(staked, c, d) = 2 * DEFAULT_CHIPS
  BY CollectBasicBetTable
<1>2. \A m \in {c, d} : /\ staked.users[m].front = 0 /\ staked.users[m].back = 0
                         /\ staked.users[m].bet = "NONE"
                         /\ staked.users[m].ready = settled.users[m].ready
  <2>1. CASE result = "DRAW"
    BY <2>1
  <2>2. CASE result # "DRAW"
    BY <2>2, CollectBasicBetFields
  <2>. QED
    BY <2>1, <2>2
<1>3. Opponent(settled, c) = d
  BY OpponentLemma
<1>. HIDE DEF staked, told
<1>. DEFINE Ends(dealt) == /\ EndCheckResult(dealt, c) # "PROGRESS"
                           /\ FinishGame(c, dealt, result)
            GoesOn(dealt) == /\ EndCheckResult(dealt, c) = "PROGRESS"
                             /\ room' = dealt
                             /\ session' = Betting(d)
                             /\ verdict' = Verdict(result, NoSocket)
<1>4. PICK mine \in Supply(deck) : \E theirs \in Supply(DealCard(deck, mine)) :
        /\ deck' = DealCard(DealCard(deck, mine), theirs)
        /\ \/ Ends(UpdateCards(staked, c, mine, theirs))
           \/ GoesOn(UpdateCards(staked, c, mine, theirs))
  BY <1>3 DEF PrepareNextRound, staked, told
<1>5. PICK theirs \in Supply(DealCard(deck, mine)) :
        /\ deck' = DealCard(DealCard(deck, mine), theirs)
        /\ \/ Ends(UpdateCards(staked, c, mine, theirs))
           \/ GoesOn(UpdateCards(staked, c, mine, theirs))
  BY <1>4
<1>. DEFINE dealt == UpdateCards(staked, c, mine, theirs)
<1>6. mine \in Card /\ theirs \in Card
  BY <1>5, DealtCards
<1>7. /\ mine # theirs /\ Even(deck')
      /\ mine \in FullDeck \ deck' /\ theirs \in FullDeck \ deck'
  BY <1>5, TwoCards
<1>8. Table(dealt, c, d) /\ Wealth(dealt, c, d) = 2 * DEFAULT_CHIPS
  BY <1>1, <1>6, UpdateCardsTable
<1>9. \A m \in {c, d} : /\ dealt.users[m].front = 0 /\ dealt.users[m].back = 0
                         /\ dealt.users[m].bet = "NONE"
                         /\ dealt.users[m].ready = settled.users[m].ready
                         /\ dealt.users[m].card = IF m = c THEN mine ELSE theirs
  BY <1>1, <1>2, <1>6, UpdateCardsFields
<1>10. Ends(dealt) \/ GoesOn(dealt)
  BY <1>5
<1>. HIDE DEF dealt
<1>11. CASE Ends(dealt)
  BY <1>7, <1>8, <1>9, <1>11, FinishGameRound
<1>12. CASE GoesOn(dealt)
  <2>1. Fair(room', d, c)
    <3>1. dealt.users[c].chips > 0 /\ dealt.users[d].chips > 0
      BY <1>8, <1>12, EndCheckFields
    <3>2. dealt.users[c].chips \in Nat /\ dealt.users[d].chips \in Nat
      BY <1>8, OpponentLemma DEF User
    <3>. QED
      BY <1>9, <1>12, <3>1, <3>2, FreshRoundIsFair
  <2>2. Dealt(room', deck', c, d)
    BY <1>7, <1>8, <1>9, <1>12, OpponentLemma DEF Dealt
  <2>3. verdict'.round # "IMPOSSIBLE" /\ verdict'.winner = NoSocket
    BY <1>12 DEF Verdict
  <2>4. session' # Waiting
    BY <1>12, SessionFields
  <2>. QED
    BY <1>7, <1>8, <1>9, <1>12, <2>1, <2>2, <2>3, <2>4 DEF RoundOK, FlagsOK
<1>. QED
  BY <1>10, <1>11, <1>12

LEMMA CloseRoundRound ==
    ASSUME NEW c \in Client, NEW d \in Client, NEW open, NEW views,
           NEW result \in RoundResult, result # "IMPOSSIBLE",
           deck \in SUBSET FullDeck, Even(deck),
           Table(open, c, d), Wealth(open, c, d) = 2 * DEFAULT_CHIPS,
           result = "DRAW" => \A m \in {c, d} : open.users[m].bet = "NONE",
           CloseRound(c, open, views, result)
    PROVE  RoundOK(c, d) /\ FlagsOK(c, d, open)
<1>. DEFINE settled == SettleRound(open, c, result)
            told    == TellSettlement(views, open, settled, c)
            checked == EndCheck(settled, c)
<1>1. Table(settled, c, d) /\ Wealth(settled, c, d) = 2 * DEFAULT_CHIPS
  BY SettleRoundTable
<1>2. \A m \in {c, d} : /\ settled.users[m].front = 0 /\ settled.users[m].back = 0
                         /\ settled.users[m].bet = open.users[m].bet
                         /\ settled.users[m].ready = open.users[m].ready
  BY SettleRoundFields
<1>3. \/ /\ EndCheckResult(settled, c) # "PROGRESS"
         /\ FinishGame(c, settled, result) /\ UNCHANGED deck
      \/ /\ result = "DRAW" \/ EndCheckResult(settled, c) = "PROGRESS"
         /\ PrepareNextRound(c, checked, told, result)
  BY DEF CloseRound
<1>. HIDE DEF settled, told
<1>4. CASE /\ EndCheckResult(settled, c) # "PROGRESS"
           /\ FinishGame(c, settled, result) /\ UNCHANGED deck
  <2>1. Even(deck')
    BY <1>4
  <2>. QED
    BY <1>1, <1>2, <1>4, <2>1, FinishGameRound
<1>5. CASE /\ result = "DRAW" \/ EndCheckResult(settled, c) = "PROGRESS"
           /\ PrepareNextRound(c, checked, told, result)
  <2>1. Table(checked, c, d) /\ Wealth(checked, c, d) = 2 * DEFAULT_CHIPS
    BY <1>1, EndCheckTable
  <2>2. \A m \in {c, d} : /\ checked.users[m].front = 0 /\ checked.users[m].back = 0
                           /\ checked.users[m].bet = open.users[m].bet
    BY <1>1, <1>2, EndCheckFields
  <2>3. \/ \A m \in {c, d} : ~ checked.users[m].ready
        \/ \A m \in {c, d} : checked.users[m].ready = open.users[m].ready
    BY <1>1, <1>2, EndCheckFields
  <2>4. result # "DRAW" => CanCollect(checked, 1)
    <3>1. SUFFICES ASSUME result # "DRAW" PROVE CanCollect(checked, 1)
      OBVIOUS
    <3>2. checked = settled /\ settled.users[c].chips > 0 /\ settled.users[d].chips > 0
      BY <1>1, <1>5, <3>1, EndCheckFields
    <3>3. /\ Members(settled) = {c, d}
          /\ settled.users[c].chips \in Nat /\ settled.users[d].chips \in Nat
      BY <1>1, OpponentLemma DEF User
    <3>. HIDE DEF checked
    <3>. QED
      BY <3>2, <3>3 DEF CanCollect
  <2>. HIDE DEF checked
  <2>5. RoundOK(c, d) /\ FlagsOK(c, d, checked)
    BY <1>5, <2>1, <2>2, <2>4, PrepareNextRoundRound
  <2>. QED
    BY <2>3, <2>5 DEF FlagsOK
<1>. QED
  BY <1>3, <1>4, <1>5

\* Two players on sides that can be compared always get a result.
LEMMA ShowdownRound ==
    ASSUME NEW c \in Client, NEW d \in Client, NEW open, NEW views,
           deck \in SUBSET FullDeck, Even(deck),
           Table(open, c, d), Wealth(open, c, d) = 2 * DEFAULT_CHIPS,
           open.users[c].bet \in ChipBet, open.users[d].bet \in ChipBet,
           ~ (open.users[c].bet = "BOTH" /\ open.users[d].bet = "BOTH"),
           Showdown(c, open, views)
    PROVE  RoundOK(c, d) /\ FlagsOK(c, d, open)
<1>. DEFINE result  == CompareCard(open, c)
            cleared == ClearBetTypes(open)
<1>1. result \in RoundResult
  BY ResolveType DEF CompareCard
<1>2. result # "IMPOSSIBLE"
  <2>1. ~ Unresolvable(open.users[c], open.users[d])
    BY DEF Unresolvable
  <2>. QED
    BY <2>1, OpponentLemma DEF CompareCard, Resolve
<1>3. CloseRound(c, cleared, TellBacks(views, open), result)
  BY <1>2 DEF Showdown
<1>. HIDE DEF result
<1>4. Table(cleared, c, d) /\ Wealth(cleared, c, d) = 2 * DEFAULT_CHIPS
  BY ClearBetTypesTable
<1>5. \A m \in {c, d} : cleared.users[m].bet = "NONE" /\ cleared.users[m].ready = open.users[m].ready
  BY ClearBetTypesFields
<1>. HIDE DEF cleared
<1>6. RoundOK(c, d) /\ FlagsOK(c, d, cleared)
  BY <1>1, <1>2, <1>3, <1>4, <1>5, CloseRoundRound
<1>. QED
  BY <1>5, <1>6 DEF FlagsOK
-------------------------------------------------------------------------------
(* The actions of a match: each keeps the invariant and is, for the table,  *)
(* nothing or the close of a round.                                        *)

\* What the table sees of a step.
TableStep == [T!Next]_(T!vars)

LEMMA FlagsSuffice ==
    ASSUME NEW c \in Client, NEW d \in Client, Table(room, c, d), Playing,
           RoundOK(c, d), FlagsOK(c, d, room)
    PROVE  TableStep
<1>. DEFINE ready(r) == {m \in Members(r) : r.users[m].ready}
<1>1. Members(room) = {c, d} /\ Members(room') = {c, d}
  BY OpponentLemma DEF RoundOK
<1>2. CASE \A m \in {c, d} : ~ room'.users[m].ready
  <2>1. ready(room)' = {}
    BY <1>1, <1>2
  <2>2. T!Close
    BY <1>1, <2>1 DEF T!Close, Playing
  <2>. QED
    BY <2>2 DEF TableStep, T!Next
<1>3. CASE session' # Waiting /\ \A m \in {c, d} : room'.users[m].ready = room.users[m].ready
  <2>1. ready(room)' = ready(room)
    BY <1>1, <1>3
  <2>2. Playing'
    BY <1>3, SessionFields DEF RoundOK, Playing
  <2>. QED
    BY <1>1, <2>1, <2>2 DEF TableStep, T!vars
<1>. QED
  BY <1>2, <1>3 DEF FlagsOK

\* What the guards of a betting message give.
LEMMA TurnRound ==
    ASSUME RoundInv, NEW c \in Client, HasTurn(c)
    PROVE  /\ session = Betting(c) /\ Playing /\ verdict.winner = NoSocket
           /\ deck \in SUBSET FullDeck /\ Even(deck)
           /\ \E d \in Client : /\ Table(room, c, d)
                                /\ Wealth(room, c, d) = 2 * DEFAULT_CHIPS
                                /\ Opponent(room, c) = d
                                /\ Fair(room, c, d) /\ Dealt(room, deck, c, d)
<1>1. /\ session = Betting(c) /\ deck \in SUBSET FullDeck
      /\ \E d \in Client : Table(room, c, d) /\ Wealth(room, c, d) = 2 * DEFAULT_CHIPS
  BY TurnTable DEF RoundInv
<1>2. PICK d \in Client : Table(room, c, d) /\ Wealth(room, c, d) = 2 * DEFAULT_CHIPS
  BY <1>1
<1>3. Opponent(room, c) = d
  BY <1>2, OpponentLemma
<1>4. Fair(room, c, d) /\ Dealt(room, deck, c, d) /\ verdict.winner = NoSocket
  BY <1>1, <1>2, FairTurn
<1>5. Playing /\ Even(deck)
  BY <1>1, SessionFields DEF Playing, RoundInv
<1>. QED
  BY <1>1, <1>2, <1>3, <1>4, <1>5

\* A raise leaves the opponent behind, with the means to call.
LEMMA RaiseRound ==
    ASSUME RoundInv, NEW c \in Client, NEW count \in Counts, NEW side \in ChipBet,
           Raise(c, count, side)
    PROVE  RoundInv' /\ TableStep
<1>1. PICK d \in Client : /\ Table(room, c, d) /\ Opponent(room, c) = d
                          /\ Fair(room, c, d) /\ Dealt(room, deck, c, d)
                          /\ Playing /\ Even(deck)
  BY TurnRound DEF Raise
<1>. DEFINE mover == room.users[c]
            rival == room.users[d]
            after == room'.users[c]
<1>2. count \in Nat /\ Cost(count, side) <= mover.chips
  BY <1>1, CountsAssumption, AcceptedBet DEF Raise
<1>3. Table(room', c, d)
  BY <1>1, <1>2, BetChipsTable DEF Raise
<1>4. /\ after.chips = mover.chips - Cost(count, side)
      /\ after.front = IF side \in {"FRONT", "BOTH"} THEN mover.front + count ELSE mover.front
      /\ after.back = IF side \in {"BACK", "BOTH"} THEN mover.back + count ELSE mover.back
      /\ after.bet = side /\ after.ready = mover.ready /\ after.card = mover.card
      /\ room'.users[d] = rival
  BY <1>1, <1>2, BetChipsFields DEF Raise
<1>5. /\ mover.chips \in Nat /\ mover.front \in Nat /\ mover.back \in Nat
      /\ rival.chips \in Nat /\ rival.front \in Nat /\ rival.back \in Nat
  BY <1>1, OpponentLemma DEF User
<1>6. /\ Allowed(mover, rival, count, side)
      /\ Level(mover) + count # Level(rival)
  BY <1>1 DEF Raise, BetChipsResult, Evaluate
<1>. HIDE DEF mover, rival, after
<1>7. Sided(mover) /\ Sided(rival)
  BY <1>1 DEF Fair, mover, rival
<1>8. Sided(after) /\ Level(after) = Level(mover) + count
  BY <1>2, <1>4, <1>5, <1>6, <1>7 DEF Sided, Level, Larger, Allowed, KeepsSide, ChipBet
<1>9. Fair(room', d, c)
  <2>1. /\ Level(rival) < Level(after) /\ Level(after) - Level(rival) <= rival.chips
        /\ rival.chips > 0
    <3>1. Level(mover) \in Nat /\ Level(rival) \in Nat
      BY <1>5 DEF Level, Larger
    <3>. QED
      BY <1>2, <1>5, <1>6, <1>8, <3>1 DEF Allowed, Covers, CanBeFollowed
  <2>2. ~ (rival.bet = "BOTH" /\ after.bet = "BOTH")
    BY <1>4, <1>6 DEF Allowed, OneBoth
  <2>. QED
    BY <1>4, <1>7, <1>8, <2>1, <2>2 DEF Fair, after
<1>10. Dealt(room', deck', c, d)
  BY <1>1, <1>4 DEF Raise, Dealt, mover, rival, after
<1>11. RoundOK(c, d)
  BY <1>1, <1>3, <1>9, <1>10 DEF RoundOK, Raise, NoVerdict, Verdict
<1>12. FlagsOK(c, d, room)
  BY <1>1, <1>4, SessionFields DEF FlagsOK, Raise, mover, rival, after
<1>. QED
  BY <1>1, <1>11, <1>12, RaiseInv, RoundOKSuffices, FlagsSuffice DEF RoundInv

\* A call leaves two players on sides that can be compared.
LEMMA CallRound ==
    ASSUME RoundInv, NEW c \in Client, NEW count \in Counts, NEW side \in ChipBet,
           Call(c, count, side)
    PROVE  RoundInv' /\ TableStep
<1>1. PICK d \in Client : /\ Table(room, c, d) /\ Opponent(room, c) = d
                          /\ Wealth(room, c, d) = 2 * DEFAULT_CHIPS
                          /\ Fair(room, c, d)
                          /\ Playing /\ deck \in SUBSET FullDeck /\ Even(deck)
  BY TurnRound DEF Call
<1>. DEFINE mover   == room.users[c]
            rival   == room.users[d]
            matched == BetChips(room, c, count, side)
            told    == TellBet(TellChips(view, matched, c), matched, c, side)
<1>2. count \in Nat /\ Cost(count, side) <= mover.chips
  BY <1>1, CountsAssumption, AcceptedBet DEF Call
<1>3. Table(matched, c, d) /\ Wealth(matched, c, d) = 2 * DEFAULT_CHIPS
  BY <1>1, <1>2, BetChipsTable
<1>4. /\ matched.users[c].bet = side /\ matched.users[c].ready = mover.ready
      /\ matched.users[d] = rival
  <2>1. Table(room, c, d) /\ count \in Nat /\ Cost(count, side) <= room.users[c].chips
    BY <1>1, <1>2
  <2>. HIDE DEF mover, rival, matched
  <2>2. LET u == BetChips(room, c, count, side).users[c]
        IN /\ u.bet = side /\ u.ready = room.users[c].ready
           /\ BetChips(room, c, count, side).users[d] = room.users[d]
    BY <2>1, BetChipsFields
  <2>. QED
    BY <2>2, Zenon DEF mover, rival, matched
<1>5. Showdown(c, matched, told)
  BY DEF Call
<1>6. /\ Allowed(mover, rival, count, side)
      /\ Level(mover) + count = Level(rival)
  BY <1>1 DEF Call, BetChipsResult, Evaluate
<1>7. Sided(rival)
  BY <1>1 DEF Fair
<1>8. Level(mover) \in Nat
  BY <1>1, OpponentLemma DEF User, Level, Larger
<1>. HIDE DEF mover, rival, matched, told
<1>9. rival.bet \in ChipBet
  BY <1>2, <1>6, <1>7, <1>8 DEF Sided, Level, Larger, Allowed, ChipBet
<1>10. ~ (side = "BOTH" /\ rival.bet = "BOTH")
  BY <1>6 DEF Allowed, OneBoth
<1>11. RoundOK(c, d) /\ FlagsOK(c, d, matched)
  BY <1>1, <1>3, <1>4, <1>5, <1>9, <1>10, ShowdownRound
<1>12. FlagsOK(c, d, room)
  BY <1>4, <1>11 DEF FlagsOK, mover, rival
<1>. QED
  BY <1>1, <1>11, <1>12, CallInv, RoundOKSuffices, FlagsSuffice DEF RoundInv

LEMMA FoldRound ==
    ASSUME RoundInv, NEW c \in Client, Fold(c)
    PROVE  RoundInv' /\ TableStep
<1>1. PICK d \in Client : /\ Table(room, c, d)
                          /\ Wealth(room, c, d) = 2 * DEFAULT_CHIPS
                          /\ Playing /\ deck \in SUBSET FullDeck /\ Even(deck)
  BY TurnRound DEF Fold
<1>2. RoundOK(c, d) /\ FlagsOK(c, d, room)
  BY <1>1, CloseRoundRound DEF Fold, RoundResult
<1>. QED
  BY <1>1, <1>2, FoldInv, RoundOKSuffices, FlagsSuffice DEF RoundInv

\* SPECIAL puts both players on one side each.
LEMMA SpecialRound ==
    ASSUME RoundInv, NEW c \in Client, Special(c)
    PROVE  RoundInv' /\ TableStep
<1>1. PICK d \in Client : /\ Table(room, c, d)
                          /\ Wealth(room, c, d) = 2 * DEFAULT_CHIPS
                          /\ Playing /\ deck \in SUBSET FullDeck /\ Even(deck)
  BY TurnRound DEF Special
<1>. DEFINE sided == SpecialCase(room)
<1>2. Table(sided, c, d) /\ Wealth(sided, c, d) = 2 * DEFAULT_CHIPS
  BY <1>1, SpecialCaseTable
<1>3. \A m \in {c, d} : /\ sided.users[m].bet \in {"FRONT", "BACK"}
                         /\ sided.users[m].ready = room.users[m].ready
  BY <1>1, SpecialCaseFields
<1>4. Showdown(c, sided, view)
  BY DEF Special
<1>. HIDE DEF sided
<1>5. RoundOK(c, d) /\ FlagsOK(c, d, sided)
  BY <1>1, <1>2, <1>3, <1>4, ShowdownRound DEF ChipBet
<1>6. FlagsOK(c, d, room)
  BY <1>3, <1>5 DEF FlagsOK
<1>. QED
  BY <1>1, <1>5, <1>6, SpecialInv, RoundOKSuffices, FlagsSuffice DEF RoundInv

\* A match starts with an ante each, no bets and two cards.
LEMMA HandleGameStartRound ==
    ASSUME RoundInv, NEW c \in Client, HandleGameStart(c)
    PROVE  RoundInv' /\ TableStep
<1>. DEFINE fresh  == ResetAllUsers(room)
            staked == CollectBasicBet(fresh, 1)
<1>1. PICK d \in Client : Table(room, c, d)
  BY TableOfPair DEF RoundInv, MatchInv, HandleGameStart, AllUserStartReadyState
<1>2. deck \in SUBSET FullDeck /\ Even(deck)
  BY DEF RoundInv, MatchInv, TypeOK
<1>3. Table(fresh, c, d)
  BY <1>1, ResetAllUsersTable
<1>4. \A m \in {c, d} : /\ fresh.users[m].chips = DEFAULT_CHIPS
                         /\ fresh.users[m].front = 0 /\ fresh.users[m].back = 0
                         /\ fresh.users[m].ready = room.users[m].ready
  BY <1>1, ResetAllUsersFields
<1>5. /\ session' = Betting(c) /\ verdict' = NoVerdict
      /\ \E mine \in Supply(deck) : \E theirs \in Supply(DealCard(deck, mine)) :
            /\ deck' = DealCard(DealCard(deck, mine), theirs)
            /\ room' = UpdateCards(staked, c, mine, theirs)
  BY DEF HandleGameStart
<1>. HIDE DEF fresh
<1>6. CanCollect(fresh, 1)
  BY <1>3, <1>4, ChipsAssumption, OpponentLemma DEF CanCollect
<1>7. Table(staked, c, d)
  BY <1>3, CollectBasicBetTable
<1>8. \A m \in {c, d} : /\ staked.users[m].chips = DEFAULT_CHIPS - 1
                         /\ staked.users[m].front = 0 /\ staked.users[m].back = 0
                         /\ staked.users[m].bet = "NONE"
                         /\ staked.users[m].ready = room.users[m].ready
  BY <1>3, <1>4, <1>6, CollectBasicBetFields
<1>. HIDE DEF staked
<1>9. PICK mine \in Supply(deck) : \E theirs \in Supply(DealCard(deck, mine)) :
            /\ deck' = DealCard(DealCard(deck, mine), theirs)
            /\ room' = UpdateCards(staked, c, mine, theirs)
  BY <1>5
<1>10. PICK theirs \in Supply(DealCard(deck, mine)) :
            /\ deck' = DealCard(DealCard(deck, mine), theirs)
            /\ room' = UpdateCards(staked, c, mine, theirs)
  BY <1>9
<1>11. mine \in Card /\ theirs \in Card
  BY <1>2, <1>10, DealtCards
<1>12. /\ mine # theirs /\ Even(deck')
       /\ mine \in FullDeck \ deck' /\ theirs \in FullDeck \ deck'
  BY <1>2, <1>10, TwoCards
<1>13. Table(room', c, d)
  BY <1>7, <1>10, <1>11, UpdateCardsTable
<1>14. \A m \in {c, d} : /\ room'.users[m].chips = DEFAULT_CHIPS - 1
                          /\ room'.users[m].front = 0 /\ room'.users[m].back = 0
                          /\ room'.users[m].bet = "NONE"
                          /\ room'.users[m].ready = room.users[m].ready
                          /\ room'.users[m].card = IF m = c THEN mine ELSE theirs
  BY <1>7, <1>8, <1>10, <1>11, UpdateCardsFields
<1>15. Fair(room', c, d)
  BY <1>14, ChipsAssumption, FreshRoundIsFair
<1>16. Dealt(room', deck', c, d)
  BY <1>12, <1>13, <1>14, OpponentLemma DEF Dealt
<1>17. RoundOK(c, d)
  BY <1>5, <1>12, <1>13, <1>15, <1>16 DEF RoundOK, NoVerdict, Verdict
<1>18. TableStep
  <2>1. Members(room) = {c, d} /\ Members(room') = {c, d}
    BY <1>1, <1>13, OpponentLemma
  <2>2. /\ \A m \in {c, d} : room.users[m].ready /\ room'.users[m].ready
        /\ Paired(room) /\ ~ Playing
    BY <1>14, <2>1 DEF HandleGameStart, AllUserStartReadyState, Playing
  <2>3. Playing'
    BY <1>5, SessionFields DEF Playing
  <2>4. T!Start
    BY <2>1, <2>2, <2>3 DEF T!Start, T!Full, T!Cardinality, Paired, Cardinality
  <2>. QED
    BY <2>4 DEF TableStep, T!Next
<1>. QED
  BY <1>1, <1>17, <1>18, HandleGameStartInv, RoundOKSuffices DEF RoundInv

\* A join finds a free seat, so there is neither a match nor a winner.
LEMMA JoinRound ==
    ASSUME RoundInv, NEW c \in Client, Join(c)
    PROVE  RoundInv' /\ TableStep
<1>1. MatchInv'
  BY JoinInv DEF RoundInv
<1>2. /\ c \notin Members(room) /\ Cardinality(Members(room)) < 2
      /\ room' = AddUser(room, c) /\ UNCHANGED <<session, deck, verdict>>
  BY ChipsAssumption DEF Join, CanAdd
<1>3. PICK seated \in SUBSET Client : room \in [users: [seated -> User], dealer: Nat]
  BY DEF RoundInv, MatchInv, TypeOK
<1>4. Cardinality(Members(room)) \in Nat
  <2>1. Members(room) = seated /\ IsFiniteSet(seated)
    BY <1>3, ClientAssumption, FS_Subset DEF Members
  <2>. QED
    BY <2>1, FS_CardinalityType
<1>5. ~ Paired(room)
  BY <1>2, <1>4 DEF Paired
<1>6. ~ Playing /\ verdict.winner = NoSocket
  BY <1>5 DEF RoundInv, MatchInv, SeatsTaken, WinnerStays
<1>7. ~ Playing'
  BY <1>2, <1>6 DEF Playing
<1>8. RoundInv'
  BY <1>1, <1>2, <1>6, <1>7 DEF RoundInv, MoverOwes, StakesFitSides, CallIsAffordable,
                                RoundsResolve, CardsAreDealtOnce, WinnerStays
<1>9. TableStep
  <2>1. /\ Members(room') = Members(room) \cup {c}
        /\ \A m \in Members(room) : room'.users[m] = room.users[m]
        /\ ~ room'.users[c].ready
    BY <1>2, NewUserFields DEF AddUser, WithUsers, Members
  <2>2. {m \in Members(room') : room'.users[m].ready} = {m \in Members(room) : room.users[m].ready}
    BY <2>1
  <2>3. T!Cardinality(Members(room)) < 2
    BY <1>2 DEF T!Cardinality, Cardinality
  <2>4. Playing' = Playing
    BY <1>2 DEF Playing
  <2>5. T!Sit(c)
    BY <1>2, <2>1, <2>2, <2>3, <2>4 DEF T!Sit
  <2>. QED
    BY <2>5 DEF TableStep, T!Next
<1>. QED
  BY <1>8, <1>9

LEMMA HandlePlayerExitRound ==
    ASSUME RoundInv, NEW c \in Client, HandlePlayerExit(c)
    PROVE  RoundInv' /\ TableStep
<1>1. MatchInv'
  BY HandlePlayerExitInv DEF RoundInv
<1>2. /\ c \in Members(room) /\ room' = RemoveUser(room, c)
      /\ session' = Waiting /\ deck' = deck /\ verdict' = NoVerdict
  BY DEF HandlePlayerExit
<1>3. ~ Playing'
  BY <1>2, SessionFields DEF Playing
<1>4. RoundInv'
  BY <1>1, <1>2, <1>3 DEF RoundInv, MoverOwes, StakesFitSides, CallIsAffordable,
                          RoundsResolve, CardsAreDealtOnce, WinnerStays, NoVerdict, Verdict
<1>5. TableStep
  <2>1. /\ Members(room') = Members(room) \ {c}
        /\ \A m \in Members(room') : ~ room'.users[m].ready
    BY <1>2, FreshFields DEF RemoveUser, Members
  <2>2. T!Leave(c)
    BY <1>2, <1>3, <2>1 DEF T!Leave
  <2>. QED
    BY <2>2 DEF TableStep, T!Next
<1>. QED
  BY <1>4, <1>5

LEMMA SetReadyFields ==
    ASSUME NEW r, NEW c, NEW d, Table(r, c, d), NEW a \in {c, d}, NEW ready \in BOOLEAN
    PROVE  \A m \in {c, d} :
               LET u == SetReady(r, a, ready).users[m]
               IN /\ u.chips = r.users[m].chips
                  /\ u.front = r.users[m].front /\ u.back = r.users[m].back
                  /\ u.bet = r.users[m].bet /\ u.card = r.users[m].card
                  /\ u.ready = IF m = a THEN ready ELSE r.users[m].ready
  BY OpponentLemma DEF SetReady, WithUsers, User

\* Readiness means nothing to a round.
LEMMA UserReadyRound ==
    ASSUME RoundInv, NEW c \in Client, NEW ready \in BOOLEAN, UserReady(c, ready)
    PROVE  RoundInv' /\ TableStep
<1>1. PICK d \in Client : Table(room, c, d)
  BY TableOfPair DEF RoundInv, MatchInv, UserReady
<1>2. /\ Members(room) = {c, d} /\ c # d /\ Paired(room)
      /\ room' = SetReady(room, c, ready) /\ UNCHANGED <<session, deck, verdict>>
  BY <1>1, OpponentLemma DEF UserReady
<1>3. Table(room', c, d) /\ Members(room') = {c, d}
  BY <1>1, <1>2, SetReadyTable, OpponentLemma
<1>4. \A m \in {c, d} :
          /\ room'.users[m].chips = room.users[m].chips
          /\ room'.users[m].front = room.users[m].front
          /\ room'.users[m].back = room.users[m].back
          /\ room'.users[m].bet = room.users[m].bet
          /\ room'.users[m].card = room.users[m].card
          /\ room'.users[m].ready = IF m = c THEN ready ELSE room.users[m].ready
  BY <1>1, <1>2, SetReadyFields
<1>5. room'.dealer = room.dealer
  BY <1>2 DEF SetReady, WithUsers
<1>6. verdict'.round # "IMPOSSIBLE" /\ Even(deck')
  BY <1>2 DEF RoundInv, RoundsResolve
<1>7. session \in {Waiting, Betting(c), Betting(d)}
  BY <1>2 DEF RoundInv, MatchInv, SeatsTaken, TypeOK, Playing, Waiting, Betting
<1>8. RoundOK(c, d)
  <2>1. CASE session = Waiting
    <3>1. verdict.winner # NoSocket => \/ verdict.winner = c /\ Beaten(room, c, d)
                                       \/ verdict.winner = d /\ Beaten(room, d, c)
      <4>. SUFFICES ASSUME verdict.winner # NoSocket
                    PROVE  \/ verdict.winner = c /\ Beaten(room, c, d)
                           \/ verdict.winner = d /\ Beaten(room, d, c)
        OBVIOUS
      <4>1. /\ verdict.winner \in {c, d}
            /\ \A l \in {c, d} : l # verdict.winner => Beaten(room, verdict.winner, l)
        BY <1>2, Zenon DEF RoundInv, WinnerStays
      <4>2. CASE verdict.winner = c
        BY <1>2, <4>1, <4>2
      <4>3. CASE verdict.winner = d
        BY <1>2, <4>1, <4>3
      <4>. QED
        BY <4>1, <4>2, <4>3
    <3>2. /\ Beaten(room, c, d) => Beaten(room', c, d)
          /\ Beaten(room, d, c) => Beaten(room', d, c)
      BY <1>4, <1>5 DEF Beaten
    <3>. QED
      BY <1>2, <1>3, <1>6, <2>1, <3>1, <3>2 DEF RoundOK
  <2>2. ASSUME NEW a \in {c, d}, NEW b \in {c, d}, a # b, session = Betting(a)
        PROVE  /\ Fair(room', a, b) /\ Dealt(room', deck', a, b)
               /\ verdict'.winner = NoSocket
    <3>1. Table(room, a, b)
      BY <1>1, <2>2, TableTurns
    <3>2. Fair(room, a, b) /\ Dealt(room, deck, a, b) /\ verdict.winner = NoSocket
      BY <2>2, <3>1, FairTurn
    <3>. QED
      BY <1>2, <1>4, <3>2 DEF Fair, Sided, Level, Dealt
  <2>3. CASE session = Betting(c)
    BY <1>2, <1>3, <1>6, <2>2, <2>3 DEF RoundOK
  <2>4. CASE session = Betting(d)
    <3>1. Dealt(room', deck', d, c) => Dealt(room', deck', c, d)
      BY DEF Dealt
    <3>. QED
      BY <1>2, <1>3, <1>6, <2>2, <2>4, <3>1 DEF RoundOK
  <2>. QED
    BY <1>7, <2>1, <2>3, <2>4
<1>9. TableStep
  <2>1. \/ {m \in {c, d} : room'.users[m].ready} = {m \in {c, d} : room.users[m].ready} \cup {c}
        \/ {m \in {c, d} : room'.users[m].ready} = {m \in {c, d} : room.users[m].ready} \ {c}
    BY <1>4
  <2>2. T!Toggle(c)
    BY <1>2, <1>3, <2>1
       DEF T!Toggle, T!Full, T!Cardinality, Cardinality, Paired, Playing
  <2>. QED
    BY <2>2 DEF TableStep, T!Next
<1>. QED
  BY <1>1, <1>8, <1>9, UserReadyInv, RoundOKSuffices DEF RoundInv
-------------------------------------------------------------------------------
LEMMA RoundInvInit == Init => RoundInv /\ T!Init
<1>. SUFFICES ASSUME Init PROVE RoundInv /\ T!Init
  OBVIOUS
<1>1. Members(room) = {} /\ ~ Playing /\ verdict = NoVerdict /\ deck = FullDeck
  BY DEF Init, EmptyRoom, Members, Playing, Waiting
<1>2. RoundInv
  BY <1>1, MatchInvInit, FullDeckIsEven
     DEF RoundInv, MoverOwes, StakesFitSides, CallIsAffordable, RoundsResolve,
         CardsAreDealtOnce, WinnerStays, NoVerdict, Verdict
<1>3. T!Init
  BY <1>1 DEF T!Init
<1>. QED
  BY <1>2, <1>3

LEMMA RoundInvStep == RoundInv /\ [Next]_vars => RoundInv' /\ TableStep
<1>. SUFFICES ASSUME RoundInv, [Next]_vars PROVE RoundInv' /\ TableStep
  OBVIOUS
<1>1. ASSUME NEW c \in Client, Join(c) PROVE RoundInv' /\ TableStep
  BY <1>1, JoinRound
<1>2. ASSUME NEW c \in Client, HandlePlayerExit(c) PROVE RoundInv' /\ TableStep
  BY <1>2, HandlePlayerExitRound
<1>3. ASSUME NEW c \in Client, NEW ready \in BOOLEAN, UserReady(c, ready)
      PROVE  RoundInv' /\ TableStep
  BY <1>3, UserReadyRound
<1>4. ASSUME NEW c \in Client, HandleGameStart(c) PROVE RoundInv' /\ TableStep
  BY <1>4, HandleGameStartRound
<1>5. ASSUME NEW c \in Client, NEW count \in Counts, NEW side \in ChipBet,
             Raise(c, count, side)
      PROVE  RoundInv' /\ TableStep
  BY <1>5, RaiseRound
<1>6. ASSUME NEW c \in Client, NEW count \in Counts, NEW side \in ChipBet,
             Call(c, count, side)
      PROVE  RoundInv' /\ TableStep
  BY <1>6, CallRound
<1>7. ASSUME NEW c \in Client, Fold(c) PROVE RoundInv' /\ TableStep
  BY <1>7, FoldRound
<1>8. ASSUME NEW c \in Client, Special(c) PROVE RoundInv' /\ TableStep
  BY <1>8, SpecialRound
<1>9. CASE UNCHANGED vars
  <2>1. MatchInv'
    BY <1>9, MatchInvStep DEF RoundInv
  <2>2. RoundInv'
    BY <1>9, <2>1 DEF vars, RoundInv, MoverOwes, StakesFitSides, CallIsAffordable,
        RoundsResolve, CardsAreDealtOnce, WinnerStays, Playing, Mover, Rival
  <2>3. UNCHANGED T!vars
    BY <1>9 DEF vars, T!vars, Playing
  <2>. QED
    BY <2>2, <2>3 DEF TableStep
<1>. QED
  BY <1>1, <1>2, <1>3, <1>4, <1>5, <1>6, <1>7, <1>8, <1>9 DEF Next, Bet

LEMMA RoundInvariance == Spec => []RoundInv
  BY RoundInvInit, RoundInvStep, PTL DEF Spec

\* Handler by handler, for any clients, stacks and deck, a room is a Table.
THEOREM GameImplementsTable == Spec => ImplementsTable
<1>1. Init => T!Init
  BY RoundInvInit
<1>2. RoundInv /\ [Next]_vars => [T!Next]_(T!vars)
  BY RoundInvStep DEF TableStep
<1>. QED
  BY <1>1, <1>2, RoundInvariance, PTL DEF Spec, ImplementsTable, T!Spec

\* Whoever is to move is behind, or the round is fresh.
THEOREM MoverAlwaysOwes == Spec => []MoverOwes
  BY RoundInvariance, PTL DEF RoundInv

\* Stakes lie on the chosen sides, and never both players are on both.
THEOREM StakesAlwaysFit == Spec => []StakesFitSides
  BY RoundInvariance, PTL DEF RoundInv

\* Nobody is raised out of a round, whatever the stacks.
THEOREM CallsAreAffordable == Spec => []CallIsAffordable
  BY RoundInvariance, PTL DEF RoundInv

\* Every showdown has a result, so no round is left open with its cards shown.
THEOREM RoundsAlwaysResolve == Spec => []RoundsResolve
  BY RoundInvariance, PTL DEF RoundInv

\* No refill falls between the two cards of a deal, for any number of faces.
THEOREM CardsDifferAndAreGone == Spec => []CardsAreDealtOnce
  BY RoundInvariance, PTL DEF RoundInv
-------------------------------------------------------------------------------
(* What follows from the invariant.                                        *)

LEMMA WinnersTake == RoundInv => WinnerTakesAll
<1>. SUFFICES ASSUME RoundInv, verdict.winner # NoSocket
              PROVE  Beaten(room, verdict.winner, Opponent(room, verdict.winner))
  BY DEF WinnerTakesAll, Beaten
<1>1. /\ Paired(room) /\ verdict.winner \in Members(room)
      /\ \A l \in Members(room) : l # verdict.winner => Beaten(room, verdict.winner, l)
  BY DEF RoundInv, WinnerStays
<1>2. PICK l \in Client : Table(room, verdict.winner, l)
  BY <1>1, TableOfPair DEF RoundInv, MatchInv
<1>3. /\ Opponent(room, verdict.winner) = l
      /\ l \in Members(room) /\ l # verdict.winner
  BY <1>2, OpponentLemma
<1>. QED
  BY <1>1, <1>3

\* resolve and settle treat the two players alike: seen from the other side the
\* result is mirrored and the stacks are the same.
LEMMA ResolveMirrors ==
    ASSUME NEW u \in User, NEW v \in User, ~ (u.bet = "BOTH" /\ v.bet = "BOTH")
    PROVE  Resolve(v, u) = Mirror(Resolve(u, v))
<1>1. /\ u.card[1] \in Int /\ u.card[2] \in Int
      /\ v.card[1] \in Int /\ v.card[2] \in Int
  BY FacesAssumption DEF User, Card
<1>2. Unresolvable(u, v) <=> Unresolvable(v, u)
  BY DEF Unresolvable
<1>3. CASE Unresolvable(u, v)
  BY <1>2, <1>3 DEF Resolve, Mirror
<1>4. CASE ~ Unresolvable(u, v) /\ u.bet = "BOTH"
  <2>1. v.bet # "BOTH" /\ ~ Unresolvable(v, u)
    BY <1>2, <1>4
  <2>2. Resolve(u, v) = IF WinsWithBoth(u, v) THEN "BOTH_WIN" ELSE "LOSE"
    BY <1>4 DEF Resolve
  <2>3. Resolve(v, u) = IF LosesToBoth(v, u) THEN "BOTH_LOSE" ELSE "WIN"
    BY <1>4, <2>1 DEF Resolve
  <2>4. WinsWithBoth(u, v) <=> LosesToBoth(v, u)
    BY <1>1 DEF WinsWithBoth, LosesToBoth, Played
  <2>. QED
    BY <2>2, <2>3, <2>4 DEF Mirror
<1>5. CASE ~ Unresolvable(u, v) /\ v.bet = "BOTH"
  <2>1. u.bet # "BOTH" /\ ~ Unresolvable(v, u)
    BY <1>2, <1>5
  <2>2. Resolve(v, u) = IF WinsWithBoth(v, u) THEN "BOTH_WIN" ELSE "LOSE"
    BY <1>5, <2>1 DEF Resolve
  <2>3. Resolve(u, v) = IF LosesToBoth(u, v) THEN "BOTH_LOSE" ELSE "WIN"
    BY <1>5, <2>1 DEF Resolve
  <2>4. WinsWithBoth(v, u) <=> LosesToBoth(u, v)
    BY <1>1 DEF WinsWithBoth, LosesToBoth, Played
  <2>. QED
    BY <2>2, <2>3, <2>4 DEF Mirror
<1>6. CASE ~ Unresolvable(u, v) /\ u.bet # "BOTH" /\ v.bet # "BOTH"
  <2>1. Resolve(u, v) = IF Played(u) > Played(v) THEN "WIN"
                        ELSE IF Played(u) < Played(v) THEN "LOSE" ELSE "DRAW"
    BY <1>6 DEF Resolve
  <2>2. Resolve(v, u) = IF Played(v) > Played(u) THEN "WIN"
                        ELSE IF Played(v) < Played(u) THEN "LOSE" ELSE "DRAW"
    BY <1>2, <1>6 DEF Resolve
  <2>3. Played(u) \in Int /\ Played(v) \in Int
    BY <1>1 DEF Played
  <2>. QED
    BY <2>1, <2>2, <2>3 DEF Mirror
<1>. QED
  BY <1>3, <1>4, <1>5, <1>6

LEMMA SettleMirrors ==
    ASSUME NEW u \in User, NEW v \in User, NEW n \in Nat, NEW result \in RoundResult
    PROVE  LET there == Settle(v, u, n, Mirror(result))
           IN Settle(u, v, n, result) = Totals(there.opponent, there.current, there.dealer)
<1>1. Pot(u, v) = Pot(v, u) /\ Pot(u, v) \in Nat
  BY DEF Pot, User
<1>2. CASE result \in {"WIN", "LOSE"}
  BY <1>1, <1>2 DEF Settle, Mirror, Totals
<1>3. CASE result \in {"BOTH_WIN", "BOTH_LOSE"}
  BY <1>1, <1>3 DEF Settle, Mirror, Totals
<1>4. CASE result \in {"DRAW", "IMPOSSIBLE"}
  BY <1>1, <1>4 DEF Settle, Mirror, Totals
<1>. QED
  BY <1>2, <1>3, <1>4 DEF RoundResult

LEMMA BothSidesAreFair == RoundInv => ClosingSideIsFair
<1>. SUFFICES ASSUME RoundInv, Playing
              PROVE  /\ Resolve(Rival, Mover) = Mirror(Resolve(Mover, Rival))
                     /\ LET there == Settle(Rival, Mover, room.dealer, Resolve(Rival, Mover))
                        IN Settle(Mover, Rival, room.dealer, Resolve(Mover, Rival))
                              = Totals(there.opponent, there.current, there.dealer)
  BY DEF ClosingSideIsFair
<1>1. /\ Paired(room) /\ session.turn \in Members(room)
  BY DEF RoundInv, MatchInv, SeatsTaken
<1>2. PICK d \in Client : Table(room, session.turn, d)
  BY <1>1, TableOfPair DEF RoundInv, MatchInv
<1>3. Mover \in User /\ Rival \in User /\ room.dealer \in Nat
  BY <1>2, OpponentLemma DEF Mover, Rival
<1>4. ~ (Mover.bet = "BOTH" /\ Rival.bet = "BOTH")
  BY DEF RoundInv, StakesFitSides
<1>5. Resolve(Mover, Rival) \in RoundResult
  BY ResolveType
<1>6. Resolve(Rival, Mover) = Mirror(Resolve(Mover, Rival))
  BY <1>3, <1>4, ResolveMirrors
<1>. QED
  BY <1>3, <1>5, <1>6, SettleMirrors

\* A winner has beaten its opponent, also after an all-in, a bonus or a draw.
THEOREM WinnersTakeAll == Spec => []WinnerTakesAll
  BY RoundInvariance, WinnersTake, PTL

\* It makes no difference who closes a round.
THEOREM ClosingSidesAreFair == Spec => []ClosingSideIsFair
  BY RoundInvariance, BothSidesAreFair, PTL
-------------------------------------------------------------------------------
(* The clients: what they have been told.                                  *)

View == [turn: {"None", "My", "Other"}, chips: Int, rivalChips: Int, dealer: Int,
         card: Card, rivalFront: Int, rivalBack: Int,
         bet: Nat \X Nat, rivalBet: Nat \X Nat]

Views(c, d) == [{c, d} -> View]

\* The parts of a match a view shows.
SeesChips(v, r, m, o) == v.chips = r.users[m].chips /\ v.rivalChips = r.users[o].chips
SeesBets(v, r, m, o) ==
    /\ v.bet = <<r.users[m].front, r.users[m].back>>
    /\ v.rivalBet = <<r.users[o].front, r.users[o].back>>
SeesCards(v, r, m, o) ==
    v.card = r.users[m].card /\ v.rivalFront = r.users[o].card[1] /\ v.rivalBack = 0

\* What does not concern the chips.
SameButChips(v, w) ==
    /\ v.turn = w.turn /\ v.card = w.card
    /\ v.rivalFront = w.rivalFront /\ v.rivalBack = w.rivalBack
    /\ v.bet = w.bet /\ v.rivalBet = w.rivalBet
-------------------------------------------------------------------------------
(* One lemma per message.                                                  *)

LEMMA UserTypes ==
    ASSUME NEW r, NEW c, NEW d, Table(r, c, d)
    PROVE  \A m \in {c, d} :
               /\ r.users[m].chips \in Int /\ r.users[m].card \in Card
               /\ r.users[m].card[1] \in Int /\ r.users[m].card[2] \in Int
               /\ r.users[m].front \in Nat /\ r.users[m].back \in Nat
               /\ r.dealer \in Int
<1>1. \A m \in {c, d} : r.users[m] \in User
  BY OpponentLemma
<1>2. r.dealer \in Nat
  BY OpponentLemma
<1>. QED
  BY <1>1, <1>2, FacesAssumption DEF User, Card

LEMMA TellChipsView ==
    ASSUME NEW c, NEW d, NEW views \in Views(c, d), NEW r, Table(r, c, d), NEW a \in {c, d}
    PROVE  LET told == TellChips(views, r, a)
           IN /\ told \in Views(c, d)
              /\ \A m \in {c, d} :
                    /\ SameButChips(told[m], views[m]) /\ told[m].dealer = views[m].dealer
                    /\ told[m].chips = IF m = a THEN r.users[a].chips ELSE views[m].chips
                    /\ told[m].rivalChips = IF m = a THEN views[m].rivalChips
                                                     ELSE r.users[a].chips
<1>1. r.users[a].chips \in Int
  BY UserTypes
<1>2. DOMAIN views = {c, d} /\ \A m \in {c, d} : views[m] \in View
  BY DEF Views
<1>3. \A v \in View, n \in Int :
        LET w == [v EXCEPT !.chips = n]
        IN w \in View /\ SameButChips(w, v) /\ w.dealer = v.dealer /\ w.chips = n
           /\ w.rivalChips = v.rivalChips
  BY DEF View, SameButChips
<1>4. \A v \in View, n \in Int :
        LET w == [v EXCEPT !.rivalChips = n]
        IN w \in View /\ SameButChips(w, v) /\ w.dealer = v.dealer /\ w.rivalChips = n
           /\ w.chips = v.chips
  BY DEF View, SameButChips
<1>. DEFINE told == TellChips(views, r, a)
<1>5. \A m \in {c, d} : told[m] = IF m = a THEN [views[m] EXCEPT !.chips = r.users[a].chips]
                                  ELSE [views[m] EXCEPT !.rivalChips = r.users[a].chips]
  BY <1>2 DEF TellChips
<1>6. DOMAIN told = {c, d} /\ told = [m \in {c, d} |-> told[m]]
  BY <1>2 DEF TellChips
<1>. HIDE DEF told
<1>7. \A m \in {c, d} :
         /\ told[m] \in View
         /\ SameButChips(told[m], views[m]) /\ told[m].dealer = views[m].dealer
         /\ told[m].chips = IF m = a THEN r.users[a].chips ELSE views[m].chips
         /\ told[m].rivalChips = IF m = a THEN views[m].rivalChips ELSE r.users[a].chips
  <2>. TAKE m \in {c, d}
  <2>1. PICK v \in View : v = views[m]
    BY <1>2
  <2>2. PICK n \in Int : n = r.users[a].chips
    BY <1>1
  <2>3. CASE m = a
    <3>1. told[m] = [v EXCEPT !.chips = n]
      BY <1>5, <2>1, <2>2, <2>3
    <3>. QED
      BY <1>3, <2>1, <2>2, <2>3, <3>1
  <2>4. CASE m # a
    <3>1. told[m] = [v EXCEPT !.rivalChips = n]
      BY <1>5, <2>1, <2>2, <2>4
    <3>. QED
      BY <1>4, <2>1, <2>2, <2>4, <3>1
  <2>. QED
    BY <2>3, <2>4
<1>8. told \in Views(c, d)
  BY <1>6, <1>7 DEF Views
<1>. QED
  BY <1>7, <1>8 DEF told

LEMMA TellDealerView ==
    ASSUME NEW c, NEW d, NEW views \in Views(c, d), NEW r, Table(r, c, d)
    PROVE  LET told == TellDealer(views, r)
           IN /\ told \in Views(c, d)
              /\ \A m \in {c, d} :
                    /\ SameButChips(told[m], views[m]) /\ told[m].dealer = r.dealer
                    /\ told[m].chips = views[m].chips
                    /\ told[m].rivalChips = views[m].rivalChips
<1>1. r.dealer \in Int
  BY UserTypes
<1>2. DOMAIN views = {c, d} /\ \A m \in {c, d} : views[m] \in View
  BY DEF Views
<1>3. \A v \in View, n \in Int :
        LET w == [v EXCEPT !.dealer = n]
        IN w \in View /\ SameButChips(w, v) /\ w.dealer = n /\ w.chips = v.chips
           /\ w.rivalChips = v.rivalChips
  BY DEF View, SameButChips
<1>4. TellDealer(views, r) = [m \in {c, d} |-> [views[m] EXCEPT !.dealer = r.dealer]]
  BY <1>2 DEF TellDealer
<1>. DEFINE told == TellDealer(views, r)
<1>5. \A m \in {c, d} : told[m] = [views[m] EXCEPT !.dealer = r.dealer]
  BY <1>4
<1>6. told = [m \in {c, d} |-> told[m]]
  BY <1>4
<1>. HIDE DEF told
<1>7. \A m \in {c, d} :
         /\ told[m] \in View /\ SameButChips(told[m], views[m]) /\ told[m].dealer = r.dealer
         /\ told[m].chips = views[m].chips /\ told[m].rivalChips = views[m].rivalChips
  <2>. TAKE m \in {c, d}
  <2>1. views[m] \in View /\ told[m] = [views[m] EXCEPT !.dealer = r.dealer]
    BY <1>2, <1>5
  <2>. QED
    BY <1>1, <1>3, <2>1
<1>8. told \in Views(c, d)
  BY <1>6, <1>7 DEF Views
<1>. QED
  BY <1>7, <1>8 DEF told

LEMMA TellBetView ==
    ASSUME NEW c, NEW d, NEW views \in Views(c, d), NEW r, Table(r, c, d), NEW a \in {c, d},
           NEW side
    PROVE  LET told == TellBet(views, r, a, side)
               Told(shown) ==
                   <<IF side \in {"FRONT", "BOTH"} THEN r.users[a].front ELSE shown[1],
                     IF side \in {"BACK", "BOTH"} THEN r.users[a].back ELSE shown[2]>>
           IN /\ told \in Views(c, d)
              /\ \A m \in {c, d} :
                    /\ told[m].chips = views[m].chips /\ told[m].dealer = views[m].dealer
                    /\ told[m].rivalChips = views[m].rivalChips
                    /\ told[m].card = views[m].card
                    /\ told[m].rivalFront = views[m].rivalFront
                    /\ told[m].rivalBack = views[m].rivalBack
                    /\ told[m].bet = IF m = a THEN Told(views[m].bet) ELSE views[m].bet
                    /\ told[m].rivalBet = IF m = a THEN views[m].rivalBet
                                                   ELSE Told(views[m].rivalBet)
<1>. DEFINE told == TellBet(views, r, a, side)
            Told(shown) ==
                   <<IF side \in {"FRONT", "BOTH"} THEN r.users[a].front ELSE shown[1],
                     IF side \in {"BACK", "BOTH"} THEN r.users[a].back ELSE shown[2]>>
            Kept(w, v) == /\ w.chips = v.chips /\ w.dealer = v.dealer
                          /\ w.rivalChips = v.rivalChips /\ w.card = v.card
                          /\ w.rivalFront = v.rivalFront /\ w.rivalBack = v.rivalBack
<1>1. r.users[a].front \in Nat /\ r.users[a].back \in Nat
  BY UserTypes
<1>2. DOMAIN views = {c, d} /\ \A m \in {c, d} : views[m] \in View
  BY DEF Views
<1>3. \A p \in Nat \X Nat : Told(p) \in Nat \X Nat
  BY <1>1
<1>4. \A m \in {c, d} : told[m] = IF m = a THEN [views[m] EXCEPT !.bet = Told(views[m].bet)]
                                  ELSE [views[m] EXCEPT !.rivalBet = Told(views[m].rivalBet)]
  BY <1>2, Zenon DEF TellBet
<1>5. told = [m \in {c, d} |-> told[m]]
  BY <1>2 DEF TellBet
<1>. HIDE DEF told, Told
<1>6. \A v \in View, p \in Nat \X Nat :
        LET w == [v EXCEPT !.bet = p]
        IN w \in View /\ Kept(w, v) /\ w.bet = p /\ w.rivalBet = v.rivalBet
  BY DEF View
<1>7. \A v \in View, p \in Nat \X Nat :
        LET w == [v EXCEPT !.rivalBet = p]
        IN w \in View /\ Kept(w, v) /\ w.rivalBet = p /\ w.bet = v.bet
  BY DEF View
<1>8. \A m \in {c, d} : views[m].bet \in Nat \X Nat /\ views[m].rivalBet \in Nat \X Nat
  BY <1>2 DEF View
<1>. HIDE DEF Kept
<1>9. \A m \in {c, d} :
         /\ told[m] \in View /\ Kept(told[m], views[m])
         /\ told[m].bet = IF m = a THEN Told(views[m].bet) ELSE views[m].bet
         /\ told[m].rivalBet = IF m = a THEN views[m].rivalBet ELSE Told(views[m].rivalBet)
  <2>. TAKE m \in {c, d}
  <2>1. PICK v \in View : v = views[m]
    BY <1>2
  <2>2. CASE m = a
    <3>1. told[m] = [v EXCEPT !.bet = Told(v.bet)] /\ Told(v.bet) \in Nat \X Nat
      BY <1>3, <1>4, <1>8, <2>1, <2>2
    <3>. QED
      BY <1>6, <2>1, <2>2, <3>1
  <2>3. CASE m # a
    <3>1. told[m] = [v EXCEPT !.rivalBet = Told(v.rivalBet)] /\ Told(v.rivalBet) \in Nat \X Nat
      BY <1>3, <1>4, <1>8, <2>1, <2>3
    <3>. QED
      BY <1>7, <2>1, <2>3, <3>1
  <2>. QED
    BY <2>2, <2>3
<1>10. told \in Views(c, d)
  BY <1>5, <1>9 DEF Views
<1>. QED
  BY <1>9, <1>10 DEF told, Told, Kept

\* Both faces of the own card, the front of the opponent's: never its back.
LEMMA TellCardsView ==
    ASSUME NEW c, NEW d, NEW views \in Views(c, d), NEW r, Table(r, c, d)
    PROVE  LET told == TellCards(views, r)
           IN /\ told \in Views(c, d)
              /\ \A m, o \in {c, d} : m # o =>
                    /\ SeesCards(told[m], r, m, o)
                    /\ told[m].chips = views[m].chips
                    /\ told[m].rivalChips = views[m].rivalChips
                    /\ told[m].dealer = views[m].dealer
                    /\ told[m].turn = views[m].turn
                    /\ told[m].bet = views[m].bet
                    /\ told[m].rivalBet = views[m].rivalBet
<1>. DEFINE told == TellCards(views, r)
            Kept(w, v) == /\ w.chips = v.chips /\ w.rivalChips = v.rivalChips
                          /\ w.dealer = v.dealer /\ w.turn = v.turn
                          /\ w.bet = v.bet /\ w.rivalBet = v.rivalBet
<1>1. DOMAIN views = {c, d} /\ \A m \in {c, d} : views[m] \in View
  BY DEF Views
<1>2. \A v \in View, card \in Card, n \in Int :
        LET w == [v EXCEPT !.card = card, !.rivalFront = n, !.rivalBack = 0]
        IN w \in View /\ w.card = card /\ w.rivalFront = n /\ w.rivalBack = 0 /\ Kept(w, v)
  <2>. TAKE v \in View, card \in Card, n \in Int
  <2>. DEFINE v1 == [v EXCEPT !.card = card]
              v2 == [v1 EXCEPT !.rivalFront = n]
              v3 == [v2 EXCEPT !.rivalBack = 0]
  <2>1. v1 \in View /\ v1.card = card /\ Kept(v1, v)
    BY DEF View
  <2>. HIDE DEF v1
  <2>2. v2 \in View /\ v2.card = card /\ v2.rivalFront = n /\ Kept(v2, v)
    BY <2>1 DEF View
  <2>. HIDE DEF v2
  <2>3. v3 \in View /\ v3.card = card /\ v3.rivalFront = n /\ v3.rivalBack = 0 /\ Kept(v3, v)
    BY <2>2 DEF View
  <2>4. v3 = [v EXCEPT !.card = card, !.rivalFront = n, !.rivalBack = 0]
    BY Zenon DEF v2, v1
  <2>. HIDE DEF v3, Kept
  <2>. QED
    BY <2>3, <2>4
<1>3. \A m, o \in {c, d} : m # o => Opponent(r, m) = o
  BY OpponentLemma
<1>4. told = [m \in {c, d} |-> told[m]]
  BY <1>1 DEF TellCards
<1>5. \A m \in {c, d} :
         told[m] = [views[m] EXCEPT !.card = r.users[m].card,
                                    !.rivalFront = r.users[Opponent(r, m)].card[1],
                                    !.rivalBack = 0]
  BY <1>1, Zenon DEF TellCards
<1>. HIDE DEF told, Kept
<1>6. ASSUME NEW m \in {c, d}, NEW o \in {c, d}, m # o
      PROVE  told[m] \in View /\ SeesCards(told[m], r, m, o) /\ Kept(told[m], views[m])
  <2>1. PICK v \in View : v = views[m]
    BY <1>1
  <2>2. PICK card \in Card : card = r.users[m].card
    BY UserTypes
  <2>3. PICK n \in Int : n = r.users[o].card[1]
    BY UserTypes
  <2>. DEFINE w == [v EXCEPT !.card = card, !.rivalFront = n, !.rivalBack = 0]
  <2>4. w \in View /\ w.card = card /\ w.rivalFront = n /\ w.rivalBack = 0 /\ Kept(w, v)
    BY <1>2
  <2>5. Opponent(r, m) = o
    BY <1>3, <1>6
  <2>6. told[m] = w
    BY <1>5, <2>1, <2>2, <2>3, <2>5, Zenon
  <2>. HIDE DEF w
  <2>. QED
    BY <2>1, <2>2, <2>3, <2>4, <2>6 DEF SeesCards
<1>7. told \in Views(c, d)
  <2>1. c # d
    BY OpponentLemma
  <2>2. told[c] \in View /\ told[d] \in View
    BY <1>6, <2>1
  <2>. QED
    BY <1>4, <2>2 DEF Views
<1>. QED
  BY <1>6, <1>7 DEF told, Kept

LEMMA TellBacksView ==
    ASSUME NEW c, NEW d, NEW views \in Views(c, d), NEW r, Table(r, c, d)
    PROVE  LET told == TellBacks(views, r)
           IN /\ told \in Views(c, d)
              /\ \A m \in {c, d} : /\ told[m].chips = views[m].chips
                                    /\ told[m].rivalChips = views[m].rivalChips
                                    /\ told[m].dealer = views[m].dealer
<1>. DEFINE told == TellBacks(views, r)
            Back(m) == IF RevealsBack(r.users[Opponent(r, m)])
                       THEN r.users[Opponent(r, m)].card[2] ELSE views[m].rivalBack
<1>1. DOMAIN views = {c, d} /\ \A m \in {c, d} : views[m] \in View
  BY DEF Views
<1>2. \A v \in View, n \in Int :
        LET w == [v EXCEPT !.rivalBack = n]
        IN w \in View /\ w.chips = v.chips /\ w.rivalChips = v.rivalChips /\ w.dealer = v.dealer
  BY DEF View
<1>3. \A m \in {c, d} : Back(m) \in Int
  <2>. TAKE m \in {c, d}
  <2>1. Opponent(r, m) \in {c, d}
    BY OpponentLemma
  <2>2. r.users[Opponent(r, m)].card[2] \in Int
    BY <2>1, UserTypes
  <2>3. views[m].rivalBack \in Int
    BY <1>1 DEF View
  <2>. QED
    BY <2>2, <2>3
<1>4. told = [m \in {c, d} |-> told[m]]
  BY <1>1 DEF TellBacks
<1>5. \A m \in {c, d} : told[m] = [views[m] EXCEPT !.rivalBack = Back(m)]
  BY <1>1, Zenon DEF TellBacks
<1>. HIDE DEF told, Back
<1>6. \A m \in {c, d} :
         /\ told[m] \in View /\ told[m].chips = views[m].chips
         /\ told[m].rivalChips = views[m].rivalChips /\ told[m].dealer = views[m].dealer
  <2>. TAKE m \in {c, d}
  <2>1. PICK v \in View : v = views[m]
    BY <1>1
  <2>2. PICK n \in Int : n = Back(m)
    BY <1>3
  <2>. DEFINE w == [v EXCEPT !.rivalBack = n]
  <2>3. w \in View /\ w.chips = v.chips /\ w.rivalChips = v.rivalChips /\ w.dealer = v.dealer
    BY <1>2
  <2>4. told[m] = w
    BY <1>5, <2>1, <2>2, Zenon
  <2>. HIDE DEF w
  <2>. QED
    BY <2>1, <2>3, <2>4
<1>7. told \in Views(c, d)
  BY <1>4, <1>6 DEF Views
<1>. QED
  BY <1>6, <1>7 DEF told

LEMMA TellTurnView ==
    ASSUME NEW c, NEW d, NEW views \in Views(c, d), NEW a
    PROVE  LET told == TellTurn(views, a)
           IN /\ told \in Views(c, d)
              /\ \A m \in {c, d} :
                    /\ told[m].turn = (IF m = a THEN "My" ELSE "Other")
                    /\ told[m].chips = views[m].chips
                    /\ told[m].rivalChips = views[m].rivalChips
                    /\ told[m].dealer = views[m].dealer /\ told[m].card = views[m].card
                    /\ told[m].rivalFront = views[m].rivalFront
                    /\ told[m].rivalBack = views[m].rivalBack
                    /\ told[m].bet = views[m].bet /\ told[m].rivalBet = views[m].rivalBet
<1>. DEFINE told == TellTurn(views, a)
            Kept(w, v) ==
                /\ w.chips = v.chips /\ w.rivalChips = v.rivalChips
                /\ w.dealer = v.dealer /\ w.card = v.card
                /\ w.rivalFront = v.rivalFront /\ w.rivalBack = v.rivalBack
                /\ w.bet = v.bet /\ w.rivalBet = v.rivalBet
<1>1. DOMAIN views = {c, d} /\ \A m \in {c, d} : views[m] \in View
  BY DEF Views
<1>2. \A v \in View, t \in {"My", "Other"} :
        LET w == [v EXCEPT !.turn = t] IN w \in View /\ w.turn = t /\ Kept(w, v)
  BY DEF View
<1>3. told = [m \in {c, d} |-> told[m]]
  BY <1>1 DEF TellTurn
<1>4. \A m \in {c, d} : told[m] = [views[m] EXCEPT !.turn = IF m = a THEN "My" ELSE "Other"]
  BY <1>1, Zenon DEF TellTurn
<1>. HIDE DEF told, Kept
<1>5. \A m \in {c, d} : /\ told[m] \in View /\ Kept(told[m], views[m])
                         /\ told[m].turn = (IF m = a THEN "My" ELSE "Other")
  <2>. TAKE m \in {c, d}
  <2>1. PICK v \in View : v = views[m]
    BY <1>1
  <2>2. PICK t \in {"My", "Other"} : t = IF m = a THEN "My" ELSE "Other"
    OBVIOUS
  <2>. QED
    BY <1>2, <1>4, <2>1, <2>2
<1>6. told \in Views(c, d)
  BY <1>3, <1>5 DEF Views
<1>. QED
  BY <1>5, <1>6 DEF told, Kept

LEMMA TellGameInitView ==
    ASSUME NEW c, NEW d, NEW views \in Views(c, d)
    PROVE  LET told == TellGameInit(views)
           IN /\ told \in Views(c, d)
              /\ \A m \in {c, d} :
                    /\ told[m].bet = <<0, 0>> /\ told[m].rivalBet = <<0, 0>>
                    /\ told[m].chips = views[m].chips
                    /\ told[m].rivalChips = views[m].rivalChips
                    /\ told[m].dealer = views[m].dealer /\ told[m].card = views[m].card
                    /\ told[m].rivalFront = views[m].rivalFront
                    /\ told[m].rivalBack = views[m].rivalBack
<1>. DEFINE told == TellGameInit(views)
            Kept(w, v) ==
                /\ w.chips = v.chips /\ w.rivalChips = v.rivalChips
                /\ w.dealer = v.dealer /\ w.card = v.card
                /\ w.rivalFront = v.rivalFront /\ w.rivalBack = v.rivalBack
<1>1. DOMAIN views = {c, d} /\ \A m \in {c, d} : views[m] \in View
  BY DEF Views
<1>2. \A v \in View : LET w == [v EXCEPT !.bet = <<0, 0>>, !.rivalBet = <<0, 0>>]
                       IN /\ w \in View /\ w.bet = <<0, 0>> /\ w.rivalBet = <<0, 0>>
                          /\ Kept(w, v)
  <2>. TAKE v \in View
  <2>. DEFINE v1 == [v EXCEPT !.bet = <<0, 0>>]
              v2 == [v1 EXCEPT !.rivalBet = <<0, 0>>]
  <2>1. v1 \in View /\ v1.bet = <<0, 0>> /\ Kept(v1, v)
    BY DEF View
  <2>. HIDE DEF v1
  <2>2. v2 \in View /\ v2.bet = <<0, 0>> /\ v2.rivalBet = <<0, 0>> /\ Kept(v2, v)
    BY <2>1 DEF View
  <2>3. v2 = [v EXCEPT !.bet = <<0, 0>>, !.rivalBet = <<0, 0>>]
    BY Zenon DEF v1
  <2>. HIDE DEF v2, Kept
  <2>. QED
    BY <2>2, <2>3
<1>3. told = [m \in {c, d} |-> told[m]]
  BY <1>1 DEF TellGameInit
<1>4. \A m \in {c, d} : told[m] = [views[m] EXCEPT !.bet = <<0, 0>>, !.rivalBet = <<0, 0>>]
  BY <1>1, Zenon DEF TellGameInit
<1>. HIDE DEF told, Kept
<1>5. \A m \in {c, d} : /\ told[m] \in View /\ Kept(told[m], views[m])
                         /\ told[m].bet = <<0, 0>> /\ told[m].rivalBet = <<0, 0>>
  <2>. TAKE m \in {c, d}
  <2>1. PICK v \in View : v = views[m]
    BY <1>1
  <2>. DEFINE w == [v EXCEPT !.bet = <<0, 0>>, !.rivalBet = <<0, 0>>]
  <2>2. w \in View /\ w.bet = <<0, 0>> /\ w.rivalBet = <<0, 0>> /\ Kept(w, v)
    BY <1>2
  <2>3. told[m] = w
    BY <1>4, <2>1, Zenon
  <2>. HIDE DEF w
  <2>. QED
    BY <2>1, <2>2, <2>3
<1>6. told \in Views(c, d)
  BY <1>3, <1>5 DEF Views
<1>. QED
  BY <1>5, <1>6 DEF told, Kept

\* Both clients know both stacks and the table.
Money(views, r, c, d) ==
    \A m, o \in {c, d} : m # o => SeesChips(views[m], r, m, o) /\ views[m].dealer = r.dealer

\* Telling both stacks tells all of it.
LEMMA TellBothChips ==
    ASSUME NEW c, NEW d, NEW views \in Views(c, d), NEW r, Table(r, c, d)
    PROVE  LET told == TellChips(TellChips(views, r, c), r, d)
           IN /\ told \in Views(c, d)
              /\ \A m, o \in {c, d} : m # o => SeesChips(told[m], r, m, o)
<1>. DEFINE w    == TellChips(views, r, c)
            told == TellChips(w, r, d)
<1>0. c # d
  BY OpponentLemma
<1>1. /\ w \in Views(c, d)
      /\ w[c].chips = r.users[c].chips /\ w[d].rivalChips = r.users[c].chips
  BY <1>0, TellChipsView
<1>. HIDE DEF w
<1>2. /\ told \in Views(c, d)
      /\ told[c].chips = w[c].chips /\ told[c].rivalChips = r.users[d].chips
      /\ told[d].chips = r.users[d].chips /\ told[d].rivalChips = w[d].rivalChips
  BY <1>0, <1>1, TellChipsView
<1>. HIDE DEF told
<1>3. \A m, o \in {c, d} : m # o => SeesChips(told[m], r, m, o)
  BY <1>1, <1>2 DEF SeesChips
<1>. QED
  BY <1>2, <1>3 DEF told, w

LEMMA TellBasicBetView ==
    ASSUME NEW c, NEW d, NEW views \in Views(c, d),
           NEW before, NEW after, Table(after, c, d), before # after
    PROVE  LET told == TellBasicBet(views, before, after, c)
           IN told \in Views(c, d) /\ Money(told, after, c, d)
<1>. DEFINE w    == TellChips(TellChips(views, after, c), after, d)
            told == TellDealer(w, after)
<1>1. w \in Views(c, d) /\ \A m, o \in {c, d} : m # o => SeesChips(w[m], after, m, o)
  BY TellBothChips
<1>2. TellBasicBet(views, before, after, c) = told
  BY OpponentLemma DEF TellBasicBet
<1>. HIDE DEF w
<1>3. /\ told \in Views(c, d)
      /\ \A m \in {c, d} : /\ told[m].dealer = after.dealer
                            /\ told[m].chips = w[m].chips
                            /\ told[m].rivalChips = w[m].rivalChips
  BY <1>1, TellDealerView
<1>. HIDE DEF told
<1>4. Money(told, after, c, d)
  BY <1>1, <1>3 DEF Money, SeesChips
<1>. QED
  BY <1>2, <1>3, <1>4

\* Telling only what changed is enough for who knew the rest.
LEMMA TellSettlementView ==
    ASSUME NEW c, NEW d, NEW views \in Views(c, d),
           NEW before, NEW after, Table(before, c, d), Table(after, c, d),
           Money(views, before, c, d)
    PROVE  LET told == TellSettlement(views, before, after, c)
           IN told \in Views(c, d) /\ Money(told, after, c, d)
<1>. DEFINE v1 == IF after.dealer # before.dealer THEN TellDealer(views, after) ELSE views
            v2 == IF after.users[c].chips # before.users[c].chips
                  THEN TellChips(v1, after, c) ELSE v1
            v3 == IF after.users[d].chips # before.users[d].chips
                  THEN TellChips(v2, after, d) ELSE v2
<1>0. c # d /\ Opponent(after, c) = d
  BY OpponentLemma
<1>1. /\ views[c].dealer = before.dealer /\ views[d].dealer = before.dealer
      /\ views[c].chips = before.users[c].chips /\ views[c].rivalChips = before.users[d].chips
      /\ views[d].chips = before.users[d].chips /\ views[d].rivalChips = before.users[c].chips
  BY <1>0 DEF Money, SeesChips
<1>2. TellSettlement(views, before, after, c) = v3
  BY <1>0, Zenon DEF TellSettlement
<1>3. /\ v1 \in Views(c, d)
      /\ v1[c].dealer = after.dealer /\ v1[d].dealer = after.dealer
      /\ v1[c].chips = before.users[c].chips /\ v1[c].rivalChips = before.users[d].chips
      /\ v1[d].chips = before.users[d].chips /\ v1[d].rivalChips = before.users[c].chips
  <2>1. CASE after.dealer = before.dealer
    BY <1>1, <2>1
  <2>2. CASE after.dealer # before.dealer
    BY <1>1, <2>2, TellDealerView
  <2>. QED
    BY <2>1, <2>2
<1>. HIDE DEF v1
<1>4. /\ v2 \in Views(c, d)
      /\ v2[c].dealer = after.dealer /\ v2[d].dealer = after.dealer
      /\ v2[c].chips = after.users[c].chips /\ v2[c].rivalChips = before.users[d].chips
      /\ v2[d].chips = before.users[d].chips /\ v2[d].rivalChips = after.users[c].chips
  <2>1. CASE after.users[c].chips = before.users[c].chips
    BY <1>3, <2>1
  <2>2. CASE after.users[c].chips # before.users[c].chips
    BY <1>0, <1>3, <2>2, TellChipsView
  <2>. QED
    BY <2>1, <2>2
<1>. HIDE DEF v2
<1>5. /\ v3 \in Views(c, d)
      /\ v3[c].dealer = after.dealer /\ v3[d].dealer = after.dealer
      /\ v3[c].chips = after.users[c].chips /\ v3[c].rivalChips = after.users[d].chips
      /\ v3[d].chips = after.users[d].chips /\ v3[d].rivalChips = after.users[c].chips
  <2>1. CASE after.users[d].chips = before.users[d].chips
    BY <1>4, <2>1
  <2>2. CASE after.users[d].chips # before.users[d].chips
    BY <1>0, <1>4, <2>2, TellChipsView
  <2>. QED
    BY <2>1, <2>2
<1>. HIDE DEF v3
<1>6. Money(v3, after, c, d)
  BY <1>5 DEF Money, SeesChips
<1>. QED
  BY <1>2, <1>5, <1>6
-------------------------------------------------------------------------------
(* The invariant.                                                          *)

\* Nothing of what is open in a round is unknown to a client, and nothing else.
Informed(views, r, c, d) ==
    /\ Money(views, r, c, d)
    /\ \A m, o \in {c, d} : m # o => SeesBets(views[m], r, m, o) /\ SeesCards(views[m], r, m, o)

ViewInv ==
    /\ RoundInv
    /\ view \in [Members(room) -> View]
    /\ ViewsAgree /\ BackCardHidden

\* What every step at a table of c and d leaves.
ViewOK(c, d) ==
    /\ view' \in Views(c, d)
    /\ session' # Waiting =>
          /\ Informed(view', room', c, d)
          /\ \A m \in {c, d} : view'[m].turn = IF m = session'.turn THEN "My" ELSE "Other"

LEMMA ViewOKSuffices ==
    ASSUME NEW c \in Client, NEW d \in Client, c # d, RoundInv', ViewOK(c, d)
    PROVE  ViewInv'
<1>0. Table(room', c, d)
  <2>1. PICK seated \in SUBSET Client : room' \in [users: [seated -> User], dealer: Nat]
    BY DEF RoundInv, MatchInv, TypeOK
  <2>2. seated = Members(room') /\ DOMAIN view' = Members(room')
    BY <2>1 DEF RoundInv, MatchInv, TypeOK, Members
  <2>3. DOMAIN view' = {c, d}
    BY DEF ViewOK, Views
  <2>. QED
    BY <2>1, <2>2, <2>3 DEF Table
<1>1. /\ Members(room') = {c, d} /\ c # d
      /\ Opponent(room', c) = d /\ Opponent(room', d) = c
  BY <1>0, OpponentLemma
<1>2. view' \in [Members(room') -> View]
  BY <1>1 DEF ViewOK, Views
<1>3. CASE session' = Waiting
  BY <1>2, <1>3, SessionFields DEF ViewInv, ViewsAgree, BackCardHidden, Playing
<1>4. CASE session' # Waiting
  <2>1. /\ Informed(view', room', c, d)
        /\ \A m \in {c, d} : view'[m].turn = IF m = session'.turn THEN "My" ELSE "Other"
    BY <1>4 DEF ViewOK
  <2>2. ASSUME NEW m \in {c, d}, NEW o \in {c, d}, m # o
        PROVE  /\ view'[m].turn = (IF session'.turn = m THEN "My" ELSE "Other")
               /\ view'[m].chips = room'.users[m].chips
               /\ view'[m].rivalChips = room'.users[o].chips
               /\ view'[m].dealer = room'.dealer
               /\ view'[m].card = room'.users[m].card
               /\ view'[m].rivalFront = room'.users[o].card[1]
               /\ view'[m].bet = <<room'.users[m].front, room'.users[m].back>>
               /\ view'[m].rivalBet = <<room'.users[o].front, room'.users[o].back>>
               /\ view'[m].rivalBack = 0
    BY <2>1, <2>2 DEF Informed, Money, SeesChips, SeesBets, SeesCards
  <2>3. ViewsAgree'
    <3>1. SUFFICES ASSUME NEW m \in {c, d}
                   PROVE  LET me    == room'.users[m]
                              rival == room'.users[Opponent(room', m)]
                              shown == view'[m]
                          IN /\ shown.turn = (IF session'.turn = m THEN "My" ELSE "Other")
                             /\ shown.chips = me.chips /\ shown.rivalChips = rival.chips
                             /\ shown.dealer = room'.dealer
                             /\ shown.card = me.card /\ shown.rivalFront = rival.card[1]
                             /\ shown.bet = <<me.front, me.back>>
                             /\ shown.rivalBet = <<rival.front, rival.back>>
      BY <1>1, Zenon DEF ViewsAgree
    <3>2. PICK o \in {c, d} : m # o /\ Opponent(room', m) = o
      BY <1>1
    <3>. QED
      BY <2>2, <3>2
  <2>4. BackCardHidden'
    <3>1. \A m \in {c, d} : view'[m].rivalBack = 0
      BY <1>1, <2>2
    <3>. QED
      BY <1>1, <3>1 DEF BackCardHidden
  <2>. QED
    BY <1>2, <2>3, <2>4 DEF ViewInv
<1>. QED
  BY <1>3, <1>4

\* What the invariant gives the players of a running match.
LEMMA ViewTurn ==
    ASSUME ViewInv, NEW c \in Client, NEW d \in Client, Table(room, c, d), Playing
    PROVE  /\ view \in Views(c, d) /\ Informed(view, room, c, d)
           /\ \A m \in {c, d} : view[m].turn = IF m = session.turn THEN "My" ELSE "Other"
<1>1. /\ Members(room) = {c, d} /\ c # d
      /\ Opponent(room, c) = d /\ Opponent(room, d) = c
  BY OpponentLemma
<1>2. view \in Views(c, d)
  BY <1>1 DEF ViewInv, Views
<1>3. ASSUME NEW m \in {c, d}, NEW o \in {c, d}, m # o
      PROVE  /\ view[m].turn = (IF session.turn = m THEN "My" ELSE "Other")
             /\ SeesChips(view[m], room, m, o) /\ view[m].dealer = room.dealer
             /\ SeesBets(view[m], room, m, o) /\ SeesCards(view[m], room, m, o)
  <2>1. Opponent(room, m) = o
    BY <1>1, <1>3
  <2>2. view[m].rivalBack = 0
    BY <1>1 DEF ViewInv, BackCardHidden
  <2>. QED
    BY <1>1, <2>1, <2>2 DEF ViewInv, ViewsAgree, SeesChips, SeesBets, SeesCards
<1>4. Informed(view, room, c, d)
  BY <1>3 DEF Informed, Money
<1>. QED
  BY <1>1, <1>2, <1>3, <1>4
-------------------------------------------------------------------------------
(* The parts of a round.                                                   *)

LEMMA FinishGameView ==
    ASSUME NEW c \in Client, NEW d \in Client, NEW final, NEW result,
           Table(final, c, d), FinishGame(c, final, result)
    PROVE  ViewOK(c, d)
<1>1. NoView \in View
  BY FacesAssumption DEF NoView, View, Unknown, NoCard, Card
<1>2. view' = [m \in {c, d} |-> NoView] /\ session' = Waiting
  BY OpponentLemma DEF FinishGame, Blank
<1>. QED
  BY <1>1, <1>2 DEF ViewOK, Views

\* The cards are told last but for the turn, so nothing is left from before.
LEMMA NewRoundView ==
    ASSUME NEW c \in Client, NEW d \in Client, NEW told \in Views(c, d),
           NEW dealt, Table(dealt, c, d), Money(told, dealt, c, d),
           \A m \in {c, d} : dealt.users[m].front = 0 /\ dealt.users[m].back = 0,
           NEW next
    PROVE  LET views == TellTurn(TellGameInit(TellCards(told, dealt)), next)
           IN /\ views \in Views(c, d) /\ Informed(views, dealt, c, d)
              /\ \A m \in {c, d} : views[m].turn = IF m = next THEN "My" ELSE "Other"
<1>. DEFINE v1 == TellCards(told, dealt)
            v2 == TellGameInit(v1)
            v3 == TellTurn(v2, next)
<1>1. /\ v1 \in Views(c, d)
      /\ \A m, o \in {c, d} : m # o => /\ SeesCards(v1[m], dealt, m, o)
                                       /\ v1[m].chips = told[m].chips
                                       /\ v1[m].rivalChips = told[m].rivalChips
                                       /\ v1[m].dealer = told[m].dealer
  BY TellCardsView
<1>. HIDE DEF v1
<1>2. /\ v2 \in Views(c, d)
      /\ \A m \in {c, d} : /\ v2[m].bet = <<0, 0>> /\ v2[m].rivalBet = <<0, 0>>
                            /\ v2[m].chips = v1[m].chips
                            /\ v2[m].rivalChips = v1[m].rivalChips
                            /\ v2[m].dealer = v1[m].dealer /\ v2[m].card = v1[m].card
                            /\ v2[m].rivalFront = v1[m].rivalFront
                            /\ v2[m].rivalBack = v1[m].rivalBack
  BY <1>1, TellGameInitView
<1>. HIDE DEF v2
<1>3. /\ v3 \in Views(c, d)
      /\ \A m \in {c, d} : /\ v3[m].turn = (IF m = next THEN "My" ELSE "Other")
                            /\ v3[m].bet = v2[m].bet /\ v3[m].rivalBet = v2[m].rivalBet
                            /\ v3[m].chips = v2[m].chips
                            /\ v3[m].rivalChips = v2[m].rivalChips
                            /\ v3[m].dealer = v2[m].dealer /\ v3[m].card = v2[m].card
                            /\ v3[m].rivalFront = v2[m].rivalFront
                            /\ v3[m].rivalBack = v2[m].rivalBack
  BY <1>2, TellTurnView
<1>. HIDE DEF v3
<1>4. ASSUME NEW m \in {c, d}, NEW o \in {c, d}, m # o
      PROVE  /\ SeesChips(v3[m], dealt, m, o) /\ v3[m].dealer = dealt.dealer
             /\ SeesBets(v3[m], dealt, m, o) /\ SeesCards(v3[m], dealt, m, o)
  <2>1. SeesChips(told[m], dealt, m, o) /\ told[m].dealer = dealt.dealer
    BY <1>4 DEF Money
  <2>2. SeesChips(v3[m], dealt, m, o) /\ v3[m].dealer = dealt.dealer
    BY <1>1, <1>2, <1>3, <1>4, <2>1 DEF SeesChips
  <2>3. SeesCards(v3[m], dealt, m, o)
    BY <1>1, <1>2, <1>3, <1>4 DEF SeesCards
  <2>4. SeesBets(v3[m], dealt, m, o)
    BY <1>2, <1>3 DEF SeesBets
  <2>. QED
    BY <2>2, <2>3, <2>4
<1>5. Informed(v3, dealt, c, d)
  BY <1>4 DEF Informed, Money
<1>. QED
  BY <1>3, <1>5 DEF v3, v2, v1

LEMMA PrepareNextRoundView ==
    ASSUME NEW c \in Client, NEW d \in Client, NEW settled, NEW views \in Views(c, d),
           NEW result, deck \in SUBSET FullDeck,
           Table(settled, c, d), Money(views, settled, c, d),
           \A m \in {c, d} : settled.users[m].front = 0 /\ settled.users[m].back = 0,
           result # "DRAW" => CanCollect(settled, 1),
           PrepareNextRound(c, settled, views, result)
    PROVE  ViewOK(c, d)
<1>. DEFINE staked == IF result = "DRAW" THEN settled ELSE CollectBasicBet(settled, 1)
            told   == IF result = "DRAW" THEN views
                      ELSE TellBasicBet(views, settled, staked, c)
<1>1. Table(staked, c, d)
  BY CollectBasicBetTable
<1>2. \A m \in {c, d} : staked.users[m].front = 0 /\ staked.users[m].back = 0
  <2>1. CASE result = "DRAW"
    BY <2>1
  <2>2. CASE result # "DRAW"
    BY <2>2, CollectBasicBetFields
  <2>. QED
    BY <2>1, <2>2
<1>3. told \in Views(c, d) /\ Money(told, staked, c, d)
  <2>1. CASE result = "DRAW"
    BY <2>1
  <2>2. CASE result # "DRAW"
    <3>1. staked.dealer = settled.dealer + 2 /\ settled.dealer \in Nat
      BY <2>2, OpponentLemma DEF CollectBasicBet
    <3>2. settled # staked
      BY <3>1
    <3>. HIDE DEF staked
    <3>. QED
      BY <1>1, <2>2, <3>2, TellBasicBetView
  <2>. QED
    BY <2>1, <2>2
<1>4. Opponent(settled, c) = d
  BY OpponentLemma
<1>. HIDE DEF staked, told
<1>. DEFINE GoesOn(dealt) == /\ room' = dealt
                             /\ session' = Betting(d)
                             /\ view' = TellTurn(TellGameInit(TellCards(told, dealt)), d)
<1>5. PICK mine \in Supply(deck) : \E theirs \in Supply(DealCard(deck, mine)) :
        \/ FinishGame(c, UpdateCards(staked, c, mine, theirs), result)
        \/ GoesOn(UpdateCards(staked, c, mine, theirs))
  BY <1>4 DEF PrepareNextRound, staked, told
<1>6. PICK theirs \in Supply(DealCard(deck, mine)) :
        \/ FinishGame(c, UpdateCards(staked, c, mine, theirs), result)
        \/ GoesOn(UpdateCards(staked, c, mine, theirs))
  BY <1>5
<1>. DEFINE dealt == UpdateCards(staked, c, mine, theirs)
<1>7. mine \in Card /\ theirs \in Card
  BY <1>6, DealtCards
<1>8. Table(dealt, c, d)
  BY <1>1, <1>7, UpdateCardsTable
<1>9. \A m \in {c, d} : /\ dealt.users[m].front = 0 /\ dealt.users[m].back = 0
                         /\ dealt.users[m].chips = staked.users[m].chips
  BY <1>1, <1>2, <1>7, UpdateCardsFields
<1>10. dealt.dealer = staked.dealer
  BY DEF UpdateCards, WithUsers
<1>11. FinishGame(c, dealt, result) \/ GoesOn(dealt)
  BY <1>6
<1>. HIDE DEF dealt
<1>12. Money(told, dealt, c, d)
  BY <1>3, <1>9, <1>10 DEF Money, SeesChips
<1>13. CASE FinishGame(c, dealt, result)
  BY <1>8, <1>13, FinishGameView
<1>14. CASE GoesOn(dealt)
  BY <1>3, <1>8, <1>9, <1>12, <1>14, NewRoundView, SessionFields DEF ViewOK
<1>. QED
  BY <1>11, <1>13, <1>14

LEMMA CloseRoundView ==
    ASSUME NEW c \in Client, NEW d \in Client, NEW open, NEW views \in Views(c, d),
           NEW result, deck \in SUBSET FullDeck,
           Table(open, c, d), Money(views, open, c, d),
           CloseRound(c, open, views, result)
    PROVE  ViewOK(c, d)
<1>. DEFINE settled == SettleRound(open, c, result)
            told    == TellSettlement(views, open, settled, c)
            checked == EndCheck(settled, c)
<1>1. Table(settled, c, d)
  BY SettleRoundTable
<1>2. \A m \in {c, d} : settled.users[m].front = 0 /\ settled.users[m].back = 0
  BY SettleRoundFields
<1>3. \/ FinishGame(c, settled, result)
      \/ /\ result = "DRAW" \/ EndCheckResult(settled, c) = "PROGRESS"
         /\ PrepareNextRound(c, checked, told, result)
  BY DEF CloseRound
<1>. HIDE DEF settled
<1>4. told \in Views(c, d) /\ Money(told, settled, c, d)
  BY <1>1, TellSettlementView
<1>. HIDE DEF told
<1>5. CASE FinishGame(c, settled, result)
  BY <1>1, <1>5, FinishGameView
<1>6. CASE /\ result = "DRAW" \/ EndCheckResult(settled, c) = "PROGRESS"
           /\ PrepareNextRound(c, checked, told, result)
  <2>1. Table(checked, c, d)
    BY <1>1, EndCheckTable
  <2>2. \A m \in {c, d} : /\ checked.users[m].front = 0 /\ checked.users[m].back = 0
                           /\ checked.users[m].chips = settled.users[m].chips
    BY <1>1, <1>2, EndCheckFields
  <2>3. checked.dealer = settled.dealer
    BY DEF EndCheck, WithUsers
  <2>4. result # "DRAW" => CanCollect(checked, 1)
    <3>1. SUFFICES ASSUME result # "DRAW" PROVE CanCollect(checked, 1)
      OBVIOUS
    <3>2. checked = settled /\ settled.users[c].chips > 0 /\ settled.users[d].chips > 0
      BY <1>1, <1>6, <3>1, EndCheckFields
    <3>3. /\ Members(settled) = {c, d}
          /\ settled.users[c].chips \in Nat /\ settled.users[d].chips \in Nat
      BY <1>1, OpponentLemma DEF User
    <3>. HIDE DEF checked
    <3>. QED
      BY <3>2, <3>3 DEF CanCollect
  <2>. HIDE DEF checked
  <2>5. Money(told, checked, c, d)
    BY <1>4, <2>2, <2>3 DEF Money, SeesChips
  <2>. QED
    BY <1>4, <1>6, <2>1, <2>2, <2>4, <2>5, PrepareNextRoundView
<1>. QED
  BY <1>3, <1>5, <1>6

LEMMA ShowdownView ==
    ASSUME NEW c \in Client, NEW d \in Client, NEW open, NEW views \in Views(c, d),
           deck \in SUBSET FullDeck,
           Table(open, c, d), Money(views, open, c, d),
           Showdown(c, open, views), verdict'.round # "IMPOSSIBLE"
    PROVE  ViewOK(c, d)
<1>. DEFINE result  == CompareCard(open, c)
            cleared == ClearBetTypes(open)
            shown   == TellBacks(views, open)
<1>1. CloseRound(c, cleared, shown, result)
  BY DEF Showdown, Verdict
<1>2. Table(cleared, c, d)
  BY ClearBetTypesTable
<1>3. \A m \in {c, d} : cleared.users[m].chips = open.users[m].chips
  BY ClearBetTypesFields
<1>4. cleared.dealer = open.dealer
  BY DEF ClearBetTypes, WithUsers
<1>5. /\ shown \in Views(c, d)
      /\ \A m \in {c, d} : /\ shown[m].chips = views[m].chips
                            /\ shown[m].rivalChips = views[m].rivalChips
                            /\ shown[m].dealer = views[m].dealer
  BY TellBacksView
<1>. HIDE DEF result, cleared, shown
<1>6. Money(shown, cleared, c, d)
  BY <1>3, <1>4, <1>5 DEF Money, SeesChips
<1>. QED
  BY <1>1, <1>2, <1>5, <1>6, CloseRoundView
-------------------------------------------------------------------------------
(* The actions.                                                            *)

\* A view told of a bet: the side or sides it is on.
LEMMA BetToldView ==
    ASSUME NEW c \in Client, NEW d \in Client, Table(room, c, d),
           NEW count \in Nat, NEW side \in ChipBet,
           Cost(count, side) <= room.users[c].chips,
           view \in Views(c, d), Informed(view, room, c, d)
    PROVE  LET after == BetChips(room, c, count, side)
               told  == TellBet(TellChips(view, after, c), after, c, side)
           IN /\ Table(after, c, d) /\ told \in Views(c, d)
              /\ Informed(told, after, c, d)
<1>. DEFINE after == BetChips(room, c, count, side)
            w     == TellChips(view, after, c)
            told  == TellBet(w, after, c, side)
<1>1. Table(after, c, d)
  BY BetChipsTable
<1>2. /\ after.users[c].front = IF side \in {"FRONT", "BOTH"} THEN room.users[c].front + count
                                                               ELSE room.users[c].front
      /\ after.users[c].back = IF side \in {"BACK", "BOTH"} THEN room.users[c].back + count
                                                             ELSE room.users[c].back
      /\ after.users[c].card = room.users[c].card /\ after.users[d] = room.users[d]
      /\ c # d
  BY OpponentLemma, BetChipsFields
<1>3. after.dealer = room.dealer
  BY DEF BetChips, WithUsers
<1>. HIDE DEF after
<1>4. /\ w \in Views(c, d)
      /\ \A m \in {c, d} :
            /\ SameButChips(w[m], view[m]) /\ w[m].dealer = view[m].dealer
            /\ w[m].chips = IF m = c THEN after.users[c].chips ELSE view[m].chips
            /\ w[m].rivalChips = IF m = c THEN view[m].rivalChips ELSE after.users[c].chips
  BY <1>1, TellChipsView
<1>. HIDE DEF w
<1>. DEFINE Told(shown) ==
                <<IF side \in {"FRONT", "BOTH"} THEN after.users[c].front ELSE shown[1],
                  IF side \in {"BACK", "BOTH"} THEN after.users[c].back ELSE shown[2]>>
<1>5. /\ told \in Views(c, d)
      /\ \A m \in {c, d} :
            /\ told[m].chips = w[m].chips /\ told[m].dealer = w[m].dealer
            /\ told[m].rivalChips = w[m].rivalChips /\ told[m].card = w[m].card
            /\ told[m].rivalFront = w[m].rivalFront
            /\ told[m].rivalBack = w[m].rivalBack
            /\ told[m].bet = IF m = c THEN Told(w[m].bet) ELSE w[m].bet
            /\ told[m].rivalBet = IF m = c THEN w[m].rivalBet ELSE Told(w[m].rivalBet)
  BY <1>1, <1>4, TellBetView
<1>. HIDE DEF told
<1>6. Told(<<room.users[c].front, room.users[c].back>>)
          = <<after.users[c].front, after.users[c].back>>
  BY <1>2
<1>. HIDE DEF Told
<1>7. Money(told, after, c, d)
  <2>1. /\ view[c].rivalChips = room.users[d].chips /\ view[d].chips = room.users[d].chips
        /\ view[c].dealer = room.dealer /\ view[d].dealer = room.dealer
    BY <1>2 DEF Informed, Money, SeesChips
  <2>. QED
    BY <1>2, <1>3, <1>4, <1>5, <2>1 DEF Money, SeesChips
<1>8. \A m, o \in {c, d} : m # o => SeesCards(told[m], after, m, o)
  <2>1. \A m, o \in {c, d} : m # o => SeesCards(view[m], room, m, o)
    BY DEF Informed
  <2>. QED
    BY <1>2, <1>4, <1>5, <2>1 DEF SeesCards, SameButChips
<1>9. \A m, o \in {c, d} : m # o => SeesBets(told[m], after, m, o)
  <2>1. SeesBets(view[c], room, c, d) /\ SeesBets(view[d], room, d, c)
    BY <1>2 DEF Informed
  <2>2. SeesBets(told[c], after, c, d)
    <3>1. told[c].bet = Told(view[c].bet) /\ told[c].rivalBet = view[c].rivalBet
      BY <1>4, <1>5 DEF SameButChips
    <3>. QED
      BY <1>2, <1>6, <2>1, <3>1 DEF SeesBets
  <2>3. SeesBets(told[d], after, d, c)
    <3>1. told[d].bet = view[d].bet /\ told[d].rivalBet = Told(view[d].rivalBet)
      BY <1>2, <1>4, <1>5 DEF SameButChips
    <3>. QED
      BY <1>2, <1>6, <2>1, <3>1 DEF SeesBets
  <2>. QED
    BY <2>2, <2>3
<1>10. Informed(told, after, c, d)
  BY <1>7, <1>8, <1>9 DEF Informed
<1>. QED
  BY <1>1, <1>5, <1>10 DEF told, w, after

LEMMA TurnView ==
    ASSUME ViewInv, NEW c \in Client, HasTurn(c)
    PROVE  /\ session = Betting(c) /\ deck \in SUBSET FullDeck
           /\ \E d \in Client : /\ Table(room, c, d) /\ c # d /\ Opponent(room, c) = d
                                /\ view \in Views(c, d) /\ Informed(view, room, c, d)
<1>1. /\ session = Betting(c) /\ deck \in SUBSET FullDeck /\ Playing
      /\ \E d \in Client : Table(room, c, d)
  BY TurnRound DEF ViewInv
<1>2. PICK d \in Client : Table(room, c, d)
  BY <1>1
<1>3. c # d /\ Opponent(room, c) = d
  BY <1>2, OpponentLemma
<1>4. view \in Views(c, d) /\ Informed(view, room, c, d)
  BY <1>1, <1>2, ViewTurn
<1>. QED
  BY <1>1, <1>2, <1>3, <1>4

LEMMA RaiseView ==
    ASSUME ViewInv, NEW c \in Client, NEW count \in Counts, NEW side \in ChipBet,
           Raise(c, count, side)
    PROVE  ViewInv'
<1>1. PICK d \in Client : /\ Table(room, c, d) /\ c # d /\ Opponent(room, c) = d
                          /\ view \in Views(c, d) /\ Informed(view, room, c, d)
  BY TurnView DEF Raise
<1>2. count \in Nat /\ Cost(count, side) <= room.users[c].chips
  BY <1>1, CountsAssumption, AcceptedBet DEF Raise
<1>. DEFINE told == TellBet(TellChips(view, room', c), room', c, side)
<1>3. told \in Views(c, d) /\ Informed(told, room', c, d)
  BY <1>1, <1>2, BetToldView DEF Raise
<1>4. view' = TellTurn(told, d) /\ session' = Betting(d)
  BY <1>1 DEF Raise
<1>. HIDE DEF told
<1>5. /\ view' \in Views(c, d)
      /\ \A m \in {c, d} : /\ view'[m].turn = (IF m = d THEN "My" ELSE "Other")
                            /\ view'[m].chips = told[m].chips
                            /\ view'[m].rivalChips = told[m].rivalChips
                            /\ view'[m].dealer = told[m].dealer /\ view'[m].card = told[m].card
                            /\ view'[m].rivalFront = told[m].rivalFront
                            /\ view'[m].rivalBack = told[m].rivalBack
                            /\ view'[m].bet = told[m].bet
                            /\ view'[m].rivalBet = told[m].rivalBet
  BY <1>3, <1>4, TellTurnView
<1>6. Informed(view', room', c, d)
  BY <1>3, <1>5 DEF Informed, Money, SeesChips, SeesBets, SeesCards
<1>7. ViewOK(c, d)
  BY <1>4, <1>5, <1>6, SessionFields DEF ViewOK
<1>8. RoundInv'
  BY RaiseRound DEF ViewInv
<1>. QED
  BY <1>1, <1>7, <1>8, ViewOKSuffices

LEMMA CallView ==
    ASSUME ViewInv, NEW c \in Client, NEW count \in Counts, NEW side \in ChipBet,
           Call(c, count, side)
    PROVE  ViewInv'
<1>1. PICK d \in Client : /\ Table(room, c, d) /\ c # d
                          /\ view \in Views(c, d) /\ Informed(view, room, c, d)
                          /\ deck \in SUBSET FullDeck
  BY TurnView DEF Call
<1>2. count \in Nat /\ Cost(count, side) <= room.users[c].chips
  BY <1>1, CountsAssumption, AcceptedBet DEF Call
<1>3. RoundInv' /\ verdict'.round # "IMPOSSIBLE"
  BY CallRound DEF ViewInv, RoundInv, RoundsResolve
<1>. DEFINE matched == BetChips(room, c, count, side)
            told    == TellBet(TellChips(view, matched, c), matched, c, side)
<1>4. Table(matched, c, d) /\ told \in Views(c, d) /\ Informed(told, matched, c, d)
  BY <1>1, <1>2, BetToldView
<1>5. Showdown(c, matched, told)
  BY DEF Call
<1>. HIDE DEF matched, told
<1>6. ViewOK(c, d)
  BY <1>1, <1>3, <1>4, <1>5, ShowdownView DEF Informed
<1>. QED
  BY <1>1, <1>3, <1>6, ViewOKSuffices

LEMMA FoldView ==
    ASSUME ViewInv, NEW c \in Client, Fold(c)
    PROVE  ViewInv'
<1>1. PICK d \in Client : /\ Table(room, c, d) /\ c # d
                          /\ view \in Views(c, d) /\ Informed(view, room, c, d)
                          /\ deck \in SUBSET FullDeck
  BY TurnView DEF Fold
<1>2. ViewOK(c, d)
  BY <1>1, CloseRoundView DEF Fold, Informed
<1>3. RoundInv'
  BY FoldRound DEF ViewInv
<1>. QED
  BY <1>1, <1>2, <1>3, ViewOKSuffices

LEMMA SpecialView ==
    ASSUME ViewInv, NEW c \in Client, Special(c)
    PROVE  ViewInv'
<1>1. PICK d \in Client : /\ Table(room, c, d) /\ c # d
                          /\ view \in Views(c, d) /\ Informed(view, room, c, d)
                          /\ deck \in SUBSET FullDeck
  BY TurnView DEF Special
<1>2. RoundInv' /\ verdict'.round # "IMPOSSIBLE"
  BY SpecialRound DEF ViewInv, RoundInv, RoundsResolve
<1>. DEFINE sided == SpecialCase(room)
<1>3. Table(sided, c, d)
  BY <1>1, SpecialCaseTable
<1>4. \A m \in {c, d} : sided.users[m].chips = room.users[m].chips
  BY <1>1, SpecialCaseFields
<1>5. sided.dealer = room.dealer /\ Showdown(c, sided, view)
  BY DEF SpecialCase, WithUsers, Special
<1>. HIDE DEF sided
<1>6. Money(view, sided, c, d)
  BY <1>1, <1>4, <1>5 DEF Informed, Money, SeesChips
<1>7. ViewOK(c, d)
  BY <1>1, <1>2, <1>3, <1>5, <1>6, ShowdownView
<1>. QED
  BY <1>1, <1>2, <1>7, ViewOKSuffices

\* At the start everything is told: turn, antes, cards.
LEMMA HandleGameStartView ==
    ASSUME ViewInv, NEW c \in Client, HandleGameStart(c)
    PROVE  ViewInv'
<1>. DEFINE fresh  == ResetAllUsers(room)
            staked == CollectBasicBet(fresh, 1)
            v0     == Blank(Members(room))
            v1     == TellGameInit(v0)
            v2     == TellTurn(v1, c)
            told   == TellBasicBet(v2, fresh, staked, c)
<1>1. PICK d \in Client : Table(room, c, d)
  BY TableOfPair DEF ViewInv, RoundInv, MatchInv, HandleGameStart, AllUserStartReadyState
<1>2. c # d /\ Members(room) = {c, d}
  BY <1>1, OpponentLemma
<1>3. RoundInv' /\ deck \in SUBSET FullDeck
  BY HandleGameStartRound DEF ViewInv, RoundInv, MatchInv, TypeOK
<1>4. Table(fresh, c, d)
  BY <1>1, ResetAllUsersTable
<1>5. \A m \in {c, d} : /\ fresh.users[m].chips = DEFAULT_CHIPS
                         /\ fresh.users[m].front = 0 /\ fresh.users[m].back = 0
  BY <1>1, ResetAllUsersFields
<1>6. fresh.dealer = 0
  BY DEF ResetAllUsers
<1>. DEFINE GoesOn(mine, theirs) == /\ room' = UpdateCards(staked, c, mine, theirs)
                                    /\ view' = TellCards(told, room')
<1>7. /\ session' = Betting(c)
      /\ \E mine \in Supply(deck) : \E theirs \in Supply(DealCard(deck, mine)) :
            GoesOn(mine, theirs)
  BY DEF HandleGameStart
<1>. HIDE DEF fresh
<1>8. CanCollect(fresh, 1)
  BY <1>4, <1>5, ChipsAssumption, OpponentLemma DEF CanCollect
<1>9. /\ Table(staked, c, d)
      /\ \A m \in {c, d} : staked.users[m].front = 0 /\ staked.users[m].back = 0
  BY <1>4, <1>5, <1>8, CollectBasicBetTable, CollectBasicBetFields
<1>10. staked # fresh
  <2>1. staked.dealer = 2
    BY <1>6, <1>8 DEF CollectBasicBet
  <2>. QED
    BY <1>6, <2>1
<1>11. v2 \in Views(c, d) /\ \A m \in {c, d} : /\ v2[m].bet = <<0, 0>> /\ v2[m].rivalBet = <<0, 0>>
                                             /\ v2[m].turn = IF m = c THEN "My" ELSE "Other"
  <2>1. NoView \in View
    BY FacesAssumption DEF NoView, View, Unknown, NoCard, Card
  <2>2. v0 \in Views(c, d)
    BY <1>2, <2>1 DEF Blank, Views
  <2>. HIDE DEF v0
  <2>3. v1 \in Views(c, d) /\ \A m \in {c, d} : v1[m].bet = <<0, 0>> /\ v1[m].rivalBet = <<0, 0>>
    BY <2>2, TellGameInitView
  <2>. HIDE DEF v1
  <2>. QED
    BY <2>3, TellTurnView
<1>. HIDE DEF v2, staked
<1>12. /\ told \in Views(c, d) /\ Money(told, staked, c, d)
       /\ \A m \in {c, d} : SameButChips(told[m], v2[m])
  <2>1. told \in Views(c, d) /\ Money(told, staked, c, d)
    BY <1>9, <1>10, <1>11, TellBasicBetView
  <2>2. told = TellDealer(TellChips(TellChips(v2, staked, c), staked, d), staked)
    BY <1>9, <1>10, OpponentLemma DEF TellBasicBet
  <2>. DEFINE w1 == TellChips(v2, staked, c)
              w2 == TellChips(w1, staked, d)
  <2>3. w1 \in Views(c, d) /\ \A m \in {c, d} : SameButChips(w1[m], v2[m])
    BY <1>9, <1>11, TellChipsView
  <2>. HIDE DEF w1
  <2>4. w2 \in Views(c, d) /\ \A m \in {c, d} : SameButChips(w2[m], w1[m])
    BY <1>9, <2>3, TellChipsView
  <2>. HIDE DEF w2
  <2>5. \A m \in {c, d} : SameButChips(TellDealer(w2, staked)[m], w2[m])
    BY <1>9, <2>4, TellDealerView
  <2>6. told = TellDealer(w2, staked)
    BY <2>2 DEF w1, w2
  <2>7. \A m \in {c, d} : SameButChips(told[m], w2[m])
    BY <2>5, <2>6
  <2>8. \A m \in {c, d} : SameButChips(told[m], v2[m])
    BY <2>3, <2>4, <2>7 DEF SameButChips
  <2>. QED
    BY <2>1, <2>8
<1>. HIDE DEF told
<1>13. PICK mine \in Supply(deck) : \E theirs \in Supply(DealCard(deck, mine)) :
            GoesOn(mine, theirs)
  BY <1>7
<1>14. PICK theirs \in Supply(DealCard(deck, mine)) : GoesOn(mine, theirs)
  BY <1>13
<1>15. mine \in Card /\ theirs \in Card
  BY <1>3, <1>14, DealtCards
<1>16. /\ Table(room', c, d) /\ room'.dealer = staked.dealer
       /\ \A m \in {c, d} : /\ room'.users[m].front = 0 /\ room'.users[m].back = 0
                             /\ room'.users[m].chips = staked.users[m].chips
  <2>1. room' = UpdateCards(staked, c, mine, theirs)
    BY <1>14
  <2>2. room'.dealer = staked.dealer
    BY <2>1 DEF UpdateCards, WithUsers
  <2>3. Table(room', c, d)
    BY <1>9, <1>15, <2>1, UpdateCardsTable
  <2>4. \A m \in {c, d} : /\ room'.users[m].front = 0 /\ room'.users[m].back = 0
                           /\ room'.users[m].chips = staked.users[m].chips
    BY <1>9, <1>15, <2>1, UpdateCardsFields
  <2>. QED
    BY <2>2, <2>3, <2>4
<1>17. /\ view' \in Views(c, d)
       /\ \A m, o \in {c, d} : m # o => /\ SeesCards(view'[m], room', m, o)
                                        /\ view'[m].chips = told[m].chips
                                        /\ view'[m].rivalChips = told[m].rivalChips
                                        /\ view'[m].dealer = told[m].dealer
  BY <1>12, <1>14, <1>16, TellCardsView
<1>18. \A m \in {c, d} : /\ view'[m].bet = told[m].bet /\ view'[m].rivalBet = told[m].rivalBet
                          /\ view'[m].turn = told[m].turn
  <2>1. view' = TellCards(told, room')
    BY <1>14
  <2>2. \A m, o \in {c, d} : m # o => /\ view'[m].bet = told[m].bet
                                       /\ view'[m].rivalBet = told[m].rivalBet
                                       /\ view'[m].turn = told[m].turn
    BY <1>12, <1>16, <2>1, TellCardsView
  <2>3. c # d
    BY <1>9, OpponentLemma
  <2>. QED
    BY <2>2, <2>3
<1>19. Money(view', room', c, d)
  BY <1>12, <1>16, <1>17 DEF Money, SeesChips
<1>20. \A m, o \in {c, d} : m # o => SeesBets(view'[m], room', m, o)
  BY <1>11, <1>12, <1>16, <1>18 DEF SeesBets, SameButChips
<1>21. \A m \in {c, d} : view'[m].turn = IF m = c THEN "My" ELSE "Other"
  BY <1>11, <1>12, <1>18 DEF SameButChips
<1>22. ViewOK(c, d)
  BY <1>7, <1>17, <1>19, <1>20, <1>21, SessionFields DEF ViewOK, Informed
<1>. QED
  BY <1>2, <1>3, <1>22, ViewOKSuffices

\* Out of a match nothing is shown that could be wrong.
LEMMA BlankView ==
    ASSUME RoundInv', ~ Playing', view' = Blank(Members(room'))
    PROVE  ViewInv'
<1>1. NoView \in View
  BY FacesAssumption DEF NoView, View, Unknown, NoCard, Card
<1>2. view' \in [Members(room') -> View]
  BY <1>1 DEF Blank
<1>. QED
  BY <1>2 DEF ViewInv, ViewsAgree, BackCardHidden

LEMMA JoinView ==
    ASSUME ViewInv, NEW c \in Client, Join(c)
    PROVE  ViewInv'
<1>1. RoundInv'
  BY JoinRound DEF ViewInv
<1>2. ~ Playing'
  <2>1. PICK seated \in SUBSET Client : room \in [users: [seated -> User], dealer: Nat]
    BY DEF ViewInv, RoundInv, MatchInv, TypeOK
  <2>2. Members(room) = seated /\ IsFiniteSet(seated)
    BY <2>1, ClientAssumption, FS_Subset DEF Members
  <2>3. Cardinality(seated) \in Nat /\ Cardinality(seated) < 2
    BY <2>2, ChipsAssumption, FS_CardinalityType DEF Join, CanAdd
  <2>4. ~ Playing
    BY <2>2, <2>3 DEF ViewInv, RoundInv, MatchInv, SeatsTaken, Paired
  <2>. QED
    BY <2>4 DEF Join, Playing
<1>. QED
  BY <1>1, <1>2, BlankView DEF Join

LEMMA HandlePlayerExitView ==
    ASSUME ViewInv, NEW c \in Client, HandlePlayerExit(c)
    PROVE  ViewInv'
<1>1. RoundInv'
  BY HandlePlayerExitRound DEF ViewInv
<1>2. ~ Playing'
  BY SessionFields DEF HandlePlayerExit, Playing
<1>. QED
  BY <1>1, <1>2, BlankView DEF HandlePlayerExit

LEMMA UserReadyView ==
    ASSUME ViewInv, NEW c \in Client, NEW ready \in BOOLEAN, UserReady(c, ready)
    PROVE  ViewInv'
<1>1. PICK d \in Client : Table(room, c, d)
  BY TableOfPair DEF ViewInv, RoundInv, MatchInv, UserReady
<1>2. /\ Members(room) = {c, d} /\ c # d
      /\ room' = SetReady(room, c, ready) /\ UNCHANGED <<session, view>>
  BY <1>1, OpponentLemma DEF UserReady
<1>3. RoundInv'
  BY UserReadyRound DEF ViewInv
<1>4. \A m \in {c, d} :
          /\ room'.users[m].chips = room.users[m].chips
          /\ room'.users[m].front = room.users[m].front
          /\ room'.users[m].back = room.users[m].back
          /\ room'.users[m].card = room.users[m].card
  BY <1>1, <1>2, SetReadyFields
<1>5. room'.dealer = room.dealer
  BY <1>2 DEF SetReady, WithUsers
<1>6. view' \in Views(c, d)
  BY <1>2 DEF ViewInv, Views
<1>7. ASSUME session' # Waiting
      PROVE  /\ Informed(view', room', c, d)
             /\ \A m \in {c, d} : view'[m].turn = IF m = session'.turn THEN "My" ELSE "Other"
  <2>1. Playing
    BY <1>2, <1>7 DEF ViewInv, RoundInv, MatchInv, SeatsTaken, TypeOK, Playing, Waiting
  <2>2. /\ Informed(view, room, c, d)
        /\ \A m \in {c, d} : view[m].turn = IF m = session.turn THEN "My" ELSE "Other"
    BY <1>1, <2>1, ViewTurn
  <2>. QED
    BY <1>2, <1>4, <1>5, <2>2 DEF Informed, Money, SeesChips, SeesBets, SeesCards
<1>8. ViewOK(c, d)
  BY <1>6, <1>7 DEF ViewOK
<1>. QED
  BY <1>2, <1>3, <1>8, ViewOKSuffices
-------------------------------------------------------------------------------
LEMMA ViewInvInit == Init => ViewInv
<1>. SUFFICES ASSUME Init PROVE ViewInv
  OBVIOUS
<1>1. Members(room) = {} /\ ~ Playing /\ view = [m \in {} |-> NoView]
  BY DEF Init, EmptyRoom, Members, Playing, Waiting, Blank
<1>. QED
  BY <1>1, RoundInvInit DEF ViewInv, ViewsAgree, BackCardHidden

LEMMA ViewInvStep == ViewInv /\ [Next]_vars => ViewInv'
<1>. SUFFICES ASSUME ViewInv, [Next]_vars PROVE ViewInv'
  OBVIOUS
<1>1. ASSUME NEW c \in Client, Join(c) PROVE ViewInv'
  BY <1>1, JoinView
<1>2. ASSUME NEW c \in Client, HandlePlayerExit(c) PROVE ViewInv'
  BY <1>2, HandlePlayerExitView
<1>3. ASSUME NEW c \in Client, NEW ready \in BOOLEAN, UserReady(c, ready) PROVE ViewInv'
  BY <1>3, UserReadyView
<1>4. ASSUME NEW c \in Client, HandleGameStart(c) PROVE ViewInv'
  BY <1>4, HandleGameStartView
<1>5. ASSUME NEW c \in Client, NEW count \in Counts, NEW side \in ChipBet,
             Raise(c, count, side)
      PROVE  ViewInv'
  BY <1>5, RaiseView
<1>6. ASSUME NEW c \in Client, NEW count \in Counts, NEW side \in ChipBet,
             Call(c, count, side)
      PROVE  ViewInv'
  BY <1>6, CallView
<1>7. ASSUME NEW c \in Client, Fold(c) PROVE ViewInv'
  BY <1>7, FoldView
<1>8. ASSUME NEW c \in Client, Special(c) PROVE ViewInv'
  BY <1>8, SpecialView
<1>9. CASE UNCHANGED vars
  <2>1. RoundInv'
    BY <1>9, RoundInvStep DEF ViewInv
  <2>. QED
    BY <1>9, <2>1 DEF vars, ViewInv, ViewsAgree, BackCardHidden, Playing
<1>. QED
  BY <1>1, <1>2, <1>3, <1>4, <1>5, <1>6, <1>7, <1>8, <1>9 DEF Next, Bet

LEMMA ViewInvariance == Spec => []ViewInv
  BY ViewInvInit, ViewInvStep, PTL DEF Spec

\* Telling only what changed never leaves a client with an old stack, stake,
\* table, card or turn.
THEOREM ViewsAlwaysAgree == Spec => []ViewsAgree
  BY ViewInvariance, PTL DEF ViewInv

\* No back face is known to the opponent while the round it is for is open.
THEOREM BackCardsStayHidden == Spec => []BackCardHidden
  BY ViewInvariance, PTL DEF ViewInv
===============================================================================
