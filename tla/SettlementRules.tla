---------------------------- MODULE SettlementRules ---------------------------
(***************************************************************************)
(* TwofacedPoker/Game/SettlementRules.cpp: how the chips move when a round *)
(* is over.  "current" and "opponent" are records with the fields chips,   *)
(* front and back; the result has the three new totals.                    *)
(***************************************************************************)
EXTENDS Foundation

CONSTANT BONUS_CHIPS   \* the cap of the both-sides bonus, 10 in the code

ASSUME BonusAssumption == BONUS_CHIPS \in Nat

Pot(current, opponent) ==
    current.front + current.back + opponent.front + opponent.back

Totals(current, opponent, dealer) ==
    [current |-> current, opponent |-> opponent, dealer |-> dealer]

\* SettlementRules::settle for every result but IMPOSSIBLE, which its callers
\* never pass (processRoundEnd returns before it settles).
Settle(current, opponent, dealer, result) ==
    LET pot     == Pot(current, opponent)
        bonus   == Smaller(BONUS_CHIPS, opponent.chips)
        penalty == Smaller(BONUS_CHIPS, current.chips)
    IN CASE result = "WIN" ->
              Totals(current.chips + pot + dealer, opponent.chips, 0)
         [] result = "LOSE" ->
              Totals(current.chips, opponent.chips + pot + dealer, 0)
         [] result = "BOTH_WIN" ->
              Totals(current.chips + pot + dealer + bonus, opponent.chips - bonus, 0)
         [] result = "BOTH_LOSE" ->
              Totals(current.chips - penalty, opponent.chips + pot + dealer + penalty, 0)
         [] OTHER ->   \* DRAW
              Totals(current.chips, opponent.chips, dealer + pot)
===============================================================================
