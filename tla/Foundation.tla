------------------------------ MODULE Foundation ------------------------------
(***************************************************************************)
(* Domain types shared by the rules, the room and the game                 *)
(* (TwofacedPoker/Common/Foundation.h).  The C++ enumerations become sets  *)
(* of strings; a card is the pair <<front, back>> of DualValue.            *)
(***************************************************************************)
EXTENDS Integers, FiniteSets

\* The sides a player may put chips on.
ChipBet == {"FRONT", "BACK", "BOTH"}

BetType == ChipBet \cup {"DIE", "SPECIAL", "NONE"}

RoundResult == {"BOTH_WIN", "BOTH_LOSE", "WIN", "LOSE", "DRAW", "IMPOSSIBLE"}

Larger(m, n) == IF m >= n THEN m ELSE n

\* Mutant of Smaller: the cap is paid whole, whatever there is.
AlwaysCap(m, n) == m

Smaller(m, n) == IF m <= n THEN m ELSE n
===============================================================================
