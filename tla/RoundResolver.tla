----------------------------- MODULE RoundResolver ----------------------------
(***************************************************************************)
(* TwofacedPoker/Game/RoundResolver.cpp: the result of a round, seen from  *)
(* the player who closed it.  A player is a record with the fields card,   *)
(* the pair <<front, back>>, and bet, the chosen side.                     *)
(***************************************************************************)
EXTENDS Foundation

\* The face a single-sided bettor plays.
Played(player) == IF player.bet = "FRONT" THEN player.card[1] ELSE player.card[2]

\* A bet on both sides wins only when each face beats the face played.
WinsWithBoth(both, single) ==
    /\ both.card[1] > Played(single)
    /\ both.card[2] > Played(single)

\* Mutant of LosesToBoth: an equal face is beaten too.
TiesWithBoth(single, both) ==
    /\ Played(single) <= both.card[1]
    /\ Played(single) <= both.card[2]

\* The same question when it is the opponent who bet on both sides.
LosesToBoth(single, both) ==
    /\ Played(single) < both.card[1]
    /\ Played(single) < both.card[2]

Unresolvable(current, opponent) ==
    \/ current.bet \notin ChipBet
    \/ opponent.bet \notin ChipBet
    \/ current.bet = "BOTH" /\ opponent.bet = "BOTH"

\* RoundResolver::resolve with folded = true.
ResolveFold(opponent) ==
    IF opponent.bet \notin ChipBet THEN "IMPOSSIBLE"
    ELSE IF opponent.bet = "BOTH" THEN "BOTH_LOSE" ELSE "LOSE"

\* RoundResolver::resolve with folded = false.
Resolve(current, opponent) ==
    CASE Unresolvable(current, opponent) -> "IMPOSSIBLE"
      [] ~ Unresolvable(current, opponent) /\ current.bet = "BOTH" ->
            IF WinsWithBoth(current, opponent) THEN "BOTH_WIN" ELSE "LOSE"
      [] ~ Unresolvable(current, opponent) /\ opponent.bet = "BOTH" ->
            IF LosesToBoth(current, opponent) THEN "BOTH_LOSE" ELSE "WIN"
      [] OTHER ->
            IF Played(current) > Played(opponent) THEN "WIN"
            ELSE IF Played(current) < Played(opponent) THEN "LOSE" ELSE "DRAW"
===============================================================================
