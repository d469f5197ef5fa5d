----------------------------- MODULE BettingRules -----------------------------
(***************************************************************************)
(* TwofacedPoker/Game/BettingRules.cpp: is a bet of "count" chips on       *)
(* "requested" allowed, and does it call or raise?  A betting state is a   *)
(* record with the fields chips, front, back (the chips staked on each     *)
(* side) and bet (the side chosen in this round).  The code computes in    *)
(* 64 bits from 32-bit inputs, so no sum below can overflow.               *)
(***************************************************************************)
EXTENDS Foundation

\* The level of a stake: chips on one side, counted once for both sides.
Level(player) == Larger(player.front, player.back)

\* Mutant of Cost: both sides are staked for the price of one.
FlatCost(count, requested) == count

\* Betting on both sides pays twice.
Cost(count, requested) == IF requested = "BOTH" THEN 2 * count ELSE count

\* Mutant of KeepsSide: the side may be changed within a round.
AnySide(current, requested) == TRUE

KeepsSide(current, requested) == current.bet \in {"NONE", requested}

\* Mutant of OneBoth: the prohibition is dropped.
TwoBoths(opponent, requested) == TRUE

OneBoth(opponent, requested) == ~ (requested = "BOTH" /\ opponent.bet = "BOTH")

\* Mutant of Covers: one chip less than the opponent's stake will do.
AlmostCovers(current, opponent, count) == Level(current) + count >= Level(opponent) - 1

Covers(current, opponent, count) == Level(current) + count >= Level(opponent)

\* Mutant of CanBeFollowed: limits the raise by the bettor's own chips.
FollowedByOwn(current, opponent, count) ==
    Level(current) + count <= Level(opponent) + current.chips

\* The highest level the opponent could reach with a chip per level.
CanBeFollowed(current, opponent, count) ==
    Level(current) + count <= Level(opponent) + opponent.chips

\* The early returns of evaluate that refuse a bet, in the order of the code.
Allowed(current, opponent, count, requested) ==
    /\ requested \in ChipBet
    /\ count > 0
    /\ KeepsSide(current, requested)
    /\ OneBoth(opponent, requested)
    /\ Cost(count, requested) <= current.chips
    /\ Covers(current, opponent, count)
    /\ CanBeFollowed(current, opponent, count)

Evaluate(current, opponent, count, requested) ==
    IF ~ Allowed(current, opponent, count, requested)
    THEN "IMPOSSIBLE"
    ELSE IF Level(current) + count = Level(opponent) THEN "CALL" ELSE "RAISE"
===============================================================================
