--------------------------------- MODULE Table --------------------------------
(***************************************************************************)
(* What a room promises about its two seats, whoever reads it and however  *)
(* its threads interleave: a match is between two seated players who were  *)
(* both ready at one and the same moment, and it is over as soon as one of *)
(* them is gone.                                                           *)
(***************************************************************************)
EXTENDS FiniteSets, Integers

CONSTANT Client

VARIABLES seated,    \* the members of the room
          ready,     \* those of them who are ready
          playing    \* is a match running?

vars == <<seated, ready, playing>>

Full == Cardinality(seated) = 2

Init == seated = {} /\ ready = {} /\ playing = FALSE

Sit(c) ==
    /\ c \notin seated /\ Cardinality(seated) < 2
    /\ seated' = seated \cup {c}
    /\ UNCHANGED <<ready, playing>>

\* Whoever stays is not ready any more, and no match survives.
Leave(c) ==
    /\ c \in seated
    /\ seated' = seated \ {c}
    /\ ready' = {} /\ playing' = FALSE

\* Readiness may change at any time, during a match too.
Toggle(c) ==
    /\ c \in seated /\ Full
    /\ ready' \in {ready \cup {c}, ready \ {c}}
    /\ UNCHANGED <<seated, playing>>

Start ==
    /\ ~ playing /\ Full /\ ready = seated
    /\ playing' = TRUE
    /\ UNCHANGED <<seated, ready>>

\* A round closes: both players are unready when the match is over, and
\* sometimes when it is not (a draw overrules the end but not the flags).
Close ==
    /\ playing
    /\ ready' = {}
    /\ playing' \in BOOLEAN
    /\ UNCHANGED seated

Next == (\E c \in Client : Sit(c) \/ Leave(c) \/ Toggle(c)) \/ Start \/ Close

Spec == Init /\ [][Next]_vars
===============================================================================
