-------------------------------- MODULE Link --------------------------------
(***************************************************************************)
(* What a connection promises to those who enqueue on it: a first-in       *)
(* first-out link that may break.  What it accepted is delivered in order, *)
(* without gaps or repetitions, as far as it is delivered at all, and a    *)
(* broken link accepts nothing and is never repaired.                      *)
(***************************************************************************)
EXTENDS Naturals, Sequences

CONSTANT Message
VARIABLES accepted, received, broken

linkVars == <<accepted, received, broken>>

Init ==
    /\ accepted = << >>
    /\ received = << >>
    /\ broken = FALSE

Accept(m) ==
    /\ ~broken
    /\ accepted' = Append(accepted, m)
    /\ UNCHANGED <<received, broken>>

Deliver ==
    /\ Len(received) < Len(accepted)
    /\ received' = Append(received, accepted[Len(received) + 1])
    /\ UNCHANGED <<accepted, broken>>

Break ==
    /\ ~broken
    /\ broken' = TRUE
    /\ UNCHANGED <<accepted, received>>

Next == (\E m \in Message : Accept(m)) \/ Deliver \/ Break

Spec == Init /\ [][Next]_linkVars
=============================================================================
