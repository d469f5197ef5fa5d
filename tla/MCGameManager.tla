----------------------------- MODULE MCGameManager ----------------------------
(* Small instances of GameManager for TLC. *)
EXTENDS GameManager, TLC

\* Clients are interchangeable: no operator orders them or names one.
Symmetry == Permutations(Client)

\* Counts a client may send: none, negative, affordable and too large.
MCCounts == -1 .. (2 * DEFAULT_CHIPS)
===============================================================================
