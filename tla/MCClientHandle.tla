---------------------------- MODULE MCClientHandle ----------------------------
(* Instances of ClientHandle for TLC.                                      *)
EXTENDS ClientHandle, TLC

Symmetry == Permutations(Client) \cup Permutations(Handle)
===============================================================================
