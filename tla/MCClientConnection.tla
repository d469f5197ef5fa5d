------------------------- MODULE MCClientConnection -------------------------
(* An instance of ClientConnection for TLC; the constants are model values. *)
EXTENDS ClientConnection
=============================================================================
