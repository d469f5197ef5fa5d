--------------------------- MODULE MCCommandParsers ---------------------------
(* Instances of CommandParsers for TLC.                                    *)
EXTENDS CommandParsers
===============================================================================
