------------------------- MODULE MCClientWorkerManager ------------------------
(* Instances of ClientWorkerManager for TLC.                               *)
EXTENDS ClientWorkerManager
===============================================================================
