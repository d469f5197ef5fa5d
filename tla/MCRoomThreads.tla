---------------------------- MODULE MCRoomThreads -----------------------------
(* Instances of RoomThreads for TLC.                                       *)
EXTENDS RoomThreads

===============================================================================
