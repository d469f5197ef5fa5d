-------------------------------- MODULE MCPacket ------------------------------
(* Instances of Packet for TLC.                                            *)
EXTENDS Packet
===============================================================================
