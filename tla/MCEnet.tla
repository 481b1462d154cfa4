------------------------------- MODULE MCEnet -------------------------------
(* TLC instances of Enet.                                                  *)
EXTENDS Enet
=============================================================================
