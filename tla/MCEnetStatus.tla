---------------------------- MODULE MCEnetStatus ----------------------------
(* TLC instances of EnetStatus.                                            *)
EXTENDS EnetStatus
=============================================================================
