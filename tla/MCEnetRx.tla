------------------------------ MODULE MCEnetRx ------------------------------
(* TLC instances of EnetRx.                                                *)
EXTENDS EnetRx
=============================================================================
