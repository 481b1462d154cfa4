------------------------------ MODULE MCEnetTx ------------------------------
(* TLC instances of EnetTx.                                                *)
EXTENDS EnetTx
=============================================================================
