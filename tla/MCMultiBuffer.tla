--------------------------- MODULE MCMultiBuffer ---------------------------
(* TLC instance of MultiBuffer.                                            *)
EXTENDS MultiBuffer
=============================================================================
