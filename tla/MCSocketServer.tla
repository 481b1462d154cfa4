--------------------------- MODULE MCSocketServer ---------------------------
(* TLC instances of SocketServer.                                          *)
EXTENDS SocketServer, TLC

Symmetry == Permutations(Conns)
=============================================================================
