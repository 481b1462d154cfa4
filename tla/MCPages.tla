------------------------------ MODULE MCPages ------------------------------
EXTENDS Pages

(* Every place something is at, but for one of the two bar buttons that do *)
(* nothing but open a menu.  A kind has a handle of its own, which the     *)
(* next window of the kind gets again.                                     *)
MCPoints ==
    HomeBottomRow \cup (DOMAIN Bar \ {"bin"}) \cup Items
        \cup {"game", "exit", "power", "open", "update"}
MCHandle == 1 .. 6
MCPool == [menu |-> {1}, socket |-> {2}, weather |-> {3}, bar |-> {4},
           extra |-> {5}, msg |-> {6}]
MCTimerId == 1 .. 2
=============================================================================
