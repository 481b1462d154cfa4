---------------------------- MODULE Announcement ----------------------------
(* What the DHCP task promises everybody who waits for the address: one    *)
(* address is announced, once and for good, and whoever looks sees that     *)
(* address or, before the announcement, 0.0.0.0.  The address is a leased   *)
(* one, unless the lease was lost while it was being announced.             *)

CONSTANTS
    Addr,                 \* the addresses a lease may carry
    ZeroAddr              \* 0.0.0.0, shown while there is none

VARIABLES
    told,                 \* <<>>, or the announced address as <<a>>
    lost,                 \* the lease was lost during the announcement
    seen                  \* what the last look showed

Init == told = <<>> /\ lost = FALSE /\ seen = ZeroAddr

Lose ==
    /\ told = <<>> /\ lost' = TRUE
    /\ UNCHANGED <<told, seen>>

Announce ==
    /\ told = <<>>
    /\ told' \in {<<a>> : a \in Addr \cup (IF lost THEN {ZeroAddr} ELSE {})}
    /\ UNCHANGED <<lost, seen>>

Look ==
    /\ seen' = IF told = <<>> THEN ZeroAddr ELSE told[1]
    /\ UNCHANGED <<told, lost>>

Next == Lose \/ Announce \/ Look

Spec == Init /\ [][Next]_<<told, lost, seen>>

-----------------------------------------------------------------------------
(* What that comes to: an address that was seen is the announced one, so   *)
(* that nobody ever sees two, and without a lost lease it was leased.      *)
SeenIsTold ==
    /\ seen # ZeroAddr => told = <<seen>>
    /\ told # <<>> /\ ~lost => told[1] \in Addr

NeverTwo == [][seen # ZeroAddr => seen' = seen]_<<told, lost, seen>>
=============================================================================
