---------------------------- MODULE FrameChannel ----------------------------
(* What a sender expects of the Ethernet interface: low_level_output        *)
(* (lwip/port/ethernetif.c) returns once a frame is on its way, and every   *)
(* frame on its way is put on the wire, once, whole, and in the order of    *)
(* the calls.                                                               *)
EXTENDS Integers

CONSTANTS Capacity        \* frames that may be on their way

VARIABLES
    accepted,             \* frames taken over so far, numbered from 1
    inFlight,             \* those that are not on the wire yet
    wire                  \* the last frame on the wire

channelVars == <<accepted, inFlight, wire>>

Init == accepted = 0 /\ inFlight = {} /\ wire = 0

(* low_level_output takes over the next frame.                             *)
Accept ==
    /\ accepted - wire < Capacity
    /\ accepted' = accepted + 1
    /\ inFlight' = inFlight \cup {accepted + 1}
    /\ UNCHANGED wire

(* The oldest frame is sent.                                               *)
Deliver ==
    \E f \in inFlight :
        /\ \A g \in inFlight : f <= g
        /\ wire' = f
        /\ inFlight' = inFlight \ {f}
        /\ UNCHANGED accepted

Spec == Init /\ [][Accept \/ Deliver]_channelVars

-----------------------------------------------------------------------------
(* What that comes to: exactly the frames between the last one on the wire *)
(* and the last one taken over are on their way, no more than fit, and the *)
(* wire carries one after the other.                                       *)
NoneLost == inFlight = wire + 1 .. accepted /\ accepted - wire \in 0 .. Capacity

OneAfterAnother == [][wire' # wire => wire' = wire + 1]_channelVars
=============================================================================
