---------------------------- MODULE LossyChannel ----------------------------
(* What lwIP expects of the Ethernet interface (ethernetif_input,           *)
(* lwip/port/ethernetif.c): frames from the wire may be lost anywhere on    *)
(* the way, but what arrives is a good frame, whole, once, and in order.    *)
(* This is promised as long as there is one reader.                         *)
EXTENDS Integers

VARIABLES
    arrived,              \* frames from the wire so far, numbered from 1
    onTheWay,             \* the good ones among them that may still come
    last,                 \* the frame lwIP got last
    oneReader             \* nobody else has read yet

channelVars == <<arrived, onTheWay, last, oneReader>>

Init == arrived = 0 /\ onTheWay = {} /\ last = 0 /\ oneReader = TRUE

(* A frame from the wire, good or not.                                     *)
Arrive ==
    /\ arrived' = arrived + 1
    /\ onTheWay' \in {onTheWay, onTheWay \cup {arrived'}}
    /\ UNCHANGED last

Lose == onTheWay' \in SUBSET onTheWay /\ UNCHANGED <<arrived, last>>

(* The oldest frame on the way comes up.                                   *)
Deliver ==
    \E f \in onTheWay :
        /\ \A g \in onTheWay : f <= g
        /\ last' = f
        /\ onTheWay' = onTheWay \ {f}
        /\ UNCHANGED arrived

Next == oneReader' => oneReader /\ (Arrive \/ Lose \/ Deliver)

Spec == Init /\ [][Next]_channelVars

-----------------------------------------------------------------------------
(* What that comes to: only frames that came from the wire are on the way, *)
(* all of them later than the last that lwIP got, which hence gets no      *)
(* frame twice and none behind a later one.                                *)
OnlyLater == oneReader => \A f \in onTheWay : f \in last + 1 .. arrived

NeverBack == [][oneReader' /\ last' # last => last' \in last + 1 .. arrived]_channelVars
=============================================================================
