----------------------------- MODULE FrameFlip -----------------------------
(* What the display promises the drawing code, with no buffers in it: the  *)
(* frames are finished one at a time, and the panel shows each of them,    *)
(* whole and in order, before the next one is finished.                    *)
EXTENDS Naturals

CONSTANT MaxFrames        \* bound on the number of frames drawn

VARIABLES
    drawn,                \* frames finished so far
    shown                 \* the frame the panel is scanning out

Init == drawn = 0 /\ shown = 0

Finish ==
    /\ drawn < MaxFrames
    /\ shown = drawn
    /\ drawn' = drawn + 1
    /\ UNCHANGED shown

Flip ==
    /\ shown # drawn
    /\ shown' = drawn
    /\ UNCHANGED drawn

Next == Finish \/ Flip

Spec == Init /\ [][Next]_<<drawn, shown>>

-----------------------------------------------------------------------------
(* What that comes to: the panel is one frame behind at most, and no frame *)
(* is skipped or shown again.                                              *)
OneBehind == drawn \in {shown, shown + 1}

NoneSkipped == [][shown' # shown => shown' = shown + 1]_<<drawn, shown>>
=============================================================================
