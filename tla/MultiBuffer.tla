---------------------------- MODULE MultiBuffer ----------------------------
(* The frame-buffer handshake of board/emwin_support.c: emWin draws a      *)
(* frame into a back buffer, LCD_X_DisplayDriver hands the buffer to the   *)
(* eLCDIF controller and spins until the frame interrupt confirms it.      *)
(*                                                                         *)
(* The thread (vTaskGUI) and the interrupt handler share the volatile      *)
(* s_LCDpendingBuffer; the controller owns NEXT_BUF and CUR_BUF.  emWin    *)
(* itself is a binary library and the controller is hardware: both are     *)
(* external, and modelled from how the driver uses them.                   *)
EXTENDS Integers

CONSTANTS
    GUI_BUFFERS,          \* number of frame buffers (2 in the SDRAM build)
    MaxFrames             \* bound on the number of frames drawn

ASSUME BuffersAssumption == GUI_BUFFERS \in Nat /\ GUI_BUFFERS >= 2
ASSUME FramesAssumption == MaxFrames \in Nat

Buffer == 0 .. GUI_BUFFERS - 1
None == -1                \* no buffer is waiting for its confirmation
Torn == -1                \* content of a buffer that is being drawn

VARIABLES
    pc,                   \* where the drawing thread is
    front,                \* the buffer emWin believes to be visible
    back,                 \* the buffer emWin draws into
    content,              \* the frame each buffer holds, or Torn
    frames,               \* number of frames finished
    s_LCDpendingBuffer,   \* buffer the ISR has to confirm, or None
    nextBuf,              \* controller register NEXT_BUF
    curBuf,               \* the buffer being scanned out
    frameDone             \* CurFrameDone interrupt status

thread == <<pc, front, back, content, frames>>
lcdif == <<nextBuf, curBuf, frameDone>>
vars == <<thread, s_LCDpendingBuffer, lcdif>>

Init ==
    /\ pc = "idle"
    /\ front = 0 /\ back = 0
    /\ content = [b \in Buffer |-> 0]
    /\ frames = 0
    /\ s_LCDpendingBuffer = None
    /\ nextBuf = 0 /\ curBuf = 0
    /\ frameDone = FALSE

-----------------------------------------------------------------------------
(* The thread runs only while no frame interrupt is pending: the handler   *)
(* has NVIC priority 0, above every BASEPRI mask the kernel sets.          *)

(* Fault: the buffer index is not wrapped.                                 *)
BeginFrame_NoWrap ==
    /\ ~frameDone
    /\ pc = "idle" /\ frames < MaxFrames
    /\ pc' = "draw"
    /\ back' = front + 1
    /\ UNCHANGED <<content, front, frames, s_LCDpendingBuffer, lcdif>>

(* Fault: emWin is configured with one buffer and draws in the front one.  *)
BeginFrame_InFront ==
    /\ ~frameDone
    /\ pc = "idle" /\ frames < MaxFrames
    /\ pc' = "draw"
    /\ back' = front
    /\ content' = [content EXCEPT ![back'] = Torn]
    /\ UNCHANGED <<front, frames, s_LCDpendingBuffer, lcdif>>

(* vTaskGUI calls GUI_MULTIBUF_Begin and GUI_Exec: emWin turns to the next *)
(* buffer and starts to draw in it.                                        *)
BeginFrame ==
    /\ ~frameDone
    /\ pc = "idle" /\ frames < MaxFrames
    /\ pc' = "draw"
    /\ back' = (front + 1) % GUI_BUFFERS
    /\ content' = [content EXCEPT ![back'] = Torn]
    /\ UNCHANGED <<front, frames, s_LCDpendingBuffer, lcdif>>

(* GUI_MULTIBUF_End calls the driver with LCD_X_SHOWBUFFER.                *)
EndFrame ==
    /\ ~frameDone
    /\ pc = "draw"
    /\ pc' = "set_next"
    /\ frames' = frames + 1
    /\ content' = [content EXCEPT ![back] = frames + 1]
    /\ UNCHANGED <<front, back, s_LCDpendingBuffer, lcdif>>

(* ELCDIF_SetNextBufferAddr: make the given buffer visible.                *)
SetNext ==
    /\ ~frameDone
    /\ pc = "set_next"
    /\ pc' = "set_pending"
    /\ nextBuf' = back
    /\ UNCHANGED <<front, back, content, frames, s_LCDpendingBuffer, curBuf, frameDone>>

(* Remember the buffer index for the ISR.                                  *)
SetPending ==
    /\ ~frameDone
    /\ pc = "set_pending"
    /\ pc' = "spin"
    /\ s_LCDpendingBuffer' = back
    /\ UNCHANGED <<front, back, content, frames, lcdif>>

(* Fault: the driver does not wait for the confirmation.                   *)
SpinExit_NoWait ==
    /\ ~frameDone
    /\ pc = "spin"
    /\ pc' = "idle"
    /\ UNCHANGED <<front, back, content, frames, s_LCDpendingBuffer, lcdif>>

(* while (s_LCDpendingBuffer >= 0); the driver returns once it is reset.   *)
SpinExit ==
    /\ ~frameDone
    /\ pc = "spin" /\ s_LCDpendingBuffer < 0
    /\ pc' = "idle"
    /\ UNCHANGED <<front, back, content, frames, s_LCDpendingBuffer, lcdif>>

(* End of a frame: the controller latches NEXT_BUF and raises the status.  *)
FrameEnd ==
    /\ curBuf' = nextBuf
    /\ frameDone' = TRUE
    /\ UNCHANGED <<thread, s_LCDpendingBuffer, nextBuf>>

(* Fault: the handler confirms on every interrupt, not on CurFrameDone.    *)
IRQHandler_AnyStatus ==
    /\ frameDone' = FALSE
    /\ \/ /\ s_LCDpendingBuffer >= 0
          /\ front' = s_LCDpendingBuffer
          /\ s_LCDpendingBuffer' = None
       \/ /\ s_LCDpendingBuffer < 0
          /\ UNCHANGED <<front, s_LCDpendingBuffer>>
    /\ UNCHANGED <<pc, back, content, frames, nextBuf, curBuf>>

(* Fault: the handler forgets to reset s_LCDpendingBuffer.                 *)
IRQHandler_NoReset ==
    /\ frameDone
    /\ frameDone' = FALSE
    /\ s_LCDpendingBuffer >= 0 => front' = s_LCDpendingBuffer
    /\ s_LCDpendingBuffer < 0 => front' = front
    /\ UNCHANGED <<pc, back, content, frames, s_LCDpendingBuffer, nextBuf, curBuf>>

(* APP_LCDIF_IRQHandler.                                                   *)
IRQHandler ==
    /\ frameDone
    /\ frameDone' = FALSE
    /\ \/ /\ s_LCDpendingBuffer >= 0
          /\ front' = s_LCDpendingBuffer       \* GUI_MULTIBUF_Confirm
          /\ s_LCDpendingBuffer' = None
       \/ /\ s_LCDpendingBuffer < 0
          /\ UNCHANGED <<front, s_LCDpendingBuffer>>
    /\ UNCHANGED <<pc, back, content, frames, nextBuf, curBuf>>

Thread == BeginFrame \/ EndFrame \/ SetNext \/ SetPending \/ SpinExit

Next == Thread \/ FrameEnd \/ IRQHandler

Spec == Init /\ [][Next]_vars

(* The panel is refreshed for ever and its interrupt is served.  The       *)
(* thread is interrupted again and again, but a frame lasts milliseconds   *)
(* and the handler microseconds: it runs between two interrupts, whence    *)
(* the strong fairness.                                                    *)
Fairness == SF_vars(Thread) /\ WF_vars(FrameEnd) /\ WF_vars(IRQHandler)

FairSpec == Spec /\ Fairness

-----------------------------------------------------------------------------
(* The types of all variables.                                             *)
TypeOK ==
    /\ pc \in {"idle", "draw", "set_next", "set_pending", "spin"}
    /\ front \in Buffer /\ back \in Buffer
    /\ content \in [Buffer -> {Torn} \cup (0 .. MaxFrames)]
    /\ frames \in 0 .. MaxFrames
    /\ s_LCDpendingBuffer \in {None} \cup Buffer
    /\ nextBuf \in Buffer /\ curBuf \in Buffer
    /\ frameDone \in BOOLEAN

(* The panel never scans out a buffer emWin is drawing into: the thread    *)
(* and the controller never work on one buffer.                            *)
NoTearing == content[curBuf] # Torn

(* "Send a confirmation that the given buffer is visible"                  *)
(* (emwin_support.c:92): whenever the handler confirms a buffer, that      *)
(* buffer is the one the controller scans out.                             *)
ConfirmedIsVisible ==
    [][s_LCDpendingBuffer >= 0 /\ s_LCDpendingBuffer' < 0
         => /\ curBuf = s_LCDpendingBuffer
            /\ content[curBuf] = frames]_vars

(* LCD_X_SHOWBUFFER always returns: the busy wait of the driver ends.      *)
ShowBufferReturns == pc = "spin" ~> pc = "idle"

(* Every frame is shown whole and in order, none is skipped.               *)
Flips == INSTANCE FrameFlip WITH drawn <- frames, shown <- content[curBuf]
ImplementsFrameFlip == Flips!Spec

-----------------------------------------------------------------------------
(* The controller shows the front buffer and will go on doing so.          *)
Settled == nextBuf = front /\ curBuf = front /\ content[front] = frames

(* The strengthening of NoTearing that every step preserves: the display   *)
(* is settled outside the handshake; inside it, which buffer each register *)
(* holds.                                                                  *)
HandshakeInv ==
    /\ s_LCDpendingBuffer # None => pc = "spin" /\ s_LCDpendingBuffer = back
    /\ pc \in {"set_next", "set_pending", "spin"} => frames > 0
    /\ pc = "idle" => Settled
    /\ pc = "draw" => /\ Settled /\ back # front /\ frames < MaxFrames
    /\ pc = "set_next" =>
         /\ nextBuf = front /\ curBuf = front /\ back # front
         /\ content[front] = frames - 1 /\ content[back] = frames
    /\ pc \in {"set_pending", "spin"} =>
         /\ nextBuf = back
         /\ curBuf \in {front, back}
         /\ content[back] = frames
         /\ content[front] \in {frames - 1, frames}
    /\ pc = "spin" /\ s_LCDpendingBuffer = None => Settled
    /\ pc = "spin" /\ s_LCDpendingBuffer # None /\ frameDone => curBuf = back

IInv == TypeOK /\ HandshakeInv

=============================================================================
