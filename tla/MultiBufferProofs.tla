------------------------- MODULE MultiBufferProofs -------------------------
(* Proofs about the frame-buffer handshake, for any number of buffers and  *)
(* of frames.                                                              *)
EXTENDS MultiBuffer, TLAPS

(* The buffer after the front one is a buffer, and another one.            *)
LEMMA NextBuffer ==
    ASSUME NEW b \in Buffer
    PROVE  /\ (b + 1) % GUI_BUFFERS \in Buffer
           /\ (b + 1) % GUI_BUFFERS # b
<1>1. CASE b = GUI_BUFFERS - 1
  <2>1. (b + 1) % GUI_BUFFERS = 0
    BY <1>1, BuffersAssumption DEF Buffer
  <2> QED BY <1>1, <2>1, BuffersAssumption DEF Buffer
<1>2. CASE b < GUI_BUFFERS - 1
  <2>1. (b + 1) % GUI_BUFFERS = b + 1
    BY <1>2, BuffersAssumption DEF Buffer
  <2> QED BY <1>2, <2>1, BuffersAssumption DEF Buffer
<1> QED BY <1>1, <1>2, BuffersAssumption DEF Buffer

(* The handshake invariant holds initially.                                *)
LEMMA InitIInv == Init => IInv
<1> SUFFICES ASSUME Init PROVE IInv
  OBVIOUS
<1> USE BuffersAssumption, FramesAssumption DEF Init, Buffer, None, Torn
<1>1. 0 \in Buffer /\ 0 \in 0 .. MaxFrames
  OBVIOUS
<1>2. TypeOK
  BY <1>1 DEF TypeOK
<1>3. HandshakeInv
  BY <1>1 DEF HandshakeInv, Settled
<1> QED BY <1>2, <1>3 DEF IInv

(* Every step of the thread, the controller and the handler keeps it.      *)
LEMMA StepIInv == IInv /\ [Next]_vars => IInv'
<1> SUFFICES ASSUME IInv, [Next]_vars PROVE IInv'
  OBVIOUS
<1> USE BuffersAssumption, FramesAssumption
        DEF IInv, TypeOK, HandshakeInv, Settled, Buffer, None, Torn, lcdif, thread
<1>1. CASE BeginFrame
  <2>1. back' \in Buffer /\ back' # front
    BY <1>1, NextBuffer DEF BeginFrame
  <2> QED BY <1>1, <2>1 DEF BeginFrame
<1>2. CASE EndFrame
  BY <1>2 DEF EndFrame
<1>3. CASE SetNext
  BY <1>3 DEF SetNext
<1>4. CASE SetPending
  BY <1>4 DEF SetPending
<1>5. CASE SpinExit
  BY <1>5 DEF SpinExit
<1>6. CASE FrameEnd
  BY <1>6 DEF FrameEnd
<1>7. CASE IRQHandler
  <2>1. CASE s_LCDpendingBuffer >= 0
    <3>1. /\ pc = "spin" /\ s_LCDpendingBuffer = back /\ curBuf = back
          /\ front' = back /\ s_LCDpendingBuffer' = None
      BY <1>7, <2>1 DEF IRQHandler
    <3>2. content[back] = frames /\ nextBuf = back
      BY <3>1
    <3>3. TypeOK'
      BY <1>7, <3>1 DEF IRQHandler
    <3>4. HandshakeInv'
      BY <1>7, <3>1, <3>2, <3>3 DEF IRQHandler
    <3> HIDE DEF TypeOK, HandshakeInv
    <3> QED BY <3>3, <3>4
  <2>2. CASE s_LCDpendingBuffer < 0
    <3>1. /\ UNCHANGED <<thread, s_LCDpendingBuffer, nextBuf, curBuf>>
          /\ frameDone' = FALSE /\ s_LCDpendingBuffer = None
      BY <1>7, <2>2 DEF IRQHandler
    <3>2. TypeOK'
      BY <3>1
    <3>3. HandshakeInv'
      BY <3>1
    <3> HIDE DEF TypeOK, HandshakeInv
    <3> QED BY <3>2, <3>3
  <2> QED BY <1>7, <2>1, <2>2
<1>8. CASE UNCHANGED vars
  BY <1>8 DEF vars
<1> QED
  BY <1>1, <1>2, <1>3, <1>4, <1>5, <1>6, <1>7, <1>8 DEF Next, Thread

(* The inductive invariant holds in every behaviour.                       *)
LEMMA IInvHolds == Spec => []IInv
  BY InitIInv, StepIInv, PTL DEF Spec

(* TypeOK: all variables keep their types.                                 *)
THEOREM TypeCorrect == Spec => []TypeOK
<1>1. IInv => TypeOK
  BY DEF IInv
<1> QED BY IInvHolds, <1>1, PTL

(* HandshakeInv is an invariant of the driver: what each register and the  *)
(* pending index hold at each point of LCD_X_SHOWBUFFER.                   *)
THEOREM HandshakeCorrect == Spec => []HandshakeInv
<1>1. IInv => HandshakeInv
  BY DEF IInv
<1> QED BY IInvHolds, <1>1, PTL

(* emWin never draws into the buffer the controller scans out.             *)
THEOREM NeverTorn == Spec => []NoTearing
<1>1. IInv => NoTearing
  <2> SUFFICES ASSUME IInv PROVE content[curBuf] \in {frames - 1, frames} /\ (frames = 0 => content[curBuf] = 0)
    BY DEF IInv, TypeOK, NoTearing, Torn
  <2> QED BY DEF IInv, TypeOK, HandshakeInv, Settled
<1> QED BY IInvHolds, <1>1, PTL

(* The handler of APP_LCDIF_IRQHandler confirms a buffer only when that    *)
(* buffer, with the newest frame in it, is on the panel.                   *)
THEOREM ConfirmationIsTrue == Spec => ConfirmedIsVisible
<1>1. IInv /\ [Next]_vars
        => [s_LCDpendingBuffer >= 0 /\ s_LCDpendingBuffer' < 0
              => /\ curBuf = s_LCDpendingBuffer
                 /\ content[curBuf] = frames]_vars
  <2> SUFFICES ASSUME IInv, Next,
                      s_LCDpendingBuffer >= 0, s_LCDpendingBuffer' < 0
               PROVE  curBuf = s_LCDpendingBuffer /\ content[curBuf] = frames
    OBVIOUS
  <2> USE DEF IInv, TypeOK, HandshakeInv, Buffer, None
  <2>1. CASE IRQHandler
    BY <2>1 DEF IRQHandler
  <2>2. CASE SetPending
    BY <2>2 DEF SetPending
  <2>3. CASE FrameEnd \/ BeginFrame \/ EndFrame \/ SetNext \/ SpinExit
    BY <2>3 DEF FrameEnd, BeginFrame, EndFrame, SetNext, SpinExit
  <2> QED BY <2>1, <2>2, <2>3 DEF Next, Thread
<1> QED BY IInvHolds, <1>1, PTL DEF Spec, ConfirmedIsVisible

(* The driver shows every frame whole, in order and without skipping one.  *)
THEOREM ShowsEveryFrame == Spec => ImplementsFrameFlip
<1>1. Init => Flips!Init
  BY BuffersAssumption DEF Init, Flips!Init, Buffer
<1>2. IInv /\ [Next]_vars => [Flips!Next]_<<frames, content[curBuf]>>
  <2> SUFFICES ASSUME IInv, Next
               PROVE  [Flips!Next]_<<frames, content[curBuf]>>
    BY DEF vars, thread, lcdif
  <2> USE BuffersAssumption, FramesAssumption
          DEF IInv, TypeOK, HandshakeInv, Settled, Buffer, None, Torn, lcdif, thread,
              Flips!Next, Flips!Finish, Flips!Flip
  <2>1. CASE BeginFrame
    <3>1. back' \in Buffer /\ back' # front
      BY <2>1, NextBuffer DEF BeginFrame
    <3> QED BY <2>1, <3>1 DEF BeginFrame
  <2>2. CASE EndFrame
    BY <2>2 DEF EndFrame
  <2>3. CASE SetNext \/ SetPending \/ SpinExit
    BY <2>3 DEF SetNext, SetPending, SpinExit
  <2>4. CASE FrameEnd
    BY <2>4 DEF FrameEnd
  <2>5. CASE IRQHandler
    BY <2>5 DEF IRQHandler
  <2> QED BY <2>1, <2>2, <2>3, <2>4, <2>5 DEF Next, Thread
<1> QED BY IInvHolds, <1>1, <1>2, PTL DEF Spec, ImplementsFrameFlip, Flips!Spec

=============================================================================
