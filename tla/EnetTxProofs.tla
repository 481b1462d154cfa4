---------------------------- MODULE EnetTxProofs ----------------------------
(* Proofs about EnetTx, for rings and timer queues of every size.          *)
EXTENDS EnetTx, TLAPS

USE TxRingAssumption, TxBoundAssumption, TimerQueueAssumption

-----------------------------------------------------------------------------
(* The ring.                                                               *)

(* The next descriptor is one of the ring.                                 *)
LEMMA TxNextType == ASSUME NEW d \in TxDesc PROVE TxNext(d) \in TxDesc
  BY DEF TxDesc, TxNext

(* Distances are positions in the ring, and only the controller's own      *)
(* descriptor is at distance 0.                                            *)
LEMMA DistType ==
  ASSUME TypeOK, NEW d \in TxDesc
  PROVE  /\ TxDist(d) \in TxDesc
         /\ TxDist(d) = 0 <=> d = txDma
  BY DEF TypeOK, TxDesc, TxDist

(* No two descriptors are at the same distance.                            *)
LEMMA DistInjective ==
  ASSUME TypeOK, NEW d \in TxDesc, NEW e \in TxDesc, TxDist(d) = TxDist(e)
  PROVE  d = e
  BY DEF TypeOK, TxDesc, TxDist

(* The next descriptor is one further on, or the controller's own.         *)
LEMMA DistNext ==
  ASSUME TypeOK, NEW d \in TxDesc
  PROVE  \/ TxDist(TxNext(d)) = TxDist(d) + 1
         \/ TxNext(d) = txDma /\ TxDist(d) + 1 = ENET_TXBD_NUM
  BY DEF TypeOK, TxDesc, TxDist, TxNext

(* When the controller moves on all others come one nearer.                *)
LEMMA DistMoves ==
  ASSUME TypeOK, txDma' = TxNext(txDma), NEW d \in TxDesc
  PROVE  TxDist(d)' = IF d = txDma THEN ENET_TXBD_NUM - 1 ELSE TxDist(d) - 1
  BY DEF TypeOK, TxDesc, TxDist, TxNext

(* The descriptor filled next, and the count of frames.                    *)
LEMMA FillType ==
  ASSUME TypeOK PROVE Fill \in TxDesc /\ Filled \in Int
  BY TxNextType DEF TypeOK, Fill, Filled

(* A ring that is not empty is ready at the controller's position.         *)
LEMMA ReadyAtDma ==
  ASSUME TypeOK, TxRingInv PROVE ready[txDma] <=> Filled > 0
  BY DistType, FillType DEF TypeOK, TxRingInv

(* While the descriptor to fill is free, it is the first after the frames. *)
LEMMA FillFree ==
  ASSUME TypeOK, TxRingInv, ~ready[Fill]
  PROVE  TxDist(Fill) = Filled /\ Filled < ENET_TXBD_NUM
  BY DistType, FillType DEF TypeOK, TxRingInv, TxDesc

-----------------------------------------------------------------------------
(* The inductive invariant, conjunct by conjunct.                          *)

LEMMA TxInitInv == Init => TxInv
  <1> SUFFICES ASSUME Init PROVE TxInv
    OBVIOUS
  <1>1. TypeOK
    <2>1. ready \in [TxDesc -> BOOLEAN] /\ buffer \in [TxDesc -> 0 .. MaxSends]
      BY DEF Init
    <2>2. txDma \in TxDesc /\ txBdCurrent \in TxDesc
      BY DEF Init, TxDesc
    <2>3. /\ tdar \in BOOLEAN /\ late \in BOOLEAN
          /\ txEir \in BOOLEAN /\ txFlag \in BOOLEAN
      BY DEF Init
    <2>. QED
      BY <2>1, <2>2, <2>3 DEF Init, TypeOK
  <1>2. TxRingInv
    <2>1. Filled = 0 /\ Fill = 0 /\ txDma = 0
      BY DEF Init, Filled, Fill
    <2>2. \A d \in TxDesc : TxDist(d) \in Nat /\ ~ready[d]
      BY <1>1, DistType DEF Init, TxDesc
    <2>3. TxDist(Fill) = 0
      BY <2>1 DEF TxDist
    <2>. QED
      BY <2>1, <2>2, <2>3 DEF TxRingInv
  <1>3. SenderInv /\ ActiveInv /\ WakeInv
    BY DEF Init, SenderInv, ActiveInv, WakeInv, Filled
  <1>4. PendInv
    BY DEF Init, PendInv, Filled, One
  <1>. QED
    BY <1>1, <1>2, <1>3, <1>4 DEF TxInv

(* Every step keeps the types.                                             *)
LEMMA TxTypeStep == ASSUME TxInv, Next PROVE TypeOK'
  <1> USE DEF TypeOK, controller, sender, kernel
  <1>0. TypeOK
    BY DEF TxInv
  <1>1. CASE Transmit
    BY <1>0, <1>1, TxNextType DEF Transmit
  <1>2. CASE FrameEvent \/ RingEmpty
    BY <1>0, <1>2 DEF FrameEvent, RingEmpty
  <1>3. CASE TxIsr
    <2>1. CASE TxIsrEnter
      BY <1>0, <2>1 DEF TxIsrEnter
    <2>2. CASE TxCallback
      BY <1>0, <2>2 DEF TxCallback
    <2>3. CASE TxIsrCheck
      BY <1>0, <2>3 DEF TxIsrCheck
    <2>. QED
      BY <1>3, <2>1, <2>2, <2>3 DEF TxIsr
  <1>4. CASE SetBits
    <2>1. txFlag' \in BOOLEAN
      BY <1>0, <1>4 DEF SetBits
    <2>2. txPc' \in {"idle", "try", "ready", "advance", "active", "wait", "blocked"}
      BY <1>0, <1>4 DEF SetBits
    <2>3. timerQueue' \in 0 .. configTIMER_QUEUE_LENGTH
      BY <1>0, <1>4 DEF SetBits
    <2>. QED
      BY <1>0, <1>4, <2>1, <2>2, <2>3 DEF SetBits
  <1>5. CASE LowLevelOutput
    BY <1>0, <1>5 DEF LowLevelOutput
  <1>6. CASE SendBusy \/ SendActive \/ WaitBits
    BY <1>0, <1>6 DEF SendBusy, SendActive, WaitBits
  <1>7. CASE SendCopy
    BY <1>0, <1>7 DEF SendCopy
  <1>8. CASE SendReady
    <2>1. accepted + 1 = sends
      BY <1>8 DEF TxInv, SenderInv, SendReady
    <2>. QED
      BY <1>0, <1>8, <2>1 DEF SendReady
  <1>9. CASE SendAdvance
    BY <1>0, <1>9, TxNextType DEF SendAdvance
  <1>. QED
    BY <1>1, <1>2, <1>3, <1>4, <1>5, <1>6, <1>7, <1>8, <1>9
    DEF Next, Controller, Sending

(* The steps that leave the ring and its two ends alone.                   *)
LEMMA RingUntouched ==
  ASSUME TypeOK, TypeOK', TxRingInv,
         UNCHANGED <<ready, buffer, txDma, wire, accepted>>, Fill' = Fill
  PROVE  TxRingInv'
  <1>1. Filled' = Filled /\ \A d \in TxDesc : TxDist(d)' = TxDist(d)
    BY DEF Filled, TxDist
  <1>2. Fill \in TxDesc
    BY FillType
  <1>. QED
    BY <1>1, <1>2 DEF TxRingInv, TxDist

(* The controller takes the oldest frame out of the ring.                  *)
LEMMA RingTransmit ==
  ASSUME TypeOK, TypeOK', TxRingInv, Transmit PROVE TxRingInv'
  <1>1. Filled > 0 /\ wire' = wire + 1 /\ Filled' = Filled - 1
    <2>1. Filled > 0
      BY ReadyAtDma DEF Transmit
    <2>2. wire' = wire + 1
      BY DistType DEF Transmit, TxRingInv, TypeOK
    <2>. QED
      BY <2>1, <2>2 DEF Filled, Transmit, sender, TypeOK
  <1>2. \A d \in TxDesc :
          TxDist(d)' = IF d = txDma THEN ENET_TXBD_NUM - 1 ELSE TxDist(d) - 1
    BY DistMoves DEF Transmit
  <1>3. Fill' = Fill /\ Fill \in TxDesc
    BY FillType DEF Transmit, Fill, sender
  <1>4. TxDist(Fill)' = Filled'
    <2>1. CASE Fill = txDma
      BY <1>1, <1>2, <1>3, <2>1, DistType, FillType DEF TxRingInv
    <2>2. CASE Fill # txDma
      BY <1>1, <1>2, <1>3, <2>2, DistType, FillType DEF TxRingInv
    <2>. QED
      BY <2>1, <2>2
  <1>5. ASSUME NEW d \in TxDesc
        PROVE  /\ ready'[d] <=> TxDist(d)' < Filled'
               /\ ready'[d] => buffer'[d] = wire' + 1 + TxDist(d)'
    <2>1. CASE d = txDma
      <3>1. ~ready'[d]
        BY <2>1 DEF Transmit, TypeOK
      <3>2. ~(TxDist(d)' < Filled')
        BY <1>1, <1>2, <2>1, FillType DEF TxRingInv
      <3>. QED
        BY <3>1, <3>2
    <2>2. CASE d # txDma
      <3>1. ready'[d] = ready[d] /\ buffer' = buffer
        BY <2>2 DEF Transmit, TypeOK
      <3>2. TxDist(d)' = TxDist(d) - 1 /\ TxDist(d) \in Int
        BY <1>2, <2>2, DistType DEF TxDesc
      <3>. QED
        BY <1>1, <3>1, <3>2, FillType DEF TxRingInv, TypeOK
    <2>. QED
      BY <2>1, <2>2
  <1>. QED
    BY <1>1, <1>4, <1>5, FillType DEF TxRingInv

(* The sender puts a frame at the end.                                     *)
LEMMA RingReady ==
  ASSUME TypeOK, TypeOK', TxRingInv, SenderInv, SendReady PROVE TxRingInv'
  <1>1. Fill = txBdCurrent /\ Fill' = TxNext(Fill)
    BY DEF SendReady, Fill
  <1>2. TxDist(Fill) = Filled /\ Filled < ENET_TXBD_NUM
    BY <1>1, FillFree DEF SendReady, SenderInv
  <1>3. Filled' = Filled + 1 /\ Filled \in Int
    BY FillType DEF Filled, SendReady, TypeOK
  <1>4. \A d \in TxDesc : TxDist(d)' = TxDist(d)
    BY DEF TxDist, SendReady
  <1>5. TxDist(Fill)' = Filled' \/ (Fill' = txDma' /\ Filled' = ENET_TXBD_NUM)
    <2>1. TxDist(Fill)' = TxDist(TxNext(Fill))
      BY <1>1 DEF TxDist, SendReady
    <2>. QED
      BY <1>1, <1>2, <1>3, <2>1, DistNext, FillType DEF SendReady
  <1>6. ASSUME NEW d \in TxDesc
        PROVE  /\ ready'[d] <=> TxDist(d)' < Filled'
               /\ ready'[d] => buffer'[d] = wire' + 1 + TxDist(d)'
    <2>1. CASE d = Fill
      <3>1. ready'[d] /\ buffer'[d] = accepted + 1 /\ wire' = wire
        BY <1>1, <2>1, FillType DEF SendReady, SenderInv, TypeOK
      <3>2. TxDist(d)' = Filled
        BY <1>2, <1>4, <2>1
      <3>3. TxDist(d)' < Filled'
        BY <1>3, <3>2
      <3>4. buffer'[d] = wire' + 1 + Filled
        BY <3>1 DEF Filled, TypeOK
      <3>. QED
        BY <3>1, <3>2, <3>3, <3>4
    <2>2. CASE d # Fill
      <3>1. (ready'[d] <=> ready[d]) /\ buffer' = buffer /\ wire' = wire
        BY <1>1, <2>2 DEF SendReady, TypeOK
      <3>2. TxDist(d) # Filled
        BY <1>2, <2>2, FillType, DistInjective
      <3>3. TxDist(d)' = TxDist(d) /\ TxDist(d) \in Int
        BY <1>4, DistType DEF TxDesc
      <3>4. TxDist(d)' < Filled' <=> TxDist(d) < Filled
        BY <1>3, <3>2, <3>3
      <3>. QED
        BY <3>1, <3>3, <3>4 DEF TxRingInv
    <2>. QED
      BY <2>1, <2>2
  <1>7. 0 <= Filled' /\ Filled' <= ENET_TXBD_NUM
    BY <1>2, <1>3 DEF TxRingInv
  <1>. QED
    BY <1>5, <1>6, <1>7 DEF TxRingInv

(* Every step keeps the order of the frames in the ring.                   *)
LEMMA TxRingStep == ASSUME TxInv, Next, TypeOK' PROVE TxRingInv'
  <1>0. TypeOK /\ TxRingInv /\ SenderInv
    BY DEF TxInv
  <1> USE DEF controller, sender, kernel
  <1>1. CASE Transmit
    BY <1>0, <1>1, RingTransmit
  <1>2. CASE FrameEvent \/ RingEmpty
    BY <1>0, <1>2, RingUntouched DEF FrameEvent, RingEmpty, Fill
  <1>3. CASE TxIsr
    BY <1>0, <1>3, RingUntouched DEF TxIsr, TxIsrEnter, TxCallback, TxIsrCheck, Fill
  <1>4. CASE SetBits
    BY <1>0, <1>4, RingUntouched DEF SetBits, Fill
  <1>5. CASE LowLevelOutput
    BY <1>0, <1>5, RingUntouched DEF LowLevelOutput, Fill
  <1>6. CASE SendBusy \/ SendActive \/ WaitBits
    BY <1>0, <1>6, RingUntouched DEF SendBusy, SendActive, WaitBits, Fill
  <1>7. CASE SendCopy
    <2>1. Filled' = Filled /\ Fill' = Fill /\ Fill = txBdCurrent
      BY <1>7 DEF SendCopy, Filled, Fill
    <2>2. \A d \in TxDesc : TxDist(d)' = TxDist(d)
      BY <1>7 DEF SendCopy, TxDist
    <2>3. TxDist(Fill)' = TxDist(Fill)
      BY <1>7, <2>1 DEF SendCopy, TxDist
    <2>4. \A d \in TxDesc : ready[d] => buffer'[d] = buffer[d]
      BY <1>0, <1>7 DEF SendCopy, TypeOK
    <2>. QED
      BY <1>0, <1>7, <2>1, <2>2, <2>3, <2>4 DEF SendCopy, TxRingInv
  <1>8. CASE SendReady
    BY <1>0, <1>8, RingReady
  <1>9. CASE SendAdvance
    BY <1>0, <1>9, RingUntouched DEF SendAdvance, Fill
  <1>. QED
    BY <1>1, <1>2, <1>3, <1>4, <1>5, <1>6, <1>7, <1>8, <1>9
    DEF Next, Controller, Sending

(* Every step keeps account of the sender's frame.                         *)
LEMMA SenderStep == ASSUME TxInv, Next PROVE SenderInv'
  <1> USE DEF SenderInv, controller, sender, kernel
  <1>0. TypeOK /\ SenderInv
    BY DEF TxInv
  <1>1. CASE Transmit
    BY <1>0, <1>1 DEF Transmit, TypeOK
  <1>2. CASE FrameEvent \/ RingEmpty
    BY <1>0, <1>2 DEF FrameEvent, RingEmpty
  <1>3. CASE TxIsr
    BY <1>0, <1>3 DEF TxIsr, TxIsrEnter, TxCallback, TxIsrCheck
  <1>4. CASE SetBits
    BY <1>0, <1>4 DEF SetBits
  <1>5. CASE LowLevelOutput
    BY <1>0, <1>5 DEF LowLevelOutput
  <1>6. CASE SendBusy \/ SendActive \/ WaitBits
    BY <1>0, <1>6 DEF SendBusy, SendActive, WaitBits
  <1>7. CASE SendCopy
    BY <1>0, <1>7 DEF SendCopy, TypeOK
  <1>8. CASE SendReady
    BY <1>0, <1>8 DEF SendReady
  <1>9. CASE SendAdvance
    BY <1>0, <1>9 DEF SendAdvance
  <1>. QED
    BY <1>1, <1>2, <1>3, <1>4, <1>5, <1>6, <1>7, <1>8, <1>9
    DEF Next, Controller, Sending

(* A ring with frames in it is active.                                     *)
LEMMA ActiveStep == ASSUME TxInv, Next PROVE ActiveInv'
  <1> USE DEF ActiveInv, Filled, controller, sender, kernel
  <1>0. TypeOK /\ ActiveInv /\ TxRingInv
    BY DEF TxInv
  <1>1. CASE Transmit
    <2>1. Filled > 0 /\ wire' = wire + 1
      BY <1>0, <1>1, ReadyAtDma, DistType DEF Transmit, TxRingInv, TypeOK
    <2>. QED
      BY <1>0, <1>1, <2>1 DEF Transmit, TypeOK
  <1>2. CASE FrameEvent
    BY <1>0, <1>2 DEF FrameEvent
  <1>3. CASE RingEmpty
    <2>1. ~(Filled > 0)
      BY <1>0, <1>3, ReadyAtDma DEF RingEmpty
    <2>. QED
      BY <1>3, <2>1 DEF RingEmpty
  <1>4. CASE TxIsr
    BY <1>0, <1>4 DEF TxIsr, TxIsrEnter, TxCallback, TxIsrCheck
  <1>5. CASE SetBits
    BY <1>0, <1>5 DEF SetBits
  <1>6. CASE LowLevelOutput \/ SendBusy \/ SendCopy \/ WaitBits
    BY <1>0, <1>6 DEF LowLevelOutput, SendBusy, SendCopy, WaitBits
  <1>7. CASE SendReady \/ SendAdvance \/ SendActive
    BY <1>0, <1>7 DEF SendReady, SendAdvance, SendActive
  <1>. QED
    BY <1>1, <1>2, <1>3, <1>4, <1>5, <1>6, <1>7 DEF Next, Controller, Sending

(* Every step keeps the wake-up safe, once the ring was found full.        *)
LEMMA WakeStep == ASSUME TxInv, Next PROVE WakeInv'
  <1> USE DEF WakeInv, WakeupComing, controller, sender, kernel
  <1>0. TypeOK /\ WakeInv /\ TxRingInv /\ ActiveInv
    BY DEF TxInv
  <1>1. CASE Transmit \/ FrameEvent
    BY <1>1 DEF Transmit, FrameEvent
  <1>2. CASE RingEmpty
    BY <1>0, <1>2 DEF RingEmpty
  <1>3. CASE TxIsrEnter \/ TxIsrCheck
    BY <1>0, <1>3 DEF TxIsrEnter, TxIsrCheck
  <1>4. CASE TxCallback
    <2>1. timerQueue' > 0
      BY <1>0, <1>4 DEF TxCallback, TypeOK
    <2>. QED
      BY <2>1
  <1>5. CASE SetBits
    BY <1>0, <1>5 DEF SetBits
  <1>6. CASE LowLevelOutput \/ SendCopy \/ SendReady \/ SendAdvance \/ SendActive
    BY <1>6 DEF LowLevelOutput, SendCopy, SendReady, SendAdvance, SendActive
  <1>7. CASE SendBusy
    <2>1. Filled > 0
      BY <1>0, <1>7, DistType, FillType DEF SendBusy, TxRingInv, TypeOK, TxDesc
    <2>2. tdar /\ ready[txDma]
      BY <1>0, <1>7, <2>1, ReadyAtDma DEF SendBusy, ActiveInv
    <2>. QED
      BY <1>7, <2>2 DEF SendBusy
  <1>8. CASE WaitBits
    BY <1>0, <1>8 DEF WaitBits
  <1>. QED
    BY <1>1, <1>2, <1>3, <1>4, <1>5, <1>6, <1>7, <1>8
    DEF Next, Controller, TxIsr, Sending

(* Every step keeps the account of the timer task's commands.              *)
LEMMA PendStep == ASSUME TxInv, Next PROVE PendInv'
  <1> USE DEF PendInv, One, controller, sender, kernel
  <1>0. TypeOK /\ PendInv /\ TxRingInv
    BY DEF TxInv
  <1>1. CASE Transmit
    <2>1. wire' = wire + 1
      BY <1>0, <1>1, ReadyAtDma, DistType DEF Transmit, TxRingInv, TypeOK
    <2>2. Filled' = Filled - 1 /\ Filled \in Int
      BY <1>0, <1>1, <2>1 DEF Filled, Transmit, TypeOK
    <2>3. ~late /\ txEir' = TRUE /\ timerQueue' = timerQueue /\ txIsr' = txIsr
      BY <1>1 DEF Transmit
    <2>. QED
      BY <1>0, <2>2, <2>3 DEF TypeOK
  <1>2. CASE FrameEvent \/ RingEmpty
    <2>1. Filled' = Filled /\ Filled \in Int
      BY <1>0, <1>2 DEF FrameEvent, RingEmpty, Filled, TypeOK
    <2>. QED
      BY <1>0, <1>2, <2>1 DEF FrameEvent, RingEmpty, TypeOK
  <1>3. CASE TxIsr
    <2>1. Filled' = Filled /\ Filled \in Int
      BY <1>0, <1>3 DEF TxIsr, TxIsrEnter, TxCallback, TxIsrCheck, Filled, TypeOK
    <2>2. CASE TxIsrEnter
      BY <1>0, <2>1, <2>2 DEF TxIsrEnter, TypeOK
    <2>3. CASE TxCallback
      BY <1>0, <2>1, <2>3 DEF TxCallback, TypeOK
    <2>4. CASE TxIsrCheck
      BY <1>0, <2>1, <2>4 DEF TxIsrCheck, TypeOK
    <2>. QED
      BY <1>3, <2>2, <2>3, <2>4 DEF TxIsr
  <1>4. CASE SetBits
    <2>1. Filled' = Filled /\ Filled \in Int
      BY <1>0, <1>4 DEF SetBits, Filled, TypeOK
    <2>. QED
      BY <1>0, <1>4, <2>1 DEF SetBits, TypeOK
  <1>5. CASE SendReady
    <2>1. Filled < ENET_TXBD_NUM
      <3>1. Fill = txBdCurrent
        BY <1>5 DEF SendReady, Fill
      <3>. QED
        BY <1>0, <1>5, <3>1, FillFree DEF TxInv, SenderInv, SendReady
    <2>2. Filled' = Filled + 1 /\ Filled \in Int
      BY <1>0, <1>5 DEF SendReady, Filled, TypeOK
    <2>3. timerQueue' = 0 /\ txIsr' = "idle" /\ txEir' = FALSE /\ late' = late
      BY <1>5 DEF SendReady, SenderRuns
    <2>. QED
      BY <1>0, <2>1, <2>2, <2>3 DEF TypeOK
  <1>6. CASE \/ LowLevelOutput \/ SendBusy \/ SendCopy \/ SendAdvance
             \/ SendActive \/ WaitBits
    <2>1. /\ UNCHANGED <<timerQueue, txIsr, txEir, late>>
          /\ Filled' = Filled
      BY <1>6 DEF LowLevelOutput, SendBusy, SendCopy, SendAdvance, SendActive, WaitBits, Filled
    <2>. QED
      BY <1>0, <2>1
  <1>. QED
    BY <1>1, <1>2, <1>3, <1>4, <1>5, <1>6 DEF Next, Controller, Sending

(* The inductive invariant holds in every behaviour.                       *)
LEMMA TxInvHolds == Spec => []TxInv
  <1>1. TxInv /\ [Next]_txVars => TxInv'
    <2> SUFFICES ASSUME TxInv, [Next]_txVars PROVE TxInv'
      OBVIOUS
    <2>1. CASE Next
      BY <2>1, TxTypeStep, TxRingStep, SenderStep, ActiveStep, WakeStep, PendStep DEF TxInv
    <2>2. CASE UNCHANGED txVars
      <3> USE <2>2 DEF txVars, controller, sender, kernel
      <3>1. TypeOK' /\ TxRingInv'
        <4>1. TypeOK'
          BY DEF TxInv, TypeOK
        <4>. QED
          BY <4>1, RingUntouched DEF TxInv, Fill
      <3>2. SenderInv' /\ ActiveInv'
        BY DEF TxInv, SenderInv, ActiveInv, Filled
      <3>3. WakeInv' /\ PendInv'
        BY DEF TxInv, WakeInv, WakeupComing, PendInv, Filled
      <3>. QED
        BY <3>1, <3>2, <3>3 DEF TxInv
    <2>. QED
      BY <2>1, <2>2
  <1>. QED
    BY TxInitInv, <1>1, PTL DEF Spec

-----------------------------------------------------------------------------
(* TypeOK: all variables keep their types.                                 *)
THEOREM TypeCorrect == Spec => []TypeOK
  <1>1. TxInv => TypeOK
    BY DEF TxInv
  <1>. QED
    BY TxInvHolds, <1>1, PTL

(* A sender that waits in enet_send_frame will be woken, for every size of *)
(* ring and every number of frames.                                        *)
THEOREM NeverStuck == Spec => []NoLostWakeup
  <1>1. TxInv => NoLostWakeup
    BY DEF TxInv, WakeInv, NoLostWakeup
  <1>. QED
    BY TxInvHolds, <1>1, PTL

(* A timer queue with room for two commands a descriptor and one more      *)
(* never refuses a command of ethernet_callback.                           *)
THEOREM CommandsAlwaysFit == Spec => []PendNeverFails
  <1>1. TxInv => PendNeverFails
    BY FillType DEF TxInv, PendInv, PendNeverFails, One, TxRingInv, TypeOK
  <1>. QED
    BY TxInvHolds, <1>1, PTL

(* The frames in the ring are those that are not on the wire yet.          *)
LEMMA Flight ==
  TypeOK /\ TxRingInv => {buffer[d] : d \in Ready} = (wire + 1) .. accepted
  <1> SUFFICES ASSUME TypeOK, TxRingInv
               PROVE  {buffer[d] : d \in Ready} = (wire + 1) .. accepted
    OBVIOUS
  <1>1. ASSUME NEW d \in Ready PROVE buffer[d] \in (wire + 1) .. accepted
    BY DistType DEF Ready, TxRingInv, TypeOK, Filled, TxDesc
  <1>2. ASSUME NEW f \in (wire + 1) .. accepted
        PROVE  \E d \in Ready : buffer[d] = f
    <2> DEFINE k == f - wire - 1
               d == IF txDma + k < ENET_TXBD_NUM THEN txDma + k ELSE txDma + k - ENET_TXBD_NUM
    <2>1. k \in 0 .. ENET_TXBD_NUM - 1 /\ k < Filled
      BY DEF TxRingInv, TypeOK, Filled
    <2>2. d \in TxDesc /\ TxDist(d) = k
      BY <2>1 DEF TypeOK, TxDesc, TxDist
    <2>3. d \in Ready /\ buffer[d] = wire + 1 + k
      BY <2>1, <2>2 DEF TxRingInv, Ready
    <2>4. wire + 1 + k = f
      BY DEF TypeOK
    <2>. QED
      BY <2>3, <2>4
  <1>. QED
    BY <1>1, <1>2

LEMMA FlightPrime ==
  (TypeOK /\ TxRingInv)' => ({buffer[d] : d \in Ready} = (wire + 1) .. accepted)'
  BY Flight, PTL

(* The ring sends every frame once, whole and in order.                    *)
THEOREM RingIsChannel == Spec => ImplementsFrameChannel
  <1>1. Init => FC!Init
    BY DEF Init, FC!Init, Ready
  <1>2. TxInv /\ TxInv' /\ [Next]_txVars => [FC!Accept \/ FC!Deliver]_(FC!channelVars)
    <2> SUFFICES ASSUME TxInv, TxInv', [Next]_txVars
                 PROVE  [FC!Accept \/ FC!Deliver]_(FC!channelVars)
      OBVIOUS
    <2> DEFINE fl == {buffer[d] : d \in Ready}
    <2>1. fl = (wire + 1) .. accepted
      BY Flight DEF TxInv
    <2>1p. fl' = (wire' + 1) .. accepted'
      BY FlightPrime DEF TxInv
    <2> HIDE DEF fl
    <2>2. CASE Transmit
      <3>1. Filled > 0 /\ wire' = wire + 1 /\ accepted' = accepted
        BY <2>2, ReadyAtDma, DistType DEF TxInv, Transmit, TxRingInv, TypeOK, sender
      <3>2. wire + 1 \in fl /\ \A g \in fl : wire + 1 <= g
        BY <2>1, <3>1 DEF Filled, TxInv, TypeOK
      <3>3. fl' = fl \ {wire + 1}
        BY <2>1, <2>1p, <3>1 DEF TxInv, TypeOK
      <3>. QED
        BY <3>1, <3>2, <3>3 DEF FC!Deliver, fl
    <2>3. CASE SendReady
      <3>1. Filled < ENET_TXBD_NUM /\ Filled \in Nat
        <4>1. Fill = txBdCurrent
          BY <2>3 DEF SendReady, Fill
        <4>. QED
          BY <2>3, <4>1, FillFree, FillType DEF TxInv, SenderInv, SendReady, TxRingInv
      <3>2. fl' = fl \cup {accepted + 1} /\ accepted' = accepted + 1 /\ wire' = wire
        <4>1. accepted' = accepted + 1 /\ wire' = wire
          BY <2>3 DEF SendReady
        <4>. QED
          BY <2>1, <2>1p, <3>1, <4>1 DEF TxInv, TypeOK, Filled
      <3>. QED
        BY <3>1, <3>2 DEF FC!Accept, fl, Filled
    <2>4. CASE UNCHANGED <<accepted, wire>>
      <3>1. fl' = fl
        BY <2>1, <2>1p, <2>4
      <3>. QED
        BY <2>4, <3>1 DEF FC!channelVars, fl
    <2>5. ~Transmit /\ ~SendReady => UNCHANGED <<accepted, wire>>
      BY DEF Next, Controller, FrameEvent, RingEmpty, TxIsr, TxIsrEnter, TxCallback,
             TxIsrCheck, SetBits, LowLevelOutput, Sending, SendBusy, SendCopy, SendAdvance,
             SendActive, WaitBits, txVars, controller, sender, kernel
    <2>. QED
      BY <2>2, <2>3, <2>4, <2>5
  <1>. QED
    BY TxInvHolds, <1>1, <1>2, PTL DEF Spec, ImplementsFrameChannel, FC!Spec
=============================================================================
