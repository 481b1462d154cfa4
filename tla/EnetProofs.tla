----------------------------- MODULE EnetProofs -----------------------------
(* Proofs about Enet: reception and transmission do together what each     *)
(* does alone, so that what is proved of EnetRx and EnetTx holds of the    *)
(* interface, and neither can hold the other up for good.                  *)
EXTENDS Enet, EnetRxProofs

USE SendAssumption

(* The theorems about EnetTx, of this module's variables.                  *)
TxP == INSTANCE EnetTxProofs

-----------------------------------------------------------------------------
(* The names of the two instances of EnetTx mean the same.                 *)

(* ... the initial states ...                                              *)
LEMMA SameInit == Tx!Init <=> TxP!Init
  BY DEF Tx!Init, TxP!Init, Tx!TxDesc, TxP!TxDesc

(* ... and the steps.                                                      *)
LEMMA SameNext == Tx!Next <=> TxP!Next
  BY DEF Tx!Next, Tx!Controller, Tx!Transmit, Tx!FrameEvent, Tx!RingEmpty,
         Tx!TxIsr, Tx!TxIsrEnter, Tx!TxCallback, Tx!TxIsrCheck, Tx!SetBits,
         Tx!LowLevelOutput, Tx!Sending, Tx!SendBusy, Tx!SendCopy, Tx!SendReady,
         Tx!SendAdvance, Tx!SendActive, Tx!WaitBits, Tx!SenderRuns, Tx!TxNext,
         Tx!controller, Tx!sender, Tx!kernel,
         TxP!Next, TxP!Controller, TxP!Transmit, TxP!FrameEvent, TxP!RingEmpty,
         TxP!TxIsr, TxP!TxIsrEnter, TxP!TxCallback, TxP!TxIsrCheck, TxP!SetBits,
         TxP!LowLevelOutput, TxP!Sending, TxP!SendBusy, TxP!SendCopy, TxP!SendReady,
         TxP!SendAdvance, TxP!SendActive, TxP!WaitBits, TxP!SenderRuns, TxP!TxNext,
         TxP!controller, TxP!sender, TxP!kernel

-----------------------------------------------------------------------------
(* Every step of the interface is a step, or none, of either direction.    *)

(* ... of the reception ...                                                *)
LEMMA RxStep == [EnetNext]_enetVars => [Next]_vars
  BY DEF EnetNext, enetVars, RxHandler, Poller, Serve, Next

(* ... and of the transmission.                                            *)
LEMMA TxStep == [EnetNext]_enetVars => [Tx!Next]_(Tx!txVars)
  <1>1. UNCHANGED txVars => UNCHANGED Tx!txVars
    BY DEF txVars, Tx!txVars, Tx!controller, Tx!sender, Tx!kernel
  <1>. QED
    BY <1>1 DEF EnetNext, enetVars, TxHandler, TimerTask, Send, SendGoesOn, Serve,
                Tx!Next

(* The reception of the interface is EnetRx: the transmission, which       *)
(* shares its handler and its user, adds nothing to what it does.          *)
THEOREM ReceptionRefines == EnetSpec => Spec
  <1>1. EnetInit => Init
    BY DEF EnetInit
  <1>. QED
    BY <1>1, RxStep, PTL DEF EnetSpec, Spec

(* Nor does the reception to the transmission, which is EnetTx.            *)
THEOREM TransmissionRefines == EnetSpec => Tx!Spec
  <1>1. EnetInit => Tx!Init
    BY DEF EnetInit
  <1>. QED
    BY <1>1, TxStep, PTL DEF EnetSpec, Tx!Spec

(* The same of the instance whose theorems there are.                      *)
LEMMA ProvedOfTx == EnetSpec => TxP!Spec
  <1>1. EnetInit => TxP!Init
    BY SameInit DEF EnetInit
  <1>2. UNCHANGED Tx!txVars <=> UNCHANGED TxP!txVars
    BY DEF Tx!txVars, Tx!controller, Tx!sender, Tx!kernel,
           TxP!txVars, TxP!controller, TxP!sender, TxP!kernel
  <1>3. [EnetNext]_enetVars => [TxP!Next]_(TxP!txVars)
    BY <1>2, TxStep, SameNext
  <1>. QED
    BY <1>1, <1>3, PTL DEF EnetSpec, TxP!Spec

-----------------------------------------------------------------------------
(* The handler.                                                            *)

(* At first no handler runs, and no task.                                  *)
LEMMA HandlerInit == EnetInit => HandlerInv
  BY DEF EnetInit, Init, Tx!Init, HandlerInv, Reader

(* The steps of reception: the handler's, with the transmit side idle, and *)
(* those of the tasks, which leave the handler alone.                      *)
LEMMA HandlerReads ==
  ASSUME TypeInv, HandlerInv, UNCHANGED txVars, Arrive \/ RxHandler \/ Release \/ Poller
  PROVE  HandlerInv'
  <1> USE DEF TypeInv, TypeOK, HandlerInv, Reader, GoTo
  <1>1. UNCHANGED txIsr
    BY DEF txVars
  <1>2. CASE Arrive \/ Release
    BY <1>1, <1>2 DEF Arrive, Release, driver
  <1>3. CASE RxHandler
    <2>1. pc'["poll"] = pc["poll"]
      BY <1>3 DEF RxHandler, Isr, IsrEnter, IsrCheck, EthernetifInput, GetRxFrameSize, Alloc,
                  Drop, ReadFrame, UpdateReadBuffers, Advance, ReadNothing, Input
    <2>. QED
      BY <1>1, <1>3, <2>1 DEF RxHandler
  <1>4. CASE Poller
    <2>1. pc'["isr"] = "idle" /\ pc'["poll"] # "check"
      BY <1>4 DEF Poller, NoInterrupt, Poll, EthernetifInput, GetRxFrameSize, Alloc, Drop,
                  ReadFrame, UpdateReadBuffers, Advance, ReadNothing, Input, Caller
    <2>. QED
      BY <2>1
  <1>. QED
    BY <1>2, <1>3, <1>4

(* No step of the interface breaks that.                                   *)
LEMMA HandlerStep ==
  TypeInv /\ HandlerInv /\ [EnetNext]_enetVars => HandlerInv'
  <1> SUFFICES ASSUME TypeInv, HandlerInv, [EnetNext]_enetVars
               PROVE  HandlerInv'
    OBVIOUS
  <1>1. CASE (Arrive \/ RxHandler \/ Release \/ Poller) /\ UNCHANGED txVars
    BY <1>1, HandlerReads
  <1>2. CASE Serve
    <2>1. UNCHANGED txIsr
      BY <1>2 DEF Serve, Tx!LowLevelOutput, txVars
    <2>. QED
      BY <1>2, <2>1 DEF HandlerInv, Serve, Process, driver
  <1>3. CASE TxHandler /\ UNCHANGED vars
    BY <1>3 DEF HandlerInv, TxHandler, vars, driver
  <1>4. CASE (Tx!Controller \/ TimerTask \/ Send \/ SendGoesOn) /\ UNCHANGED vars
    <2>1. UNCHANGED txIsr
      BY <1>4 DEF Tx!Controller, Tx!Transmit, Tx!FrameEvent, Tx!RingEmpty, TimerTask,
                  Tx!SetBits, Send, Tx!LowLevelOutput, SendGoesOn, Tx!Sending, Tx!SendBusy,
                  Tx!SendCopy, Tx!SendReady, Tx!SendAdvance, Tx!SendActive, Tx!WaitBits
    <2>. QED
      BY <1>4, <2>1 DEF HandlerInv, vars, driver
  <1>5. CASE UNCHANGED enetVars
    BY <1>5 DEF HandlerInv, enetVars, vars, driver, txVars
  <1>. QED
    BY <1>1, <1>2, <1>3, <1>4, <1>5 DEF EnetNext

(* So it holds throughout.                                                 *)
LEMMA HandlerHolds == EnetSpec => []HandlerInv
  BY TypeInit, TypeNext, RxStep, HandlerInit, HandlerStep, PTL DEF EnetSpec, EnetInit

-----------------------------------------------------------------------------
(* The interface keeps the promises of reception while it sends, and also  *)
(* while vTaskDHCP polls.                                                  *)
THEOREM ReceptionSafe == EnetSpec => [](PbufsConserved /\ NeverWedged)
  BY ReceptionRefines, NoPbufLeak, ReceptionNeverDies, PTL

(* Once vTaskDHCP has polled for the last time and has left driver and     *)
(* controller in step, they stay in step for good, and the handler never   *)
(* again reads a descriptor that holds no frame (fsl_enet.h:1179).         *)
THEOREM InStepForGood ==
  EnetSpec => [](polls = MaxPolls /\ InStep => [](InStep /\ ReadsOnlyReceived))
  <1> DEFINE S == polls = MaxPolls /\ InStep
  <1>1. TypeInv /\ S /\ [Next]_vars => S'
    <2> SUFFICES ASSUME TypeInv, S, [Next]_vars PROVE S'
      OBVIOUS
    <2>1. ~Poll
      BY FramesAssumption DEF Poll
    <2>2. polls' = polls
      BY <2>1 DEF Next, Isr, Arrive, IsrEnter, IsrCheck, EthernetifInput, GetRxFrameSize,
             Alloc, Drop, ReadFrame, UpdateReadBuffers, Advance, ReadNothing, Input,
             Process, Release, vars, driver
    <2>. QED
      BY <2>1, <2>2, InStepNext
  <1>2. S => InStep /\ ReadsOnlyReceived
    BY DEF InStep, ReadsOnlyReceived, Reader
  <1> HIDE DEF S
  <1>3. Spec => [](S => [](InStep /\ ReadsOnlyReceived))
    BY <1>1, <1>2, TypeInit, TypeNext, PTL DEF Spec
  <1>. QED
    BY <1>3, ReceptionRefines, PTL DEF S

(* The interface keeps the promises of transmission, also while frames     *)
(* come in and the handler is busy with them.                              *)
THEOREM TransmissionSafe == EnetSpec => [](Tx!NoLostWakeup /\ Tx!PendNeverFails)
  <1>1. TxP!Spec => [](TxP!NoLostWakeup /\ TxP!PendNeverFails)
    BY TxP!NeverStuck, TxP!CommandsAlwaysFit, PTL
  <1>2. TxP!NoLostWakeup /\ TxP!PendNeverFails => Tx!NoLostWakeup /\ Tx!PendNeverFails
    BY DEF TxP!NoLostWakeup, Tx!NoLostWakeup, TxP!WakeupComing, Tx!WakeupComing,
           TxP!PendNeverFails, Tx!PendNeverFails
  <1>. QED
    BY <1>1, <1>2, ProvedOfTx, PTL

(* What lwIP hands over goes on the wire once, whole and in order.         *)
THEOREM SendsInOrder == EnetSpec => Tx!ImplementsFrameChannel
  <1>1. TxP!Init => Tx!FC!Init
    BY DEF TxP!Init, Tx!FC!Init, Tx!Ready, Tx!TxDesc, TxP!TxDesc
  <1>2. TxP!FC!Accept <=> Tx!FC!Accept
    BY DEF TxP!FC!Accept, Tx!FC!Accept, Tx!Ready, Tx!TxDesc, TxP!Ready, TxP!TxDesc
  <1>3. TxP!FC!Deliver <=> Tx!FC!Deliver
    BY DEF TxP!FC!Deliver, Tx!FC!Deliver, Tx!Ready, Tx!TxDesc, TxP!Ready, TxP!TxDesc
  <1>4. UNCHANGED TxP!FC!channelVars <=> UNCHANGED Tx!FC!channelVars
    BY DEF TxP!FC!channelVars, Tx!FC!channelVars, Tx!Ready, Tx!TxDesc, TxP!Ready, TxP!TxDesc
  <1>5. [TxP!FC!Accept \/ TxP!FC!Deliver]_(TxP!FC!channelVars)
          => [Tx!FC!Accept \/ Tx!FC!Deliver]_(Tx!FC!channelVars)
    BY <1>2, <1>3, <1>4
  <1>. QED
    BY <1>1, <1>5, ProvedOfTx, TxP!RingIsChannel, PTL
       DEF TxP!Spec, TxP!ImplementsFrameChannel, TxP!FC!Spec,
           Tx!ImplementsFrameChannel, Tx!FC!Spec

-----------------------------------------------------------------------------
(* Neither direction holds the other up for good: while a frame is to be   *)
(* sent or received somebody can take a step, for every size of the rings, *)
(* the pools and the timer task's queue, and whatever a poll has done to   *)
(* the ring, unless it made the processor trap.                            *)
THEOREM InterfaceNeverHangs == EnetSpec => []NothingHangs
  <1>1. EnetSpec => []TxP!TypeOK
    BY ProvedOfTx, TxP!TypeCorrect, PTL
  <1>2. TxP!TypeOK => timerQueue \in Nat
    BY DEF TxP!TypeOK
  <1>3. ASSUME HandlerInv, timerQueue \in Nat, Tx!NoLostWakeup PROVE NothingHangs
    <2> SUFFICES ASSUME InWork, ~fault, ~HandlerRuns, ~TimerTaskRuns, ~PollerRuns
                 PROVE  ControllerRuns \/ SenderRuns \/ TcpipRuns
      BY DEF NothingHangs
    <2>1. NoInterrupt /\ pc["poll"] = "idle"
      BY <1>3 DEF HandlerInv, HandlerRuns, PollerRuns, NoInterrupt
    <2>2. timerQueue = 0
      BY <1>3, <2>1 DEF TimerTaskRuns
    <2>3. CASE txPc = "blocked"
      BY <1>3, <2>1, <2>2, <2>3 DEF Tx!NoLostWakeup, Tx!WakeupComing, ControllerRuns, NoInterrupt
    <2>4. CASE txPc = "idle"
      BY <2>1, <2>2, <2>4 DEF InWork, TcpipRuns, NoInterrupt
    <2>. QED
      BY <2>1, <2>2, <2>3, <2>4 DEF SenderRuns
  <1>. QED
    BY <1>1, <1>2, <1>3, HandlerHolds, TransmissionSafe, PTL
=============================================================================
