------------------------------- MODULE EnetTx -------------------------------
(* Transmission of Ethernet frames: low_level_output and enet_send_frame of *)
(* lwip/port/ethernetif.c with the transmit side of drivers/fsl_enet.c.     *)
(*                                                                          *)
(* The sender fills the descriptors of a ring and the controller empties    *)
(* them.  When the ring is full the sender waits in an event group, with no *)
(* timeout.  The interrupt handler may not touch an event group: it asks    *)
(* the kernel's timer task to set the bit, through a queue that may be full *)
(* (xEventGroupSetBitsFromISR), and ignores a refusal.                      *)
(*                                                                          *)
(* lwIP's core lock lets one task at a time send, the sender.  A transmit   *)
(* buffer holds a frame of any legal size, so that a frame takes one        *)
(* descriptor.  Bytes are abstracted to the number of the frame.            *)
EXTENDS Integers

CONSTANTS
    ENET_TXBD_NUM,              \* descriptors in the ring (3 in ethernetif.h)
    configTIMER_QUEUE_LENGTH,   \* commands that wait for the timer task (10)
    MaxSends                    \* bound on the number of frames

ASSUME TxRingAssumption == ENET_TXBD_NUM \in Nat /\ ENET_TXBD_NUM >= 2
ASSUME TxBoundAssumption == MaxSends \in Nat
(* Two events for each frame in the ring, and a late one.                  *)
ASSUME TimerQueueAssumption ==
    /\ configTIMER_QUEUE_LENGTH \in Nat
    /\ 2 * ENET_TXBD_NUM + 1 <= configTIMER_QUEUE_LENGTH

TxDesc == 0 .. ENET_TXBD_NUM - 1

VARIABLES
    (* the controller *)
    ready,                \* the ready bit of each descriptor
    buffer,               \* the frame in each descriptor's buffer
    txDma,                \* the descriptor the controller looks at next
    tdar,                 \* the ring is active
    late,                 \* the frame event of the last frame is still to come
    wire,                 \* the last frame on the wire
    txEir,                \* the transmit bits of the event register
    (* the driver *)
    txBdCurrent,          \* the descriptor to fill next
    txIsr,                \* where ENET_TransmitIRQHandler is
    txPc,                   \* where the sender is
    sends, accepted,      \* frames handed over and frames in a descriptor so far
    (* the kernel *)
    timerQueue,           \* commands that wait for the timer task
    txFlag                \* the bit in enetTransmitAccessEvent

controller == <<ready, buffer, txDma, tdar, late, wire>>
sender == <<txBdCurrent, txPc, sends, accepted>>
kernel == <<timerQueue, txFlag>>
txVars == <<controller, txEir, txIsr, sender, kernel>>

Init ==
    /\ ready = [d \in TxDesc |-> FALSE]
    /\ buffer = [d \in TxDesc |-> 0]
    /\ txDma = 0 /\ tdar = FALSE /\ late = FALSE /\ wire = 0
    /\ txEir = FALSE /\ txIsr = "idle"
    /\ txBdCurrent = 0 /\ txPc = "idle"
    /\ sends = 0 /\ accepted = 0
    /\ timerQueue = 0 /\ txFlag = FALSE

(* Fault: the last descriptor has no wrap flag.                            *)
TxNext_NoWrap(d) == d + 1

(* The wrap flag of the last descriptor leads back to the first.           *)
TxNext(d) == IF d = ENET_TXBD_NUM - 1 THEN 0 ELSE d + 1

-----------------------------------------------------------------------------
(* The controller.                                                         *)

(* A frame is on the wire and its descriptor free: the buffer event.  The  *)
(* frame event may follow a little later.                                  *)
Transmit ==
    /\ tdar /\ ~late /\ ready[txDma]
    /\ wire' = buffer[txDma]
    /\ ready' = [ready EXCEPT ![txDma] = FALSE]
    /\ txDma' = TxNext(txDma)
    /\ txEir' = TRUE
    /\ late' \in BOOLEAN
    /\ UNCHANGED <<buffer, tdar, txIsr, sender, kernel>>

FrameEvent ==
    /\ late
    /\ late' = FALSE /\ txEir' = TRUE
    /\ UNCHANGED <<ready, buffer, txDma, tdar, wire, txIsr, sender, kernel>>

(* A descriptor that is not ready ends the activity of the ring.           *)
RingEmpty ==
    /\ tdar /\ ~late /\ ~ready[txDma]
    /\ tdar' = FALSE
    /\ UNCHANGED <<ready, buffer, txDma, late, wire, txEir, txIsr, sender, kernel>>

Controller == Transmit \/ FrameEvent \/ RingEmpty

-----------------------------------------------------------------------------
(* The interrupt handler and the timer task.                               *)

(* ENET_TransmitIRQHandler clears the event...                             *)
TxIsrEnter ==
    /\ txIsr = "idle" /\ txEir
    /\ txIsr' = "callback" /\ txEir' = FALSE
    /\ UNCHANGED <<controller, sender, kernel>>

(* Fault: the callback forgets the transmit event.                         *)
TxCallback_Ignore ==
    /\ txIsr = "callback"
    /\ txIsr' = "check"
    /\ UNCHANGED <<controller, txEir, sender, kernel>>

(* ...and calls ethernet_callback, which asks the timer task to set the    *)
(* bit; a full queue refuses.                                              *)
TxCallback ==
    /\ txIsr = "callback"
    /\ \/ timerQueue < configTIMER_QUEUE_LENGTH /\ timerQueue' = timerQueue + 1
       \/ timerQueue = configTIMER_QUEUE_LENGTH /\ UNCHANGED timerQueue
    /\ txIsr' = "check"
    /\ UNCHANGED <<controller, txEir, sender, txFlag>>

(* It loops while there was another event in the meantime.                 *)
TxIsrCheck ==
    /\ txIsr = "check"
    /\ txIsr' = IF txEir THEN "callback" ELSE "idle"
    /\ txEir' = FALSE
    /\ UNCHANGED <<controller, sender, kernel>>

TxIsr == TxIsrEnter \/ TxCallback \/ TxIsrCheck

(* Fault: the bit is not kept for a sender that is about to wait.          *)
SetBits_Pulse ==
    /\ txIsr = "idle" /\ timerQueue > 0
    /\ timerQueue' = timerQueue - 1
    /\ txPc' = IF txPc = "blocked" THEN "try" ELSE txPc
    /\ UNCHANGED <<controller, txEir, txIsr, txBdCurrent, sends, accepted, txFlag>>

(* The timer task calls xEventGroupSetBits: a sender that waits goes on    *)
(* and takes the bit with it, else the bit is kept.                        *)
SetBits ==
    /\ txIsr = "idle" /\ timerQueue > 0
    /\ timerQueue' = timerQueue - 1
    /\ \/ txPc = "blocked" /\ txPc' = "try" /\ UNCHANGED txFlag
       \/ txPc # "blocked" /\ txFlag' = TRUE /\ UNCHANGED txPc
    /\ UNCHANGED <<controller, txEir, txIsr, txBdCurrent, sends, accepted>>

-----------------------------------------------------------------------------
(* The sender.                                                             *)

(* Fault: the timer task has a lower priority than the sender.             *)
SenderRuns_First == txIsr = "idle" /\ ~txEir

(* Interrupts come first, and the timer task (17) is above all others.     *)
SenderRuns == txIsr = "idle" /\ ~txEir /\ timerQueue = 0

(* low_level_output: the frame is one pbuf, or is copied into ucBuffer.    *)
LowLevelOutput ==
    /\ SenderRuns /\ txPc = "idle" /\ sends < MaxSends
    /\ sends' = sends + 1
    /\ txPc' = "try"
    /\ UNCHANGED <<controller, txEir, txIsr, txBdCurrent, accepted, kernel>>

(* ENET_SendFrame: no descriptor is free.                                  *)
SendBusy ==
    /\ SenderRuns /\ txPc = "try" /\ ready[txBdCurrent]
    /\ txPc' = "wait"
    /\ UNCHANGED <<controller, txEir, txIsr, txBdCurrent, sends, accepted, kernel>>

(* Fault: the ready bit of the descriptor is not tested.                   *)
SendCopy_NoTest ==
    /\ SenderRuns /\ txPc = "try"
    /\ buffer' = [buffer EXCEPT ![txBdCurrent] = sends]
    /\ txPc' = "ready"
    /\ UNCHANGED <<ready, txDma, tdar, late, wire, txEir, txIsr, txBdCurrent, sends, accepted, kernel>>

(* ENET_SendFrame copies the frame into the descriptor's buffer...         *)
SendCopy ==
    /\ SenderRuns /\ txPc = "try" /\ ~ready[txBdCurrent]
    /\ buffer' = [buffer EXCEPT ![txBdCurrent] = sends]
    /\ txPc' = "ready"
    /\ UNCHANGED <<ready, txDma, tdar, late, wire, txEir, txIsr, txBdCurrent, sends, accepted, kernel>>

(* ...hands the descriptor over...                                         *)
SendReady ==
    /\ SenderRuns /\ txPc = "ready"
    /\ ready' = [ready EXCEPT ![txBdCurrent] = TRUE]
    /\ accepted' = accepted + 1
    /\ txPc' = "advance"
    /\ UNCHANGED <<buffer, txDma, tdar, late, wire, txEir, txIsr, txBdCurrent, sends, kernel>>

(* ...moves on to the next one...                                          *)
SendAdvance ==
    /\ SenderRuns /\ txPc = "advance"
    /\ txBdCurrent' = TxNext(txBdCurrent)
    /\ txPc' = "active"
    /\ UNCHANGED <<controller, txEir, txIsr, sends, accepted, kernel>>

(* Fault: the ring is not activated.                                       *)
SendActive_Forgotten ==
    /\ SenderRuns /\ txPc = "active"
    /\ tdar' = (tdar \/ ~(\E d \in TxDesc : ready[d]))
    /\ txPc' = "idle"
    /\ UNCHANGED <<ready, buffer, txDma, late, wire, txEir, txIsr, txBdCurrent, sends, accepted, kernel>>

(* ...and activates the ring (ENET_ActiveSend).                            *)
SendActive ==
    /\ SenderRuns /\ txPc = "active"
    /\ tdar' = TRUE
    /\ txPc' = "idle"
    /\ UNCHANGED <<ready, buffer, txDma, late, wire, txEir, txIsr, txBdCurrent, sends, accepted, kernel>>

(* Fault: a bit of an earlier frame is cleared before the waiting.         *)
WaitBits_ClearFirst ==
    /\ SenderRuns /\ txPc = "wait"
    /\ txFlag' = FALSE /\ txPc' = "blocked"
    /\ UNCHANGED <<controller, txEir, txIsr, txBdCurrent, sends, accepted, timerQueue>>

(* xEventGroupWaitBits takes the bit if it is set and waits for it else;   *)
(* the scheduler is suspended between the test and the waiting.            *)
WaitBits ==
    /\ SenderRuns /\ txPc = "wait"
    /\ \/ txFlag /\ txFlag' = FALSE /\ txPc' = "try"
       \/ ~txFlag /\ UNCHANGED txFlag /\ txPc' = "blocked"
    /\ UNCHANGED <<controller, txEir, txIsr, txBdCurrent, sends, accepted, timerQueue>>

Sending ==
    \/ SendBusy \/ SendCopy \/ SendReady \/ SendAdvance \/ SendActive
    \/ WaitBits

-----------------------------------------------------------------------------
Next == Controller \/ TxIsr \/ SetBits \/ LowLevelOutput \/ Sending

Spec == Init /\ [][Next]_txVars

-----------------------------------------------------------------------------
(* The types of all variables.                                             *)
TypeOK ==
    /\ ready \in [TxDesc -> BOOLEAN] /\ buffer \in [TxDesc -> 0 .. MaxSends]
    /\ txDma \in TxDesc /\ txBdCurrent \in TxDesc
    /\ tdar \in BOOLEAN /\ late \in BOOLEAN /\ txEir \in BOOLEAN /\ txFlag \in BOOLEAN
    /\ wire \in 0 .. MaxSends /\ sends \in 0 .. MaxSends /\ accepted \in 0 .. MaxSends
    /\ txIsr \in {"idle", "callback", "check"}
    /\ txPc \in {"idle", "try", "ready", "advance", "active", "wait", "blocked"}
    /\ timerQueue \in 0 .. configTIMER_QUEUE_LENGTH

(* A wake-up is on its way: a frame the controller is going to send, or an *)
(* event in the register, the handler or the timer queue.                  *)
WakeupComing ==
    \/ tdar /\ ready[txDma]
    \/ late \/ txEir \/ txIsr = "callback" \/ timerQueue > 0

(* A sender that waits, without a timeout, will be woken                   *)
(* (ethernetif.c:597), whatever came between its look at the descriptor    *)
(* and its waiting, and however old the bit it may have found.             *)
NoLostWakeup == txPc = "blocked" => WakeupComing

(* The timer queue always has room for the handler's command               *)
(* (ethernetif.c:181), which would otherwise be lost with the wake-up:     *)
(* nobody sends before the timer task has emptied it.                      *)
PendNeverFails == txIsr = "callback" => timerQueue < configTIMER_QUEUE_LENGTH

Ready == {d \in TxDesc : ready[d]}

FC == INSTANCE FrameChannel WITH
        Capacity <- ENET_TXBD_NUM, inFlight <- {buffer[d] : d \in Ready}

(* The ring is a channel (fsl_enet.c:1315): what the sender has handed     *)
(* over goes on the wire once, whole and in order, and a buffer is not     *)
(* written while the controller may still read it.                         *)
ImplementsFrameChannel == FC!Spec

-----------------------------------------------------------------------------
(* What the proofs need besides.                                           *)

(* How far d lies ahead of the controller, and the frames in the ring.     *)
TxDist(d) == IF d >= txDma THEN d - txDma ELSE d - txDma + ENET_TXBD_NUM
Filled == accepted - wire

(* The descriptor that is filled next.                                     *)
Fill == IF txPc = "advance" THEN TxNext(txBdCurrent) ELSE txBdCurrent

(* From the controller's position on the ring holds the frames that are on *)
(* their way, in order and without a gap, up to the one filled next.       *)
TxRingInv ==
    /\ 0 <= Filled /\ Filled <= ENET_TXBD_NUM
    /\ TxDist(Fill) = Filled \/ (Fill = txDma /\ Filled = ENET_TXBD_NUM)
    /\ \A d \in TxDesc :
         /\ ready[d] <=> TxDist(d) < Filled
         /\ ready[d] => buffer[d] = wire + 1 + TxDist(d)

(* The sender has one frame in its hands, or none.                         *)
SenderInv ==
    /\ sends = IF txPc \in {"idle", "advance", "active"} THEN accepted ELSE accepted + 1
    /\ txPc = "ready" => ~ready[txBdCurrent] /\ buffer[txBdCurrent] = sends

(* A ring with frames is active, or is just about to be activated.         *)
ActiveInv == Filled > 0 => tdar \/ txPc \in {"advance", "active"}

(* The wake-up is safe from the moment the ring was found full.            *)
WakeInv ==
    txPc = "blocked" \/ (txPc = "wait" /\ ~txFlag) => WakeupComing

One(b) == IF b THEN 1 ELSE 0

(* Commands for the timer task, now or later, before the sender's turn.    *)
PendInv ==
    timerQueue + One(txIsr = "callback") + One(txEir) + One(late) + 2 * Filled
        <= 2 * ENET_TXBD_NUM + 1

TxInv == TypeOK /\ TxRingInv /\ SenderInv /\ ActiveInv /\ WakeInv /\ PendInv
=============================================================================
