-------------------------------- MODULE Enet --------------------------------
(* The Ethernet interface as a whole: reception (EnetRx) and transmission   *)
(* (EnetTx) have one interrupt handler, ENET_CommonFrame0IRQHandler, and    *)
(* one user, lwIP, whose core lock is held from the frame that comes in to  *)
(* the answer that goes out.  A full transmit ring therefore holds up       *)
(* reception.                                                               *)
EXTENDS EnetRx

CONSTANTS ENET_TXBD_NUM, configTIMER_QUEUE_LENGTH, MaxSends

(* As EnetTx assumes.                                                      *)
ASSUME SendAssumption ==
    /\ ENET_TXBD_NUM \in Nat /\ ENET_TXBD_NUM >= 2
    /\ MaxSends \in Nat
    /\ configTIMER_QUEUE_LENGTH \in Nat
    /\ 2 * ENET_TXBD_NUM + 1 <= configTIMER_QUEUE_LENGTH

VARIABLES
    ready, buffer, txDma, tdar, late, wire, txEir,
    txBdCurrent, txIsr, txPc, sends, accepted,
    timerQueue, txFlag

Tx == INSTANCE EnetTx

txVars == <<ready, buffer, txDma, tdar, late, wire, txEir,
            txBdCurrent, txIsr, txPc, sends, accepted, timerQueue, txFlag>>
enetVars == <<vars, txVars>>

EnetInit == Init /\ Tx!Init

-----------------------------------------------------------------------------
(* The handler serves one direction after the other.                       *)
RxHandler == Isr /\ txIsr = "idle"
TxHandler == Tx!TxIsr /\ pc["isr"] = "idle" /\ ~fault

(* No task runs during the handler or while there is something for it.     *)
NoInterrupt == ~fault /\ pc["isr"] = "idle" /\ ~eir /\ txIsr = "idle" /\ ~txEir

(* The tcpip thread takes a frame when nobody sends, and may answer it.    *)
Serve ==
    /\ NoInterrupt /\ timerQueue = 0 /\ txPc = "idle"
    /\ Process
    /\ Tx!LowLevelOutput \/ UNCHANGED txVars

(* A task sends on its own account, through the socket interface.          *)
Send == NoInterrupt /\ Tx!LowLevelOutput

SendGoesOn == NoInterrupt /\ Tx!Sending

TimerTask == NoInterrupt /\ Tx!SetBits

(* vTaskDHCP polls the receive ring until there is an address.             *)
Poller == NoInterrupt /\ (Poll \/ EthernetifInput("poll"))

EnetNext ==
    \/ (Arrive \/ RxHandler \/ Release \/ Poller) /\ UNCHANGED txVars
    \/ (Tx!Controller \/ TxHandler \/ TimerTask \/ Send \/ SendGoesOn) /\ UNCHANGED vars
    \/ Serve

(* Interrupts are served, the timer task and the tcpip thread are above    *)
(* the others, and a sender holds lwIP's lock, which the tcpip thread      *)
(* waits for, so that it inherits that thread's priority.                  *)
EnetSpec ==
    /\ EnetInit /\ [][EnetNext]_enetVars
    /\ WF_enetVars(RxHandler /\ UNCHANGED txVars)
    /\ WF_enetVars((TxHandler \/ Tx!Controller) /\ UNCHANGED vars)
    /\ WF_enetVars((TimerTask \/ SendGoesOn) /\ UNCHANGED vars)
    /\ WF_enetVars(NoInterrupt /\ EthernetifInput("poll") /\ UNCHANGED txVars)
    /\ WF_enetVars(Serve)

-----------------------------------------------------------------------------
(* Every frame that is handed over is sent (ethernetif.c:597), with frames *)
(* coming in all the time and the handler busy with them, unless a poll    *)
(* made the processor trap.  Frames handed over meanwhile are sent, too,   *)
(* of which there are MaxSends at most.                                    *)
EveryFrameSent == sends > wire ~> fault \/ sends = wire

(* vTaskDHCP is past its last poll and has left the ring in step.          *)
PollsOver == polls = MaxPolls /\ pc["poll"] = "idle" /\ InSync /\ ~fault

AllGood == \A d \in Full : desc[d].ok

(* A frame the handler is called for reaches the tcpip thread              *)
(* (fsl_enet.c:2643), however arrivals, the handler's loop and a full      *)
(* transmit ring interleave, once vTaskDHCP has polled for the last time   *)
(* (usr_enet.c:193), as long as the pools suffice and no frame with an     *)
(* error comes in, with which the handler stops.                           *)
DeliveredAfterPolls ==
    \A n \in 1 .. MaxFrames :
        eir /\ n \in GoodInRing /\ AllGood /\ PollsOver ~> last >= n \/ ~AllGood

(* Who can take a step: the guards of the actions above.                   *)
HandlerRuns ==
    \/ (pc["isr"] # "idle" \/ eir) /\ txIsr = "idle" /\ ~fault
    \/ (txIsr # "idle" \/ txEir) /\ pc["isr"] = "idle" /\ ~fault
ControllerRuns == tdar \/ late
TimerTaskRuns == NoInterrupt /\ timerQueue > 0
SenderRuns == NoInterrupt /\ timerQueue = 0 /\ txPc \notin {"idle", "blocked"}
PollerRuns == NoInterrupt /\ pc["poll"] \notin {"idle", "check"}
TcpipRuns == NoInterrupt /\ timerQueue = 0 /\ txPc = "idle" /\ mbox # <<>>

InWork ==
    \/ mbox # <<>> \/ eir \/ pc["isr"] # "idle" \/ pc["poll"] # "idle"
    \/ txEir \/ txIsr # "idle" \/ txPc # "idle"

(* Reception and transmission cannot hold each other up for good           *)
(* (ethernetif.c:597 waits without a timeout, with lwIP's lock that the    *)
(* tcpip thread needs): as long as there is a frame to send or to receive  *)
(* somebody can take a step, whatever the pools and the rings are like     *)
(* and whatever a poll has done to them, unless the processor trapped.     *)
NothingHangs ==
    InWork /\ ~fault =>
        HandlerRuns \/ ControllerRuns \/ TimerTaskRuns \/ SenderRuns \/ PollerRuns \/ TcpipRuns

-----------------------------------------------------------------------------
(* What the proofs need besides: the handler is in one direction at a      *)
(* time, and the task is not the handler.                                  *)
HandlerInv ==
    /\ pc["isr"] = "idle" \/ txIsr = "idle"
    /\ pc["poll"] # "check"
=============================================================================
