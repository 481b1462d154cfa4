------------------------------- MODULE EnetRx -------------------------------
(* Reception of Ethernet frames: ethernetif_input of lwip/port/ethernetif.c *)
(* with the receive side of drivers/fsl_enet.c below it and tcpip_input of  *)
(* lwIP above it.                                                           *)
(*                                                                          *)
(* The controller fills the descriptors of a ring and raises EIR.  Two      *)
(* readers empty it through the same code: the interrupt handler, and, as   *)
(* long as there is no address, the task vTaskDHCP, which the handler may   *)
(* preempt anywhere.  A reader moves a frame to a pbuf and posts the pbuf   *)
(* to the tcpip thread.                                                     *)
(*                                                                          *)
(* A receive buffer holds a frame of any legal size, so that a frame takes  *)
(* one descriptor.  The bytes of a frame are abstracted to its number.      *)
EXTENDS Integers, Sequences, FiniteSets

CONSTANTS
    ENET_RXBD_NUM,        \* descriptors in the ring (5 in ethernetif.h)
    PBUF_POOL_SIZE,       \* pbufs for received frames (9 in lwipopts.h)
    MEMP_NUM_TCPIP_MSG_INPKT, \* messages that carry them (8 in opt.h)
    Lengths,              \* the lengths of frames
    BadFrames,            \* may frames with an error bit arrive
    MaxFrames,            \* bound on the number of frames
    MaxPolls              \* bound on the polls of vTaskDHCP, 0 once it is gone

ASSUME RingAssumption == ENET_RXBD_NUM \in Nat /\ ENET_RXBD_NUM >= 2
ASSUME PoolsAssumption ==
    PBUF_POOL_SIZE \in Nat /\ MEMP_NUM_TCPIP_MSG_INPKT \in Nat
ASSUME FramesAssumption ==
    /\ Lengths # {} /\ Lengths \subseteq Nat \ {0}
    /\ BadFrames \in BOOLEAN
    /\ MaxFrames \in Nat /\ MaxPolls \in Nat

Desc == 0 .. ENET_RXBD_NUM - 1
Reader == {"isr", "poll"}
Garbage == 0              \* what a pbuf holds that no frame was copied to

Empty == [n |-> 0, len |-> 0, ok |-> FALSE]
Frame == [n : 1 .. MaxFrames, len : Lengths, ok : BOOLEAN]

VARIABLES
    (* the controller *)
    desc,                 \* each descriptor: Empty, or the frame in it
    dma,                  \* the descriptor it fills next
    arrived,              \* frames received so far
    eir,                  \* the receive bits of the event register
    (* the driver's handle and the two readers *)
    rxBdCurrent,          \* the descriptor to read next
    pc, len, p,           \* of each reader: place, frame length, pbuf content
    polls,                \* polls of the task so far
    fault,                \* a copy ran away and the processor trapped
    (* lwIP *)
    pbufs, msgs,          \* free pbufs and free messages
    mbox,                 \* frames on their way to the tcpip thread
    held,                 \* pbufs that wait in the stack for a user
    last                  \* the frame the tcpip thread got last

hw == <<desc, dma, arrived>>
driver == <<rxBdCurrent, pc, len, p, polls, fault>>
lwip == <<pbufs, msgs, mbox, held, last>>
vars == <<hw, eir, driver, lwip>>

Init ==
    /\ desc = [d \in Desc |-> Empty]
    /\ dma = 0 /\ arrived = 0 /\ eir = FALSE
    /\ rxBdCurrent = 0
    /\ pc = [r \in Reader |-> "idle"]
    /\ len = [r \in Reader |-> 0]
    /\ p = [r \in Reader |-> Garbage]
    /\ polls = 0 /\ fault = FALSE
    /\ pbufs = PBUF_POOL_SIZE /\ msgs = MEMP_NUM_TCPIP_MSG_INPKT
    /\ mbox = <<>> /\ held = 0 /\ last = 0

-----------------------------------------------------------------------------
(* The ring.                                                               *)

(* The wrap flag of the last descriptor leads back to the first.           *)
NextBd(d) == IF d = ENET_RXBD_NUM - 1 THEN 0 ELSE d + 1

(* How far d lies ahead of the reading position.                           *)
Dist(d) == IF d >= rxBdCurrent THEN d - rxBdCurrent
                               ELSE d - rxBdCurrent + ENET_RXBD_NUM

Full == {d \in Desc : desc[d] # Empty}

(* A frame is complete: the controller closes the descriptor and raises    *)
(* EIR.  Without an empty descriptor the frame is lost in its FIFO.        *)
Arrive ==
    /\ ~fault /\ arrived < MaxFrames
    /\ desc[dma] = Empty
    /\ \E l \in Lengths, ok \in BOOLEAN :
         /\ ~BadFrames => ok
         /\ desc' = [desc EXCEPT ![dma] = [n |-> arrived + 1, len |-> l, ok |-> ok]]
    /\ dma' = NextBd(dma)
    /\ arrived' = arrived + 1
    /\ eir' = TRUE
    /\ UNCHANGED <<driver, lwip>>

-----------------------------------------------------------------------------
(* Who runs.  The handler interrupts the task; the task has not got that   *)
(* far while an interrupt is pending.                                      *)

MayRun(r) ==
    /\ ~fault
    /\ r = "poll" => pc["isr"] = "idle" /\ ~eir

GoTo(r, place) == pc' = [pc EXCEPT ![r] = place]

(* Where ethernetif_input returns to.                                      *)
Caller(r) == IF r = "isr" THEN "check" ELSE "idle"

(* An event: ENET_ReceiveIRQHandler clears it and calls ethernetif_input.  *)
IsrEnter ==
    /\ MayRun("isr") /\ pc["isr"] = "idle" /\ eir
    /\ GoTo("isr", "size")
    /\ eir' = FALSE
    /\ UNCHANGED <<hw, rxBdCurrent, len, p, polls, fault, lwip>>

(* Fault: the event is cleared after the callback instead of before it.    *)
IsrCheck_ClearAfter ==
    /\ MayRun("isr") /\ pc["isr"] = "check"
    /\ GoTo("isr", "idle")
    /\ eir' = FALSE
    /\ UNCHANGED <<hw, rxBdCurrent, len, p, polls, fault, lwip>>

(* The handler loops while there was another event in the meantime.        *)
IsrCheck ==
    /\ MayRun("isr") /\ pc["isr"] = "check"
    /\ GoTo("isr", IF eir THEN "size" ELSE "idle")
    /\ eir' = FALSE
    /\ UNCHANGED <<hw, rxBdCurrent, len, p, polls, fault, lwip>>

(* vTaskDHCP polls the driver once more.                                   *)
Poll ==
    /\ MayRun("poll") /\ pc["poll"] = "idle" /\ polls < MaxPolls
    /\ GoTo("poll", "size")
    /\ polls' = polls + 1
    /\ UNCHANGED <<hw, eir, rxBdCurrent, len, p, fault, lwip>>

-----------------------------------------------------------------------------
(* ethernetif_input, for either reader.                                    *)

(* Fault: the error bits are not tested.                                   *)
GetRxFrameSize_NoErrors(r) ==
    /\ MayRun(r) /\ pc[r] = "size"
    /\ LET f == desc[rxBdCurrent] IN
         \/ f = Empty /\ GoTo(r, Caller(r)) /\ UNCHANGED len
         \/ /\ f # Empty
            /\ GoTo(r, "alloc")
            /\ len' = [len EXCEPT ![r] = f.len]
    /\ UNCHANGED <<hw, eir, rxBdCurrent, p, polls, fault, lwip>>

(* ENET_GetRxFrameSize: nothing received, a good frame, or one with an     *)
(* error.                                                                  *)
GetRxFrameSize(r) ==
    /\ MayRun(r) /\ pc[r] = "size"
    /\ LET f == desc[rxBdCurrent] IN
         \/ f = Empty /\ GoTo(r, Caller(r)) /\ UNCHANGED len
         \/ f # Empty /\ ~f.ok /\ GoTo(r, "drop") /\ UNCHANGED len
         \/ /\ f # Empty /\ f.ok
            /\ GoTo(r, "alloc")
            /\ len' = [len EXCEPT ![r] = f.len]
    /\ UNCHANGED <<hw, eir, rxBdCurrent, p, polls, fault, lwip>>

(* Fault: the result of pbuf_alloc is not tested.                          *)
Alloc_NoTest(r) ==
    /\ MayRun(r) /\ pc[r] = "alloc"
    /\ pbufs' = pbufs - 1 /\ GoTo(r, "read")
    /\ UNCHANGED <<hw, eir, rxBdCurrent, len, p, polls, fault, msgs, mbox, held, last>>

(* pbuf_alloc.                                                             *)
Alloc(r) ==
    /\ MayRun(r) /\ pc[r] = "alloc"
    /\ \/ pbufs > 0 /\ pbufs' = pbufs - 1 /\ GoTo(r, "read")
       \/ pbufs = 0 /\ UNCHANGED pbufs /\ GoTo(r, "drop")
    /\ UNCHANGED <<hw, eir, rxBdCurrent, len, p, polls, fault, msgs, mbox, held, last>>

(* Fault: a frame that is not wanted stays in its descriptor.              *)
Drop_KeepFrame(r) ==
    /\ MayRun(r) /\ pc[r] = "drop"
    /\ GoTo(r, Caller(r))
    /\ UNCHANGED <<hw, eir, rxBdCurrent, len, p, polls, fault, lwip>>

(* enet_read_frame without a buffer: give back the descriptors up to the   *)
(* end of the next frame.  low_level_input returns NULL, and that ends     *)
(* ethernetif_input.                                                       *)
Drop(r) ==
    /\ MayRun(r) /\ pc[r] = "drop"
    /\ \/ Full = {} /\ UNCHANGED <<desc, rxBdCurrent>>
       \/ \E d \in Full :
            /\ \A e \in Full : Dist(d) <= Dist(e)
            /\ desc' = [desc EXCEPT ![d] = Empty]
            /\ rxBdCurrent' = NextBd(d)
    /\ GoTo(r, Caller(r))
    /\ UNCHANGED <<dma, arrived, eir, len, p, polls, fault, lwip>>

(* enet_read_frame into the pbuf, ENET_ReadFrame on a received descriptor: *)
(* the frame is copied if it has the length the reader asked for.          *)
ReadFrame(r) ==
    /\ MayRun(r) /\ pc[r] = "read"
    /\ LET f == desc[rxBdCurrent] IN
         /\ f # Empty
         /\ p' = [p EXCEPT ![r] = IF f.len = len[r] THEN f.n ELSE Garbage]
    /\ GoTo(r, "update")
    /\ UNCHANGED <<hw, eir, rxBdCurrent, len, polls, fault, lwip>>

(* Fault: the descriptor is not given back to the controller.              *)
UpdateReadBuffers_NoReturn(r) ==
    /\ MayRun(r) /\ pc[r] = "update"
    /\ rxBdCurrent' = NextBd(rxBdCurrent)
    /\ GoTo(r, "input")
    /\ UNCHANGED <<hw, eir, len, p, polls, fault, lwip>>

(* Then the descriptor the handle points to by now is given back, which is *)
(* another one if the handler has read the same frame meanwhile, and the   *)
(* handle moves on.  The handler can preempt the task between the two; the *)
(* handler's own two steps nobody sees apart, for the controller does not  *)
(* look at the handle.                                                     *)
UpdateReadBuffers(r) ==
    /\ MayRun(r) /\ pc[r] = "update"
    /\ desc' = [desc EXCEPT ![rxBdCurrent] = Empty]
    /\ \/ r = "isr" /\ rxBdCurrent' = NextBd(rxBdCurrent) /\ GoTo(r, "input")
       \/ r = "poll" /\ UNCHANGED rxBdCurrent /\ GoTo(r, "advance")
    /\ UNCHANGED <<dma, arrived, eir, len, p, polls, fault, lwip>>

(* The task moves the handle on, from wherever it points to by now.        *)
Advance(r) ==
    /\ MayRun(r) /\ r = "poll" /\ pc[r] = "advance"
    /\ rxBdCurrent' = NextBd(rxBdCurrent)
    /\ GoTo(r, "input")
    /\ UNCHANGED <<hw, eir, len, p, polls, fault, lwip>>

(* ENET_ReadFrame on an empty descriptor: without its last flag it passes  *)
(* for the beginning of a longer frame.  Its whole buffer is copied and    *)
(* the descriptor skipped.  The next one ends the frame if it is full; a   *)
(* wrong length just drops it, the right length leaves less than nothing   *)
(* to copy, which wraps around and traps.                                  *)
ReadNothing(r) ==
    /\ MayRun(r) /\ pc[r] = "read"
    /\ desc[rxBdCurrent] = Empty
    /\ p' = [p EXCEPT ![r] = Garbage]
    /\ LET next == NextBd(rxBdCurrent) IN
         \/ desc[next] = Empty /\ rxBdCurrent' = next /\ UNCHANGED <<desc, fault>>
         \/ /\ desc[next] # Empty
            /\ fault' = (desc[next].len = len[r])
            /\ desc' = [desc EXCEPT ![next] = Empty]
            /\ rxBdCurrent' = NextBd(next)
    /\ GoTo(r, "input")
    /\ UNCHANGED <<dma, arrived, eir, len, polls, lwip>>

(* Fault: the pbuf is not freed when tcpip_input refuses it.               *)
Input_Leak(r) ==
    /\ MayRun(r) /\ pc[r] = "input"
    /\ \/ /\ msgs > 0
          /\ msgs' = msgs - 1
          /\ mbox' = Append(mbox, p[r])
       \/ msgs = 0 /\ UNCHANGED <<msgs, mbox>>
    /\ GoTo(r, "size")
    /\ UNCHANGED <<hw, eir, rxBdCurrent, len, p, polls, fault, pbufs, held, last>>

(* tcpip_input posts the pbuf to the tcpip thread; without a message for   *)
(* it the pbuf is freed.  Either way the loop goes on.                     *)
Input(r) ==
    /\ MayRun(r) /\ pc[r] = "input"
    /\ \/ /\ msgs > 0
          /\ msgs' = msgs - 1
          /\ mbox' = Append(mbox, p[r])
          /\ UNCHANGED pbufs
       \/ /\ msgs = 0
          /\ pbufs' = pbufs + 1
          /\ UNCHANGED <<msgs, mbox>>
    /\ GoTo(r, "size")
    /\ UNCHANGED <<hw, eir, rxBdCurrent, len, p, polls, fault, held, last>>

-----------------------------------------------------------------------------
(* The tcpip thread takes a message; the stack may keep the pbuf until a   *)
(* user has read it.                                                       *)
Process ==
    /\ ~fault /\ pc["isr"] = "idle"
    /\ mbox # <<>>
    /\ mbox' = Tail(mbox) /\ last' = Head(mbox)
    /\ msgs' = msgs + 1 /\ held' = held + 1
    /\ UNCHANGED <<hw, eir, driver, pbufs>>

(* pbuf_free, by the stack or by the user of a socket.                     *)
Release ==
    /\ ~fault /\ pc["isr"] = "idle"
    /\ held > 0
    /\ held' = held - 1 /\ pbufs' = pbufs + 1
    /\ UNCHANGED <<hw, eir, driver, msgs, mbox, last>>

EthernetifInput(r) ==
    \/ GetRxFrameSize(r) \/ Alloc(r) \/ Drop(r)
    \/ ReadFrame(r) \/ UpdateReadBuffers(r) \/ Advance(r) \/ ReadNothing(r)
    \/ Input(r)

Isr == IsrEnter \/ IsrCheck \/ EthernetifInput("isr")

Next ==
    \/ Arrive
    \/ Isr
    \/ Poll \/ EthernetifInput("poll")
    \/ Process \/ Release

Spec == Init /\ [][Next]_vars

-----------------------------------------------------------------------------
(* The types of all variables.                                             *)
TypeOK ==
    /\ desc \in [Desc -> Frame \cup {Empty}]
    /\ dma \in Desc /\ rxBdCurrent \in Desc
    /\ arrived \in 0 .. MaxFrames
    /\ eir \in BOOLEAN /\ fault \in BOOLEAN
    /\ pc \in [Reader -> {"idle", "check", "size", "alloc", "drop", "read",
                           "update", "advance", "input"}]
    /\ len \in [Reader -> Lengths \cup {0}]
    /\ p \in [Reader -> 0 .. MaxFrames]
    /\ polls \in 0 .. MaxPolls
    /\ pbufs \in 0 .. PBUF_POOL_SIZE
    /\ msgs \in 0 .. MEMP_NUM_TCPIP_MSG_INPKT
    /\ mbox \in Seq(0 .. MaxFrames)
    /\ held \in 0 .. PBUF_POOL_SIZE
    /\ last \in 0 .. MaxFrames

(* The oldest frame in the ring, or the next to come.                      *)
First == IF desc[rxBdCurrent] = Empty THEN arrived + 1 ELSE desc[rxBdCurrent].n

(* The frames in the ring.                                                 *)
InRing == arrived + 1 - First

InSync ==
    /\ 0 <= InRing /\ InRing <= ENET_RXBD_NUM
    /\ Dist(dma) = InRing \/ (dma = rxBdCurrent /\ Full = Desc)
    /\ \A d \in Desc :
         /\ desc[d] # Empty <=> Dist(d) < InRing
         /\ desc[d] # Empty => desc[d].n = First + Dist(d)

(* Driver and controller agree on the ring (fsl_enet.c:1275): from the     *)
(* reading position on it holds the frames not read yet, in the order they *)
(* arrived and without a gap, and the controller fills the one after them. *)
(* Only the polling task can break that.                                   *)
RingInSync == polls = 0 => InSync

(* Reception cannot die (ethernetif.c:1028): a full ring raises no event   *)
(* any more, so the handler must never leave one behind, whatever it had   *)
(* to drop and wherever it stopped.                                        *)
NeverWedged ==
    pc["isr"] \in {"idle", "check"} /\ ~eir => \E d \in Desc : desc[d] = Empty

(* Does the reader have a pbuf of its own.                                 *)
InHand(r) == IF pc[r] \in {"read", "update", "advance", "input"} THEN 1 ELSE 0

(* No path of ethernetif_input and tcpip_input leaks a pbuf                *)
(* (ethernetif.c:926-1035): each is free, with a reader, in the mailbox,  *)
(* or held in the stack.                                                   *)
PbufsConserved ==
    pbufs + InHand("isr") + InHand("poll") + Len(mbox) + held = PBUF_POOL_SIZE

(* The tcpip thread sees the frames in the order of the wire, none twice,  *)
(* whatever is dropped in between, as long as the handler reads alone.     *)
FramesInOrder == [][polls' = 0 /\ last' # last => last' > last]_vars

(* The good frames that may still reach the tcpip thread: in the ring, with *)
(* the handler, and in the mailbox.                                        *)
GoodInRing == {desc[d].n : d \in {e \in Full : desc[e].ok}}
WithHandler == IF pc["isr"] = "input" THEN {p["isr"]} ELSE {}
InMailbox == {mbox[i] : i \in 1 .. Len(mbox)}
OnTheWay == GoodInRing \cup WithHandler \cup InMailbox

LC == INSTANCE LossyChannel WITH onTheWay <- OnTheWay, oneReader <- polls = 0

(* Reception is a channel that loses frames and nothing worse              *)
(* (ethernetif.c:926-1035): what reaches the tcpip thread is a good frame, *)
(* of the length that was announced, once, in the order of the wire.       *)
ImplementsLossyChannel == LC!Spec

(* "kStatus_ENET_RxFrameEmpty No frame received. Should not call           *)
(* ENET_ReadFrame to read frame." (fsl_enet.h:1179)                        *)
ReadsOnlyReceived ==
    \A r \in Reader : MayRun(r) /\ pc[r] = "read" => desc[rxBdCurrent] # Empty

-----------------------------------------------------------------------------
(* What the proofs need besides: the messages are conserved as well, and   *)
(* the types that do not follow from the two conservations.                *)
MsgsConserved == msgs + Len(mbox) = MEMP_NUM_TCPIP_MSG_INPKT

TypeInv == TypeOK /\ PbufsConserved /\ MsgsConserved

(* The ring is in step and no poll is under way: the handler finds in the  *)
(* ring what it has sized.                                                 *)
InStep ==
    /\ InSync
    /\ pc["poll"] = "idle"
    /\ pc["isr"] \in {"alloc", "drop", "read", "update"} => desc[rxBdCurrent] # Empty
    /\ pc["isr"] \in {"alloc", "read"} => len["isr"] = desc[rxBdCurrent].len

(* Which it is until the task polls.                                       *)
RingInv == polls = 0 => InStep

(* The handler copies good frames only.                                    *)
GoodInv ==
    polls = 0 /\ pc["isr"] \in {"alloc", "read", "update"} => desc[rxBdCurrent].ok

(* Frames go up in order: those below, in the mailbox, in the handler's    *)
(* pbuf and in the ring.                                                   *)
OrderInv ==
    polls = 0 =>
        /\ last < First
        /\ \A i \in 1 .. Len(mbox) : last < mbox[i] /\ mbox[i] < First
        /\ \A i, j \in 1 .. Len(mbox) : i < j => mbox[i] < mbox[j]
        /\ pc["isr"] = "update" => p["isr"] = First
        /\ pc["isr"] = "input" =>
             /\ last < p["isr"] /\ p["isr"] < First
             /\ \A i \in 1 .. Len(mbox) : mbox[i] < p["isr"]

=============================================================================
