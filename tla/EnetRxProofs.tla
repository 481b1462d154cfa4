---------------------------- MODULE EnetRxProofs ----------------------------
(* Proofs about EnetRx, for rings and pools of every size.                 *)
EXTENDS EnetRx, SequenceTheorems, TLAPS

USE RingAssumption, PoolsAssumption, FramesAssumption

-----------------------------------------------------------------------------
(* Types, pbufs and messages.                                              *)

(* The boundaries of the types that follow from the two conservations.     *)
LEMMA TypeInit == Init => TypeInv
  <1> SUFFICES ASSUME Init PROVE TypeInv
    OBVIOUS
  <1>1. mbox \in Seq(0 .. MaxFrames) /\ Len(mbox) = 0
    BY EmptySeq DEF Init
  <1>2. desc \in [Desc -> Frame \cup {Empty}] /\ dma \in Desc /\ rxBdCurrent \in Desc
    BY DEF Init, Desc
  <1>3. PbufsConserved /\ MsgsConserved
    BY <1>1 DEF Init, PbufsConserved, MsgsConserved, InHand, Reader
  <1>4. /\ pc \in [Reader -> {"idle", "check", "size", "alloc", "drop", "read",
                           "update", "advance", "input"}]
        /\ len \in [Reader -> Lengths \cup {0}]
        /\ p \in [Reader -> 0 .. MaxFrames]
    BY DEF Init, Garbage
  <1>5. /\ arrived \in 0 .. MaxFrames /\ polls \in 0 .. MaxPolls /\ last \in 0 .. MaxFrames
        /\ pbufs \in 0 .. PBUF_POOL_SIZE /\ msgs \in 0 .. MEMP_NUM_TCPIP_MSG_INPKT
        /\ held \in 0 .. PBUF_POOL_SIZE
    BY DEF Init
  <1>6. eir \in BOOLEAN /\ fault \in BOOLEAN
    BY DEF Init
  <1>. QED
    BY <1>1, <1>2, <1>3, <1>4, <1>5, <1>6 DEF TypeInv, TypeOK

(* The fields of a frame.                                                  *)
LEMMA FrameFields ==
  ASSUME TypeOK, NEW d \in Desc, desc[d] # Empty
  PROVE  /\ desc[d] \in Frame
         /\ desc[d].n \in 1 .. MaxFrames /\ desc[d].len \in Lengths /\ desc[d].ok \in BOOLEAN
  BY DEF TypeOK, Frame

(* Reading on stays in the ring.                                           *)
LEMMA NextBdType == \A d \in Desc : NextBd(d) \in Desc
  BY DEF NextBd, Desc

(* A step of the controller.                                               *)
LEMMA TypeArrive == ASSUME TypeInv, Arrive PROVE TypeInv'
  <1>1. PICK l \in Lengths, ok \in BOOLEAN :
          desc' = [desc EXCEPT ![dma] = [n |-> arrived + 1, len |-> l, ok |-> ok]]
    BY DEF Arrive
  <1>2. [n |-> arrived + 1, len |-> l, ok |-> ok] \in Frame
    BY DEF Arrive, TypeInv, TypeOK, Frame
  <1>3. desc' \in [Desc -> Frame \cup {Empty}]
    BY <1>1, <1>2 DEF TypeInv, TypeOK
  <1>. QED
    BY <1>3, NextBdType
    DEF Arrive, TypeInv, TypeOK, PbufsConserved, MsgsConserved, InHand, driver, lwip

(* What the counters and the mailbox of a state are.                       *)
LEMMA Counted ==
  ASSUME TypeInv
  PROVE  /\ Len(mbox) \in Nat /\ pbufs \in Nat /\ msgs \in Nat /\ held \in Nat
         /\ InHand("isr") \in {0, 1} /\ InHand("poll") \in {0, 1}
  <1>1. mbox \in Seq(0 .. MaxFrames)
    BY DEF TypeInv, TypeOK
  <1>2. Len(mbox) \in Nat
    BY <1>1, LenProperties
  <1>. QED
    BY <1>2 DEF TypeInv, TypeOK, InHand

(* The pbuf of a reader, when it moves on.                                 *)
LEMMA HandMoves ==
  ASSUME TypeInv, NEW r \in Reader, NEW q, GoTo(r, q)
  PROVE  /\ InHand(r)' = IF q \in {"read", "update", "advance", "input"} THEN 1 ELSE 0
         /\ \A s \in Reader \ {r} : InHand(s)' = InHand(s)
  BY DEF TypeInv, TypeOK, GoTo, InHand

(* pbuf_alloc moves a pbuf from the pool to the reader.                    *)
LEMMA TypeAlloc == ASSUME TypeInv, NEW r \in Reader, Alloc(r) PROVE TypeInv'
  <1>1. UNCHANGED <<hw, eir, rxBdCurrent, len, p, polls, fault, msgs, mbox, held, last>>
    BY DEF Alloc
  <1>2. InHand(r) = 0
    BY DEF Alloc, InHand
  <1>3. \/ GoTo(r, "read") /\ pbufs > 0 /\ pbufs' = pbufs - 1
        \/ GoTo(r, "drop") /\ pbufs' = pbufs
    BY DEF Alloc
  <1>4. \/ InHand(r)' = 1 /\ pbufs > 0 /\ pbufs' = pbufs - 1
        \/ InHand(r)' = 0 /\ pbufs' = pbufs
    BY <1>3, HandMoves
  <1>5. \A s \in Reader \ {r} : InHand(s)' = InHand(s)
    BY <1>3, HandMoves
  <1>6. PbufsConserved'
    <2>1. mbox' = mbox /\ held' = held
      BY <1>1
    <2>2. CASE r = "isr"
      BY <1>2, <1>4, <1>5, <2>1, <2>2, Counted DEF TypeInv, PbufsConserved, Reader
    <2>3. CASE r = "poll"
      BY <1>2, <1>4, <1>5, <2>1, <2>3, Counted DEF TypeInv, PbufsConserved, Reader
    <2>. QED
      BY <2>2, <2>3 DEF Reader
  <1>7. pbufs' \in 0 .. PBUF_POOL_SIZE
    BY <1>4 DEF TypeInv, TypeOK
  <1>8. pc' \in [Reader -> {"idle", "check", "size", "alloc", "drop", "read",
                             "update", "advance", "input"}]
    BY <1>3 DEF GoTo, TypeInv, TypeOK
  <1>9. TypeOK'
    BY <1>1, <1>7, <1>8 DEF TypeInv, TypeOK, hw
  <1>. QED
    BY <1>1, <1>6, <1>9 DEF TypeInv, MsgsConserved

(* tcpip_input moves a pbuf from the reader to the mailbox or to the pool. *)
LEMMA TypeTcpip == ASSUME TypeInv, NEW r \in Reader, Input(r) PROVE TypeInv'
  <1>1. UNCHANGED <<hw, eir, rxBdCurrent, len, p, polls, fault, held, last>>
    BY DEF Input
  <1>2. InHand(r) = 1 /\ GoTo(r, "size")
    BY DEF Input, InHand
  <1>3. InHand(r)' = 0 /\ \A s \in Reader \ {r} : InHand(s)' = InHand(s)
    BY <1>2, HandMoves
  <1>4. /\ Append(mbox, p[r]) \in Seq(0 .. MaxFrames)
        /\ Len(Append(mbox, p[r])) = Len(mbox) + 1
    <2>1. p[r] \in 0 .. MaxFrames /\ mbox \in Seq(0 .. MaxFrames)
      BY DEF TypeInv, TypeOK
    <2>. QED
      BY <2>1, AppendProperties
  <1>5. mbox' \in Seq(0 .. MaxFrames)
    BY <1>4 DEF Input, TypeInv, TypeOK
  <1>6. \/ msgs > 0 /\ msgs' = msgs - 1 /\ pbufs' = pbufs /\ Len(mbox)' = Len(mbox) + 1
        \/ msgs' = msgs /\ pbufs' = pbufs + 1 /\ Len(mbox)' = Len(mbox)
    BY <1>4 DEF Input
  <1>7. PbufsConserved' /\ MsgsConserved' /\ pbufs' \in 0 .. PBUF_POOL_SIZE
    <2> DEFINE n == Len(mbox)
               i == InHand("isr")
               t == InHand("poll")
    <2>1. held' = held
      BY <1>1
    <2>2. /\ n \in Nat /\ pbufs \in Nat /\ msgs \in Nat /\ held \in Nat
          /\ i \in {0, 1} /\ t \in {0, 1}
          /\ pbufs + i + t + n + held = PBUF_POOL_SIZE
          /\ msgs + n = MEMP_NUM_TCPIP_MSG_INPKT
      BY Counted DEF TypeInv, PbufsConserved, MsgsConserved
    <2>3. \/ i = 1 /\ i' = 0 /\ t' = t
          \/ t = 1 /\ t' = 0 /\ i' = i
      BY <1>2, <1>3 DEF Reader
    <2>4. \/ msgs > 0 /\ msgs' = msgs - 1 /\ pbufs' = pbufs /\ n' = n + 1
          \/ msgs' = msgs /\ pbufs' = pbufs + 1 /\ n' = n
      BY <1>6
    <2>5. /\ pbufs' + i' + t' + n' + held' = PBUF_POOL_SIZE
          /\ msgs' + n' = MEMP_NUM_TCPIP_MSG_INPKT
          /\ pbufs' \in 0 .. PBUF_POOL_SIZE
      <3> HIDE DEF n, i, t
      <3>. QED
        BY <2>1, <2>2, <2>3, <2>4
    <2>. QED
      BY <2>5 DEF PbufsConserved, MsgsConserved
  <1>8. msgs' \in 0 .. MEMP_NUM_TCPIP_MSG_INPKT
    BY <1>6 DEF TypeInv, TypeOK
  <1>9. pc' \in [Reader -> {"idle", "check", "size", "alloc", "drop", "read",
                             "update", "advance", "input"}]
    BY <1>2 DEF GoTo, TypeInv, TypeOK
  <1>10. TypeOK'
    BY <1>1, <1>5, <1>7, <1>8, <1>9 DEF TypeInv, TypeOK, hw
  <1>. QED
    BY <1>7, <1>10 DEF TypeInv

(* The steps of ethernetif_input, whoever runs it.                         *)
LEMMA TypeInput ==
  ASSUME TypeInv, NEW r \in Reader, EthernetifInput(r) PROVE TypeInv'
  <1> USE DEF TypeInv, TypeOK, PbufsConserved, MsgsConserved, InHand, Reader, GoTo
  <1>1. CASE GetRxFrameSize(r)
    <2>1. len' \in [Reader -> Lengths \cup {0}]
      BY <1>1, FrameFields DEF GetRxFrameSize
    <2>2. PICK q \in {"idle", "check", "drop", "alloc"} : GoTo(r, q)
      BY <1>1 DEF GetRxFrameSize, Caller
    <2>3. pc[r] = "size"
      BY <1>1 DEF GetRxFrameSize
    <2>4. UNCHANGED <<hw, eir, rxBdCurrent, p, polls, fault, lwip>>
      BY <1>1 DEF GetRxFrameSize
    <2>. QED
      BY <2>1, <2>2, <2>3, <2>4 DEF hw, lwip
  <1>2. CASE Alloc(r)
    BY <1>2, TypeAlloc
  <1>3. CASE Drop(r)
    <2>1. desc' \in [Desc -> Frame \cup {Empty}] /\ rxBdCurrent' \in Desc
      BY <1>3, NextBdType DEF Drop, Full
    <2>. QED
      BY <1>3, <2>1 DEF Drop, Caller, lwip
  <1>4. CASE ReadFrame(r)
    <2>2. p' \in [Reader -> 0 .. MaxFrames]
      BY <1>4, FrameFields DEF ReadFrame, Garbage
    <2>. QED
      BY <1>4, <2>2 DEF ReadFrame, hw, lwip
  <1>7. CASE UpdateReadBuffers(r)
    <2>1. desc' \in [Desc -> Frame \cup {Empty}] /\ rxBdCurrent' \in Desc
      BY <1>7, NextBdType DEF UpdateReadBuffers
    <2>. QED
      BY <1>7, <2>1 DEF UpdateReadBuffers, lwip
  <1>8. CASE Advance(r)
    <2>1. rxBdCurrent' \in Desc
      BY <1>8, NextBdType DEF Advance
    <2>. QED
      BY <1>8, <2>1 DEF Advance, hw, lwip
  <1>5. CASE ReadNothing(r)
    <2>0. NextBd(rxBdCurrent) \in Desc /\ NextBd(NextBd(rxBdCurrent)) \in Desc
      BY NextBdType
    <2>1. desc' \in [Desc -> Frame \cup {Empty}] /\ rxBdCurrent' \in Desc
      BY <1>5, <2>0 DEF ReadNothing
    <2>2. p' \in [Reader -> 0 .. MaxFrames]
      BY <1>5 DEF ReadNothing, Garbage
    <2>3. fault' \in BOOLEAN
      BY <1>5 DEF ReadNothing
    <2>. QED
      BY <1>5, <2>1, <2>2, <2>3 DEF ReadNothing, lwip
  <1>6. CASE Input(r)
    BY <1>6, TypeTcpip
  <1>. QED
    BY <1>1, <1>2, <1>3, <1>4, <1>5, <1>6, <1>7, <1>8 DEF EthernetifInput

(* The steps around it.                                                    *)
LEMMA TypeOther ==
  ASSUME TypeInv, IsrEnter \/ IsrCheck \/ Poll \/ Process \/ Release \/ UNCHANGED vars
  PROVE  TypeInv'
  <1> USE DEF TypeInv, TypeOK, PbufsConserved, MsgsConserved, InHand, Reader, GoTo
  <1>1. CASE IsrEnter
    BY <1>1 DEF IsrEnter, hw, lwip
  <1>2. CASE IsrCheck
    BY <1>2 DEF IsrCheck, hw, lwip
  <1>3. CASE Poll
    BY <1>3 DEF Poll, hw, lwip
  <1>0. Len(mbox) \in Nat
    BY LenProperties
  <1>4. CASE Process
    <2>1. /\ Head(mbox) \in 0 .. MaxFrames /\ Tail(mbox) \in Seq(0 .. MaxFrames)
          /\ Len(Tail(mbox)) = Len(mbox) - 1 /\ Len(mbox) \in Nat \ {0}
      BY <1>4, HeadTailProperties, EmptySeq DEF Process
    <2>4. /\ Len(mbox)' = Len(mbox) - 1 /\ msgs' = msgs + 1 /\ held' = held + 1
          /\ UNCHANGED <<pbufs, pc>>
      BY <1>4, <2>1 DEF Process, driver
    <2>2. PbufsConserved' /\ MsgsConserved'
      <3> DEFINE n == Len(mbox)
                 i == InHand("isr")
                 t == InHand("poll")
      <3>1. i' = i /\ t' = t /\ n' = n - 1
        BY <2>4
      <3>2. /\ pbufs \in Nat /\ msgs \in Nat /\ held \in Nat /\ n \in Nat
            /\ i \in Nat /\ t \in Nat /\ pbufs + i + t + n + held = PBUF_POOL_SIZE
            /\ msgs + n = MEMP_NUM_TCPIP_MSG_INPKT
        BY Counted
      <3>3. /\ pbufs' + i' + t' + n' + held' = PBUF_POOL_SIZE
            /\ msgs' + n' = MEMP_NUM_TCPIP_MSG_INPKT
        <4> HIDE DEF n, i, t
        <4>. QED
          BY <2>4, <3>1, <3>2
      <3>. QED
        BY <3>3
    <2>3. msgs' \in 0 .. MEMP_NUM_TCPIP_MSG_INPKT /\ held' \in 0 .. PBUF_POOL_SIZE
      BY <1>4, <2>1 DEF Process
    <2>. QED
      BY <1>4, <2>1, <2>2, <2>3 DEF Process, hw, driver
  <1>5. CASE Release
    <2>1. /\ UNCHANGED <<hw, eir, driver, msgs, mbox, last>>
          /\ held > 0 /\ held' = held - 1 /\ pbufs' = pbufs + 1
      BY <1>5 DEF Release
    <2>2. PbufsConserved' /\ MsgsConserved'
      BY <1>0, <2>1 DEF driver
    <2>3. pbufs' \in 0 .. PBUF_POOL_SIZE /\ held' \in 0 .. PBUF_POOL_SIZE
      BY <1>0, <2>1, Counted DEF driver
    <2>. QED
      BY <2>1, <2>2, <2>3 DEF hw, driver
  <1>6. CASE UNCHANGED vars
    BY <1>6 DEF vars, hw, driver, lwip
  <1>. QED
    BY <1>1, <1>2, <1>3, <1>4, <1>5, <1>6

(* Every step keeps the types and the two conservations.                   *)
LEMMA TypeNext == TypeInv /\ [Next]_vars => TypeInv'
  BY TypeArrive, TypeInput, TypeOther DEF Next, Isr, Reader

(* The types of EnetRx.                                                    *)
THEOREM TypeCorrect == Spec => []TypeOK
  <1>1. TypeInv => TypeOK
    BY DEF TypeInv
  <1>. QED
    BY TypeInit, TypeNext, <1>1, PTL DEF Spec

(* No pbuf is ever leaked by ethernetif_input and tcpip_input, with or     *)
(* without the polling task, whatever is dropped.                          *)
THEOREM NoPbufLeak == Spec => []PbufsConserved
  <1>1. TypeInv => PbufsConserved
    BY DEF TypeInv
  <1>. QED
    BY TypeInit, TypeNext, <1>1, PTL DEF Spec

-----------------------------------------------------------------------------
(* The handler never leaves a full ring behind without an event.           *)

(* Every step leaves a descriptor empty or an event behind.                *)
LEMMA WedgedNext == TypeInv /\ NeverWedged /\ [Next]_vars => NeverWedged'
  <1> SUFFICES ASSUME TypeInv, NeverWedged, [Next]_vars PROVE NeverWedged'
    OBVIOUS
  <1> USE DEF TypeInv, TypeOK, NeverWedged, Reader, GoTo
  <1>1. CASE Arrive
    BY <1>1 DEF Arrive
  <1>2. CASE IsrEnter
    BY <1>2 DEF IsrEnter
  <1>3. CASE IsrCheck
    BY <1>3 DEF IsrCheck, hw
  <1>4. ASSUME NEW r \in Reader, EthernetifInput(r) PROVE NeverWedged'
    <2>1. CASE GetRxFrameSize(r)
      BY <2>1 DEF GetRxFrameSize, hw, Caller
    <2>2. CASE Alloc(r)
      BY <2>2 DEF Alloc, hw
    <2>3. CASE Drop(r)
      <3>1. CASE Full = {}
        BY <3>1, <2>3 DEF Drop, Full, Desc
      <3>2. CASE Full # {}
        BY <3>2, <2>3 DEF Drop, Full
      <3>. QED
        BY <3>1, <3>2
    <2>4. CASE ReadFrame(r)
      BY <2>4 DEF ReadFrame, hw
    <2>7. CASE UpdateReadBuffers(r)
      BY <2>7 DEF UpdateReadBuffers
    <2>8. CASE Advance(r)
      BY <2>8 DEF Advance, hw
    <2>5. CASE ReadNothing(r)
      <3>1. desc'[rxBdCurrent] = Empty
        BY <2>5, NextBdType DEF ReadNothing
      <3>. QED
        BY <3>1
    <2>6. CASE Input(r)
      BY <2>6 DEF Input, hw
    <2>. QED
      BY <1>4, <2>1, <2>2, <2>3, <2>4, <2>5, <2>6, <2>7, <2>8 DEF EthernetifInput
  <1>5. CASE Poll \/ Process \/ Release \/ UNCHANGED vars
    BY <1>5 DEF Poll, Process, Release, vars, hw, driver
  <1>. QED
    BY <1>1, <1>2, <1>3, <1>4, <1>5 DEF Next, Isr

(* Reception cannot die: for every ring, every pattern of good, bad and    *)
(* dropped frames, and beside the polling task, a full ring is never left  *)
(* without an event that makes the handler empty it.                       *)
THEOREM ReceptionNeverDies == Spec => []NeverWedged
  <1>1. Init => NeverWedged
    BY DEF Init, NeverWedged, Desc
  <1>. QED
    BY TypeInit, TypeNext, <1>1, WedgedNext, PTL DEF Spec

-----------------------------------------------------------------------------
(* Driver and controller agree on the ring while the handler reads alone.  *)

(* Distances along the ring.                                               *)
LEMMA DistFacts ==
  ASSUME TypeInv
  PROVE  /\ rxBdCurrent \in Desc /\ dma \in Desc /\ arrived \in Nat
         /\ \A d \in Desc : Dist(d) \in 0 .. ENET_RXBD_NUM - 1
         /\ \A d \in Desc : Dist(d) = 0 <=> d = rxBdCurrent
         /\ \E d \in Desc : Dist(d) = ENET_RXBD_NUM - 1
  <1>1. rxBdCurrent \in Desc /\ dma \in Desc /\ arrived \in Nat
    BY DEF TypeInv, TypeOK
  <1>2. \A d \in Desc : Dist(d) \in 0 .. ENET_RXBD_NUM - 1 /\ (Dist(d) = 0 <=> d = rxBdCurrent)
    BY <1>1 DEF Dist, Desc
  <1>3. \E d \in Desc : Dist(d) = ENET_RXBD_NUM - 1
    <2>1. CASE rxBdCurrent = 0
      <3>1. ENET_RXBD_NUM - 1 \in Desc /\ Dist(ENET_RXBD_NUM - 1) = ENET_RXBD_NUM - 1
        BY <2>1 DEF Dist, Desc
      <3>. QED
        BY <3>1
    <2>2. CASE rxBdCurrent # 0
      <3>1. rxBdCurrent - 1 \in Desc /\ Dist(rxBdCurrent - 1) = ENET_RXBD_NUM - 1
        BY <1>1, <2>2 DEF Dist, Desc
      <3>. QED
        BY <3>1
    <2>. QED
      BY <2>1, <2>2
  <1>. QED
    BY <1>1, <1>2, <1>3

(* The step to the next descriptor.                                        *)
LEMMA NextFacts ==
  ASSUME TypeInv
  PROVE  \A d \in Desc : Dist(NextBd(d)) = IF Dist(d) = ENET_RXBD_NUM - 1 THEN 0 ELSE Dist(d) + 1
  <1>1. rxBdCurrent \in Desc
    BY DistFacts
  <1>. QED
    BY <1>1 DEF Dist, NextBd, Desc

(* First is a number.                                                      *)
LEMMA FirstType == ASSUME TypeInv PROVE First \in Nat /\ InRing \in Int
  <1>1. TypeOK
    BY DEF TypeInv
  <1>2. First \in Nat
    BY <1>1, DistFacts, FrameFields DEF First
  <1>. QED
    BY <1>2, DistFacts DEF InRing

(* The next frame of the wire goes behind those in the ring.               *)
LEMMA SyncArrive ==
  ASSUME TypeInv, InSync, Arrive
  PROVE  InSync' /\ First' = First /\ \A d \in Desc : desc[d] # Empty => desc'[d] = desc[d]
  <1> DEFINE N == ENET_RXBD_NUM
             f == desc'[dma]
  <1>1. /\ desc[dma] = Empty /\ dma' = NextBd(dma) /\ arrived' = arrived + 1
        /\ rxBdCurrent' = rxBdCurrent
    BY DEF Arrive, driver
  <1>2. /\ f # Empty /\ f.n = arrived + 1
        /\ \A d \in Desc : d # dma => desc'[d] = desc[d]
    BY DistFacts DEF Arrive, TypeInv, TypeOK, Empty
  <1>3. \A d \in Desc : Dist(d)' = Dist(d)
    BY <1>1 DEF Dist
  <1>4. Dist(dma) = InRing
    BY <1>1, DistFacts DEF InSync, Full
  <1>5. First' = First
    <2>1. CASE dma = rxBdCurrent
      BY <1>1, <1>2, <2>1 DEF First
    <2>2. CASE dma # rxBdCurrent
      <3>1. InRing > 0
        BY <1>4, <2>2, DistFacts
      <3>2. desc[rxBdCurrent] # Empty
        BY <3>1, DistFacts, FirstType DEF InSync
      <3>. QED
        BY <1>1, <1>2, <2>2, <3>2, DistFacts DEF First
    <2>. QED
      BY <2>1, <2>2
  <1>6. InRing' = InRing + 1
    BY <1>1, <1>5, DistFacts, FirstType DEF InRing
  <1>7. 0 <= InRing' /\ InRing' <= N
    BY <1>4, <1>6, DistFacts DEF InSync
  <1>8. \A d \in Desc : Dist(d) = InRing => d = dma
    BY <1>4, DistFacts DEF Dist, Desc
  <1>9. \A d \in Desc : /\ desc'[d] # Empty <=> Dist(d)' < InRing'
                        /\ desc'[d] # Empty => desc'[d].n = First' + Dist(d)'
    <2> SUFFICES ASSUME NEW d \in Desc
                 PROVE  /\ desc'[d] # Empty <=> Dist(d) < InRing + 1
                        /\ desc'[d] # Empty => desc'[d].n = First + Dist(d)
      BY <1>3, <1>5, <1>6
    <2>1. CASE d = dma
      BY <1>2, <1>4, <2>1, DistFacts, FirstType DEF InRing
    <2>2. CASE d # dma
      BY <1>2, <1>8, <2>2, DistFacts, FirstType DEF InSync
    <2>. QED
      BY <2>1, <2>2
  <1>10. Dist(dma)' = InRing' \/ (dma' = rxBdCurrent' /\ Full' = Desc)
    <2>1. Dist(dma)' = Dist(NextBd(dma))
      BY <1>1 DEF Dist
    <2>2. CASE InRing # N - 1
      BY <1>4, <1>6, <2>1, <2>2, DistFacts, NextFacts
    <2>3. CASE InRing = N - 1
      <3>1. Dist(NextBd(dma)) = 0 /\ NextBd(dma) \in Desc
        BY <1>4, <2>3, DistFacts, NextFacts, NextBdType
      <3>2. dma' = rxBdCurrent'
        BY <1>1, <3>1, DistFacts
      <3>3. \A d \in Desc : desc'[d] # Empty
        BY <1>3, <1>6, <1>9, <2>3, DistFacts
      <3>. QED
        BY <3>2, <3>3 DEF Full
    <2>. QED
      BY <2>2, <2>3
  <1>. QED
    BY <1>1, <1>2, <1>5, <1>7, <1>9, <1>10 DEF InSync

(* Giving back the descriptor that is read moves the ring on by one frame. *)
LEMMA SyncAdvance ==
  ASSUME TypeInv, InSync, desc[rxBdCurrent] # Empty,
         desc' = [desc EXCEPT ![rxBdCurrent] = Empty],
         rxBdCurrent' = NextBd(rxBdCurrent),
         UNCHANGED <<dma, arrived>>
  PROVE  InSync' /\ First' = First + 1
  <1> DEFINE N == ENET_RXBD_NUM
  <1>1. /\ desc'[rxBdCurrent] = Empty
        /\ \A d \in Desc : d # rxBdCurrent => desc'[d] = desc[d]
    BY DistFacts DEF TypeInv, TypeOK
  <1>2. /\ InRing > 0 /\ InRing <= N
        /\ \A d \in Desc : desc[d] # Empty <=> Dist(d) < InRing
        /\ \A d \in Desc : desc[d] # Empty => desc[d].n = First + Dist(d)
    BY DistFacts, FirstType DEF InSync
  <1>3. \A d \in Desc : Dist(d)' = IF d = rxBdCurrent THEN N - 1 ELSE Dist(d) - 1
    BY DistFacts DEF Dist, NextBd, Desc
  <1>4. First' = First + 1
    <2>1. NextBd(rxBdCurrent) \in Desc /\ NextBd(rxBdCurrent) # rxBdCurrent
      BY DistFacts DEF NextBd, Desc
    <2>2. Dist(NextBd(rxBdCurrent)) = 1
      BY DistFacts, NextFacts
    <2>3. desc'[rxBdCurrent'] = desc[NextBd(rxBdCurrent)]
      BY <1>1, <2>1
    <2>4. CASE InRing > 1
      BY <1>2, <2>1, <2>2, <2>3, <2>4 DEF First
    <2>5. CASE InRing = 1
      <3>1. desc'[rxBdCurrent'] = Empty
        BY <1>2, <2>1, <2>2, <2>3, <2>5
      <3>2. First = arrived
        BY <2>5, DistFacts, FirstType DEF InRing
      <3>. QED
        BY <3>1, <3>2 DEF First
    <2>. QED
      BY <1>2, <2>4, <2>5, FirstType
  <1>5. InRing' = InRing - 1
    BY <1>4, DistFacts, FirstType DEF InRing
  <1>6. 0 <= InRing' /\ InRing' <= N
    BY <1>2, <1>5, FirstType
  <1>7. \A d \in Desc : /\ desc'[d] # Empty <=> Dist(d)' < InRing'
                        /\ desc'[d] # Empty => desc'[d].n = First' + Dist(d)'
    <2> TAKE d \in Desc
    <2>1. CASE d = rxBdCurrent
      BY <1>1, <1>2, <1>3, <1>5, <2>1, FirstType
    <2>2. CASE d # rxBdCurrent
      BY <1>1, <1>2, <1>3, <1>4, <1>5, <2>2, DistFacts, FirstType
    <2>. QED
      BY <2>1, <2>2
  <1>8. Dist(dma)' = InRing'
    <2>1. Dist(dma)' = IF dma = rxBdCurrent THEN N - 1 ELSE Dist(dma) - 1
      BY <1>3, DistFacts DEF Dist
    <2>2. CASE dma # rxBdCurrent
      BY <1>5, <2>1, <2>2, DistFacts DEF InSync
    <2>3. CASE dma = rxBdCurrent
      <3>1. Dist(dma) = 0 /\ Full = Desc
        BY <1>2, <2>3, DistFacts DEF InSync
      <3>2. InRing = N
        BY <1>2, <3>1, DistFacts, FirstType DEF Full
      <3>. QED
        BY <1>5, <2>1, <2>3, <3>2
    <2>. QED
      BY <2>2, <2>3
  <1>. QED
    BY <1>4, <1>6, <1>7, <1>8 DEF InSync

(* A step of the handler that leaves ring and position alone.              *)
LEMMA SizedStays ==
  ASSUME TypeInv, InStep, UNCHANGED <<hw, rxBdCurrent>>,
         NEW q, GoTo("isr", q),
         q \in {"alloc", "drop", "read", "update"} => desc[rxBdCurrent] # Empty,
         q \in {"alloc", "read"} => len'["isr"] = desc[rxBdCurrent].len
  PROVE  InStep'
  <1>1. InSync'
    BY DEF InStep, InSync, InRing, First, Dist, Full, hw
  <1>2. pc'["isr"] = q /\ pc'["poll"] = pc["poll"]
    BY DEF GoTo, TypeInv, TypeOK, Reader
  <1>. QED
    BY <1>1, <1>2 DEF InStep, hw

(* The handler's steps.                                                    *)
LEMMA RingInput ==
  ASSUME TypeInv, InStep, EthernetifInput("isr") PROVE InStep'
  <1>1. CASE GetRxFrameSize("isr")
    <2>1. UNCHANGED <<hw, rxBdCurrent>>
      BY <1>1 DEF GetRxFrameSize
    <2>2. CASE desc[rxBdCurrent] = Empty
      <3>1. GoTo("isr", "check")
        BY <1>1, <2>2 DEF GetRxFrameSize, Caller
      <3>. QED
        BY <2>1, <3>1, SizedStays
    <2>3. CASE desc[rxBdCurrent] # Empty /\ ~desc[rxBdCurrent].ok
      <3>1. GoTo("isr", "drop")
        BY <1>1, <2>3 DEF GetRxFrameSize
      <3>. QED
        BY <2>1, <2>3, <3>1, SizedStays
    <2>4. CASE desc[rxBdCurrent] # Empty /\ desc[rxBdCurrent].ok
      <3>1. GoTo("isr", "alloc") /\ len' = [len EXCEPT !["isr"] = desc[rxBdCurrent].len]
        BY <1>1, <2>4 DEF GetRxFrameSize
      <3>2. len'["isr"] = desc[rxBdCurrent].len
        BY <3>1 DEF TypeInv, TypeOK, Reader
      <3>. QED
        BY <2>1, <2>4, <3>1, <3>2, SizedStays
    <2>. QED
      BY <2>2, <2>3, <2>4
  <1>2. CASE Alloc("isr")
    <2>1. pc["isr"] = "alloc" /\ UNCHANGED <<hw, rxBdCurrent, len>>
      BY <1>2 DEF Alloc
    <2>2. desc[rxBdCurrent] # Empty /\ len'["isr"] = desc[rxBdCurrent].len
      BY <2>1 DEF InStep
    <2>3. GoTo("isr", "read") \/ GoTo("isr", "drop")
      BY <1>2 DEF Alloc
    <2>. QED
      BY <2>1, <2>2, <2>3, SizedStays
  <1>3. ASSUME desc[rxBdCurrent] # Empty, desc' = [desc EXCEPT ![rxBdCurrent] = Empty],
               rxBdCurrent' = NextBd(rxBdCurrent), UNCHANGED <<dma, arrived>>,
               NEW q \in {"check", "input"}, GoTo("isr", q)
        PROVE  InStep'
    <2>1. InSync'
      BY <1>3, SyncAdvance DEF InStep
    <2>2. pc'["isr"] = q /\ pc'["poll"] = pc["poll"]
      BY <1>3 DEF GoTo, TypeInv, TypeOK, Reader
    <2>. QED
      BY <2>1, <2>2 DEF InStep
  <1>4. CASE Drop("isr")
    <2>1. desc[rxBdCurrent] # Empty
      BY <1>4 DEF Drop, InStep
    <2>2. rxBdCurrent \in Full
      BY <2>1, DistFacts DEF Full
    <2>3. PICK d \in Full : /\ \A e \in Full : Dist(d) <= Dist(e)
                            /\ desc' = [desc EXCEPT ![d] = Empty]
                            /\ rxBdCurrent' = NextBd(d)
      BY <1>4, <2>2 DEF Drop
    <2>4. d = rxBdCurrent
      BY <2>2, <2>3, DistFacts DEF Full
    <2>5. GoTo("isr", "check") /\ UNCHANGED <<dma, arrived>>
      BY <1>4 DEF Drop, Caller
    <2>. QED
      BY <1>3, <2>1, <2>3, <2>4, <2>5
  <1>5. CASE ReadFrame("isr")
    <2>1. UNCHANGED <<hw, rxBdCurrent>> /\ GoTo("isr", "update")
      BY <1>5 DEF ReadFrame
    <2>2. desc[rxBdCurrent] # Empty
      BY <1>5 DEF ReadFrame
    <2>. QED
      BY <2>1, <2>2, SizedStays
  <1>6. CASE UpdateReadBuffers("isr")
    <2>1. desc[rxBdCurrent] # Empty
      BY <1>6 DEF UpdateReadBuffers, InStep
    <2>2. GoTo("isr", "input")
      BY <1>6 DEF UpdateReadBuffers
    <2>. QED
      BY <1>3, <1>6, <2>1, <2>2 DEF UpdateReadBuffers
  <1>7. CASE ReadNothing("isr")
    BY <1>7 DEF ReadNothing, InStep
  <1>8. CASE Input("isr")
    <2>1. UNCHANGED <<hw, rxBdCurrent>> /\ GoTo("isr", "size")
      BY <1>8 DEF Input
    <2>. QED
      BY <2>1, SizedStays
  <1>. QED
    BY <1>1, <1>2, <1>4, <1>5, <1>6, <1>7, <1>8 DEF EthernetifInput, Advance

(* Once the task has polled, it has.                                       *)
LEMMA PollsGrow == ASSUME TypeInv, [Next]_vars, polls' = 0 PROVE polls = 0 /\ ~Poll
  <1>1. polls \in Nat
    BY DEF TypeInv, TypeOK
  <1>2. polls' = polls \/ polls' = polls + 1
    BY DEF Next, Isr, Arrive, IsrEnter, IsrCheck, Poll, EthernetifInput, GetRxFrameSize,
           Alloc, Drop, ReadFrame, UpdateReadBuffers, Advance, ReadNothing, Input, Process,
           Release, vars, driver
  <1>3. ~Poll
    BY <1>1 DEF Poll
  <1>. QED
    BY <1>1, <1>2, <1>3

(* No step but a poll takes driver and controller out of step.             *)
LEMMA InStepNext == TypeInv /\ InStep /\ [Next]_vars /\ ~Poll => InStep'
  <1> SUFFICES ASSUME TypeInv, InStep, [Next]_vars, ~Poll PROVE InStep'
    OBVIOUS
  <1>2. CASE Arrive
    <2>1. InSync /\ UNCHANGED <<rxBdCurrent, pc, len>>
      BY <1>2 DEF Arrive, InStep, driver
    <2>2. InSync' /\ \A d \in Desc : desc[d] # Empty => desc'[d] = desc[d]
      BY <1>2, <2>1, SyncArrive
    <2>. QED
      BY <2>1, <2>2, DistFacts DEF InStep
  <1>3. CASE IsrEnter
    BY <1>3, SizedStays DEF IsrEnter
  <1>4. CASE IsrCheck
    <2>1. PICK q \in {"size", "idle"} : GoTo("isr", q)
      BY <1>4 DEF IsrCheck
    <2>2. UNCHANGED <<hw, rxBdCurrent>>
      BY <1>4 DEF IsrCheck
    <2>. QED
      BY <2>1, <2>2, SizedStays
  <1>5. CASE EthernetifInput("isr")
    BY <1>5, RingInput
  <1>6. CASE EthernetifInput("poll")
    BY <1>6 DEF InStep, EthernetifInput, GetRxFrameSize, Alloc, Drop, ReadFrame,
                      UpdateReadBuffers, Advance, ReadNothing, Input
  <1>7. CASE Process \/ Release \/ UNCHANGED vars
    <2>1. UNCHANGED <<hw, driver>>
      BY <1>7 DEF Process, Release, vars
    <2>. QED
      BY <2>1 DEF InStep, InSync, InRing, First, Dist, Full, hw, driver
  <1>. QED
    BY <1>2, <1>3, <1>4, <1>5, <1>6, <1>7 DEF Next, Isr

(* Hence they are in step as long as the task has not polled.              *)
LEMMA RingNext == TypeInv /\ RingInv /\ [Next]_vars => RingInv'
  BY PollsGrow, InStepNext DEF RingInv

(* At first the ring is empty and both are at its start.                   *)
LEMMA RingInit == Init => RingInv
  <1> SUFFICES ASSUME Init PROVE RingInv
    OBVIOUS
  <1>1. First = 1 /\ InRing = 0
    BY DEF Init, First, InRing, Desc
  <1>2. \A d \in Desc : Dist(d) = d /\ d >= 0
    BY DEF Init, Dist, Desc
  <1>3. InSync
    BY <1>1, <1>2 DEF Init, InSync, Desc
  <1>. QED
    BY <1>3 DEF Init, RingInv, InStep, Reader

(* Driver and controller agree on the ring for every size of the ring and  *)
(* of the pools, whatever is received and dropped, until the task polls.   *)
THEOREM RingStaysInSync == Spec => []RingInSync
  <1>1. RingInv => RingInSync
    BY DEF RingInv, InStep, RingInSync
  <1>. QED
    BY TypeInit, TypeNext, RingInit, RingNext, <1>1, PTL DEF Spec

(* Nor does anything but a poll ever take them out of step: from whatever  *)
(* state they are in step, with no poll under way, every other step leaves *)
(* them so, for every size of the ring and of the pools.                   *)
THEOREM OnlyPollsDisturb == Spec => [][InStep /\ ~Poll => InStep']_vars
  <1>1. TypeInv /\ [Next]_vars => [InStep /\ ~Poll => InStep']_vars
    BY InStepNext
  <1>. QED
    BY TypeInit, TypeNext, <1>1, PTL DEF Spec

-----------------------------------------------------------------------------
(* The tcpip thread sees the frames in order while the handler reads alone.*)

(* The mailbox as a function, and the frames in it as numbers.             *)
LEMMA MboxFacts ==
  ASSUME TypeInv
  PROVE  /\ mbox \in Seq(0 .. MaxFrames) /\ Len(mbox) \in Nat
         /\ \A i \in 1 .. Len(mbox) : mbox[i] \in Nat
         /\ last \in Nat /\ p["isr"] \in Nat
  <1>1. mbox \in Seq(0 .. MaxFrames)
    BY DEF TypeInv, TypeOK
  <1>2. Len(mbox) \in Nat /\ mbox \in [1 .. Len(mbox) -> 0 .. MaxFrames]
    BY <1>1, LenProperties
  <1>3. last \in Nat /\ p["isr"] \in Nat
    BY DEF TypeInv, TypeOK, Reader
  <1>. QED
    BY <1>1, <1>2, <1>3

(* First may only grow.                                                    *)
LEMMA OrderKept ==
  ASSUME TypeInv, OrderInv, polls = 0, UNCHANGED <<mbox, last>>,
         First' \in Nat, First <= First',
         pc'["isr"] = "update" => p'["isr"] = First',
         pc'["isr"] = "input" =>
           last < p'["isr"] /\ p'["isr"] < First' /\ \A i \in 1 .. Len(mbox) : mbox[i] < p'["isr"]
  PROVE  OrderInv'
  <1>1. last < First' /\ \A i \in 1 .. Len(mbox) : mbox[i] < First'
    BY MboxFacts, FirstType DEF OrderInv
  <1>. QED
    BY <1>1 DEF OrderInv

(* A frame that is posted goes behind those in the mailbox.                *)
LEMMA OrderInput ==
  ASSUME TypeInv, RingInv, OrderInv, polls = 0, EthernetifInput("isr") PROVE OrderInv'
  <1>1. CASE GetRxFrameSize("isr") \/ Alloc("isr")
    <2>1. UNCHANGED <<hw, rxBdCurrent, mbox, last>>
      BY <1>1 DEF GetRxFrameSize, Alloc, lwip
    <2>2. First' = First
      BY <2>1 DEF First, hw
    <2>3. PICK q \in {"check", "drop", "alloc", "read"} : GoTo("isr", q)
      BY <1>1 DEF GetRxFrameSize, Alloc, Caller
    <2>4. pc'["isr"] = q
      BY <2>3 DEF GoTo, TypeInv, TypeOK, Reader
    <2>. QED
      BY <2>1, <2>2, <2>4, OrderKept, FirstType
  <1>2. CASE Drop("isr")
    <2>1. desc[rxBdCurrent] # Empty /\ rxBdCurrent \in Full
      BY <1>2, DistFacts DEF Drop, RingInv, InStep, Full
    <2>2. PICK d \in Full : /\ \A e \in Full : Dist(d) <= Dist(e)
                            /\ desc' = [desc EXCEPT ![d] = Empty]
                            /\ rxBdCurrent' = NextBd(d)
      BY <1>2, <2>1 DEF Drop
    <2>3. d = rxBdCurrent
      BY <2>1, <2>2, DistFacts DEF Full
    <2>4. GoTo("isr", "check") /\ UNCHANGED <<dma, arrived, mbox, last>>
      BY <1>2 DEF Drop, Caller, lwip
    <2>5. First' = First + 1
      BY <2>1, <2>2, <2>3, <2>4, SyncAdvance DEF RingInv, InStep
    <2>6. pc'["isr"] = "check"
      BY <2>4 DEF GoTo, TypeInv, TypeOK, Reader
    <2>. QED
      BY <2>4, <2>5, <2>6, OrderKept, FirstType
  <1>3. CASE ReadFrame("isr")
    <2>1. /\ UNCHANGED <<hw, rxBdCurrent, mbox, last>>
          /\ p' = [p EXCEPT !["isr"] = First] /\ GoTo("isr", "update")
      BY <1>3 DEF ReadFrame, RingInv, InStep, First, lwip
    <2>2. First' = First
      BY <2>1 DEF First, hw
    <2>3. pc'["isr"] = "update" /\ p'["isr"] = First
      BY <2>1 DEF GoTo, TypeInv, TypeOK, Reader
    <2>. QED
      BY <2>1, <2>2, <2>3, OrderKept, FirstType
  <1>4. CASE UpdateReadBuffers("isr")
    <2>1. First' = First + 1
      BY <1>4, SyncAdvance DEF UpdateReadBuffers, RingInv, InStep
    <2>2. pc["isr"] = "update" /\ GoTo("isr", "input") /\ UNCHANGED <<p, mbox, last>>
      BY <1>4 DEF UpdateReadBuffers, lwip
    <2>3. pc'["isr"] = "input" /\ p'["isr"] = First
      BY <2>2 DEF GoTo, TypeInv, TypeOK, Reader, OrderInv
    <2>4. last < First /\ \A i \in 1 .. Len(mbox) : mbox[i] < First
      BY DEF OrderInv
    <2>. QED
      BY <2>1, <2>2, <2>3, <2>4, OrderKept, FirstType
  <1>5. CASE ReadNothing("isr")
    BY <1>5 DEF ReadNothing, RingInv, InStep
  <1>6. CASE Input("isr")
    <2>1. pc["isr"] = "input" /\ GoTo("isr", "size") /\ UNCHANGED <<hw, rxBdCurrent, p, last>>
      BY <1>6 DEF Input
    <2>2. First' = First
      BY <2>1 DEF First, hw
    <2>3. pc'["isr"] = "size"
      BY <2>1 DEF GoTo, TypeInv, TypeOK, Reader
    <2>4. CASE UNCHANGED mbox
      BY <2>1, <2>2, <2>3, <2>4, OrderKept, FirstType
    <2>5. CASE mbox' = Append(mbox, p["isr"])
      <3> DEFINE n == Len(mbox)
      <3>1. p["isr"] \in 0 .. MaxFrames
        BY DEF TypeInv, TypeOK, Reader
      <3>2. /\ Len(mbox') = n + 1 /\ mbox'[n + 1] = p["isr"]
            /\ \A i \in 1 .. n : mbox'[i] = mbox[i]
        BY <2>5, <3>1, MboxFacts, AppendProperties
      <3>3. /\ last < First /\ last < p["isr"] /\ p["isr"] < First
            /\ \A i \in 1 .. n : last < mbox[i] /\ mbox[i] < First /\ mbox[i] < p["isr"]
            /\ \A i, j \in 1 .. n : i < j => mbox[i] < mbox[j]
        BY <2>1 DEF OrderInv
      <3>4. n \in Nat
        BY MboxFacts
      <3> HIDE DEF n
      <3>5. \A i \in 1 .. n + 1 : last < mbox'[i] /\ mbox'[i] < First
        BY <3>2, <3>3, <3>4
      <3>6. \A i, j \in 1 .. n + 1 : i < j => mbox'[i] < mbox'[j]
        BY <3>2, <3>3, <3>4
      <3>. QED
        BY <2>1, <2>2, <2>3, <3>2, <3>3, <3>5, <3>6 DEF OrderInv
    <2>. QED
      BY <1>6, <2>4, <2>5 DEF Input
  <1>. QED
    BY <1>1, <1>2, <1>3, <1>4, <1>5, <1>6 DEF EthernetifInput, Advance

(* The tcpip thread takes the frame below all others.                      *)
LEMMA OrderProcess ==
  ASSUME TypeInv, OrderInv, polls = 0, Process
  PROVE  OrderInv' /\ last' > last
  <1> DEFINE n == Len(mbox)
  <1>1. /\ mbox' = Tail(mbox) /\ last' = Head(mbox) /\ mbox # <<>>
        /\ UNCHANGED <<pc, p>> /\ UNCHANGED <<hw, rxBdCurrent>> /\ pc["isr"] = "idle"
    BY DEF Process, driver
  <1>2. First' = First
    BY <1>1 DEF First, hw
  <1>3. /\ n \in Nat \ {0} /\ last' = mbox[1] /\ Len(mbox') = n - 1
        /\ \A i \in 1 .. n - 1 : mbox'[i] = mbox[i + 1]
    BY <1>1, MboxFacts, EmptySeq, HeadTailProperties
  <1>4. /\ \A i \in 1 .. n : last < mbox[i] /\ mbox[i] < First
        /\ \A i, j \in 1 .. n : i < j => mbox[i] < mbox[j]
    BY DEF OrderInv
  <1>5. \A i \in 1 .. n : mbox[i] \in Nat
    BY MboxFacts
  <1> HIDE DEF n
  <1>6. last' > last /\ last' < First
    BY <1>3, <1>4, <1>5, MboxFacts
  <1>7. /\ \A i \in 1 .. n - 1 : last' < mbox'[i] /\ mbox'[i] < First
        /\ \A i, j \in 1 .. n - 1 : i < j => mbox'[i] < mbox'[j]
    BY <1>3, <1>4
  <1>. QED
    BY <1>1, <1>2, <1>3, <1>6, <1>7 DEF OrderInv

(* Every step keeps the order.                                             *)
LEMMA OrderNext ==
  TypeInv /\ RingInv /\ OrderInv /\ [Next]_vars
    => OrderInv' /\ (polls' = 0 /\ last' # last => last' > last)
  <1> SUFFICES ASSUME TypeInv, RingInv, OrderInv, [Next]_vars, polls' = 0
               PROVE  OrderInv' /\ (last' # last => last' > last)
    BY DEF OrderInv
  <1>1. polls = 0 /\ ~Poll
    BY PollsGrow
  <1>2. CASE Arrive
    <2>1. UNCHANGED <<driver, lwip>> /\ InSync
      BY <1>1, <1>2 DEF Arrive, RingInv, InStep
    <2>2. First' = First
      BY <1>2, <2>1, SyncArrive
    <2>3. UNCHANGED <<pc, p, mbox, last>>
      BY <2>1 DEF driver, lwip
    <2>4. pc["isr"] = "update" => p["isr"] = First
      BY <1>1 DEF OrderInv
    <2>5. pc["isr"] = "input" =>
            last < p["isr"] /\ p["isr"] < First /\ \A i \in 1 .. Len(mbox) : mbox[i] < p["isr"]
      BY <1>1 DEF OrderInv
    <2>. QED
      BY <1>1, <2>2, <2>3, <2>4, <2>5, OrderKept, FirstType
  <1>3. CASE IsrEnter \/ IsrCheck
    <2>1. UNCHANGED <<hw, rxBdCurrent, mbox, last>>
      BY <1>3 DEF IsrEnter, IsrCheck, lwip
    <2>2. First' = First
      BY <2>1 DEF First, hw
    <2>3. PICK q \in {"size", "idle"} : GoTo("isr", q)
      BY <1>3 DEF IsrEnter, IsrCheck
    <2>4. pc'["isr"] = q
      BY <2>3 DEF GoTo, TypeInv, TypeOK, Reader
    <2>. QED
      BY <1>1, <2>1, <2>2, <2>4, OrderKept, FirstType
  <1>4. CASE EthernetifInput("isr")
    <2>1. UNCHANGED last
      BY <1>4 DEF EthernetifInput, GetRxFrameSize, Alloc, Drop, ReadFrame, UpdateReadBuffers, Advance,
                  ReadNothing, Input, lwip
    <2>. QED
      BY <1>1, <1>4, <2>1, OrderInput
  <1>5. CASE EthernetifInput("poll")
    BY <1>1, <1>5 DEF RingInv, InStep, EthernetifInput, GetRxFrameSize, Alloc, Drop, ReadFrame,
                      UpdateReadBuffers, Advance, ReadNothing, Input
  <1>6. CASE Process
    BY <1>1, <1>6, OrderProcess
  <1>7. CASE Release \/ UNCHANGED vars
    <2>1. UNCHANGED <<hw, driver, mbox, last>>
      BY <1>7 DEF Release, vars, lwip
    <2>. QED
      BY <1>1, <2>1 DEF OrderInv, First, hw, driver
  <1>. QED
    BY <1>1, <1>2, <1>3, <1>4, <1>5, <1>6, <1>7 DEF Next, Isr

(* At first there is no frame.                                             *)
LEMMA OrderInit == Init => OrderInv
  <1> SUFFICES ASSUME Init PROVE OrderInv
    OBVIOUS
  <1>1. First = 1
    BY DEF Init, First, Desc
  <1>2. Len(mbox) = 0
    BY EmptySeq DEF Init
  <1>. QED
    BY <1>1, <1>2 DEF Init, OrderInv, Reader

(* Whatever is dropped, the tcpip thread gets the frames in the order of   *)
(* the wire, none twice.                                                   *)
THEOREM DeliversInOrder == Spec => FramesInOrder
  <1>1. TypeInv /\ RingInv /\ OrderInv /\ [Next]_vars
          => [polls' = 0 /\ last' # last => last' > last]_vars
    BY OrderNext
  <1>. QED
    BY TypeInit, TypeNext, RingInit, RingNext, OrderInit, OrderNext, <1>1, PTL
    DEF Spec, FramesInOrder

-----------------------------------------------------------------------------
(* Reception is a channel that loses frames and nothing worse.             *)

(* At first the handler has nothing in hand.                               *)
LEMMA GoodInit == Init => GoodInv
  BY DEF Init, GoodInv, Reader

(* What the handler has sized stays as it is until the handler moves on.   *)
LEMMA GoodNext == TypeInv /\ RingInv /\ GoodInv /\ [Next]_vars => GoodInv'
  <1> SUFFICES ASSUME TypeInv, RingInv, GoodInv, [Next]_vars, polls' = 0
               PROVE  pc'["isr"] \in {"alloc", "read", "update"} => desc'[rxBdCurrent'].ok
    BY DEF GoodInv
  <1>1. polls = 0 /\ ~Poll
    BY PollsGrow
  <1>2. pc["isr"] \in {"alloc", "read", "update"} =>
          desc[rxBdCurrent].ok /\ desc[rxBdCurrent] # Empty
    BY <1>1 DEF GoodInv, RingInv, InStep
  <1>3. ASSUME NEW q, GoTo("isr", q) PROVE pc'["isr"] = q
    BY <1>3 DEF GoTo, TypeInv, TypeOK, Reader
  <1>4. CASE Arrive
    <2>1. desc[rxBdCurrent] # Empty => desc'[rxBdCurrent] = desc[rxBdCurrent]
      BY <1>4, DistFacts DEF Arrive, TypeInv, TypeOK
    <2>. QED
      BY <1>2, <1>4, <2>1 DEF Arrive, driver
  <1>5. CASE IsrEnter \/ IsrCheck
    <2>1. PICK q \in {"size", "idle"} : GoTo("isr", q)
      BY <1>5 DEF IsrEnter, IsrCheck
    <2>. QED
      BY <1>3, <2>1
  <1>6. CASE EthernetifInput("isr")
    <2>1. CASE GetRxFrameSize("isr") \/ Alloc("isr") \/ ReadFrame("isr")
      <3>1. UNCHANGED <<desc, rxBdCurrent>>
        BY <2>1 DEF GetRxFrameSize, Alloc, ReadFrame, hw
      <3>2. \/ desc[rxBdCurrent].ok
            \/ GoTo("isr", "check") \/ GoTo("isr", "drop")
        BY <1>2, <2>1 DEF GetRxFrameSize, Alloc, ReadFrame, Caller
      <3>. QED
        BY <1>3, <3>1, <3>2
    <2>2. CASE Drop("isr") \/ UpdateReadBuffers("isr") \/ Input("isr")
      <3>1. PICK q \in {"check", "input", "size"} : GoTo("isr", q)
        BY <2>2 DEF Drop, UpdateReadBuffers, Input, Caller
      <3>. QED
        BY <1>3, <3>1
    <2>3. CASE ReadNothing("isr")
      BY <1>1, <2>3 DEF ReadNothing, RingInv, InStep
    <2>. QED
      BY <1>6, <2>1, <2>2, <2>3 DEF EthernetifInput, Advance
  <1>7. CASE EthernetifInput("poll")
    BY <1>1, <1>7 DEF RingInv, InStep, EthernetifInput, GetRxFrameSize, Alloc, Drop, ReadFrame,
                      UpdateReadBuffers, Advance, ReadNothing, Input
  <1>8. CASE Process \/ Release \/ UNCHANGED vars
    BY <1>2, <1>8 DEF Process, Release, vars, hw, driver
  <1>. QED
    BY <1>1, <1>4, <1>5, <1>6, <1>7, <1>8 DEF Next, Isr

(* A frame that comes in is on the way if it is a good one.                *)
LEMMA WayArrive ==
  ASSUME TypeInv, Arrive PROVE LC!Arrive
  <1>1. PICK f \in Frame : desc' = [desc EXCEPT ![dma] = f] /\ f.n = arrived + 1
    <2>1. PICK l \in Lengths, ok \in BOOLEAN :
            desc' = [desc EXCEPT ![dma] = [n |-> arrived + 1, len |-> l, ok |-> ok]]
      BY DEF Arrive
    <2>2. [n |-> arrived + 1, len |-> l, ok |-> ok] \in Frame
      BY DEF Arrive, TypeInv, TypeOK, Frame
    <2>. QED
      BY <2>1, <2>2
  <1>2. /\ arrived' = arrived + 1 /\ desc[dma] = Empty /\ dma \in Desc
        /\ UNCHANGED <<pc, p, mbox, last>>
    BY DistFacts DEF Arrive, driver, lwip
  <1>3. f # Empty
    BY FramesAssumption, <1>1 DEF Frame, Empty
  <1>4. desc'[dma] = f /\ \A d \in Desc \ {dma} : desc'[d] = desc[d]
    BY <1>1, <1>2 DEF TypeInv, TypeOK
  <1>5. GoodInRing' = IF f.ok THEN GoodInRing \cup {arrived'} ELSE GoodInRing
    BY <1>1, <1>2, <1>3, <1>4 DEF GoodInRing, Full
  <1>6. WithHandler' = WithHandler /\ InMailbox' = InMailbox
    BY <1>2 DEF WithHandler, InMailbox
  <1>. QED
    BY <1>2, <1>5, <1>6 DEF LC!Arrive, OnTheWay

(* The handler passes a frame on or drops it.                              *)
LEMMA WayInput ==
  ASSUME TypeInv, RingInv, OrderInv, GoodInv, polls = 0, EthernetifInput("isr")
  PROVE  LC!Lose
  <1>1. UNCHANGED <<arrived, last>>
    BY DEF EthernetifInput, GetRxFrameSize, Alloc, Drop, ReadFrame, UpdateReadBuffers, Advance,
           ReadNothing, Input, hw, lwip
  <1>2. ASSUME NEW q, GoTo("isr", q) PROVE pc'["isr"] = q
    BY <1>2 DEF GoTo, TypeInv, TypeOK, Reader
  <1>3. CASE GetRxFrameSize("isr") \/ Alloc("isr") \/ ReadFrame("isr")
    <2>1. UNCHANGED <<desc, mbox>>
      BY <1>3 DEF GetRxFrameSize, Alloc, ReadFrame, hw, lwip
    <2>2. PICK q \in {"check", "drop", "alloc", "read", "update"} : GoTo("isr", q)
      BY <1>3 DEF GetRxFrameSize, Alloc, ReadFrame, Caller
    <2>3. GoodInRing' = GoodInRing /\ InMailbox' = InMailbox /\ WithHandler' = {}
      BY <1>2, <2>1, <2>2 DEF GoodInRing, Full, InMailbox, WithHandler
    <2>. QED
      BY <1>1, <2>3 DEF LC!Lose, OnTheWay
  <1>4. CASE Drop("isr")
    <2>1. GoodInRing' \subseteq GoodInRing
      <3>1. \A d \in Desc : desc'[d] # Empty => desc'[d] = desc[d]
        BY <1>4 DEF Drop, TypeInv, TypeOK, Full
      <3>. QED
        BY <3>1 DEF GoodInRing, Full
    <2>2. InMailbox' = InMailbox /\ WithHandler' = {}
      BY <1>2, <1>4 DEF Drop, lwip, InMailbox, WithHandler, Caller
    <2>. QED
      BY <1>1, <2>1, <2>2 DEF LC!Lose, OnTheWay
  <1>5. CASE UpdateReadBuffers("isr")
    <2>1. desc[rxBdCurrent] # Empty /\ desc[rxBdCurrent].ok /\ rxBdCurrent \in Full
      BY <1>5, DistFacts DEF UpdateReadBuffers, RingInv, InStep, GoodInv, Full
    <2>2. p["isr"] = desc[rxBdCurrent].n
      BY <1>5, <2>1 DEF UpdateReadBuffers, OrderInv, First
    <2>3. \A d \in Desc : desc'[d] # Empty => desc'[d] = desc[d]
      BY <1>5 DEF UpdateReadBuffers, TypeInv, TypeOK
    <2>4. GoodInRing' \subseteq GoodInRing
      BY <2>3 DEF GoodInRing, Full
    <2>5. p["isr"] \in GoodInRing
      BY <2>1, <2>2 DEF GoodInRing
    <2>6. InMailbox' = InMailbox /\ WithHandler' = {p["isr"]}
      BY <1>2, <1>5 DEF UpdateReadBuffers, lwip, InMailbox, WithHandler
    <2>. QED
      BY <1>1, <2>4, <2>5, <2>6 DEF LC!Lose, OnTheWay
  <1>6. CASE ReadNothing("isr")
    BY <1>6 DEF ReadNothing, RingInv, InStep
  <1>7. CASE Input("isr")
    <2>1. GoodInRing' = GoodInRing /\ WithHandler' = {}
      BY <1>2, <1>7 DEF Input, hw, GoodInRing, Full, WithHandler
    <2>2. WithHandler = {p["isr"]}
      BY <1>7 DEF Input, WithHandler
    <2>3. InMailbox' \subseteq InMailbox \cup {p["isr"]}
      <3>1. CASE UNCHANGED mbox
        BY <3>1 DEF InMailbox
      <3>2. CASE mbox' = Append(mbox, p["isr"])
        <4> DEFINE n == Len(mbox)
        <4>1. p["isr"] \in 0 .. MaxFrames
          BY DEF TypeInv, TypeOK, Reader
        <4>2. /\ Len(mbox') = n + 1 /\ mbox'[n + 1] = p["isr"]
              /\ \A i \in 1 .. n : mbox'[i] = mbox[i]
          BY <3>2, <4>1, MboxFacts, AppendProperties
        <4>3. n \in Nat
          BY MboxFacts
        <4>4. \A i \in 1 .. n + 1 : i = n + 1 \/ i \in 1 .. n
          BY <4>3
        <4>. QED
          BY <4>2, <4>4 DEF InMailbox
      <3>. QED
        BY <1>7, <3>1, <3>2 DEF Input
    <2>. QED
      BY <1>1, <2>1, <2>2, <2>3 DEF LC!Lose, OnTheWay
  <1>. QED
    BY <1>3, <1>4, <1>5, <1>6, <1>7 DEF EthernetifInput, Advance

(* The tcpip thread takes the oldest frame on the way.                     *)
LEMMA WayProcess ==
  ASSUME TypeInv, RingInv, OrderInv, polls = 0, Process
  PROVE  LC!Deliver
  <1> DEFINE n == Len(mbox)
  <1>1. /\ mbox' = Tail(mbox) /\ last' = Head(mbox) /\ mbox # <<>>
        /\ UNCHANGED <<pc, p, desc, arrived>> /\ pc["isr"] = "idle"
    BY DEF Process, driver, hw
  <1>2. /\ n \in Nat \ {0} /\ last' = mbox[1] /\ Len(mbox') = n - 1
        /\ \A i \in 1 .. n - 1 : mbox'[i] = mbox[i + 1]
    BY <1>1, MboxFacts, EmptySeq, HeadTailProperties
  <1>3. /\ \A i \in 1 .. n : mbox[i] < First /\ mbox[i] \in Nat
        /\ \A i, j \in 1 .. n : i < j => mbox[i] < mbox[j]
    BY MboxFacts DEF OrderInv
  <1>4. WithHandler = {} /\ WithHandler' = {} /\ GoodInRing' = GoodInRing
    BY <1>1 DEF WithHandler, GoodInRing, Full
  <1>5. \A g \in GoodInRing : g \in Nat /\ First <= g
    <2>1. \A d \in Full : desc[d].n = First + Dist(d)
      BY DEF RingInv, InStep, InSync, Full
    <2>2. \A d \in Full : Dist(d) \in Nat
      BY DistFacts DEF Full
    <2>. QED
      BY <2>1, <2>2, FirstType DEF GoodInRing
  <1> HIDE DEF n
  <1>6. 1 \in 1 .. n /\ mbox[1] \in Nat /\ \A i \in 2 .. n : mbox[1] < mbox[i] /\ mbox[i] \in Nat
    BY <1>2, <1>3
  <1>7. {mbox'[i] : i \in 1 .. n - 1} = {mbox[i] : i \in 2 .. n}
    <2>1. \A i \in 2 .. n : i - 1 \in 1 .. n - 1 /\ mbox[i] = mbox'[i - 1]
      BY <1>2
    <2>2. \A i \in 1 .. n - 1 : i + 1 \in 2 .. n /\ mbox'[i] = mbox[i + 1]
      BY <1>2
    <2>. QED
      BY <2>1, <2>2
  <1>8. InMailbox = {mbox[1]} \cup {mbox[i] : i \in 2 .. n}
    <2>1. \A i \in 1 .. n : i = 1 \/ i \in 2 .. n
      BY <1>2
    <2>2. \A i \in 2 .. n : i \in 1 .. n
      BY <1>2
    <2>3. InMailbox = {mbox[i] : i \in 1 .. n}
      BY DEF InMailbox, n
    <2>. QED
      BY <1>6, <2>1, <2>2, <2>3
  <1>9. InMailbox' = InMailbox \ {mbox[1]}
    <2>1. InMailbox' = {mbox'[i] : i \in 1 .. n - 1}
      BY <1>2 DEF InMailbox
    <2>. QED
      BY <1>6, <1>7, <1>8, <2>1
  <1>10. mbox[1] \notin GoodInRing
    BY <1>3, <1>5, <1>6, FirstType
  <1>11. \A g \in OnTheWay : mbox[1] <= g
    BY <1>3, <1>4, <1>5, <1>6, <1>8, FirstType DEF OnTheWay
  <1>. QED
    BY <1>1, <1>2, <1>4, <1>8, <1>9, <1>10, <1>11 DEF LC!Deliver, OnTheWay

(* Every step is one of the channel, or none.                              *)
LEMMA WayNext ==
  TypeInv /\ RingInv /\ OrderInv /\ GoodInv /\ [Next]_vars => [LC!Next]_(LC!channelVars)
  <1> SUFFICES ASSUME TypeInv, RingInv, OrderInv, GoodInv, [Next]_vars, polls' = 0
               PROVE  polls = 0 /\ (LC!Arrive \/ LC!Lose \/ LC!Deliver)
    BY DEF LC!Next
  <1>1. polls = 0 /\ ~Poll
    BY PollsGrow
  <1>2. ASSUME UNCHANGED <<desc, pc, p, mbox, arrived, last>> PROVE LC!Lose
    BY <1>2 DEF LC!Lose, OnTheWay, GoodInRing, Full, WithHandler, InMailbox
  <1>3. CASE IsrEnter \/ IsrCheck
    <2>1. UNCHANGED <<desc, p, mbox, arrived, last>>
      BY <1>3 DEF IsrEnter, IsrCheck, hw, lwip
    <2>2. pc["isr"] # "input" /\ pc'["isr"] # "input"
      BY <1>3 DEF IsrEnter, IsrCheck, GoTo, TypeInv, TypeOK, Reader
    <2>. QED
      BY <1>1, <2>1, <2>2 DEF LC!Lose, OnTheWay, GoodInRing, Full, WithHandler, InMailbox
  <1>4. CASE EthernetifInput("poll")
    BY <1>1, <1>4 DEF RingInv, InStep, EthernetifInput, GetRxFrameSize, Alloc, Drop, ReadFrame,
                      UpdateReadBuffers, Advance, ReadNothing, Input
  <1>5. CASE Release \/ UNCHANGED vars
    BY <1>1, <1>2, <1>5 DEF Release, vars, hw, driver, lwip
  <1>. QED
    BY <1>1, <1>3, <1>4, <1>5, WayArrive, WayInput, WayProcess DEF Next, Isr

(* At first nothing is on the way.                                         *)
LEMMA WayInit == Init => LC!Init
  BY EmptySeq DEF Init, LC!Init, OnTheWay, GoodInRing, Full, WithHandler, InMailbox, Reader

(* Frames may be lost in the ring, by the handler or for want of a         *)
(* message; what comes up is good, whole, once and in order, for every     *)
(* size of the ring and of the pools, as long as nobody polls.             *)
THEOREM LosesAndNothingWorse == Spec => ImplementsLossyChannel
  BY TypeInit, TypeNext, RingInit, RingNext, OrderInit, OrderNext, GoodInit, GoodNext,
     WayInit, WayNext, PTL DEF Spec, ImplementsLossyChannel, LC!Spec

=============================================================================
