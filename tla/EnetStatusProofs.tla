-------------------------- MODULE EnetStatusProofs --------------------------
(* Proofs about EnetStatus, for any set of addresses and any animation:    *)
(* the types, the queue, the turns of the painting, and that the queue     *)
(* announces one leased address for good.                                  *)
EXTENDS EnetStatus, TLAPS

USE AddrAssumption, ImagesAssumption

(* The actions of the status task and of the page.                         *)
Screen ==
    \/ Status \/ Gui \/ PageShown

(* Neither the interface nor the queue is touched by the screen's actions. *)
LEMMA ScreenFrame == ASSUME Screen PROVE UNCHANGED <<lwip, network, text>>
  BY DEF Screen, Status, Gui, StatusPeek, StatusLoad, StatusStore, StatusInvalidate,
         StatusAccess, StatusLast, Paint, PaintCompare, PaintDraw, PageShown,
         lwip, network, status, home

-----------------------------------------------------------------------------
(* The part of LeaseInv that the types rest on.                            *)
OneSend == dpc # "done" => IP_Queue = <<>>

TInv == TypeOK /\ OneSend

(* The types, and the one send that the length of IP_Queue relies on: the  *)
(* initial state.                                                          *)
LEMMA TInit == Init => TInv
  <1> SUFFICES ASSUME Init PROVE TInv
    OBVIOUS
  <1>1. lost \in BOOLEAN /\ dirty \in BOOLEAN
    BY DEF Init
  <1>. QED
    BY <1>1 DEF Init, TInv, TypeOK, OneSend, Blank, Internet

(* Every step preserves them.                                              *)
LEMMA TNext == TInv /\ [Next]_vars => TInv'
  <1> SUFFICES ASSUME TInv, [Next]_vars PROVE TInv'
    OBVIOUS
  <1> USE DEF TInv, TypeOK, OneSend, Blank, Internet
  <1>1. CASE Lwip
    <2>1. lost' \in BOOLEAN
      BY <1>1 DEF Lwip, Bind, SetAddr, Renew, LoseLease
    <2>2. CASE Bind \/ SetAddr \/ Renew
      BY <2>1, <2>2 DEF Bind, SetAddr, Renew, network, status, home
    <2>3. CASE LoseLease
      BY <2>1, <2>3 DEF LoseLease, network, status, home
    <2>. QED
      BY <1>1, <2>2, <2>3 DEF Lwip
  <1>2. CASE EnetInit
    BY <1>2 DEF EnetInit, status, home
  <1>3. CASE DhcpPoll
    BY <1>3 DEF DhcpPoll, lwip, status, home
  <1>4. CASE DhcpDelay
    BY <1>4 DEF DhcpDelay, lwip, status, home
  <1>5. CASE DhcpSend
    <2>1. IP_Queue = <<>>
      BY <1>5 DEF DhcpSend
    <2>2. IP_Queue' = <<ip_addr>>
      BY <1>5, <2>1 DEF DhcpSend, IPQUEUE_LENTH
    <2>. QED
      BY <1>5, <2>2 DEF DhcpSend, lwip, status, home
  <1>6. CASE Status
    <2>1. Increment(loaded) \in 0 .. NumImages + 1
      BY DEF Increment
    <2>2. CASE StatusPeek
      BY <2>2 DEF StatusPeek, lwip, network, home
    <2>3. CASE StatusLoad
      BY <2>3 DEF StatusLoad, lwip, network, home
    <2>4. CASE StatusStore
      BY <2>1, <2>4 DEF StatusStore, lwip, network
    <2>5. CASE StatusInvalidate
      BY <2>5 DEF StatusInvalidate, lwip, network
    <2>6. CASE StatusAccess
      BY <2>6 DEF StatusAccess, lwip, network
    <2>7. CASE StatusLast
      BY <2>7 DEF StatusLast, lwip, network
    <2>. QED
      BY <1>6, <2>2, <2>3, <2>4, <2>5, <2>6, <2>7 DEF Status
  <1>7. CASE Gui
    <2>1. CASE Paint
      <3>1. icon' \in {Internet, Blank} /\ gpc' \in {"idle", "compare"}
        BY <2>1 DEF Paint
      <3>2. dirty' \in BOOLEAN
        BY <2>1 DEF Paint
      <3>3. UNCHANGED <<lwip, network, status, GifFarme, text>>
        BY <2>1 DEF Paint
      <3>. QED
        BY <3>1, <3>2, <3>3 DEF lwip, network, status
    <2>2. CASE PaintCompare
      BY <2>2 DEF PaintCompare, lwip, network, status
    <2>3. CASE PaintDraw
      BY <2>3 DEF PaintDraw, lwip, network, status
    <2>. QED
      BY <1>7, <2>1, <2>2, <2>3 DEF Gui
  <1>8. CASE PageShown
    BY <1>8 DEF PageShown, lwip, network, status
  <1>9. CASE Disp_IPText
    BY <1>9 DEF Disp_IPText, lwip, network, status
  <1>10. CASE UNCHANGED vars
    BY <1>10 DEF vars, lwip, network, status, home
  <1>. QED
    BY <1>1, <1>2, <1>3, <1>4, <1>5, <1>6, <1>7, <1>8, <1>9, <1>10 DEF Next, Dhcp

(* Every variable keeps its type, for every number of addresses and        *)
(* images; IP_Queue never holds more than its one item.                    *)
THEOREM TypeCorrect == Spec => []TypeOK
  <1>1. TInv => TypeOK
    BY DEF TInv
  <1>. QED
    BY TInit, TNext, <1>1, PTL DEF Spec

(* What one step may do to the queue: fill it, and only if it is empty.    *)
LEMMA QueueStep ==
  ASSUME TInv, Next, IP_Queue # <<>>
  PROVE  IP_Queue' = IP_Queue
  <1>1. dpc = "done"
    BY DEF TInv, OneSend
  <1>2. CASE Screen
    BY <1>2, ScreenFrame DEF network
  <1>3. CASE Lwip
    BY <1>3 DEF Lwip, Bind, SetAddr, Renew, LoseLease, network
  <1>4. CASE Dhcp
    BY <1>1, <1>4 DEF Dhcp, EnetInit, DhcpPoll, DhcpDelay, DhcpSend
  <1>5. CASE Disp_IPText
    BY <1>5 DEF Disp_IPText, network
  <1>. QED
    BY <1>2, <1>3, <1>4, <1>5 DEF Next, Screen

(* The address in IP_Queue stays as it is, whatever becomes of the lease:  *)
(* the tasks that wait for it only peek.                                   *)
THEOREM QueueKeepsAddress == Spec => AddressSticks
  <1>1. TInv /\ [Next]_vars => [IP_Queue # <<>> => IP_Queue' = IP_Queue]_vars
    BY QueueStep DEF vars, network
  <1>. QED
    BY TInit, TNext, <1>1, PTL DEF Spec, AddressSticks

-----------------------------------------------------------------------------
(* TurnInv at the start.                                                   *)
LEMMA TurnInit == Init => TurnInv
  BY DEF Init, TurnInv, DrawsNoFurtherThanNext, Blank

(* The steps outside the screen do not touch what TurnInv is about.        *)
LEMMA NetworkFrame ==
  ASSUME Lwip \/ Dhcp \/ Disp_IPText \/ UNCHANGED vars
  PROVE  UNCHANGED <<npc, loaded, gpc, GifFarme, icon>>
  BY DEF Lwip, Bind, SetAddr, Renew, LoseLease, Dhcp, EnetInit, DhcpPoll, DhcpDelay,
         DhcpSend, Disp_IPText, vars, status, home

(* Every step preserves TurnInv: the increments and the drawing take turns *)
(* through the GUI lock.                                                   *)
LEMMA TurnNext == TInv /\ TurnInv /\ [Next]_vars => TurnInv'
  <1> SUFFICES ASSUME TInv, TurnInv, [Next]_vars PROVE TurnInv'
    OBVIOUS
  <1> USE DEF TurnInv, DrawsNoFurtherThanNext
  <1>1. loaded \in Int /\ GifFarme \in Int /\ icon \in Int /\ NumImages \in Int
    BY DEF TInv, TypeOK, Blank, Internet
  <1>2. CASE Lwip \/ Dhcp \/ Disp_IPText \/ UNCHANGED vars
    BY <1>2, NetworkFrame
  <1>3. CASE StatusPeek
    BY <1>3 DEF StatusPeek, home
  <1>4. CASE StatusLoad
    BY <1>1, <1>4 DEF StatusLoad, home
  <1>5. CASE StatusStore
    BY <1>1, <1>5 DEF StatusStore, Increment
  <1>6. CASE StatusInvalidate
    BY <1>6 DEF StatusInvalidate
  <1>7. CASE StatusAccess
    BY <1>1, <1>7 DEF StatusAccess
  <1>8. CASE StatusLast
    BY <1>8 DEF StatusLast
  <1>9. CASE Paint
    BY <1>1, <1>9 DEF Paint, status, Blank, Internet
  <1>10. CASE PaintCompare
    BY <1>1, <1>10 DEF PaintCompare, status
  <1>11. CASE PaintDraw
    BY <1>1, <1>11 DEF PaintDraw, status
  <1>12. CASE PageShown
    BY <1>12 DEF PageShown, status
  <1>. QED
    BY <1>2, <1>3, <1>4, <1>5, <1>6, <1>7, <1>8, <1>9, <1>10, <1>11, <1>12
    DEF Next, Status, Gui

(* However the unlocked increments fall between the test of GifFarme and   *)
(* the drawing, the image asked for is one after the last at most, and     *)
(* that only if an increment came between the two.                         *)
THEOREM DrawRaceIsBounded == Spec => []DrawsNoFurtherThanNext
  <1>1. TurnInv => DrawsNoFurtherThanNext
    BY DEF TurnInv
  <1>. QED
    BY TInit, TNext, TurnInit, TurnNext, <1>1, PTL DEF Spec

-----------------------------------------------------------------------------
(* LeaseInv at the start.                                                  *)
LEMMA LeaseInit == Init => LeaseInv
  BY DEF Init, LeaseInv

(* Every step preserves LeaseInv: this is where the priority of the tcpip  *)
(* thread matters.                                                         *)
LEMMA LeaseNext == TInv /\ LeaseInv /\ [Next]_vars => LeaseInv'
  <1> SUFFICES ASSUME TInv, LeaseInv, [Next]_vars PROVE LeaseInv'
    OBVIOUS
  <1>0. DhcpRuns => offered = <<>>
    BY DEF DhcpRuns, TCPIP_THREAD_PRIO, VTASKDHCP_TASK_PRIO
  <1> USE DEF TInv, TypeOK, OneSend, LeaseInv
  <1>1. CASE Bind
    BY <1>1 DEF Bind, network
  <1>2. CASE SetAddr
    BY <1>2 DEF SetAddr, network
  <1>3. CASE Renew
    BY <1>3 DEF Renew, network
  <1>4. CASE LoseLease
    BY <1>4 DEF LoseLease, network
  <1>5. CASE EnetInit
    BY <1>5 DEF EnetInit
  <1>6. CASE DhcpPoll
    BY <1>0, <1>6 DEF DhcpPoll, lwip
  <1>7. CASE DhcpDelay
    BY <1>7 DEF DhcpDelay, lwip
  <1>8. CASE DhcpSend
    <2>1. IP_Queue' = <<ip_addr>> /\ (lost \/ ip_addr # ZeroAddr)
      BY <1>8 DEF DhcpSend, IPQUEUE_LENTH
    <2>. QED
      BY <1>8, <2>1 DEF DhcpSend, lwip
  <1>9. CASE Screen
    BY <1>9, ScreenFrame DEF lwip, network
  <1>10. CASE Disp_IPText
    BY <1>10 DEF Disp_IPText, lwip, network
  <1>11. CASE UNCHANGED vars
    BY <1>11 DEF vars, lwip, network
  <1>. QED
    BY <1>1, <1>2, <1>3, <1>4, <1>5, <1>6, <1>7, <1>8, <1>9, <1>10, <1>11
    DEF Next, Lwip, Dhcp, Screen

LEMMA AllInv == Spec => [](TInv /\ TurnInv /\ LeaseInv)
  BY TInit, TNext, TurnInit, TurnNext, LeaseInit, LeaseNext, PTL DEF Spec

(* Where an address is on its way to the queue, the interface has one,     *)
(* unless the lease was lost at that moment (dhcp.c:1114).                 *)
THEOREM LeaseCorrect == Spec => []LeaseInv
  BY AllInv, PTL

(* The increments of vTaskenetstatus and the painting take turns, although *)
(* only the painting holds the GUI lock (HomeActivity.c:365).              *)
THEOREM TurnsAlternate == Spec => []TurnInv
  BY AllInv, PTL

(* A step of the board is a step of the announcement, or none.             *)
LEMMA BoardStep ==
  ASSUME TInv, LeaseInv, [Next]_vars
  PROVE  [Board!Next]_<<IP_Queue, lost, text>>
  <1> USE DEF Board!Next, Board!Lose, Board!Announce, Board!Look
  <1>1. CASE Screen
    BY <1>1, ScreenFrame DEF network, lwip
  <1>2. CASE Lwip
    <2>1. CASE Bind \/ SetAddr \/ Renew
      BY <2>1 DEF Bind, SetAddr, Renew, network, home
    <2>2. CASE LoseLease
      <3>1. CASE dpc = "send"
        BY <2>2, <3>1 DEF LoseLease, network, home, TInv, OneSend
      <3>2. CASE dpc # "send"
        <4>1. lost' = lost
          BY <2>2, <3>2 DEF LoseLease, TInv, TypeOK
        <4>. QED
          BY <2>2, <4>1 DEF LoseLease, network, home
      <3>. QED
        BY <3>1, <3>2
    <2>. QED
      BY <1>2, <2>1, <2>2 DEF Lwip
  <1>3. CASE EnetInit \/ DhcpPoll \/ DhcpDelay
    BY <1>3 DEF EnetInit, DhcpPoll, DhcpDelay, lwip, home
  <1>4. CASE DhcpSend
    <2>1. IP_Queue = <<>> /\ IP_Queue' = <<ip_addr>>
      BY <1>4 DEF DhcpSend, IPQUEUE_LENTH, TInv, OneSend
    <2>2. ip_addr \in Addr \cup (IF lost THEN {ZeroAddr} ELSE {})
      BY <1>4 DEF DhcpSend, TInv, TypeOK, LeaseInv
    <2>. QED
      BY <1>4, <2>1, <2>2 DEF DhcpSend, lwip, home
  <1>5. CASE Disp_IPText
    BY <1>5 DEF Disp_IPText, network, lwip
  <1>6. CASE UNCHANGED vars
    BY <1>6 DEF vars, network, lwip, home
  <1>. QED
    BY <1>1, <1>2, <1>3, <1>4, <1>5, <1>6 DEF Next, Dhcp, Screen

(* EnetStatus implements Announcement: one leased address is announced for *)
(* good, 0.0.0.0 only if the lease was lost at that moment, and the address *)
(* text shows it or, before, 0.0.0.0.                                      *)
THEOREM AnnouncesAddress == Spec => ImplementsAnnouncement
  <1>1. Init => Board!Init
    BY DEF Init, Board!Init
  <1>2. TInv /\ LeaseInv /\ [Next]_vars => [Board!Next]_<<IP_Queue, lost, text>>
    BY BoardStep
  <1>. QED
    BY <1>1, <1>2, AllInv, PTL DEF Spec, ImplementsAnnouncement, Board!Spec

=============================================================================
