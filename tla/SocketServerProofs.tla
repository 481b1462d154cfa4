------------------------- MODULE SocketServerProofs -------------------------
(* Proofs about SocketServer, for any number of clients, messages and      *)
(* presses of the button.                                                  *)
EXTENDS SocketServer, FiniteSetTheorems, SequenceTheorems, TLAPS

(* What is in a slot tells its uses apart.                                 *)
LEMMA SlotValues ==
  /\ HalfClosed = {Closing, WebClosing}
  /\ {Free, Listen, Web, Closing, WebClosing} \cap Conns = {}
  /\ Free \notin {Listen, Web, Closing, WebClosing}
  /\ Listen \notin {Web, Closing, WebClosing}
  /\ Web \notin {Closing, WebClosing}
  /\ Closing # WebClosing
  BY ConnsAssumption DEF Free, Listen, Web, Closing, WebClosing, HalfClosed

(* The readers and the network do not touch what LockHolderAlive is about. *)
LEMMA OthersFrame ==
  ASSUME Network \/ \E c \in Conns : ReaderStep(c) \/ ReaderSendTimeout(c)
  PROVE  UNCHANGED <<gpc, spc, qpc, lock>>
  <1> USE DEF gui, server, mutex, queue
  <1>1. CASE Network
    BY <1>1 DEF Network, IpArrives, Connect, ClientSend, ClientEnds
  <1>2. ASSUME NEW c \in Conns, ReaderStep(c) \/ ReaderSendTimeout(c)
        PROVE  UNCHANGED <<gpc, spc, qpc, lock>>
    BY <1>2 DEF ReaderStep, ReaderStart, ReaderRead, ReaderSend, ReaderClose, ReaderFree,
                ReaderSendTimeout
  <1>. QED
    BY <1>1, <1>2

(* LockHolderAlive at the start.                                           *)
LEMMA LockInit == Init => LockHolderAlive
  BY DEF Init, LockHolderAlive

(* Every step preserves LockHolderAlive: the GUI task holds the mutex in   *)
(* every step in which it deletes a task.                                  *)
LEMMA LockNext == LockHolderAlive /\ [Next]_vars => LockHolderAlive'
  <1> SUFFICES ASSUME LockHolderAlive, [Next]_vars PROVE LockHolderAlive'
    OBVIOUS
  <1> USE DEF LockHolderAlive, gui, server, mutex, queue
  <1>1. CASE GuiLock \/ GuiUnlock
    BY <1>1 DEF GuiLock, GuiUnlock
  <1>2. CASE OpenSocketServer \/ CreateQueueRead
    BY <1>2 DEF OpenSocketServer, CreateQueueRead
  <1>3. CASE CloseServerSocket
    BY <1>3 DEF CloseServerSocket
  <1>4. CASE DeleteServer \/ DeleteQueueRead
    BY <1>4 DEF DeleteServer, DeleteQueueRead
  <1>5. CASE WeatherSocket \/ WeatherClose \/ WeatherFree
    BY <1>5 DEF WeatherSocket, WeatherClose, WeatherFree
  <1>6. CASE ServerSocket \/ ServerPeek \/ ServerBind
    BY <1>6 DEF ServerSocket, ServerPeek, ServerBind
  <1>7. CASE ServerAccept \/ ServerAcceptClosed
    BY <1>7 DEF ServerAccept, ServerAcceptClosed
  <1>8. CASE ServerButton \/ ServerDraw \/ ServerServe
    BY <1>8 DEF ServerButton, ServerDraw, ServerServe
  <1>9. CASE QueueReceive \/ QueueInvalidate \/ QueueUnlock
    BY <1>9 DEF QueueReceive, QueueInvalidate, QueueUnlock
  <1>10. CASE Network \/ \E c \in Conns : ReaderStep(c) \/ ReaderSendTimeout(c)
    BY <1>10, OthersFrame
  <1>11. CASE UNCHANGED vars
    BY <1>11 DEF vars
  <1>. QED
    BY <1>1, <1>2, <1>3, <1>4, <1>5, <1>6, <1>7, <1>8, <1>9, <1>10, <1>11
    DEF Next, GuiStep, ServerStep, QueueStep

(* The GUI mutex always has a living holder: whatever the clients do and   *)
(* whenever the button is pressed, no task dies with it.                   *)
THEOREM LockNeverLost == Spec => []LockHolderAlive
  BY LockInit, LockNext, PTL DEF Spec

-----------------------------------------------------------------------------
(* The pool of netconns.                                                   *)

(* alloc_socket returns a free slot, the first one.                        *)
LEMMA FirstFreeIsFree ==
  ASSUME FreeSlots # {}
  PROVE  /\ FirstFree \in Slot /\ slot[FirstFree] = Free
         /\ slot[0] = Free => FirstFree = 0
  <1>1. FreeSlots \subseteq 0 .. 3
    BY DEF FreeSlots, Slot, NUM_SOCKETS
  <1>2. \E s \in FreeSlots : \A t \in FreeSlots : s <= t
    <2>1. CASE 0 \in FreeSlots
      BY <1>1, <2>1
    <2>2. CASE 0 \notin FreeSlots /\ 1 \in FreeSlots
      BY <1>1, <2>2
    <2>3. CASE 0 \notin FreeSlots /\ 1 \notin FreeSlots /\ 2 \in FreeSlots
      BY <1>1, <2>3
    <2>4. CASE 0 \notin FreeSlots /\ 1 \notin FreeSlots /\ 2 \notin FreeSlots
      <3>1. \A t \in FreeSlots : t = 3
        BY <1>1, <2>4
      <3>. QED
        BY <3>1
    <2>. QED
      BY <2>1, <2>2, <2>3, <2>4
  <1>3. FirstFree \in FreeSlots /\ \A t \in FreeSlots : FirstFree <= t
    BY <1>2 DEF FirstFree
  <1>4. slot[0] = Free => 0 \in FreeSlots
    BY DEF FreeSlots, Slot, NUM_SOCKETS
  <1>5. slot[0] = Free => FirstFree = 0
    BY <1>1, <1>3, <1>4
  <1>. QED
    BY <1>3, <1>5 DEF FreeSlots

(* The sets that are counted are finite.                                   *)
LEMMA PoolFinite ==
  /\ IsFiniteSet(Slot) /\ Cardinality(Slot) = NUM_SOCKETS
  /\ IsFiniteSet(InUse) /\ Cardinality(InUse) \in Nat
  /\ IsFiniteSet(Pending) /\ Cardinality(Pending) \in Nat
  <1>1. IsFiniteSet(Slot) /\ Cardinality(Slot) = 4
    <2>1. Slot = 0 .. 3
      BY DEF Slot, NUM_SOCKETS
    <2>2. /\ IsFiniteSet(0 .. 3)
          /\ Cardinality(0 .. 3) = IF 0 > 3 THEN 0 ELSE 3 - 0 + 1
      <3>1. 0 \in Int /\ 3 \in Int
        OBVIOUS
      <3>. QED
        BY <3>1, FS_Interval, Zenon
    <2>. QED
      BY <2>1, <2>2
  <1>2. IsFiniteSet(InUse)
    BY <1>1, FS_Subset DEF InUse
  <1>3. IsFiniteSet(Pending)
    BY ConnsAssumption, FS_Subset DEF Pending
  <1>. QED
    BY <1>1, <1>2, <1>3, FS_CardinalityType DEF NUM_SOCKETS

-----------------------------------------------------------------------------
(* Types.                                                                  *)

(* The types at the start.                                                 *)
LEMMA TypeInit == Init => TypeOK
  <1> SUFFICES ASSUME Init PROVE TypeOK
    OBVIOUS
  <1> USE SizesAssumption DEF Init
  <1>1. slot \in [Slot -> {Free, Listen, Web} \cup HalfClosed \cup Conns]
    OBVIOUS
  <1>2. rbuf \in [Conns -> Msg] /\ shown \in [1 .. 3 -> Msg]
    BY DEF Msg
  <1>3. Socket_Queue \in Seq([id : {NoSock} \cup Slot, msg : Msg]) /\ acceptmbox \in Seq(Conns)
    OBVIOUS
  <1>4. Len(Socket_Queue) <= SOCKETQUEUE_LENTH
    OBVIOUS
  <1>5. sent \in [Conns -> 0 .. MaxMsgs] /\ got \in [Conns -> 0 .. MaxMsgs]
    OBVIOUS
  <1>6. /\ gpc = "idle" /\ lock = "none" /\ boosted = FALSE /\ opened = FALSE
        /\ presses \in 0 .. MaxPress /\ spc = "none" /\ caller = Nobody
        /\ qpc = "none" /\ lowRan = FALSE /\ ipReady = FALSE /\ port = "none"
        /\ sock_client = NoSock
    OBVIOUS
  <1>7. /\ rpc \in [Conns -> {"none"}] /\ rsock \in [Conns -> {NoSock}]
        /\ given \in [Conns -> {NoSock}]
        /\ cstate \in [Conns -> {"new"}] /\ peer \in [Conns -> {"up"}]
    OBVIOUS
  <1> HIDE DEF Init
  <1>. QED
    BY <1>1, <1>2, <1>3, <1>4, <1>5, <1>6, <1>7
    DEF TypeOK, TaskTypes, ReaderTypes, QueueTypes, LwipTypes

(* Parts of the state a step leaves alone keep their types.                *)
LEMMA TypeFrame ==
  ASSUME TypeOK
  PROVE  /\ UNCHANGED <<gui, mutex, server, qpc, ipReady, port>> /\ lowRan' \in BOOLEAN
               => TaskTypes'
         /\ UNCHANGED readers => ReaderTypes'
         /\ UNCHANGED <<Socket_Queue, shown>> => QueueTypes'
         /\ UNCHANGED <<slot, acceptmbox, cstate, peer, sent, got>> => LwipTypes'
  <1>1. UNCHANGED <<gui, mutex, server, qpc, ipReady, port>> /\ lowRan' \in BOOLEAN
          => TaskTypes'
    BY DEF TypeOK, TaskTypes, gui, mutex, server
  <1>2. UNCHANGED readers => ReaderTypes'
    BY DEF TypeOK, ReaderTypes, readers
  <1>3. UNCHANGED <<Socket_Queue, shown>> => QueueTypes'
    BY DEF TypeOK, QueueTypes
  <1>4. UNCHANGED <<slot, acceptmbox, cstate, peer, sent, got>> => LwipTypes'
    BY DEF TypeOK, LwipTypes
  <1>. QED
    BY <1>1, <1>2, <1>3, <1>4

(* A read that does not fail has a connection.                             *)
LEMMA ReadsConnection ==
  ASSUME TypeOK, NEW c \in Conns, ~ReadFails(rsock[c])
  PROVE  rsock[c] \in Slot /\ slot[rsock[c]] \in Conns
  BY SlotValues DEF TypeOK, ReaderTypes, ReadFails, At

(* What a step that closes a socket does: the reader goes on or ends, a    *)
(* reader that waits in its mailbox is stuck, and the slot is half closed. *)
LEMMA CloseFacts ==
  ASSUME TypeOK, NEW c \in Conns, ReaderClose(c)
  PROVE  /\ rpc[c] = "close" /\ rpc'[c] \in {"free", "done", "stuck"}
         /\ rpc' = [r \in Conns |-> rpc'[r]]
         /\ \A r \in Conns : r # c => rpc'[r] \in {rpc[r], "stuck"}
         /\ rbuf' \in {rbuf, [rbuf EXCEPT ![c] = NoMsg]}
         /\ rbuf' # rbuf => rpc'[c] = "done"
         /\ \/ slot' = slot /\ rpc'[c] # "free"
            \/ /\ slot[rsock[c]] \notin {Free} \cup HalfClosed /\ rpc'[c] = "free"
               /\ slot' = [slot EXCEPT ![rsock[c]] = Closing]
         /\ cstate' = [d \in Conns |-> cstate'[d]]
         /\ \A d \in Conns : cstate'[d] # cstate[d] => cstate'[d] = "gone" /\ slot[rsock[c]] = d
         /\ ReaderMayRun /\ lowRan' = FALSE
         /\ UNCHANGED <<gui, mutex, server, rsock, given, queue, ipReady, acceptmbox, port,
                        peer, sent, got>>
  <1>1. /\ rpc \in [Conns -> {"none", "start", "dangling", "read", "send", "close", "free",
                              "stuck", "done"}]
        /\ cstate \in [Conns -> {"new", "pending", "aborted", "open", "gone"}]
    BY DEF TypeOK, ReaderTypes, LwipTypes
  <1>2. CASE CloseNothing(c)
    BY <1>1, <1>2 DEF ReaderClose, ReaderRuns, CloseNothing
  <1>3. CASE FreeTwice(c)
    BY <1>1, <1>3 DEF ReaderClose, ReaderRuns, FreeTwice
  <1>4. CASE NetconnDelete(c)
    BY <1>1, <1>4 DEF ReaderClose, ReaderRuns, NetconnDelete
  <1>. QED
    BY <1>2, <1>3, <1>4 DEF ReaderClose

(* What a step that reads does: the reader sends, closes or is stuck, and  *)
(* it closes no slot that is not there.                                    *)
LEMMA ReadFacts ==
  ASSUME TypeOK, NEW c \in Conns, ReaderRead(c)
  PROVE  /\ rpc[c] = "read"
         /\ \E place \in {"send", "close", "stuck"} : rpc' = [rpc EXCEPT ![c] = place]
         /\ rpc'[c] = "close" => rsock[c] # NoSock
         /\ ReaderMayRun /\ lowRan' = FALSE
         /\ UNCHANGED <<gui, mutex, server, rsock, given, queue, ipReady, slot, acceptmbox,
                        port, cstate, peer, sent>>
  <1>1. NoSock \notin Slot /\ Free \notin HalfClosed
    BY SlotValues DEF NoSock, Slot, NUM_SOCKETS
  <1>2. /\ rpc[c] = "read" /\ ReaderMayRun /\ lowRan' = FALSE
        /\ UNCHANGED <<gui, mutex, server, rsock, given, queue, ipReady, slot, acceptmbox,
                       port, cstate, peer, sent>>
        /\ ReadError(c) \/ ReadData(c) \/ ReadEnd(c) \/ ReadFreed(c)
    BY DEF ReaderRead, ReaderRuns
  <1>3. \E place \in {"send", "close", "stuck"} : rpc' = [rpc EXCEPT ![c] = place]
    BY <1>2 DEF ReadError, ReadData, ReadEnd, ReadFreed
  <1>4. ASSUME rpc'[c] = "close" PROVE rsock[c] # NoSock
    <2>1. rpc \in [Conns -> {"none", "start", "dangling", "read", "send", "close", "free",
                             "stuck", "done"}]
      BY DEF TypeOK, ReaderTypes
    <2>2. ReadEnd(c) \/ ReadFreed(c)
      BY <1>2, <1>4, <2>1 DEF ReadError, ReadData
    <2>3. CASE ReadEnd(c)
      BY <1>1, <2>3, ReadsConnection DEF ReadEnd
    <2>4. CASE ReadFreed(c)
      BY <1>1, <2>4 DEF ReadFreed, At
    <2>. QED
      BY <2>2, <2>3, <2>4
  <1>. QED
    BY <1>2, <1>3, <1>4

(* Every step keeps the types; the queue's limit comes from ReaderSend.    *)
LEMMA TypeNext == TypeOK /\ [Next]_vars => TypeOK'
  <1> SUFFICES ASSUME TypeOK, [Next]_vars PROVE TypeOK'
    OBVIOUS
  <1> USE SizesAssumption DEF gui, server, mutex, readers, queue, lwip, ReaderRuns, LowRuns
  <1>1. CASE GuiLock
    <2>1. TaskTypes'
      BY <1>1 DEF GuiLock, TypeOK, TaskTypes
    <2>2. ReaderTypes' /\ QueueTypes' /\ LwipTypes'
      BY <1>1, TypeFrame DEF GuiLock
    <2>. QED
      BY <2>1, <2>2 DEF TypeOK
  <1>2. CASE GuiUnlock
    <2>1. TaskTypes'
      BY <1>2 DEF GuiUnlock, TypeOK, TaskTypes
    <2>2. ReaderTypes' /\ QueueTypes' /\ LwipTypes'
      BY <1>2, TypeFrame DEF GuiUnlock
    <2>. QED
      BY <2>1, <2>2 DEF TypeOK
  <1>3. CASE OpenSocketServer
    <2>1. TaskTypes'
      BY <1>3 DEF OpenSocketServer, TypeOK, TaskTypes
    <2>2. ReaderTypes' /\ QueueTypes' /\ LwipTypes'
      BY <1>3, TypeFrame DEF OpenSocketServer
    <2>. QED
      BY <2>1, <2>2 DEF TypeOK
  <1>4. CASE CreateQueueRead
    <2>1. TaskTypes'
      BY <1>4 DEF CreateQueueRead, TypeOK, TaskTypes
    <2>2. ReaderTypes' /\ QueueTypes' /\ LwipTypes'
      BY <1>4, TypeFrame DEF CreateQueueRead
    <2>. QED
      BY <2>1, <2>2 DEF TypeOK
  <1>5. CASE CloseServerSocket
    <2>1. TaskTypes'
      <3>1. presses' \in 0 .. MaxPress
        BY <1>5 DEF CloseServerSocket, TypeOK, TaskTypes
      <3>2. spc' \in {"accept", "stranded"} \cup {spc}
        <4>1. CASE spc = "accept" /\ Listening
          BY <1>5, <4>1 DEF CloseServerSocket
        <4>2. CASE ~(spc = "accept" /\ Listening)
          BY <1>5, <4>2 DEF CloseServerSocket
        <4>. QED
          BY <4>1, <4>2
      <3>. QED
        BY <1>5, <3>1, <3>2 DEF CloseServerSocket, TypeOK, TaskTypes
    <2>2. LwipTypes'
      BY <1>5 DEF CloseServerSocket, TypeOK, LwipTypes
    <2>3. ReaderTypes' /\ QueueTypes'
      BY <1>5, TypeFrame DEF CloseServerSocket
    <2>. QED
      BY <2>1, <2>2, <2>3 DEF TypeOK
  <1>6. CASE DeleteServer
    <2>1. TaskTypes'
      BY <1>6 DEF DeleteServer, TypeOK, TaskTypes
    <2>2. ReaderTypes'
      BY <1>6 DEF DeleteServer, TypeOK, ReaderTypes
    <2>3. QueueTypes' /\ LwipTypes'
      BY <1>6, TypeFrame DEF DeleteServer
    <2>. QED
      BY <2>1, <2>2, <2>3 DEF TypeOK
  <1>7. CASE DeleteQueueRead
    <2>1. TaskTypes'
      BY <1>7 DEF DeleteQueueRead, TypeOK, TaskTypes
    <2>2. ReaderTypes' /\ QueueTypes' /\ LwipTypes'
      BY <1>7, TypeFrame DEF DeleteQueueRead
    <2>. QED
      BY <2>1, <2>2 DEF TypeOK
  <1>8. CASE WeatherSocket
    <2>1. TaskTypes'
      BY <1>8 DEF WeatherSocket, TypeOK, TaskTypes
    <2>2. LwipTypes'
      BY <1>8 DEF WeatherSocket, TypeOK, LwipTypes
    <2>3. ReaderTypes' /\ QueueTypes'
      BY <1>8, TypeFrame DEF WeatherSocket
    <2>. QED
      BY <2>1, <2>2, <2>3 DEF TypeOK
  <1>9. CASE WeatherClose
    <2>1. TaskTypes'
      BY <1>9 DEF WeatherClose, TypeOK, TaskTypes
    <2>2. LwipTypes'
      BY <1>9 DEF WeatherClose, TypeOK, LwipTypes, HalfClosed
    <2>3. ReaderTypes' /\ QueueTypes'
      BY <1>9, TypeFrame DEF WeatherClose
    <2>. QED
      BY <2>1, <2>2, <2>3 DEF TypeOK
  <1>31. CASE WeatherFree
    <2>1. TaskTypes'
      BY <1>31 DEF WeatherFree, TypeOK, TaskTypes
    <2>2. LwipTypes'
      BY <1>31 DEF WeatherFree, TypeOK, LwipTypes
    <2>3. ReaderTypes' /\ QueueTypes'
      BY <1>31, TypeFrame DEF WeatherFree
    <2>. QED
      BY <2>1, <2>2, <2>3 DEF TypeOK
  <1>10. CASE ServerSocket
    <2>1. TaskTypes'
      BY <1>10 DEF ServerSocket, TypeOK, TaskTypes
    <2>2. LwipTypes'
      BY <1>10 DEF ServerSocket, TypeOK, LwipTypes
    <2>3. ReaderTypes' /\ QueueTypes'
      BY <1>10, TypeFrame DEF ServerSocket
    <2>. QED
      BY <2>1, <2>2, <2>3 DEF TypeOK
  <1>11. CASE ServerPeek
    <2>1. TaskTypes'
      BY <1>11 DEF ServerPeek, TypeOK, TaskTypes
    <2>2. ReaderTypes' /\ QueueTypes' /\ LwipTypes'
      BY <1>11, TypeFrame DEF ServerPeek
    <2>. QED
      BY <2>1, <2>2 DEF TypeOK
  <1>12. CASE ServerBind
    <2>1. TaskTypes'
      BY <1>12 DEF ServerBind, TypeOK, TaskTypes
    <2>2. ReaderTypes' /\ QueueTypes' /\ LwipTypes'
      BY <1>12, TypeFrame DEF ServerBind
    <2>. QED
      BY <2>1, <2>2 DEF TypeOK
  <1>13. CASE ServerAccept
    <2> DEFINE c == Head(acceptmbox)
    <2>a. c \in Conns /\ Tail(acceptmbox) \in Seq(Conns)
      BY <1>13 DEF ServerAccept, TypeOK, LwipTypes
    <2>b. /\ sock_client' \in {NoSock} \cup Slot
          /\ slot' \in [Slot -> {Free, Listen, Web} \cup HalfClosed \cup Conns]
          /\ cstate' \in [Conns -> {"new", "pending", "aborted", "open", "gone"}]
      <3>1. CASE AcceptFails(c)
        BY <3>1, <2>a DEF AcceptFails, TypeOK, LwipTypes
      <3>2. CASE AcceptReturns(c)
        BY <3>2, <2>a, FirstFreeIsFree DEF AcceptReturns, TypeOK, LwipTypes
      <3>. QED
        BY <1>13, <3>1, <3>2 DEF ServerAccept
    <2>1. TaskTypes'
      <3>1. boosted' \in BOOLEAN /\ caller' = c /\ spc' = "button"
        BY <1>13 DEF ServerAccept
      <3> HIDE DEF c
      <3>. QED
        BY <1>13, <3>1, <2>a, <2>b DEF ServerAccept, TypeOK, TaskTypes
    <2>2. ReaderTypes'
      <3>1. given' = [given EXCEPT ![c] = sock_client']
        BY <1>13 DEF ServerAccept
      <3> HIDE DEF c
      <3>. QED
        BY <1>13, <3>1, <2>a, <2>b DEF ServerAccept, TypeOK, ReaderTypes
    <2>3. LwipTypes'
      BY <1>13, <2>a, <2>b DEF ServerAccept, TypeOK, LwipTypes
    <2>4. QueueTypes'
      BY <1>13, TypeFrame DEF ServerAccept
    <2>. QED
      BY <2>1, <2>2, <2>3, <2>4 DEF TypeOK
  <1>14. CASE ServerAcceptClosed
    <2>1. TaskTypes'
      BY <1>14 DEF ServerAcceptClosed, TypeOK, TaskTypes
    <2>2. ReaderTypes' /\ QueueTypes' /\ LwipTypes'
      BY <1>14, TypeFrame DEF ServerAcceptClosed
    <2>. QED
      BY <2>1, <2>2 DEF TypeOK
  <1>15. CASE ServerButton
    <2>1. TaskTypes'
      BY <1>15 DEF ServerButton, TypeOK, TaskTypes
    <2>2. ReaderTypes' /\ QueueTypes' /\ LwipTypes'
      BY <1>15, TypeFrame DEF ServerButton
    <2>. QED
      BY <2>1, <2>2 DEF TypeOK
  <1>16. CASE ServerDraw
    <2>1. TaskTypes'
      BY <1>16 DEF ServerDraw, TypeOK, TaskTypes
    <2>2. ReaderTypes' /\ QueueTypes' /\ LwipTypes'
      BY <1>16, TypeFrame DEF ServerDraw
    <2>. QED
      BY <2>1, <2>2 DEF TypeOK
  <1>17. CASE ServerServe
    <2>1. TaskTypes'
      BY <1>17 DEF ServerServe, TypeOK, TaskTypes
    <2>2. ReaderTypes'
      BY <1>17 DEF ServerServe, TypeOK, ReaderTypes
    <2>3. QueueTypes' /\ LwipTypes'
      BY <1>17, TypeFrame DEF ServerServe
    <2>. QED
      BY <2>1, <2>2, <2>3 DEF TypeOK
  <1>18. CASE QueueReceive
    <2>1. TaskTypes'
      BY <1>18 DEF QueueReceive, TypeOK, TaskTypes
    <2>2. QueueTypes'
      <3> DEFINE Item == [id : {NoSock} \cup Slot, msg : Msg]
                 item == Head(Socket_Queue)
      <3>1. Socket_Queue \in Seq(Item) /\ Socket_Queue # <<>>
        BY <1>18 DEF QueueReceive, TypeOK, QueueTypes
      <3> HIDE DEF Item
      <3>2. item \in Item /\ Tail(Socket_Queue) \in Seq(Item)
            /\ Len(Tail(Socket_Queue)) = Len(Socket_Queue) - 1 /\ Len(Socket_Queue) \in Nat
        BY <3>1, HeadTailProperties
      <3>3. item.msg \in Msg
        BY <3>2 DEF Item
      <3>4. shown' \in [1 .. 3 -> Msg]
        <4>1. shown' = IF item.id \in 1 .. 3 THEN [shown EXCEPT ![item.id] = item.msg] ELSE shown
          BY <1>18 DEF QueueReceive
        <4> HIDE DEF item
        <4>. QED
          BY <4>1, <3>3 DEF TypeOK, QueueTypes
      <3>5. Socket_Queue' \in Seq(Item) /\ Len(Socket_Queue') <= SOCKETQUEUE_LENTH
        BY <1>18, <3>2 DEF QueueReceive, TypeOK, QueueTypes
      <3>. QED
        BY <3>4, <3>5 DEF Item, QueueTypes
    <2>3. ReaderTypes' /\ LwipTypes'
      BY <1>18, TypeFrame DEF QueueReceive
    <2>. QED
      BY <2>1, <2>2, <2>3 DEF TypeOK
  <1>19. CASE QueueInvalidate
    <2>1. TaskTypes'
      BY <1>19 DEF QueueInvalidate, TypeOK, TaskTypes
    <2>2. ReaderTypes' /\ QueueTypes' /\ LwipTypes'
      BY <1>19, TypeFrame DEF QueueInvalidate
    <2>. QED
      BY <2>1, <2>2 DEF TypeOK
  <1>20. CASE QueueUnlock
    <2>1. TaskTypes'
      <3>1. CASE qpc = "again"
        BY <1>20, <3>1 DEF QueueUnlock, TypeOK, TaskTypes
      <3>2. CASE qpc = "unlock"
        BY <1>20, <3>2 DEF QueueUnlock, TypeOK, TaskTypes
      <3>. QED
        BY <1>20, <3>1, <3>2 DEF QueueUnlock
    <2>2. ReaderTypes' /\ QueueTypes' /\ LwipTypes'
      BY <1>20, TypeFrame DEF QueueUnlock
    <2>. QED
      BY <2>1, <2>2 DEF TypeOK
  <1>21. CASE IpArrives
    <2>1. TaskTypes'
      BY <1>21 DEF IpArrives, TypeOK, TaskTypes
    <2>2. ReaderTypes' /\ QueueTypes' /\ LwipTypes'
      BY <1>21, TypeFrame DEF IpArrives
    <2>. QED
      BY <2>1, <2>2 DEF TypeOK
  <1>22. ASSUME NEW c \in Conns, Connect(c) PROVE TypeOK'
    <2>1. LwipTypes'
      BY <1>22 DEF Connect, TypeOK, LwipTypes
    <2>2. TaskTypes' /\ ReaderTypes' /\ QueueTypes'
      BY <1>22, TypeFrame DEF Connect, TypeOK, TaskTypes
    <2>. QED
      BY <2>1, <2>2 DEF TypeOK
  <1>23. ASSUME NEW c \in Conns, ClientSend(c) PROVE TypeOK'
    <2>1. LwipTypes'
      BY <1>23 DEF ClientSend, TypeOK, LwipTypes
    <2>2. TaskTypes' /\ ReaderTypes' /\ QueueTypes'
      BY <1>23, TypeFrame DEF ClientSend, TypeOK, TaskTypes
    <2>. QED
      BY <2>1, <2>2 DEF TypeOK
  <1>24. ASSUME NEW c \in Conns, ClientEnds(c) PROVE TypeOK'
    <2>1. LwipTypes'
      BY <1>24 DEF ClientEnds, TypeOK, LwipTypes
    <2>2. TaskTypes' /\ ReaderTypes' /\ QueueTypes'
      BY <1>24, TypeFrame DEF ClientEnds, TypeOK, TaskTypes
    <2>. QED
      BY <2>1, <2>2 DEF TypeOK
  <1>25. ASSUME NEW c \in Conns, ReaderStart(c) PROVE TypeOK'
    <2>1. TaskTypes'
      BY <1>25, TypeFrame DEF ReaderStart
    <2>2. ReaderTypes'
      <3>1. PICK v \in {sock_client, NoSock} : rsock' = [rsock EXCEPT ![c] = v]
        BY <1>25 DEF ReaderStart
      <3>2. v \in {NoSock} \cup Slot
        BY DEF TypeOK, TaskTypes
      <3>. QED
        BY <1>25, <3>1, <3>2 DEF ReaderStart, TypeOK, ReaderTypes
    <2>3. QueueTypes' /\ LwipTypes'
      BY <1>25, TypeFrame DEF ReaderStart
    <2>. QED
      BY <2>1, <2>2, <2>3 DEF TypeOK
  <1>26. ASSUME NEW c \in Conns, ReaderRead(c) PROVE TypeOK'
    <2>1. TaskTypes'
      BY <1>26, TypeFrame DEF ReaderRead
    <2>2. ReaderTypes'
      <3>1. CASE ReadError(c) \/ ReadEnd(c) \/ ReadFreed(c)
        BY <1>26, <3>1, ReadFacts DEF ReaderRead, ReadError, ReadEnd, ReadFreed, TypeOK, ReaderTypes
      <3>2. CASE ReadData(c)
        <4> DEFINE d == slot[rsock[c]]
        <4>1. d \in Conns
          BY <3>2, ReadsConnection DEF ReadData
        <4>2. got[d] + 1 \in 1 .. MaxMsgs
          BY <3>2, <4>1 DEF ReadData, TypeOK, LwipTypes
        <4>3. [from |-> d, seq |-> got[d] + 1] \in Msg
          BY <4>1, <4>2 DEF Msg
        <4>. QED
          BY <1>26, <3>2, <4>3 DEF ReaderRead, ReadData, TypeOK, ReaderTypes
      <3>. QED
        BY <1>26, <3>1, <3>2 DEF ReaderRead
    <2>3. LwipTypes'
      <3>1. CASE ReadError(c) \/ ReadEnd(c) \/ ReadFreed(c)
        BY <1>26, <3>1, TypeFrame DEF ReaderRead, ReadError, ReadEnd, ReadFreed
      <3>2. CASE ReadData(c)
        <4>1. got' \in [Conns -> 0 .. MaxMsgs]
          <5> DEFINE d == slot[rsock[c]]
          <5>1. got' = [got EXCEPT ![d] = got[d] + 1] /\ d \in Conns /\ got[d] < sent[d]
            BY <3>2, ReadsConnection DEF ReadData
          <5> HIDE DEF d
          <5>. QED
            BY <5>1 DEF TypeOK, LwipTypes
        <4>. QED
          BY <1>26, <3>2, <4>1 DEF ReaderRead, TypeOK, LwipTypes
      <3>. QED
        BY <1>26, <3>1, <3>2 DEF ReaderRead
    <2>4. QueueTypes'
      BY <1>26, TypeFrame DEF ReaderRead
    <2>. QED
      BY <2>1, <2>2, <2>3, <2>4 DEF TypeOK
  <1>27. ASSUME NEW c \in Conns, ReaderSend(c) PROVE TypeOK'
    <2>1. TaskTypes'
      BY <1>27, TypeFrame DEF ReaderSend
    <2>2. ReaderTypes'
      BY <1>27 DEF ReaderSend, TypeOK, ReaderTypes
    <2>3. QueueTypes'
      <3> DEFINE Item == [id : {NoSock} \cup Slot, msg : Msg]
                 item == [id |-> rsock[c], msg |-> rbuf[c]]
      <3>1. Socket_Queue \in Seq(Item) /\ item \in Item
        BY DEF TypeOK, QueueTypes, ReaderTypes
      <3>2. Socket_Queue' = Append(Socket_Queue, item) /\ UNCHANGED shown
        BY <1>27 DEF ReaderSend
      <3>3. Len(Socket_Queue) < SOCKETQUEUE_LENTH
        BY <1>27 DEF ReaderSend
      <3> HIDE DEF Item, item
      <3>4. Socket_Queue' \in Seq(Item) /\ Len(Socket_Queue') = Len(Socket_Queue) + 1
            /\ Len(Socket_Queue) \in Nat
        BY <3>1, <3>2, AppendProperties
      <3>. QED
        BY <3>2, <3>3, <3>4 DEF Item, TypeOK, QueueTypes
    <2>4. LwipTypes'
      BY <1>27, TypeFrame DEF ReaderSend
    <2>. QED
      BY <2>1, <2>2, <2>3, <2>4 DEF TypeOK
  <1>28. ASSUME NEW c \in Conns, ReaderClose(c) PROVE TypeOK'
    <2>1. TaskTypes'
      BY <1>28, TypeFrame DEF ReaderClose
    <2>2. ReaderTypes'
      <3>1. /\ rpc' = [r \in Conns |-> rpc'[r]]
            /\ \A r \in Conns : rpc'[r] \in {"free", "done", "stuck", rpc[r]}
        BY <1>28, CloseFacts
      <3>2. rbuf' \in [Conns -> Msg]
        BY <1>28, CloseFacts DEF TypeOK, ReaderTypes, Msg
      <3>. QED
        BY <1>28, <3>1, <3>2 DEF ReaderClose, TypeOK, ReaderTypes
    <2>3. LwipTypes'
      <3>1. slot' \in [Slot -> {Free, Listen, Web} \cup HalfClosed \cup Conns]
        <4>1. slot' = slot \/ slot' = [slot EXCEPT ![rsock[c]] = Closing]
          BY <1>28, CloseFacts
        <4>. QED
          BY <4>1, SlotValues DEF TypeOK, LwipTypes
      <3>2. cstate' \in [Conns -> {"new", "pending", "aborted", "open", "gone"}]
        BY <1>28, CloseFacts DEF TypeOK, LwipTypes
      <3>. QED
        BY <1>28, <3>1, <3>2 DEF ReaderClose, TypeOK, LwipTypes
    <2>4. QueueTypes'
      BY <1>28, TypeFrame DEF ReaderClose
    <2>. QED
      BY <2>1, <2>2, <2>3, <2>4 DEF TypeOK
  <1>32. ASSUME NEW c \in Conns, ReaderFree(c) PROVE TypeOK'
    <2>1. TaskTypes'
      BY <1>32, TypeFrame DEF ReaderFree
    <2>2. ReaderTypes'
      BY <1>32 DEF ReaderFree, TypeOK, ReaderTypes, Msg
    <2>3. LwipTypes'
      BY <1>32 DEF ReaderFree, TypeOK, LwipTypes
    <2>4. QueueTypes'
      BY <1>32, TypeFrame DEF ReaderFree
    <2>. QED
      BY <2>1, <2>2, <2>3, <2>4 DEF TypeOK
  <1>29. ASSUME NEW c \in Conns, ReaderSendTimeout(c) PROVE TypeOK'
    <2>1. TaskTypes'
      BY <1>29, TypeFrame DEF ReaderSendTimeout
    <2>2. ReaderTypes'
      BY <1>29 DEF ReaderSendTimeout, TypeOK, ReaderTypes
    <2>3. QueueTypes' /\ LwipTypes'
      BY <1>29, TypeFrame DEF ReaderSendTimeout
    <2>. QED
      BY <2>1, <2>2, <2>3 DEF TypeOK
  <1>30. CASE UNCHANGED vars
    BY <1>30, TypeFrame DEF vars, TypeOK, TaskTypes
  <1>. QED
    BY <1>1, <1>2, <1>3, <1>4, <1>5, <1>6, <1>7, <1>8, <1>9, <1>10, <1>11, <1>12, <1>13, <1>14, <1>15, <1>16, <1>17, <1>18, <1>19, <1>20, <1>21, <1>22, <1>23, <1>24, <1>25, <1>26, <1>27, <1>28, <1>29, <1>30, <1>31, <1>32
    DEF Next, GuiStep, ServerStep, QueueStep, Network, ReaderStep

(* The types of all variables, and that no sequence of clients and presses *)
(* overfills Socket_Queue.                                                 *)
THEOREM TypeCorrect == Spec => []TypeOK
  BY TypeInit, TypeNext, PTL DEF Spec

-----------------------------------------------------------------------------
(* The attempts that wait for accept.                                      *)

(* MailboxInv at the start.                                                *)
LEMMA MailboxInit == Init => MailboxInv
  BY ConnsAssumption DEF Init, MailboxInv, Unserved, Nobody

(* Steps that only close the mailbox, forget the caller or move a reader.  *)
LEMMA MailboxFrame ==
  ASSUME TypeOK, MailboxInv,
         acceptmbox' \in {acceptmbox, <<>>}, caller' \in {caller, Nobody},
         \A c \in Conns : rpc[c] = "none" => rpc'[c] = "none",
         \A c \in Conns : cstate'[c] = "new" => cstate[c] = "new"
  PROVE  MailboxInv'
  <1>1. Nobody \notin Conns /\ caller \in {Nobody} \cup Conns /\ acceptmbox \in Seq(Conns)
    BY ConnsAssumption DEF TypeOK, TaskTypes, LwipTypes
  <1>2. \A c \in Conns : Unserved(c) => Unserved(c)'
    BY <1>1 DEF Unserved
  <1>3. \A c \in Conns : cstate'[c] = "new" => Unserved(c)'
    BY <1>2 DEF MailboxInv
  <1>4. caller' # Nobody => rpc'[caller'] = "none"
    BY <1>1 DEF MailboxInv
  <1>5. CASE acceptmbox' = <<>>
    BY <1>3, <1>4, <1>5 DEF MailboxInv
  <1>6. CASE acceptmbox' = acceptmbox
    <2>1. \A i \in 1 .. Len(acceptmbox) : acceptmbox[i] \in Conns
      BY <1>1
    <2>. QED
      BY <1>2, <1>3, <1>4, <1>6, <2>1 DEF MailboxInv
  <1>. QED
    BY <1>5, <1>6

(* Every step preserves MailboxInv: an attempt enters the mailbox once and *)
(* leaves it before its reader is created.                                 *)
LEMMA MailboxNext == TypeOK /\ MailboxInv /\ [Next]_vars => MailboxInv'
  <1> SUFFICES ASSUME TypeOK, MailboxInv, [Next]_vars PROVE MailboxInv'
    OBVIOUS
  <1> USE DEF gui, server, mutex, readers, queue, lwip
  <1>a. /\ Nobody \notin Conns /\ caller \in {Nobody} \cup Conns
        /\ acceptmbox \in Seq(Conns)
        /\ cstate \in [Conns -> {"new", "pending", "aborted", "open", "gone"}]
        /\ rpc \in [Conns -> {"none", "start", "dangling", "read", "send", "close", "free", "stuck", "done"}]
    BY ConnsAssumption DEF TypeOK, TaskTypes, ReaderTypes, LwipTypes
  <1>b. \A i \in 1 .. Len(acceptmbox) : acceptmbox[i] \in Conns
    BY <1>a
  <1>1. CASE ServerAccept
    <2> DEFINE c == Head(acceptmbox)
    <2>1. /\ c = acceptmbox[1] /\ 1 \in 1 .. Len(acceptmbox)
          /\ Len(Tail(acceptmbox)) = Len(acceptmbox) - 1 /\ Len(acceptmbox) \in Nat
          /\ \A i \in 1 .. Len(Tail(acceptmbox)) : Tail(acceptmbox)[i] = acceptmbox[i + 1]
      BY <1>1, <1>a DEF ServerAccept
    <2>2. /\ AcceptFails(c) \/ AcceptReturns(c)
          /\ caller' = c /\ acceptmbox' = Tail(acceptmbox) /\ rpc' = rpc
      BY <1>1 DEF ServerAccept
    <2> HIDE DEF c
    <2>3. c \in Conns /\ Unserved(c)
      BY <2>1, <1>b DEF MailboxInv
    <2>4. \A d \in Conns : cstate'[d] = "new" => cstate[d] = "new" /\ d # c
      BY <2>2, <2>3, <1>a DEF AcceptFails, AcceptReturns
    <2>5. \A i \in 1 .. Len(acceptmbox') :
            /\ i + 1 \in 1 .. Len(acceptmbox)
            /\ acceptmbox'[i] = acceptmbox[i + 1] /\ acceptmbox'[i] # c
      BY <2>1, <2>2 DEF MailboxInv
    <2>6. \A i, j \in 1 .. Len(acceptmbox') : acceptmbox'[i] = acceptmbox'[j] => i = j
      BY <2>5 DEF MailboxInv
    <2>7. \A d \in Conns : Unserved(d) /\ d # c => Unserved(d)'
      BY <2>2 DEF Unserved
    <2>8. \A i \in 1 .. Len(acceptmbox') :
            /\ rpc'[acceptmbox'[i]] = "none" /\ caller' # acceptmbox'[i]
            /\ cstate'[acceptmbox'[i]] # "new"
      <3>1. TAKE i \in 1 .. Len(acceptmbox')
      <3>2. acceptmbox'[i] \in Conns
        BY <2>5, <1>b
      <3>3. Unserved(acceptmbox[i + 1]) /\ cstate[acceptmbox[i + 1]] # "new"
        BY <2>5 DEF MailboxInv
      <3>. QED
        BY <3>2, <3>3, <2>2, <2>4, <2>5 DEF Unserved
    <2>9. \A d \in Conns : cstate'[d] = "new" => Unserved(d)'
      BY <2>4, <2>7 DEF MailboxInv
    <2>10. rpc'[caller'] = "none"
      BY <2>2, <2>3 DEF Unserved
    <2>. QED
      BY <2>6, <2>8, <2>9, <2>10 DEF MailboxInv, Unserved
  <1>2. ASSUME NEW c \in Conns, Connect(c) PROVE MailboxInv'
    <2> DEFINE n == Len(acceptmbox)
    <2>1. /\ n \in Nat /\ Len(acceptmbox') = n + 1 /\ acceptmbox'[n + 1] = c
          /\ \A i \in 1 .. n : acceptmbox'[i] = acceptmbox[i]
      BY <1>2, <1>a DEF Connect
    <2>2. Unserved(c) /\ cstate[c] = "new"
      BY <1>2 DEF Connect, MailboxInv
    <2>3. \A d \in Conns : Unserved(d) => Unserved(d)'
      BY <1>2 DEF Connect, Unserved
    <2>4. \A d \in Conns : cstate'[d] = "new" => cstate[d] = "new" /\ d # c
      BY <1>2, <1>a DEF Connect
    <2>5. \A i \in 1 .. n : acceptmbox[i] # c
      BY <2>2 DEF MailboxInv
    <2>6. caller' = caller /\ rpc' = rpc
      BY <1>2 DEF Connect
    <2>7. \A i \in 1 .. n + 1 : i \in 1 .. n \/ i = n + 1
      BY <2>1
    <2>8. \A i, j \in 1 .. n : acceptmbox[i] = acceptmbox[j] => i = j
      BY DEF MailboxInv
    <2>9. \A i \in 1 .. n : Unserved(acceptmbox[i]) /\ cstate[acceptmbox[i]] # "new"
      BY DEF MailboxInv
    <2> HIDE DEF n
    <2>10. \A i, j \in 1 .. n + 1 : acceptmbox'[i] = acceptmbox'[j] => i = j
      BY <2>1, <2>5, <2>7, <2>8
    <2>11. \A i \in 1 .. n + 1 :
             /\ rpc'[acceptmbox'[i]] = "none" /\ caller' # acceptmbox'[i]
             /\ cstate'[acceptmbox'[i]] # "new"
      <3>1. TAKE i \in 1 .. n + 1
      <3>2. CASE i = n + 1
        BY <3>2, <2>1, <2>2, <2>4, <2>6 DEF Unserved
      <3>3. CASE i \in 1 .. n
        <4>1. acceptmbox[i] \in Conns
          BY <3>3, <1>b DEF n
        <4>. QED
          BY <3>3, <4>1, <2>1, <2>4, <2>6, <2>9 DEF Unserved
      <3>. QED
        BY <2>7, <3>2, <3>3
    <2>12. \A d \in Conns : cstate'[d] = "new" => Unserved(d)'
      BY <2>3, <2>4 DEF MailboxInv
    <2>13. caller' # Nobody => rpc'[caller'] = "none"
      BY <2>6 DEF MailboxInv
    <2>. QED
      BY <2>1, <2>10, <2>11, <2>12, <2>13 DEF MailboxInv, Unserved
  <1>3. CASE ServerServe
    <2>1. /\ \A c \in Conns : rpc[c] = "none" /\ c # caller => rpc'[c] = "none"
          /\ caller' = Nobody /\ acceptmbox' = acceptmbox /\ cstate' = cstate
      BY <1>3, <1>a DEF ServerServe
    <2>2. \A c \in Conns : Unserved(c) => Unserved(c)'
      BY <2>1, <1>a DEF Unserved
    <2>. QED
      BY <2>1, <2>2, <1>b DEF MailboxInv
  <1>4. CASE CloseServerSocket
    BY <1>4, MailboxFrame DEF CloseServerSocket
  <1>5. CASE DeleteServer
    BY <1>5, MailboxFrame DEF DeleteServer
  <1>6. ASSUME NEW c \in Conns, ReaderStart(c) PROVE MailboxInv'
    BY <1>6, <1>a, MailboxFrame DEF ReaderStart
  <1>7. ASSUME NEW c \in Conns, ReaderRead(c) PROVE MailboxInv'
    <2>1. \A d \in Conns : rpc[d] = "none" => rpc'[d] = "none"
      BY <1>7, <1>a, ReadFacts
    <2>. QED
      BY <1>7, <2>1, MailboxFrame DEF ReaderRead
  <1>8. ASSUME NEW c \in Conns, ReaderSend(c) \/ ReaderSendTimeout(c) PROVE MailboxInv'
    BY <1>8, <1>a, MailboxFrame DEF ReaderSend, ReaderSendTimeout
  <1>9. ASSUME NEW c \in Conns, ReaderClose(c) PROVE MailboxInv'
    <2>1. \A d \in Conns : rpc[d] = "none" => rpc'[d] = "none"
      BY <1>9, <1>a DEF ReaderClose, CloseNothing, FreeTwice, NetconnDelete
    <2>2. \A d \in Conns : cstate'[d] = "new" => cstate[d] = "new"
      BY <1>9, CloseFacts
    <2>. QED
      BY <1>9, <2>1, <2>2, MailboxFrame DEF ReaderClose
  <1>16. ASSUME NEW c \in Conns, ReaderFree(c) PROVE MailboxInv'
    BY <1>16, <1>a, MailboxFrame DEF ReaderFree
  <1>10. CASE \/ GuiLock \/ GuiUnlock \/ CreateQueueRead \/ DeleteQueueRead
              \/ WeatherSocket \/ WeatherClose \/ WeatherFree
    BY <1>10, MailboxFrame
    DEF GuiLock, GuiUnlock, CreateQueueRead, DeleteQueueRead, WeatherSocket, WeatherClose, WeatherFree
  <1>11. CASE OpenSocketServer
    BY <1>11, MailboxFrame DEF OpenSocketServer
  <1>12. CASE \/ ServerSocket \/ ServerPeek \/ ServerBind \/ ServerAcceptClosed
              \/ ServerButton \/ ServerDraw
    BY <1>12, MailboxFrame
    DEF ServerSocket, ServerPeek, ServerBind, ServerAcceptClosed, ServerButton, ServerDraw
  <1>13. CASE QueueStep \/ IpArrives
    BY <1>13, MailboxFrame
    DEF QueueStep, QueueReceive, QueueInvalidate, QueueUnlock, IpArrives
  <1>14. ASSUME NEW c \in Conns, ClientSend(c) \/ ClientEnds(c) PROVE MailboxInv'
    BY <1>14, MailboxFrame DEF ClientSend, ClientEnds
  <1>15. CASE UNCHANGED vars
    BY <1>15, MailboxFrame DEF vars
  <1>. QED
    BY <1>1, <1>2, <1>3, <1>4, <1>5, <1>6, <1>7, <1>8, <1>9, <1>10, <1>11, <1>12, <1>13,
       <1>14, <1>15, <1>16
    DEF Next, GuiStep, ServerStep, Network, ReaderStep

-----------------------------------------------------------------------------
(* Socket 0.                                                               *)

(* ListenInv at the start.                                                 *)
LEMMA ListenInit == Init => ListenInv
  BY SlotValues DEF Init, ListenInv, Pending, Slot, NUM_SOCKETS, NoSock

(* HalfClosedInv at the start.                                             *)
LEMMA HalfClosedInit == Init => HalfClosedInv
  BY SlotValues DEF Init, HalfClosedInv

(* While the GUI task runs the server does not ask for its socket.         *)
LEMMA GuiWaits == ASSUME NEW t, LowRuns(t) PROVE spc # "socket"
  BY DEF LowRuns, ServerReady

(* Every step preserves ListenInv: socket 0 goes to the server that finds  *)
(* it free, and only CloseSocketServer gives it back.                      *)
LEMMA ListenNext == TypeOK /\ ListenInv /\ HalfClosedInv /\ [Next]_vars => ListenInv'
  <1> SUFFICES ASSUME TypeOK, ListenInv, HalfClosedInv, [Next]_vars PROVE ListenInv'
    OBVIOUS
  <1> USE DEF gui, server, mutex, readers, queue, lwip
  <1>a. /\ 0 \in Slot /\ NoSock \notin Slot
        /\ Free \notin {Listen, Web, Closing, WebClosing} \cup Conns
        /\ Listen \notin {Web, Closing, WebClosing} \cup Conns
        /\ Web \notin {Closing, WebClosing} \cup Conns
        /\ Closing \notin {WebClosing} \cup Conns /\ WebClosing \notin Conns
        /\ HalfClosed = {Closing, WebClosing}
    BY SlotValues DEF Slot, NUM_SOCKETS, NoSock
  <1>b. /\ slot \in [Slot -> {Free, Listen, Web} \cup HalfClosed \cup Conns]
        /\ cstate \in [Conns -> {"new", "pending", "aborted", "open", "gone"}]
        /\ acceptmbox \in Seq(Conns)
    BY DEF TypeOK, LwipTypes
  <1>c. /\ rpc \in [Conns -> {"none", "start", "dangling", "read", "send", "close", "free", "stuck", "done"}]
        /\ rsock \in [Conns -> {NoSock} \cup Slot]
        /\ sock_client \in {NoSock} \cup Slot
    BY DEF TypeOK, TaskTypes, ReaderTypes
  <1>d. /\ FreeSlots # {} => FirstFree \in Slot /\ slot[FirstFree] = Free
        /\ FreeSlots # {} /\ slot[0] = Free => FirstFree = 0
        /\ FreeSlots # {} /\ slot[0] # Free => FirstFree # 0
    BY FirstFreeIsFree
  <1> USE GuiWaits, <1>a DEF ListenInv, Pending
  <1>1. CASE GuiLock
    BY <1>1 DEF GuiLock
  <1>2. CASE GuiUnlock
    BY <1>2 DEF GuiUnlock
  <1>3. CASE OpenSocketServer
    <2>1. slot[0] = Free
      BY <1>3, <1>b DEF OpenSocketServer, HalfClosedInv
    <2>. QED
      BY <1>3, <2>1 DEF OpenSocketServer, NoSock
  <1>4. CASE CreateQueueRead
    BY <1>4 DEF CreateQueueRead
  <1>5. CASE CloseServerSocket
    <2>1. spc # "socket" /\ spc' # "socket"
      BY <1>5 DEF CloseServerSocket
    <2>2. /\ \A s \in Slot : slot'[s] # Listen /\ (slot'[s] = Web => slot[s] = Web)
          /\ slot'[0] \in {slot[0], Free}
      BY <1>5, <1>b DEF CloseServerSocket
    <2>3. \A c \in Conns : cstate'[c] # "pending"
      BY <1>5, <1>b DEF CloseServerSocket
    <2>. QED
      BY <1>5, <2>1, <2>2, <2>3 DEF CloseServerSocket
  <1>6. CASE DeleteServer
    BY <1>6 DEF DeleteServer
  <1>7. CASE DeleteQueueRead
    BY <1>7 DEF DeleteQueueRead
  <1>8. CASE WeatherSocket
    <2>1. FreeSlots # {} /\ slot' = [slot EXCEPT ![FirstFree] = Web]
      BY <1>8 DEF WeatherSocket, SocketAvailable
    <2>2. /\ \A s \in Slot : slot'[s] = Listen => slot[s] = Listen
          /\ slot[0] # Free => slot'[0] = slot[0]
          /\ slot[0] = Free => slot'[0] = Web
      BY <2>1, <1>b, <1>d
    <2>. QED
      BY <1>8, <2>2 DEF WeatherSocket
  <1>9. CASE WeatherClose
    <2>1. \A s \in Slot : slot'[s] = IF slot[s] = Web THEN WebClosing ELSE slot[s]
      BY <1>9 DEF WeatherClose
    <2>. QED
      BY <1>9, <2>1 DEF WeatherClose
  <1>31. CASE WeatherFree
    <2>1. \A s \in Slot : slot'[s] = IF slot[s] = WebClosing THEN Free ELSE slot[s]
      BY <1>31 DEF WeatherFree
    <2>. QED
      BY <1>31, <2>1 DEF WeatherFree
  <1>10. CASE ServerSocket
    <2>1. CASE SocketAvailable
      <3>1. slot' = [slot EXCEPT ![0] = Listen] /\ spc' = "peek"
        BY <1>10, <2>1, <1>d DEF ServerSocket, SocketAvailable
      <3>. QED
        BY <1>10, <3>1, <1>b DEF ServerSocket
    <2>2. CASE ~SocketAvailable
      BY <1>10, <2>2 DEF ServerSocket
    <2>. QED
      BY <2>1, <2>2
  <1>11. CASE ServerPeek
    BY <1>11 DEF ServerPeek
  <1>12. CASE ServerBind
    <2>1. port' # "none" => slot[0] = Listen
      BY <1>12 DEF ServerBind, Listening
    <2>. QED
      BY <1>12, <2>1 DEF ServerBind
  <1>13. CASE ServerAccept
    <2> DEFINE c == Head(acceptmbox)
    <2>1. c \in Conns /\ slot[0] = Listen
      BY <1>13, <1>b DEF ServerAccept
    <2>2. /\ \A d \in Conns : cstate'[d] = "pending" => cstate[d] = "pending"
          /\ sock_client' # 0
          /\ slot'[0] = Listen
          /\ \A s \in Slot : slot'[s] \in {slot[s], c}
      <3> HIDE DEF c
      <3>1. CASE AcceptFails(c)
        BY <3>1, <2>1, <1>b DEF AcceptFails, NoSock
      <3>2. CASE AcceptReturns(c)
        BY <3>2, <2>1, <1>b, <1>d DEF AcceptReturns
      <3>3. AcceptFails(c) \/ AcceptReturns(c)
        BY <1>13 DEF ServerAccept, c
      <3>. QED
        BY <3>1, <3>2, <3>3
    <2> HIDE DEF c
    <2>. QED
      BY <1>13, <2>1, <2>2 DEF ServerAccept
  <1>14. CASE ServerAcceptClosed
    BY <1>14 DEF ServerAcceptClosed, NoSock
  <1>15. CASE ServerButton
    BY <1>15 DEF ServerButton
  <1>16. CASE ServerDraw
    BY <1>16 DEF ServerDraw
  <1>17. CASE ServerServe
    BY <1>17 DEF ServerServe
  <1>18. CASE QueueReceive
    BY <1>18 DEF QueueReceive
  <1>19. CASE QueueInvalidate
    BY <1>19 DEF QueueInvalidate
  <1>20. CASE QueueUnlock
    BY <1>20 DEF QueueUnlock
  <1>21. CASE IpArrives
    BY <1>21 DEF IpArrives
  <1>22. ASSUME NEW c \in Conns, Connect(c) PROVE ListenInv'
    BY <1>22, <1>b, \A s \in Slot : slot[s] = Listen => s = 0 DEF Connect
  <1>23. ASSUME NEW c \in Conns, ClientSend(c) PROVE ListenInv'
    BY <1>23 DEF ClientSend
  <1>24. ASSUME NEW c \in Conns, ClientEnds(c) PROVE ListenInv'
    BY <1>24 DEF ClientEnds
  <1>25. ASSUME NEW c \in Conns, ReaderStart(c) PROVE ListenInv'
    <2>1. PICK v \in {sock_client, NoSock} : rsock' = [rsock EXCEPT ![c] = v]
      BY <1>25 DEF ReaderStart
    <2>2. v # 0
      BY DEF NoSock
    <2>. QED
      BY <1>25, <2>1, <2>2, <1>c DEF ReaderStart
  <1>26. ASSUME NEW c \in Conns, ReaderRead(c) PROVE ListenInv'
    <2>1. \A r \in Conns : rpc'[r] \in {"close", "free"} =>
                             rpc[r] \in {"close", "free"} \/ (r = c /\ rsock[c] # NoSock)
      BY <1>26, <1>c, ReadFacts
    <2>. QED
      BY <1>26, <2>1 DEF ReaderRead
  <1>27. ASSUME NEW c \in Conns, ReaderSend(c) PROVE ListenInv'
    BY <1>27 DEF ReaderSend
  <1>28. ASSUME NEW c \in Conns, ReaderClose(c) PROVE ListenInv'
    <2>1. /\ rsock[c] \in Slot /\ rsock[c] # 0
          /\ slot' = slot \/ slot' = [slot EXCEPT ![rsock[c]] = Closing]
      BY <1>28, <1>c, CloseFacts
    <2>2. \A r \in Conns : rpc'[r] \in {"close", "free"} => rpc[r] \in {"close", "free"}
      BY <1>28, CloseFacts
    <2>3. \A d \in Conns : cstate'[d] = "pending" => cstate[d] = "pending"
      BY <1>28, CloseFacts
    <2>4. \A s \in Slot : slot'[s] \in {slot[s], Closing}
      BY <2>1, <1>b
    <2>5. slot'[0] = slot[0]
      BY <2>1, <1>b
    <2>. QED
      BY <1>28, <2>2, <2>3, <2>4, <2>5 DEF ReaderClose
  <1>32. ASSUME NEW c \in Conns, ReaderFree(c) PROVE ListenInv'
    <2>1. rsock[c] \in Slot /\ rsock[c] # 0 /\ slot' = [slot EXCEPT ![rsock[c]] = Free]
      BY <1>32, <1>c DEF ReaderFree
    <2>2. \A r \in Conns : rpc'[r] \in {"close", "free"} => rpc[r] \in {"close", "free"}
      BY <1>32, <1>c DEF ReaderFree
    <2>3. \A s \in Slot : slot'[s] \in {slot[s], Free}
      BY <2>1, <1>b
    <2>4. slot'[0] = slot[0]
      BY <2>1, <1>b
    <2>. QED
      BY <1>32, <2>2, <2>3, <2>4 DEF ReaderFree
  <1>29. ASSUME NEW c \in Conns, ReaderSendTimeout(c) PROVE ListenInv'
    BY <1>29 DEF ReaderSendTimeout
  <1>30. CASE UNCHANGED vars
    BY <1>30 DEF vars
  <1> HIDE DEF ListenInv, Pending
  <1>. QED
    BY <1>1, <1>2, <1>3, <1>4, <1>5, <1>6, <1>7, <1>8, <1>9, <1>10, <1>11, <1>12, <1>13, <1>14, <1>15, <1>16, <1>17, <1>18, <1>19, <1>20, <1>21, <1>22, <1>23, <1>24, <1>25, <1>26, <1>27, <1>28, <1>29, <1>30, <1>31, <1>32
    DEF Next, GuiStep, ServerStep, QueueStep, Network, ReaderStep

(* Steps that half close no slot, free none that is half closed and move   *)
(* no reader that is about to.                                             *)
LEMMA HalfClosedFrame ==
  ASSUME TypeOK, HalfClosedInv,
         \A s \in Slot : slot[s] = Closing <=> slot'[s] = Closing,
         \A s \in Slot : slot'[s] = WebClosing => slot[s] = WebClosing,
         \A s \in Slot : gpc = "web_free" => gpc' = "web_free" \/ slot'[s] # WebClosing,
         \A c \in Conns : rpc[c] = "free" <=> rpc'[c] = "free",
         \A c \in Conns : rpc[c] = "free" => rsock[c] \in Slot /\ rsock'[c] = rsock[c]
  PROVE  HalfClosedInv'
  BY DEF HalfClosedInv

(* Every step preserves HalfClosedInv.                                     *)
LEMMA HalfClosedNext ==
  TypeOK /\ ListenInv /\ MailboxInv /\ HalfClosedInv /\ [Next]_vars => HalfClosedInv'
  <1> SUFFICES ASSUME TypeOK, ListenInv, MailboxInv, HalfClosedInv, [Next]_vars
               PROVE  HalfClosedInv'
    OBVIOUS
  <1> USE DEF gui, server, mutex, readers, queue, lwip
  <1>a. slot \in [Slot -> {Free, Listen, Web} \cup HalfClosed \cup Conns]
    BY DEF TypeOK, LwipTypes
  <1>b. /\ rpc \in [Conns -> {"none", "start", "dangling", "read", "send", "close", "free",
                              "stuck", "done"}]
        /\ rsock \in [Conns -> {NoSock} \cup Slot]
    BY DEF TypeOK, ReaderTypes
  <1>c. \A c \in Conns : rpc[c] \in {"close", "free"} => rsock[c] \in Slot
    BY <1>b DEF ListenInv
  <1>d. FreeSlots # {} => FirstFree \in Slot /\ slot[FirstFree] = Free
    BY FirstFreeIsFree
  <1>e. ASSUME UNCHANGED slot, gpc' = gpc \/ gpc # "web_free",
               \A c \in Conns : rpc[c] = "free" <=> rpc'[c] = "free",
               \A c \in Conns : rpc[c] = "free" => rsock'[c] = rsock[c]
        PROVE  HalfClosedInv'
    BY <1>c, <1>e, HalfClosedFrame DEF HalfClosedInv
  <1>f. ASSUME UNCHANGED <<rpc, rsock>>,
               \A s \in Slot : slot[s] = Closing <=> slot'[s] = Closing,
               \A s \in Slot : slot'[s] = WebClosing => slot[s] = WebClosing,
               \A s \in Slot : gpc = "web_free" => gpc' = "web_free" \/ slot'[s] # WebClosing
        PROVE  HalfClosedInv'
    BY <1>c, <1>f, HalfClosedFrame
  <1>1. CASE GuiLock \/ GuiUnlock \/ OpenSocketServer \/ CreateQueueRead \/ DeleteQueueRead
    BY <1>1, <1>e
    DEF GuiLock, GuiUnlock, OpenSocketServer, CreateQueueRead, DeleteQueueRead
  <1>2. CASE DeleteServer
    BY <1>2, <1>e, <1>b DEF DeleteServer
  <1>3. CASE CloseServerSocket
    BY <1>3, <1>f, <1>a, SlotValues DEF CloseServerSocket
  <1>4. CASE WeatherSocket
    BY <1>4, <1>f, <1>a, <1>d, SlotValues DEF WeatherSocket, SocketAvailable
  <1>5. CASE WeatherClose
    <2>1. /\ \A s \in Slot : slot[s] = Closing <=> slot'[s] = Closing
          /\ gpc' = "web_free" /\ UNCHANGED <<rpc, rsock>>
      BY <1>5, SlotValues DEF WeatherClose
    <2>. QED
      BY <2>1, <1>c DEF HalfClosedInv
  <1>6. CASE WeatherFree
    BY <1>6, <1>f, SlotValues DEF WeatherFree
  <1>7. CASE ServerSocket
    BY <1>7, <1>f, <1>a, <1>d, SlotValues DEF ServerSocket, SocketAvailable
  <1>8. CASE ServerAccept
    <2> DEFINE c == Head(acceptmbox)
    <2>1. c \in Conns /\ (AcceptFails(c) \/ AcceptReturns(c))
      BY <1>8 DEF ServerAccept, TypeOK, LwipTypes
    <2> HIDE DEF c
    <2>2. \A s \in Slot : slot'[s] = slot[s] \/ (slot[s] = Free /\ slot'[s] = c)
      BY <2>1, <1>a, <1>d DEF AcceptFails, AcceptReturns
    <2>3. /\ \A s \in Slot : slot[s] = Closing <=> slot'[s] = Closing
          /\ \A s \in Slot : slot'[s] = WebClosing => slot[s] = WebClosing
      BY <2>1, <2>2, SlotValues
    <2>4. UNCHANGED <<rpc, rsock, gpc>>
      BY <1>8 DEF ServerAccept
    <2>. QED
      BY <2>3, <2>4, <1>f DEF HalfClosedInv
  <1>9. CASE ServerServe
    <2>1. \A d \in Conns : rpc[d] = "free" <=> rpc'[d] = "free"
      BY <1>9, <1>b, ConnsAssumption DEF ServerServe, MailboxInv
    <2>. QED
      BY <1>9, <1>e, <2>1 DEF ServerServe
  <1>10. CASE \/ ServerPeek \/ ServerBind \/ ServerAcceptClosed
              \/ ServerButton \/ ServerDraw
    BY <1>10, <1>e DEF ServerPeek, ServerBind, ServerAcceptClosed, ServerButton, ServerDraw
  <1>11. CASE QueueStep \/ IpArrives
    BY <1>11, <1>e DEF QueueStep, QueueReceive, QueueInvalidate, QueueUnlock, IpArrives
  <1>12. ASSUME NEW c \in Conns, Connect(c) \/ ClientSend(c) \/ ClientEnds(c)
         PROVE  HalfClosedInv'
    BY <1>12, <1>e DEF Connect, ClientSend, ClientEnds
  <1>13. ASSUME NEW c \in Conns, ReaderStart(c) PROVE HalfClosedInv'
    <2>1. /\ \A d \in Conns : rpc[d] = "free" <=> rpc'[d] = "free"
          /\ \A d \in Conns : rpc[d] = "free" => rsock'[d] = rsock[d]
      BY <1>13, <1>b DEF ReaderStart
    <2>. QED
      BY <1>13, <1>e, <2>1 DEF ReaderStart
  <1>14. ASSUME NEW c \in Conns, ReaderRead(c) PROVE HalfClosedInv'
    <2>1. \A d \in Conns : rpc[d] = "free" <=> rpc'[d] = "free"
      BY <1>14, <1>b, ReadFacts
    <2>. QED
      BY <1>14, <1>e, <2>1 DEF ReaderRead
  <1>15. ASSUME NEW c \in Conns, ReaderSend(c) \/ ReaderSendTimeout(c) PROVE HalfClosedInv'
    BY <1>15, <1>e, <1>b DEF ReaderSend, ReaderSendTimeout
  <1>16. ASSUME NEW c \in Conns, ReaderClose(c) PROVE HalfClosedInv'
    <2> DEFINE s == rsock[c]
    <2>1. /\ rpc[c] = "close" /\ s \in Slot /\ UNCHANGED <<gpc, rsock>>
          /\ \A r \in Conns : r # c => rpc'[r] \in {rpc[r], "stuck"}
          /\ \/ slot' = slot /\ rpc'[c] # "free"
             \/ /\ slot[s] \notin {Free} \cup HalfClosed /\ rpc'[c] = "free"
                /\ slot' = [slot EXCEPT ![s] = Closing]
      BY <1>16, <1>c, CloseFacts
    <2>2. \A r \in Conns : r # c /\ rpc[r] = "free" => rpc'[r] = "free"
      BY <1>16, <1>b DEF ReaderClose, CloseNothing, FreeTwice, NetconnDelete
    <2> HIDE DEF s
    <2>3. \A r \in Conns : r # c => (rpc[r] = "free" <=> rpc'[r] = "free")
      BY <2>1, <2>2
    <2>4. CASE slot' = slot /\ rpc'[c] # "free"
      BY <2>1, <2>3, <2>4, <1>e
    <2>5. CASE /\ slot[s] \notin {Free} \cup HalfClosed /\ rpc'[c] = "free"
               /\ slot' = [slot EXCEPT ![s] = Closing]
      <3>1. \A d \in Conns : rpc[d] = "free" => rsock[d] # s /\ rsock[d] \in Slot
        BY <2>5, <1>c, SlotValues DEF HalfClosedInv
      <3>2. \A d \in Conns : rpc'[d] = "free" => slot'[rsock[d]] = Closing
        BY <2>1, <2>3, <2>5, <3>1, <1>a DEF HalfClosedInv, s
      <3>3. \A d, e \in Conns :
              rpc'[d] = "free" /\ rpc'[e] = "free" /\ rsock[d] = rsock[e] => d = e
        BY <2>3, <3>1 DEF HalfClosedInv, s
      <3>4. \A t \in Slot : slot'[t] = Closing => \E d \in Conns : rpc'[d] = "free" /\ rsock[d] = t
        <4>1. SUFFICES ASSUME NEW t \in Slot, slot'[t] = Closing
                       PROVE  \E d \in Conns : rpc'[d] = "free" /\ rsock[d] = t
          OBVIOUS
        <4>2. CASE t = s
          BY <2>5, <4>2 DEF s
        <4>3. CASE t # s
          BY <2>1, <2>3, <2>5, <4>1, <4>3, <1>a DEF HalfClosedInv
        <4>. QED
          BY <4>2, <4>3
      <3>5. \A t \in Slot : slot'[t] = WebClosing => gpc' = "web_free"
        BY <2>1, <2>5, <1>a, SlotValues DEF HalfClosedInv
      <3>. QED
        BY <2>1, <3>2, <3>3, <3>4, <3>5 DEF HalfClosedInv
    <2>. QED
      BY <2>1, <2>4, <2>5
  <1>17. ASSUME NEW c \in Conns, ReaderFree(c) PROVE HalfClosedInv'
    <2> DEFINE s == rsock[c]
    <2>1. /\ rpc[c] = "free" /\ s \in Slot /\ slot' = [slot EXCEPT ![s] = Free]
          /\ rpc' = [rpc EXCEPT ![c] = "done"] /\ UNCHANGED <<gpc, rsock>>
      BY <1>17, <1>c DEF ReaderFree
    <2>2. \A d \in Conns : rpc[d] = "free" /\ d # c => rsock[d] # s /\ rsock[d] \in Slot
      BY <2>1, <1>c DEF HalfClosedInv
    <2> HIDE DEF s
    <2>3. \A d \in Conns : rpc'[d] = "free" => rpc[d] = "free" /\ d # c
      BY <2>1, <1>b
    <2>4. \A t \in Slot : slot'[t] \in HalfClosed => slot'[t] = slot[t] /\ t # s
      BY <2>1, <1>a, SlotValues
    <2>5. \A d \in Conns : rpc'[d] = "free" => slot'[rsock[d]] = Closing
      BY <2>1, <2>2, <2>3, <1>a DEF HalfClosedInv
    <2>6. \A t \in Slot : slot'[t] = Closing => \E d \in Conns : rpc'[d] = "free" /\ rsock[d] = t
      BY <2>1, <2>4, <1>b, SlotValues DEF HalfClosedInv, s
    <2>7. \A t \in Slot : slot'[t] = WebClosing => gpc' = "web_free"
      BY <2>1, <2>4, SlotValues DEF HalfClosedInv
    <2>. QED
      BY <2>1, <2>3, <2>5, <2>6, <2>7 DEF HalfClosedInv
  <1>18. CASE UNCHANGED vars
    BY <1>18, <1>e DEF vars
  <1>. QED
    BY <1>1, <1>2, <1>3, <1>4, <1>5, <1>6, <1>7, <1>8, <1>9, <1>10, <1>11, <1>12, <1>13,
       <1>14, <1>15, <1>16, <1>17, <1>18
    DEF Next, GuiStep, ServerStep, Network, ReaderStep

-----------------------------------------------------------------------------
(* The count of the netconns.                                              *)

(* The pool is empty at the start.                                         *)
LEMMA CountInit == Init => CountInv
  <1> SUFFICES ASSUME Init PROVE CountInv
    OBVIOUS
  <1>1. InUse = {} /\ Pending = {}
    BY DEF Init, InUse, Pending
  <1>. QED
    BY <1>1, FS_EmptySet DEF CountInv, NetconnsUsed, NUM_SOCKETS

(* A set that gains at most one element, or loses one.                     *)
LEMMA CardinalitySteps ==
  ASSUME NEW S, NEW T, IsFiniteSet(S)
  PROVE  /\ T \subseteq S => Cardinality(T) <= Cardinality(S)
         /\ \A x : T \subseteq S \cup {x} => Cardinality(T) <= Cardinality(S) + 1
         /\ \A x \in S : T \subseteq S \ {x} => Cardinality(T) <= Cardinality(S) - 1
         /\ T \subseteq S => Cardinality(T) \in Nat
         /\ \A x : T \subseteq S \cup {x} => Cardinality(T) \in Nat
  <1>1. Cardinality(S) \in Nat
    BY FS_CardinalityType
  <1>2. T \subseteq S => Cardinality(T) <= Cardinality(S) /\ Cardinality(T) \in Nat
    BY FS_Subset, FS_CardinalityType
  <1>3. ASSUME NEW x, T \subseteq S \cup {x}
        PROVE  Cardinality(T) <= Cardinality(S) + 1 /\ Cardinality(T) \in Nat
    <2>1. IsFiniteSet(S \cup {x}) /\ Cardinality(S \cup {x}) \in {Cardinality(S), Cardinality(S) + 1}
      BY FS_AddElement
    <2>2. Cardinality(T) <= Cardinality(S \cup {x}) /\ Cardinality(T) \in Nat
      BY <1>3, <2>1, FS_Subset, FS_CardinalityType
    <2>. QED
      BY <1>1, <2>1, <2>2
  <1>4. ASSUME NEW x \in S, T \subseteq S \ {x}
        PROVE  Cardinality(T) <= Cardinality(S) - 1
    <2>1. IsFiniteSet(S \ {x}) /\ Cardinality(S \ {x}) = Cardinality(S) - 1
      BY FS_RemoveElement
    <2>2. Cardinality(T) <= Cardinality(S \ {x})
      BY <1>4, <2>1, FS_Subset
    <2>. QED
      BY <2>1, <2>2
  <1>. QED
    BY <1>2, <1>3, <1>4

(* What a step may do to the pool: give netconns back, take one while one  *)
(* is left, or move one from the mailbox to a slot.                        *)
LEMMA PoolStep ==
  ASSUME CountInv
  PROVE  /\ InUse' \subseteq InUse /\ Pending' \subseteq Pending => CountInv'
         /\ \A x : /\ NetconnsUsed < NUM_SOCKETS
                   /\ \/ InUse' \subseteq InUse \cup {x} /\ Pending' \subseteq Pending
                      \/ InUse' \subseteq InUse /\ Pending' \subseteq Pending \cup {x}
                   => CountInv'
         /\ \A x : \A c \in Pending :
              InUse' \subseteq InUse \cup {x} /\ Pending' \subseteq Pending \ {c} => CountInv'
  <1> DEFINE n == Cardinality(InUse)
             m == Cardinality(Pending)
  <1>1. n \in Nat /\ m \in Nat /\ n + m <= 4
    BY PoolFinite DEF CountInv, NetconnsUsed, NUM_SOCKETS
  <1>2. CountInv' <=> Cardinality(InUse') + Cardinality(Pending') <= 4
    BY DEF CountInv, NetconnsUsed, NUM_SOCKETS
  <1>3. NetconnsUsed < NUM_SOCKETS <=> n + m < 4
    BY DEF NetconnsUsed, NUM_SOCKETS
  <1>4. IsFiniteSet(InUse) /\ IsFiniteSet(Pending)
    BY PoolFinite
  <1>5. ASSUME InUse' \subseteq InUse, Pending' \subseteq Pending PROVE CountInv'
    <2>1. Cardinality(InUse') <= n /\ Cardinality(InUse') \in Nat
      BY <1>4, <1>5, CardinalitySteps
    <2>2. Cardinality(Pending') <= m /\ Cardinality(Pending') \in Nat
      BY <1>4, <1>5, CardinalitySteps
    <2> HIDE DEF n, m
    <2>. QED
      BY <2>1, <2>2, <1>1, <1>2
  <1>6. ASSUME NEW x, n + m < 4, InUse' \subseteq InUse \cup {x}, Pending' \subseteq Pending
        PROVE  CountInv'
    <2>1. Cardinality(InUse') <= n + 1 /\ Cardinality(InUse') \in Nat
      BY <1>4, <1>6, CardinalitySteps
    <2>2. Cardinality(Pending') <= m /\ Cardinality(Pending') \in Nat
      BY <1>4, <1>6, CardinalitySteps
    <2> HIDE DEF n, m
    <2>. QED
      BY <2>1, <2>2, <1>1, <1>2, <1>6
  <1>7. ASSUME NEW x, n + m < 4, InUse' \subseteq InUse, Pending' \subseteq Pending \cup {x}
        PROVE  CountInv'
    <2>1. Cardinality(InUse') <= n /\ Cardinality(InUse') \in Nat
      BY <1>4, <1>7, CardinalitySteps
    <2>2. Cardinality(Pending') <= m + 1 /\ Cardinality(Pending') \in Nat
      BY <1>4, <1>7, CardinalitySteps
    <2> HIDE DEF n, m
    <2>. QED
      BY <2>1, <2>2, <1>1, <1>2, <1>7
  <1>8. ASSUME NEW x, NEW c \in Pending, InUse' \subseteq InUse \cup {x},
               Pending' \subseteq Pending \ {c}
        PROVE  CountInv'
    <2>1. Cardinality(InUse') <= n + 1 /\ Cardinality(InUse') \in Nat
      BY <1>4, <1>8, CardinalitySteps
    <2>2. Cardinality(Pending') <= m - 1 /\ Cardinality(Pending') \in Nat
      BY <1>4, <1>8, CardinalitySteps
    <2> HIDE DEF n, m
    <2>. QED
      BY <2>1, <2>2, <1>1, <1>2
  <1> HIDE DEF n, m
  <1>. QED
    BY <1>3, <1>5, <1>6, <1>7, <1>8

(* A step that leaves slots and connections alone leaves the pool alone.   *)
LEMMA PoolFrame == UNCHANGED <<slot, cstate>> => InUse' = InUse /\ Pending' = Pending
  BY DEF InUse, Pending

(* Every step keeps the count: only socket() of the server and of the      *)
(* weather page and a connection take a netconn, and they look first.      *)
LEMMA CountNext == TypeOK /\ ListenInv /\ CountInv /\ [Next]_vars => CountInv'
  <1> SUFFICES ASSUME TypeOK, ListenInv, CountInv, [Next]_vars PROVE CountInv'
    OBVIOUS
  <1> USE DEF gui, server, mutex, readers, queue, lwip
  <1>a. /\ slot \in [Slot -> {Free, Listen, Web} \cup HalfClosed \cup Conns]
        /\ cstate \in [Conns -> {"new", "pending", "aborted", "open", "gone"}]
        /\ acceptmbox \in Seq(Conns)
    BY DEF TypeOK, LwipTypes
  <1>1. CASE WeatherSocket
    <2>1. InUse' \subseteq InUse \cup {FirstFree} /\ Pending' = Pending
      BY <1>1, <1>a DEF WeatherSocket, InUse, Pending
    <2>. QED
      BY <1>1, <2>1, PoolStep DEF WeatherSocket, SocketAvailable
  <1>2. CASE ServerSocket
    <2>1. CASE SocketAvailable
      <3>1. InUse' \subseteq InUse \cup {FirstFree} /\ Pending' = Pending
        BY <1>2, <2>1, <1>a DEF ServerSocket, InUse, Pending
      <3>. QED
        BY <2>1, <3>1, PoolStep DEF SocketAvailable
    <2>2. CASE ~SocketAvailable
      BY <1>2, <2>2, PoolFrame, PoolStep DEF ServerSocket
    <2>. QED
      BY <2>1, <2>2
  <1>3. CASE ServerAccept
    <2> DEFINE c == Head(acceptmbox)
    <2>1. c \in Conns /\ (AcceptFails(c) \/ AcceptReturns(c))
      BY <1>3, <1>a DEF ServerAccept
    <2> HIDE DEF c
    <2>2. CASE AcceptFails(c)
      <3>1. InUse' = InUse /\ Pending' \subseteq Pending
        BY <2>1, <2>2, <1>a DEF AcceptFails, InUse, Pending
      <3>. QED
        BY <3>1, PoolStep
    <2>3. CASE AcceptReturns(c)
      <3>1. c \in Pending /\ Pending' \subseteq Pending \ {c}
        BY <2>1, <2>3, <1>a DEF AcceptReturns, Pending
      <3>2. InUse' \subseteq InUse \cup {FirstFree}
        BY <2>1, <2>3, <1>a DEF AcceptReturns, InUse
      <3>. QED
        BY <3>1, <3>2, PoolStep
    <2>. QED
      BY <2>1, <2>2, <2>3
  <1>4. ASSUME NEW c \in Conns, Connect(c) PROVE CountInv'
    <2>1. InUse' = InUse
      BY <1>4 DEF Connect, InUse
    <2>2. CASE NetconnsUsed < NUM_SOCKETS
      <3>1. Pending' \subseteq Pending \cup {c}
        BY <1>4, <1>a DEF Connect, Pending
      <3>. QED
        BY <2>1, <2>2, <3>1, PoolStep
    <2>3. CASE ~(NetconnsUsed < NUM_SOCKETS)
      <3>1. Pending' \subseteq Pending
        BY <1>4, <2>3, <1>a DEF Connect, Pending
      <3>. QED
        BY <2>1, <3>1, PoolStep
    <2>. QED
      BY <2>2, <2>3
  <1>5. ASSUME NEW c \in Conns, ReaderClose(c) PROVE CountInv'
    <2>1. Pending' \subseteq Pending
      BY <1>5, CloseFacts DEF Pending
    <2>2. InUse' \subseteq InUse
      BY <1>5, <1>a, CloseFacts DEF InUse, HalfClosed
    <2>. QED
      BY <2>1, <2>2, PoolStep
  <1>6. CASE CloseServerSocket \/ WeatherClose \/ WeatherFree
    <2>1. InUse' \subseteq InUse /\ Pending' \subseteq Pending
      BY <1>6 DEF CloseServerSocket, WeatherClose, WeatherFree, InUse, Pending, HalfClosed
    <2>. QED
      BY <2>1, PoolStep
  <1>13. ASSUME NEW c \in Conns, ReaderFree(c) PROVE CountInv'
    <2>1. InUse' \subseteq InUse /\ Pending' \subseteq Pending
      BY <1>13, <1>a DEF ReaderFree, InUse, Pending
    <2>. QED
      BY <2>1, PoolStep
  <1>7. CASE \/ GuiLock \/ GuiUnlock \/ OpenSocketServer \/ CreateQueueRead
             \/ DeleteServer \/ DeleteQueueRead
    BY <1>7, PoolFrame, PoolStep
    DEF GuiLock, GuiUnlock, OpenSocketServer, CreateQueueRead, DeleteServer, DeleteQueueRead
  <1>8. CASE \/ ServerPeek \/ ServerBind \/ ServerAcceptClosed
             \/ ServerButton \/ ServerDraw \/ ServerServe
    BY <1>8, PoolFrame, PoolStep
    DEF ServerPeek, ServerBind, ServerAcceptClosed, ServerButton, ServerDraw, ServerServe
  <1>9. CASE QueueStep \/ IpArrives
    BY <1>9, PoolFrame, PoolStep
    DEF QueueStep, QueueReceive, QueueInvalidate, QueueUnlock, IpArrives
  <1>10. ASSUME NEW c \in Conns, ClientSend(c) \/ ClientEnds(c) PROVE CountInv'
    BY <1>10, PoolFrame, PoolStep DEF ClientSend, ClientEnds
  <1>11. ASSUME NEW c \in Conns,
                ReaderStart(c) \/ ReaderRead(c) \/ ReaderSend(c) \/ ReaderSendTimeout(c)
         PROVE  CountInv'
    BY <1>11, PoolFrame, PoolStep DEF ReaderStart, ReaderRead, ReaderSend, ReaderSendTimeout
  <1>12. CASE UNCHANGED vars
    BY <1>12, PoolFrame, PoolStep DEF vars
  <1>. QED
    BY <1>1, <1>2, <1>3, <1>4, <1>5, <1>6, <1>7, <1>8, <1>9, <1>10, <1>11, <1>12, <1>13
    DEF Next, GuiStep, ServerStep, Network, ReaderStep

(* Netconns that wait leave a slot, unless one is half closed.             *)
LEMMA PoolIsEnough == TypeOK /\ ListenInv /\ HalfClosedInv /\ CountInv => PoolNotExceeded
  <1> SUFFICES ASSUME TypeOK, ListenInv, HalfClosedInv, CountInv PROVE PoolNotExceeded
    OBVIOUS
  <1>1. ASSUME acceptmbox # <<>>, cstate[Head(acceptmbox)] = "pending", FreeSlots = {},
               gpc # "web_free", \A c \in Conns : rpc[c] # "free"
        PROVE  FALSE
    <2>1. \A s \in Slot : slot[s] \notin {Free} \cup HalfClosed
      BY <1>1, SlotValues DEF FreeSlots, HalfClosedInv
    <2>2. InUse = Slot
      BY <2>1 DEF InUse
    <2>3. Pending # {}
      BY <1>1 DEF TypeOK, LwipTypes, Pending
    <2>4. Cardinality(Pending) # 0
      BY <2>3, PoolFinite, FS_EmptySet
    <2>. QED
      BY <2>2, <2>4, PoolFinite DEF CountInv, NetconnsUsed, NUM_SOCKETS
  <1>2. \A c \in Conns : slot[0] # c
    BY DEF ListenInv
  <1>3. NetconnsUsed <= NUM_SOCKETS
    BY DEF CountInv
  <1>4. \A s \in Slot : slot[s] = Listen => s = 0
    BY DEF ListenInv
  <1>. QED
    BY <1>1, <1>2, <1>3, <1>4 DEF PoolNotExceeded

(* The pool is never exceeded, whatever the clients, the page and the      *)
(* weather page do: a connection that got a netconn finds a slot when it   *)
(* is accepted unless some task is just about to free one, between the two *)
(* steps of its close; and only the listening socket is socket 0.          *)
THEOREM PoolNeverExceeded == Spec => []PoolNotExceeded
  <1> DEFINE IInv == TypeOK /\ ListenInv /\ MailboxInv /\ HalfClosedInv /\ CountInv
  <1>1. Init => IInv
    BY TypeInit, ListenInit, MailboxInit, HalfClosedInit, CountInit
  <1>2. IInv /\ [Next]_vars => IInv'
    BY TypeNext, ListenNext, MailboxNext, HalfClosedNext, CountNext
  <1>3. IInv => PoolNotExceeded
    BY PoolIsEnough
  <1> HIDE DEF IInv
  <1>. QED
    BY <1>1, <1>2, <1>3, PTL DEF Spec

(* When the server asks for its socket, three netconns at most are taken.  *)
LEMMA SocketLeft ==
  ASSUME ListenInv, spc = "socket"
  PROVE  SocketAvailable
  <1>1. 0 \in Slot /\ Free # Listen
    BY SlotValues DEF Slot, NUM_SOCKETS
  <1>2. slot[0] = Free /\ Pending = {}
    BY <1>1 DEF ListenInv
  <1>3. InUse \subseteq Slot \ {0}
    BY <1>2 DEF InUse
  <1>4. Cardinality(InUse) <= Cardinality(Slot) - 1
    BY <1>1, <1>3, PoolFinite, CardinalitySteps
  <1>5. Cardinality(Pending) = 0
    BY <1>2, FS_EmptySet
  <1>6. NetconnsUsed < NUM_SOCKETS
    BY <1>4, <1>5, PoolFinite DEF NetconnsUsed, NUM_SOCKETS
  <1>7. FreeSlots # {}
    BY <1>1, <1>2 DEF FreeSlots
  <1>. QED
    BY <1>6, <1>7 DEF SocketAvailable

(* Every step preserves ServerNeverReturns.                                *)
LEMMA GoesOnNext == ListenInv /\ ServerNeverReturns /\ [Next]_vars => ServerNeverReturns'
  <1> SUFFICES ASSUME ListenInv, ServerNeverReturns, [Next]_vars PROVE ServerNeverReturns'
    OBVIOUS
  <1> USE DEF ServerNeverReturns, gui, server, mutex
  <1>1. CASE ServerSocket
    BY <1>1, SocketLeft DEF ServerSocket
  <1>2. CASE ServerStep /\ ~ServerSocket
    BY <1>2 DEF ServerStep, ServerPeek, ServerBind, ServerAccept, ServerAcceptClosed,
                ServerButton, ServerDraw, ServerServe
  <1>3. CASE GuiLock \/ GuiUnlock \/ OpenSocketServer \/ CreateQueueRead
    BY <1>3 DEF GuiLock, GuiUnlock, OpenSocketServer, CreateQueueRead
  <1>4. CASE CloseServerSocket \/ DeleteServer \/ DeleteQueueRead
    BY <1>4 DEF CloseServerSocket, DeleteServer, DeleteQueueRead
  <1>5. CASE WeatherSocket \/ WeatherClose \/ WeatherFree
    BY <1>5 DEF WeatherSocket, WeatherClose, WeatherFree
  <1>6. CASE QueueStep
    BY <1>6 DEF QueueStep, QueueReceive, QueueInvalidate, QueueUnlock
  <1>7. CASE Network \/ \E c \in Conns : ReaderStep(c) \/ ReaderSendTimeout(c)
    BY <1>7, OthersFrame
  <1>8. CASE UNCHANGED vars
    BY <1>8 DEF vars
  <1>. QED
    BY <1>1, <1>2, <1>3, <1>4, <1>5, <1>6, <1>7, <1>8 DEF Next, GuiStep

(* The server always gets its socket, so that its task function never      *)
(* returns into prvTaskExitError: however many clients of earlier servers  *)
(* are left, and whenever the page is opened.                              *)
THEOREM ServerGoesOn == Spec => []ServerNeverReturns
  <1> DEFINE IInv == /\ TypeOK /\ ListenInv /\ MailboxInv /\ HalfClosedInv
                     /\ ServerNeverReturns
  <1>1. Init => IInv
    BY TypeInit, ListenInit, MailboxInit, HalfClosedInit DEF Init, ServerNeverReturns
  <1>2. IInv /\ [Next]_vars => IInv'
    BY TypeNext, ListenNext, MailboxNext, HalfClosedNext, GoesOnNext
  <1>3. IInv => ServerNeverReturns
    OBVIOUS
  <1> HIDE DEF IInv
  <1>. QED
    BY <1>1, <1>2, <1>3, PTL DEF Spec

-----------------------------------------------------------------------------
(* The sockets of the readers.                                             *)

(* OwnInv at the start.                                                    *)
LEMMA OwnInit == Init => OwnInv
  BY DEF Init, OwnInv, Serves

(* A reader that has a wrong socket keeps it.                              *)
LEMMA MisboundStays ==
  ASSUME Misbound, rsock' = rsock, given' = given,
         \A c \in Conns : rpc[c] \notin {"none", "start", "dangling"}
                            => rpc'[c] \notin {"none", "start", "dangling"}
  PROVE  Misbound'
  BY DEF Misbound

(* No step puts a wrong reader right, and none gives a reader another      *)
(* socket behind its back.                                                 *)
LEMMA MisboundNext ==
  ASSUME TypeOK, MailboxInv, [Next]_vars, Misbound
  PROVE  Misbound'
  <1> USE DEF gui, server, mutex, readers, queue, lwip
  <1>a. /\ rpc \in [Conns -> {"none", "start", "dangling", "read", "send", "close", "free", "stuck", "done"}]
        /\ rsock \in [Conns -> {NoSock} \cup Slot]
        /\ given \in [Conns -> {NoSock} \cup Slot]
        /\ caller \in {Nobody} \cup Conns /\ Nobody \notin Conns
        /\ acceptmbox \in Seq(Conns)
    BY ConnsAssumption DEF TypeOK, TaskTypes, ReaderTypes, LwipTypes
  <1>1. CASE ServerAccept
    <2> DEFINE c == Head(acceptmbox)
    <2>1. c \in Conns /\ Unserved(c)
      <3>1. c = acceptmbox[1] /\ 1 \in 1 .. Len(acceptmbox) /\ c \in Conns
        BY <1>1, <1>a DEF ServerAccept
      <3>. QED
        BY <3>1 DEF MailboxInv
    <2>2. given' = [given EXCEPT ![c] = sock_client'] /\ rpc' = rpc /\ rsock' = rsock
      BY <1>1 DEF ServerAccept
    <2> HIDE DEF c
    <2>. QED
      BY <2>1, <2>2, <1>a DEF Misbound, Unserved
  <1>2. CASE ServerServe
    <2>1. caller # Nobody => rpc[caller] = "none"
      BY DEF MailboxInv
    <2>. QED
      BY <1>2, <2>1, <1>a, MisboundStays DEF ServerServe
  <1>3. CASE DeleteServer
    BY <1>3, MisboundStays DEF DeleteServer
  <1>4. ASSUME NEW c \in Conns, ReaderStart(c) PROVE Misbound'
    <2>1. /\ rpc[c] \in {"start", "dangling"} /\ rpc' = [rpc EXCEPT ![c] = "read"]
          /\ \A d \in Conns : d # c => rsock'[d] = rsock[d]
          /\ given' = given
      BY <1>4, <1>a DEF ReaderStart
    <2>. QED
      BY <2>1, <1>a DEF Misbound
  <1>5. ASSUME NEW c \in Conns, ReaderRead(c) PROVE Misbound'
    <2>1. /\ rpc[c] = "read" /\ given' = given /\ rsock' = rsock
          /\ \E place \in {"send", "close", "stuck"} : rpc' = [rpc EXCEPT ![c] = place]
      BY <1>5, ReadFacts
    <2>. QED
      BY <2>1, <1>a, MisboundStays
  <1>6. ASSUME NEW c \in Conns, ReaderSend(c) \/ ReaderSendTimeout(c) PROVE Misbound'
    BY <1>6, <1>a, MisboundStays DEF ReaderSend, ReaderSendTimeout
  <1>7. ASSUME NEW c \in Conns, ReaderClose(c) PROVE Misbound'
    <2>1. /\ given' = given /\ rsock' = rsock
          /\ \A r \in Conns : rpc'[r] \in {"free", "done", "stuck", rpc[r]}
      BY <1>7, CloseFacts
    <2>. QED
      BY <2>1, MisboundStays
  <1>13. ASSUME NEW c \in Conns, ReaderFree(c) PROVE Misbound'
    BY <1>13, <1>a, MisboundStays DEF ReaderFree
  <1>8. CASE GuiStep /\ ~DeleteServer
    BY <1>8, MisboundStays
    DEF GuiStep, GuiLock, GuiUnlock, OpenSocketServer, CreateQueueRead, CloseServerSocket,
        DeleteQueueRead, WeatherSocket, WeatherClose, WeatherFree
  <1>9. CASE ServerStep /\ ~ServerAccept /\ ~ServerServe
    BY <1>9, MisboundStays
    DEF ServerStep, ServerSocket, ServerPeek, ServerBind, ServerAcceptClosed, ServerButton,
        ServerDraw
  <1>10. CASE QueueStep \/ IpArrives
    BY <1>10, MisboundStays DEF QueueStep, QueueReceive, QueueInvalidate, QueueUnlock, IpArrives
  <1>11. ASSUME NEW c \in Conns, Connect(c) \/ ClientSend(c) \/ ClientEnds(c) PROVE Misbound'
    BY <1>11, MisboundStays DEF Connect, ClientSend, ClientEnds
  <1>12. CASE UNCHANGED vars
    BY <1>12, MisboundStays DEF vars
  <1>. QED
    BY <1>1, <1>2, <1>3, <1>4, <1>5, <1>6, <1>7, <1>8, <1>9, <1>10, <1>11, <1>12, <1>13
    DEF Next, Network, ReaderStep

(* What the argument about OwnInv needs of a step in which nobody closes a *)
(* connection's socket: connections keep their slots, the readers theirs,  *)
(* nobody is served anew, and a wrong reader stays wrong.                  *)
LEMMA OwnFrame ==
  ASSUME TypeOK, OwnInv,
         \A s \in Slot : slot[s] \in Conns => slot'[s] = slot[s],
         given' = given,
         \A c \in Conns : Serves(c)' => Serves(c),
         Misbound => Misbound'
  PROVE  OwnInv'
  <1>1. given \in [Conns -> {NoSock} \cup Slot]
    BY DEF TypeOK, ReaderTypes
  <1> SUFFICES ASSUME ~Misbound', NEW c \in Conns, given'[c] # NoSock, Serves(c)'
               PROVE  slot'[given'[c]] = c
    BY DEF OwnInv
  <1>2. slot[given[c]] = c /\ given[c] \in Slot
    BY <1>1 DEF OwnInv
  <1>. QED
    BY <1>2

(* Every step preserves OwnInv: a slot changes hands only after the reader *)
(* that owns it has closed it.                                             *)
LEMMA OwnNext ==
  TypeOK /\ ListenInv /\ MailboxInv /\ HalfClosedInv /\ OwnInv /\ [Next]_vars => OwnInv'
  <1> SUFFICES ASSUME TypeOK, ListenInv, MailboxInv, HalfClosedInv, OwnInv, [Next]_vars
               PROVE  OwnInv'
    OBVIOUS
  <1> USE DEF gui, server, mutex, readers, queue, lwip
  <1>a. /\ {Free, Listen, Web, Closing, WebClosing, Nobody} \cap Conns = {}
        /\ slot \in [Slot -> {Free, Listen, Web} \cup HalfClosed \cup Conns]
        /\ caller \in {Nobody} \cup Conns
        /\ acceptmbox \in Seq(Conns)
    BY ConnsAssumption, SlotValues DEF TypeOK, TaskTypes, LwipTypes
  <1>b. /\ rpc \in [Conns -> {"none", "start", "dangling", "read", "send", "close", "free", "stuck", "done"}]
        /\ rsock \in [Conns -> {NoSock} \cup Slot]
        /\ given \in [Conns -> {NoSock} \cup Slot]
    BY DEF TypeOK, ReaderTypes
  <1>c. FreeSlots # {} => FirstFree \in Slot /\ slot[FirstFree] = Free
    BY FirstFreeIsFree
  <1>e. Misbound => Misbound'
    BY MisboundNext
  <1>1. CASE ServerAccept
    <2> DEFINE c == Head(acceptmbox)
    <2>1. c \in Conns /\ Unserved(c)
      <3>1. c = acceptmbox[1] /\ 1 \in 1 .. Len(acceptmbox) /\ c \in Conns
        BY <1>1, <1>a DEF ServerAccept
      <3>. QED
        BY <3>1 DEF MailboxInv
    <2>2. /\ AcceptFails(c) \/ AcceptReturns(c)
          /\ given' = [given EXCEPT ![c] = sock_client']
          /\ caller' = c /\ rpc' = rpc /\ rsock' = rsock
      BY <1>1 DEF ServerAccept
    <2> HIDE DEF c
    <2>3. \A s \in Slot : slot[s] \in Conns => slot'[s] = slot[s]
      BY <2>1, <2>2, <1>a, <1>c DEF AcceptFails, AcceptReturns
    <2>4. sock_client' # NoSock => slot'[sock_client'] = c
      BY <2>1, <2>2, <1>a, <1>c DEF AcceptFails, AcceptReturns
    <2>5. SUFFICES ASSUME ~Misbound', NEW d \in Conns, given'[d] # NoSock, Serves(d)'
                   PROVE  slot'[given'[d]] = d
      BY DEF OwnInv
    <2>6. CASE d = c
      BY <2>1, <2>2, <2>4, <2>5, <2>6, <1>b
    <2>7. CASE d # c
      <3>1. given'[d] = given[d] /\ Serves(d)
        BY <2>2, <2>5, <2>7, <1>b DEF Serves
      <3>2. slot[given[d]] = d /\ given[d] \in Slot
        BY <3>1, <1>e, <2>5, <1>b DEF OwnInv
      <3>. QED
        BY <3>1, <3>2, <2>3
    <2>. QED
      BY <2>6, <2>7
  <1>2. ASSUME NEW c \in Conns, ReaderClose(c) PROVE OwnInv'
    <2> DEFINE s == rsock[c]
    <2>1. /\ rpc[c] = "close" /\ rpc'[c] \in {"free", "done", "stuck"}
          /\ slot' = slot \/ slot' = [slot EXCEPT ![s] = Closing]
          /\ given' = given /\ rsock' = rsock /\ caller' = caller
          /\ \A r \in Conns : rpc'[r] \in {"free", "done", "stuck", rpc[r]}
      BY <1>2, CloseFacts
    <2>2. SUFFICES ASSUME ~Misbound', NEW d \in Conns, given'[d] # NoSock, Serves(d)'
                   PROVE  slot'[given'[d]] = d
      BY DEF OwnInv
    <2>3. s = given[c] /\ s # NoSock /\ slot[s] = c
      <3>1. s = given[c]
        BY <2>1, <1>e, <2>2 DEF Misbound
      <3>2. s # NoSock
        BY <2>1 DEF ListenInv
      <3>. QED
        BY <3>1, <3>2, <2>1, <1>e, <2>2 DEF OwnInv, Serves
    <2>4. caller # c
      BY <2>1, <1>a DEF MailboxInv
    <2>5. d # c
      BY <2>1, <2>2, <2>4 DEF Serves
    <2>6. Serves(d)
      BY <2>1, <2>2 DEF Serves
    <2>7. slot[given[d]] = d /\ given[d] \in Slot
      BY <2>1, <1>e, <2>2, <2>6, <1>b DEF OwnInv
    <2> HIDE DEF s
    <2>. QED
      BY <2>1, <2>3, <2>5, <2>7, <1>a
  <1>3. ASSUME NEW c \in Conns, ReaderStart(c) PROVE OwnInv'
    <2>1. /\ rpc[c] \in {"start", "dangling"} /\ rpc' = [rpc EXCEPT ![c] = "read"]
          /\ \A d \in Conns : d # c => rsock'[d] = rsock[d]
          /\ given' = given /\ slot' = slot /\ caller' = caller
      BY <1>3, <1>b DEF ReaderStart
    <2>2. \A d \in Conns : Serves(d)' => Serves(d)
      BY <2>1, <1>b DEF Serves
    <2>. QED
      BY <2>1, <1>e, <2>2, OwnFrame
  <1>4. ASSUME NEW c \in Conns, ReaderRead(c) PROVE OwnInv'
    <2>1. /\ rpc[c] = "read" /\ given' = given /\ rsock' = rsock /\ slot' = slot
          /\ caller' = caller
          /\ \E place \in {"send", "close", "stuck"} : rpc' = [rpc EXCEPT ![c] = place]
      BY <1>4, ReadFacts
    <2>2. \A d \in Conns : Serves(d)' => Serves(d)
      BY <2>1, <1>b DEF Serves
    <2>. QED
      BY <2>1, <1>e, <2>2, OwnFrame
  <1>5. ASSUME NEW c \in Conns, ReaderSend(c) \/ ReaderSendTimeout(c) PROVE OwnInv'
    <2>1. /\ rpc[c] = "send" /\ given' = given /\ rsock' = rsock /\ slot' = slot
          /\ caller' = caller /\ rpc' = [rpc EXCEPT ![c] = "read"]
      BY <1>5 DEF ReaderSend, ReaderSendTimeout
    <2>2. \A d \in Conns : Serves(d)' => Serves(d)
      BY <2>1, <1>b DEF Serves
    <2>. QED
      BY <2>1, <1>e, <2>2, OwnFrame
  <1>6. CASE ServerServe
    <2>1. /\ rpc' = [rpc EXCEPT ![caller] = "start"] /\ caller' = Nobody
          /\ given' = given /\ rsock' = rsock /\ slot' = slot
      BY <1>6 DEF ServerServe
    <2>2. \A d \in Conns : Serves(d)' => Serves(d)
      BY <2>1, <1>a, <1>b DEF Serves
    <2>. QED
      BY <2>1, <1>e, <2>2, OwnFrame
  <1>7. CASE DeleteServer
    <2>1. /\ rpc' = [c \in Conns |-> IF rpc[c] = "start" THEN "dangling" ELSE rpc[c]]
          /\ caller' = Nobody /\ given' = given /\ rsock' = rsock /\ slot' = slot
      BY <1>7 DEF DeleteServer
    <2>2. \A d \in Conns : Serves(d)' => Serves(d)
      BY <2>1, <1>a DEF Serves
    <2>. QED
      BY <2>1, <1>e, <2>2, OwnFrame
  <1>d. ASSUME UNCHANGED readers, caller' \in {caller, Nobody},
               \A s \in Slot : slot[s] \in Conns => slot'[s] = slot[s]
        PROVE  OwnInv'
    <2>1. \A d \in Conns : Serves(d)' => Serves(d)
      BY <1>d, <1>a DEF Serves
    <2>. QED
      BY <1>d, <1>e, <2>1, OwnFrame
  <1>8. CASE WeatherSocket \/ WeatherClose \/ WeatherFree
    <2>1. \A s \in Slot : slot[s] \in Conns => slot'[s] = slot[s]
      <3>1. CASE WeatherSocket
        BY <3>1, <1>a, <1>c DEF WeatherSocket, SocketAvailable
      <3>2. CASE WeatherClose \/ WeatherFree
        BY <3>2, <1>a DEF WeatherClose, WeatherFree
      <3>. QED
        BY <1>8, <3>1, <3>2
    <2>. QED
      BY <1>8, <2>1, <1>d DEF WeatherSocket, WeatherClose, WeatherFree
  <1>9. CASE ServerSocket
    <2>1. \A s \in Slot : slot[s] \in Conns => slot'[s] = slot[s]
      BY <1>9, <1>a, <1>c DEF ServerSocket, SocketAvailable
    <2>. QED
      BY <1>9, <2>1, <1>d DEF ServerSocket
  <1>10. CASE CloseServerSocket
    <2>1. \A s \in Slot : slot[s] \in Conns => slot'[s] = slot[s]
      BY <1>10, <1>a DEF CloseServerSocket
    <2>. QED
      BY <1>10, <2>1, <1>d DEF CloseServerSocket
  <1>11. CASE \/ GuiLock \/ GuiUnlock \/ OpenSocketServer \/ CreateQueueRead
              \/ DeleteQueueRead
    BY <1>11, <1>d
    DEF GuiLock, GuiUnlock, OpenSocketServer, CreateQueueRead, DeleteQueueRead
  <1>12. CASE ServerPeek \/ ServerBind \/ ServerAcceptClosed \/ ServerButton \/ ServerDraw
    BY <1>12, <1>d DEF ServerPeek, ServerBind, ServerAcceptClosed, ServerButton, ServerDraw
  <1>13. CASE QueueStep \/ IpArrives
    BY <1>13, <1>d DEF QueueStep, QueueReceive, QueueInvalidate, QueueUnlock, IpArrives
  <1>14. ASSUME NEW c \in Conns, Connect(c) \/ ClientSend(c) \/ ClientEnds(c) PROVE OwnInv'
    BY <1>14, <1>d DEF Connect, ClientSend, ClientEnds
  <1>15. CASE UNCHANGED vars
    BY <1>15, <1>d DEF vars
  <1>16. ASSUME NEW c \in Conns, ReaderFree(c) PROVE OwnInv'
    <2>1. /\ rpc[c] = "free" /\ rpc' = [rpc EXCEPT ![c] = "done"]
          /\ given' = given /\ rsock' = rsock /\ caller' = caller
          /\ slot' = [slot EXCEPT ![rsock[c]] = Free]
      BY <1>16 DEF ReaderFree
    <2>2. \A s \in Slot : slot[s] \in Conns => slot'[s] = slot[s]
      BY <2>1, <1>a DEF HalfClosedInv
    <2>3. \A d \in Conns : Serves(d)' => Serves(d)
      BY <2>1, <1>b DEF Serves
    <2>. QED
      BY <2>1, <1>e, <2>2, <2>3, OwnFrame
  <1>. QED
    BY <1>1, <1>2, <1>3, <1>4, <1>5, <1>6, <1>7, <1>8, <1>9, <1>10, <1>11, <1>12, <1>13,
       <1>14, <1>15, <1>16
    DEF Next, GuiStep, ServerStep, Network, ReaderStep

(* OwnInv and HalfClosedInv are what the readers need.                     *)
LEMMA OwnIsEnough == OwnInv /\ HalfClosedInv => ReaderOwnsConnection
  BY DEF OwnInv, HalfClosedInv, ReaderOwnsConnection, Serves, Misbound

(* As long as every reader found its own socket, no reader works on a slot *)
(* that was closed and given to another connection, nor is one it has half *)
(* closed given away, for any number of clients, reconnections and presses.*)
THEOREM ReadersOwn == Spec => []ReaderOwnsConnection
  <1> DEFINE IInv == TypeOK /\ ListenInv /\ MailboxInv /\ HalfClosedInv /\ OwnInv
  <1>1. Init => IInv
    BY TypeInit, ListenInit, MailboxInit, HalfClosedInit, OwnInit
  <1>2. IInv /\ [Next]_vars => IInv'
    BY TypeNext, ListenNext, MailboxNext, HalfClosedNext, OwnNext
  <1>3. IInv => ReaderOwnsConnection
    BY OwnIsEnough
  <1> HIDE DEF IInv
  <1>. QED
    BY <1>1, <1>2, <1>3, PTL DEF Spec

-----------------------------------------------------------------------------
(* Who may free a mailbox under its waiter.                                *)

(* At first the page is closed and nobody waits.                           *)
LEMMA FreedInit == Init => PressInv /\ StuckInv
  BY DEF Init, PressInv, StuckInv

(* Every step keeps the count of presses and what it says of the page.     *)
LEMMA PressNext == TypeOK /\ PressInv /\ [Next]_vars => PressInv'
  <1> SUFFICES ASSUME TypeOK, PressInv, [Next]_vars PROVE PressInv'
    OBVIOUS
  <1> USE DEF gui, server
  <1>1. presses \in Nat
    BY SizesAssumption DEF TypeOK, TaskTypes
  <1>2. CASE OpenSocketServer \/ CloseServerSocket
    BY <1>1, <1>2 DEF OpenSocketServer, CloseServerSocket, PressInv
  <1>3. CASE GuiStep /\ ~OpenSocketServer /\ ~CloseServerSocket
    BY <1>3 DEF GuiStep, GuiLock, GuiUnlock, CreateQueueRead, DeleteServer, DeleteQueueRead,
                WeatherSocket, WeatherClose, WeatherFree, PressInv
  <1>4. CASE ServerStep
    BY <1>4 DEF ServerStep, ServerSocket, ServerPeek, ServerBind, ServerAccept,
                ServerAcceptClosed, ServerButton, ServerDraw, ServerServe, PressInv
  <1>5. CASE QueueStep \/ Network
    BY <1>5 DEF QueueStep, QueueReceive, QueueInvalidate, QueueUnlock, Network, IpArrives,
                Connect, ClientSend, ClientEnds, PressInv
  <1>6. ASSUME NEW c \in Conns, ReaderStep(c) \/ ReaderSendTimeout(c) PROVE PressInv'
    BY <1>6 DEF ReaderStep, ReaderStart, ReaderRead, ReaderSend, ReaderClose, ReaderFree,
                ReaderSendTimeout, PressInv
  <1>7. CASE UNCHANGED vars
    BY <1>7 DEF vars, PressInv
  <1>. QED
    BY <1>2, <1>3, <1>4, <1>5, <1>6, <1>7 DEF Next

(* A reader that closes its socket leaves nobody behind in it: whoever     *)
(* reads the same slot would own it as well.                               *)
LEMMA StuckClose ==
  ASSUME TypeOK, ListenInv, HalfClosedInv, OwnInv, ~Misbound, NEW c \in Conns, ReaderClose(c),
         NEW r \in Conns, rpc[r] # "stuck"
  PROVE  rpc'[r] # "stuck"
  <1>1. rpc[c] = "close" /\ rsock[c] # NoSock
    BY DEF ReaderClose, ListenInv
  <1>2. slot[rsock[c]] = c
    BY <1>1, OwnIsEnough DEF ReaderOwnsConnection
  <1>3. rpc[r] = "read" /\ rsock[r] = rsock[c] => r = c
    BY <1>1, <1>2, OwnIsEnough DEF ReaderOwnsConnection
  <1>4. NetconnDelete(c)
    BY <1>2, SlotValues DEF ReaderClose, CloseNothing, FreeTwice
  <1>. QED
    BY <1>3, <1>4 DEF NetconnDelete

(* Nor does it read a slot that is half closed: its slot is its own.       *)
LEMMA StuckRead ==
  ASSUME TypeOK, HalfClosedInv, OwnInv, ~Misbound, NEW c \in Conns, ReaderRead(c),
         NEW r \in Conns, rpc[r] # "stuck"
  PROVE  rpc'[r] # "stuck"
  <1>1. rpc[c] = "read" /\ rsock[c] \in {NoSock} \cup Slot /\ NoSock \notin Slot
    BY DEF ReaderRead, TypeOK, ReaderTypes, NoSock, Slot, NUM_SOCKETS
  <1>2. rsock[c] # NoSock => slot[rsock[c]] = c
    BY <1>1, OwnIsEnough DEF ReaderOwnsConnection
  <1>3. At(rsock[c]) \notin HalfClosed
    BY <1>1, <1>2, SlotValues DEF At
  <1>. QED
    BY <1>3 DEF ReaderRead, ReadError, ReadData, ReadEnd, ReadFreed, TypeOK, ReaderTypes

(* Every step leaves no reader stuck whose socket is its own.              *)
LEMMA StuckNext ==
  TypeOK /\ ListenInv /\ MailboxInv /\ HalfClosedInv /\ OwnInv /\ StuckInv /\ [Next]_vars
    => StuckInv'
  <1> SUFFICES ASSUME TypeOK, ListenInv, MailboxInv, HalfClosedInv, OwnInv, StuckInv,
                      [Next]_vars, ~Misbound', NEW r \in Conns
               PROVE  rpc'[r] # "stuck"
    BY DEF StuckInv
  <1> USE DEF readers
  <1>1. ~Misbound
    BY MisboundNext
  <1>2. rpc[r] # "stuck" /\ rpc \in [Conns -> {"none", "start", "dangling", "read", "send",
                                             "close", "free", "stuck", "done"}]
    BY <1>1 DEF StuckInv, TypeOK, ReaderTypes
  <1>3. ASSUME NEW c \in Conns, ReaderClose(c) PROVE rpc'[r] # "stuck"
    BY <1>1, <1>2, <1>3, StuckClose
  <1>10. ASSUME NEW c \in Conns, ReaderRead(c) PROVE rpc'[r] # "stuck"
    BY <1>1, <1>2, <1>10, StuckRead
  <1>4. ASSUME NEW c \in Conns,
               ReaderStart(c) \/ ReaderSend(c) \/ ReaderFree(c) \/ ReaderSendTimeout(c)
        PROVE  rpc'[r] # "stuck"
    BY <1>2, <1>4 DEF ReaderStart, ReaderSend, ReaderFree, ReaderSendTimeout
  <1>5. CASE DeleteServer \/ ServerServe
    BY <1>2, <1>5 DEF DeleteServer, ServerServe
  <1>6. CASE GuiStep /\ ~DeleteServer
    BY <1>2, <1>6 DEF GuiStep, GuiLock, GuiUnlock, OpenSocketServer, CreateQueueRead,
                      CloseServerSocket, DeleteQueueRead, WeatherSocket, WeatherClose, WeatherFree
  <1>7. CASE ServerStep /\ ~ServerServe
    BY <1>2, <1>7 DEF ServerStep, ServerSocket, ServerPeek, ServerBind, ServerAccept,
                      ServerAcceptClosed, ServerButton, ServerDraw
  <1>8. CASE QueueStep \/ Network
    BY <1>2, <1>8 DEF QueueStep, QueueReceive, QueueInvalidate, QueueUnlock, Network,
                      IpArrives, Connect, ClientSend, ClientEnds
  <1>9. CASE UNCHANGED vars
    BY <1>2, <1>9 DEF vars
  <1>. QED
    BY <1>3, <1>4, <1>5, <1>6, <1>7, <1>8, <1>9, <1>10 DEF Next, ReaderStep

(* The two misuses that the runs find are the only ways to lose a task in  *)
(* a freed mailbox, for any number of clients, messages and disturbances.  *)
THEOREM OnlySharedSocketsStrand == Spec => []FreedUnderWaiterOnlyIfShared
  <1> DEFINE IInv == /\ TypeOK /\ ListenInv /\ MailboxInv /\ HalfClosedInv /\ OwnInv
                     /\ PressInv /\ StuckInv
  <1>1. Init => IInv
    BY TypeInit, ListenInit, MailboxInit, HalfClosedInit, OwnInit, FreedInit
  <1>2. IInv /\ [Next]_vars => IInv'
    BY TypeNext, ListenNext, MailboxNext, HalfClosedNext, OwnNext, PressNext, StuckNext
  <1>3. IInv => FreedUnderWaiterOnlyIfShared
    <2>1. presses \in Nat => ~(presses <= 1 /\ presses >= 2)
      OBVIOUS
    <2>2. TypeOK => presses \in Nat
      BY SizesAssumption DEF TypeOK, TaskTypes
    <2>. QED
      BY <2>1, <2>2
      DEF PressInv, StuckInv, FreedUnderWaiterOnlyIfShared, NoMailboxFreedUnderWaiter
  <1> HIDE DEF IInv
  <1>. QED
    BY <1>1, <1>2, <1>3, PTL DEF Spec

-----------------------------------------------------------------------------
(* Somebody can always go on.                                              *)

(* At first nothing waits and nothing was sent.                            *)
LEMMA WaitInit == Init => WaitInv
  <1> SUFFICES ASSUME Init PROVE WaitInv
    OBVIOUS
  <1>1. acceptmbox = <<>> /\ \A s \in Slot : slot[s] = Free
    BY DEF Init
  <1>2. \A c \in Conns : got[c] = 0 /\ sent[c] = 0
    BY DEF Init
  <1>. QED
    BY <1>1, <1>2, SlotValues DEF WaitInv

(* Steps that leave the attempts alone, and put no connection in a slot.   *)
LEMMA WaitFrame ==
  ASSUME TypeOK, WaitInv, UNCHANGED <<acceptmbox, cstate, sent, got>>,
         \A s \in Slot : slot'[s] \in Conns => slot'[s] = slot[s]
  PROVE  WaitInv'
  BY DEF WaitInv

(* accept takes the first attempt out of the mailbox, once.                *)
LEMMA WaitAccept ==
  ASSUME TypeOK, MailboxInv, WaitInv, ServerAccept
  PROVE  WaitInv'
  <1> DEFINE c == Head(acceptmbox)
  <1>1. /\ acceptmbox \in Seq(Conns) /\ acceptmbox # <<>>
        /\ cstate \in [Conns -> {"new", "pending", "aborted", "open", "gone"}]
        /\ slot \in [Slot -> {Free, Listen, Web} \cup HalfClosed \cup Conns]
    BY DEF TypeOK, LwipTypes, ServerAccept
  <1>2. /\ c = acceptmbox[1] /\ 1 \in 1 .. Len(acceptmbox) /\ c \in Conns
        /\ Len(Tail(acceptmbox)) = Len(acceptmbox) - 1 /\ Len(acceptmbox) \in Nat
        /\ \A i \in 1 .. Len(Tail(acceptmbox)) : Tail(acceptmbox)[i] = acceptmbox[i + 1]
    BY <1>1
  <1>3. /\ AcceptFails(c) \/ AcceptReturns(c)
        /\ acceptmbox' = Tail(acceptmbox) /\ sent' = sent /\ got' = got
    BY DEF ServerAccept
  <1> HIDE DEF c
  <1>4. /\ cstate'[c] \in {"open", "gone"}
        /\ \A d \in Conns \ {c} : cstate'[d] = cstate[d]
    BY <1>1, <1>2, <1>3 DEF AcceptFails, AcceptReturns
  <1>5. \A s \in Slot : slot'[s] \in {slot[s], c}
    BY <1>1, <1>3 DEF AcceptFails, AcceptReturns
  <1>6. \A i \in 1 .. Len(acceptmbox') : cstate'[acceptmbox'[i]] \in {"pending", "aborted"}
    <2>1. TAKE i \in 1 .. Len(acceptmbox')
    <2>2. /\ i + 1 \in 1 .. Len(acceptmbox) /\ i + 1 # 1
          /\ acceptmbox'[i] = acceptmbox[i + 1]
      BY <1>2, <1>3
    <2>3. acceptmbox[i + 1] # c /\ acceptmbox[i + 1] \in Conns
      BY <1>1, <1>2, <2>2 DEF MailboxInv
    <2>. QED
      BY <1>4, <2>2, <2>3 DEF WaitInv
  <1>7. \A s \in Slot : slot'[s] \in Conns => cstate'[slot'[s]] \in {"open", "gone"}
    BY <1>2, <1>4, <1>5 DEF WaitInv
  <1>. QED
    BY <1>3, <1>6, <1>7 DEF WaitInv

(* Every step keeps the attempts apart from the connections.               *)
LEMMA WaitNext == TypeOK /\ ListenInv /\ MailboxInv /\ WaitInv /\ [Next]_vars => WaitInv'
  <1> SUFFICES ASSUME TypeOK, ListenInv, MailboxInv, WaitInv, [Next]_vars PROVE WaitInv'
    OBVIOUS
  <1> USE DEF gui, server, mutex, readers, queue, lwip
  <1>1. /\ acceptmbox \in Seq(Conns)
        /\ cstate \in [Conns -> {"new", "pending", "aborted", "open", "gone"}]
        /\ slot \in [Slot -> {Free, Listen, Web} \cup HalfClosed \cup Conns]
        /\ sent \in [Conns -> Nat] /\ got \in [Conns -> Nat]
        /\ {Free, Listen, Web, Closing, WebClosing} \cap Conns = {}
    BY SlotValues, SizesAssumption DEF TypeOK, LwipTypes
  <1>2. \A i \in 1 .. Len(acceptmbox) : acceptmbox[i] \in Conns
    BY <1>1
  <1>3. CASE ServerAccept
    BY <1>3, WaitAccept
  <1>4. ASSUME NEW c \in Conns, Connect(c) PROVE WaitInv'
    <2> DEFINE n == Len(acceptmbox)
    <2>1. /\ n \in Nat /\ Len(acceptmbox') = n + 1 /\ acceptmbox'[n + 1] = c
          /\ \A i \in 1 .. n : acceptmbox'[i] = acceptmbox[i]
      BY <1>1, <1>4 DEF Connect
    <2>2. /\ cstate[c] = "new" /\ cstate'[c] \in {"pending", "aborted"}
          /\ \A d \in Conns \ {c} : cstate'[d] = cstate[d]
          /\ UNCHANGED <<slot, sent, got>>
      BY <1>1, <1>4 DEF Connect
    <2>3. \A i \in 1 .. n : cstate[acceptmbox[i]] \in {"pending", "aborted"}
      BY DEF WaitInv
    <2>4. \A i \in 1 .. n : cstate'[acceptmbox[i]] \in {"pending", "aborted"}
      BY <1>2, <2>2, <2>3
    <2> HIDE DEF n
    <2>5. \A i \in 1 .. n + 1 : cstate'[acceptmbox'[i]] \in {"pending", "aborted"}
      BY <2>1, <2>2, <2>4
    <2>6. \A s \in Slot : slot'[s] \in Conns => cstate'[slot'[s]] \in {"open", "gone"}
      BY <2>2 DEF WaitInv
    <2>. QED
      BY <2>1, <2>2, <2>5, <2>6 DEF WaitInv
  <1>5. CASE CloseServerSocket
    <2>1. /\ acceptmbox' = <<>> /\ UNCHANGED <<sent, got>>
          /\ \A s \in Slot : slot'[s] \in Conns => slot'[s] = slot[s]
          /\ \A c \in Conns : cstate[c] \in {"open", "gone"} => cstate'[c] = cstate[c]
      BY <1>1, <1>5 DEF CloseServerSocket
    <2>. QED
      BY <2>1 DEF WaitInv
  <1>6. ASSUME NEW c \in Conns, ReaderClose(c) PROVE WaitInv'
    <2>1. rsock[c] \in Slot
      BY <1>6 DEF ReaderClose, ListenInv, TypeOK, ReaderTypes
    <2>2. /\ UNCHANGED <<acceptmbox, sent, got>>
          /\ \A s \in Slot : slot'[s] \in Conns => slot'[s] = slot[s]
      BY <1>1, <1>6, <2>1, CloseFacts
    <2>3. \A d \in Conns : cstate'[d] # cstate[d] => cstate'[d] = "gone" /\ slot[rsock[c]] = d
      BY <1>6, CloseFacts
    <2>4. \A i \in 1 .. Len(acceptmbox) : slot[rsock[c]] # acceptmbox[i]
      BY <1>2, <2>1 DEF WaitInv
    <2>. QED
      BY <1>2, <2>2, <2>3, <2>4 DEF WaitInv
  <1>7. ASSUME NEW c \in Conns, ReaderRead(c) PROVE WaitInv'
    <2>1. UNCHANGED <<slot, acceptmbox, cstate, sent>>
      BY <1>7 DEF ReaderRead
    <2>2. \A d \in Conns : got'[d] <= sent[d]
      <3>1. CASE ReadData(c)
        <4>1. slot[rsock[c]] \in Conns
          BY <3>1, ReadsConnection DEF ReadData
        <4>. QED
          BY <1>1, <3>1, <4>1 DEF ReadData, WaitInv
      <3>2. CASE UNCHANGED got
        BY <3>2 DEF WaitInv
      <3>. QED
        BY <1>7, <3>1, <3>2 DEF ReaderRead, ReadError, ReadEnd, ReadFreed
    <2>. QED
      BY <2>1, <2>2 DEF WaitInv
  <1>8. ASSUME NEW c \in Conns, ClientSend(c) PROVE WaitInv'
    <2>1. UNCHANGED <<slot, acceptmbox, cstate, got>>
      BY <1>8 DEF ClientSend
    <2>2. \A d \in Conns : got[d] <= sent'[d]
      BY <1>1, <1>8 DEF ClientSend, WaitInv
    <2>. QED
      BY <2>1, <2>2 DEF WaitInv
  <1>15. ASSUME NEW c \in Conns, ReaderFree(c) PROVE WaitInv'
    <2>1. \A s \in Slot : slot'[s] \in Conns => slot'[s] = slot[s]
      BY <1>1, <1>15 DEF ReaderFree
    <2>. QED
      BY <1>15, <2>1, WaitFrame DEF ReaderFree
  <1>9. CASE ServerSocket \/ WeatherSocket \/ WeatherClose \/ WeatherFree
    <2>1. \A s \in Slot : slot'[s] \in Conns => slot'[s] = slot[s]
      BY <1>1, <1>9 DEF ServerSocket, WeatherSocket, WeatherClose, WeatherFree
    <2>. QED
      BY <1>9, <2>1, WaitFrame DEF ServerSocket, WeatherSocket, WeatherClose, WeatherFree
  <1>10. CASE \/ GuiLock \/ GuiUnlock \/ OpenSocketServer \/ CreateQueueRead
              \/ DeleteServer \/ DeleteQueueRead
    BY <1>10, WaitFrame DEF GuiLock, GuiUnlock, OpenSocketServer, CreateQueueRead,
                            DeleteServer, DeleteQueueRead
  <1>11. CASE \/ ServerPeek \/ ServerBind \/ ServerAcceptClosed
              \/ ServerButton \/ ServerDraw \/ ServerServe
    BY <1>11, WaitFrame DEF ServerPeek, ServerBind, ServerAcceptClosed, ServerButton,
                            ServerDraw, ServerServe
  <1>12. CASE QueueStep \/ IpArrives
    BY <1>12, WaitFrame DEF QueueStep, QueueReceive, QueueInvalidate, QueueUnlock, IpArrives
  <1>13. ASSUME NEW c \in Conns,
                ReaderStart(c) \/ ReaderSend(c) \/ ReaderSendTimeout(c) \/ ClientEnds(c)
         PROVE  WaitInv'
    BY <1>13, WaitFrame DEF ReaderStart, ReaderSend, ReaderSendTimeout, ClientEnds
  <1>14. CASE UNCHANGED vars
    BY <1>14, WaitFrame DEF vars
  <1>. QED
    BY <1>3, <1>4, <1>5, <1>6, <1>7, <1>8, <1>9, <1>10, <1>11, <1>12, <1>13, <1>14, <1>15
    DEF Next, GuiStep, ServerStep, Network, ReaderStep

(* A server that is ready has a step: what it finds in the mailbox is an   *)
(* attempt it can accept or fail to accept.                                *)
LEMMA ServerReadySteps ==
  ASSUME TypeOK, WaitInv, ServerReady
  PROVE  ServerCanStep
  <1>1. CASE spc = "accept" /\ acceptmbox # <<>>
    <2>1. Head(acceptmbox) = acceptmbox[1] /\ 1 \in 1 .. Len(acceptmbox)
      BY <1>1 DEF TypeOK, LwipTypes
    <2>. QED
      BY <1>1, <2>1 DEF WaitInv, ServerCanStep
  <1>2. CASE ~(spc = "accept" /\ acceptmbox # <<>>)
    BY <1>2 DEF ServerReady, ServerCanStep
  <1>. QED
    BY <1>1, <1>2

(* So has a reader: a read that does not block returns something.          *)
LEMMA ReaderReadySteps ==
  ASSUME TypeOK, WaitInv, NEW c \in Conns, ReaderReady(c), ReaderMayRun
  PROVE  ReaderCanStep(c)
  <1>1. CASE rpc[c] = "read" /\ ~ReadBlocks(rsock[c])
    <2>1. CASE ReadFails(rsock[c])
      BY <1>1, <2>1 DEF ReaderCanStep, ReadReturns
    <2>2. CASE ~ReadFails(rsock[c])
      <3> DEFINE d == slot[rsock[c]]
      <3>1. d \in Conns /\ At(rsock[c]) = d
        BY <2>2, ReadsConnection DEF At
      <3>2. peer[d] \in {"up", "fin"}
        BY <2>2, <3>1 DEF ReadFails, TypeOK, LwipTypes
      <3>3. got[d] <= sent[d] /\ got[d] \in Nat /\ sent[d] \in Nat
        BY <3>1, SizesAssumption DEF WaitInv, TypeOK, LwipTypes
      <3>4. got[d] # sent[d] \/ peer[d] # "up"
        BY <1>1, <2>2 DEF ReadBlocks
      <3>. QED
        BY <1>1, <3>2, <3>3, <3>4 DEF ReaderCanStep, ReadReturns
    <2>. QED
      BY <2>1, <2>2
  <1>2. CASE ~(rpc[c] = "read" /\ ~ReadBlocks(rsock[c]))
    BY <1>2 DEF ReaderReady, ReaderCanStep
  <1>. QED
    BY <1>1, <1>2

(* Server, readers, queue task and GUI never wait for one another in a     *)
(* circle, for any number of clients, messages and presses and any length  *)
(* of the queue: always one of them can take its next step.                *)
THEOREM TasksGoOn == Spec => []TasksNeverHang
  <1> DEFINE IInv == /\ TypeOK /\ LockHolderAlive /\ ListenInv /\ MailboxInv
                     /\ HalfClosedInv /\ WaitInv
  <1>1. Init => IInv
    BY TypeInit, LockInit, ListenInit, MailboxInit, HalfClosedInit, WaitInit
  <1>2. IInv /\ [Next]_vars => IInv'
    BY TypeNext, LockNext, ListenNext, MailboxNext, HalfClosedNext, WaitNext
  <1>3. ASSUME IInv PROVE TasksNeverHang
    <2>1. CASE ServerReady
      BY <1>3, <2>1, ServerReadySteps DEF TasksNeverHang
    <2>2. CASE ReaderMayRun /\ \E c \in Conns : ReaderReady(c)
      BY <1>3, <2>2, ReaderReadySteps DEF TasksNeverHang
    <2>3. CASE ~ServerReady /\ (ReaderMayRun => \A c \in Conns : ~ReaderReady(c))
      <3>1. lock # "server"
        BY <1>3, <2>3 DEF LockHolderAlive, ServerReady
      <3>2. CASE lock = "qread"
        <4>1. LowCanStep("qread") /\ qpc \in {"again", "unlock"}
          BY <1>3, <2>3, <3>2 DEF LockHolderAlive, LowCanStep, ReaderMayRun, Boosted
        <4>. QED
          BY <4>1 DEF QueueCanStep, TasksNeverHang
      <3>3. CASE lock = "gui" \/ lock = "none"
        <4>1. LowCanStep("gui")
          BY <2>3, <3>3 DEF LowCanStep, ReaderMayRun, Boosted
        <4>2. gpc = "idle" => lock = "none"
          BY <1>3, <3>3 DEF LockHolderAlive
        <4>. QED
          BY <4>1, <4>2 DEF GuiCanStep, TasksNeverHang
      <3>4. lock \in {"none", "gui", "server", "qread"}
        BY <1>3 DEF TypeOK, TaskTypes
      <3>. QED
        BY <3>1, <3>2, <3>3, <3>4
    <2>. QED
      BY <2>1, <2>2, <2>3
  <1> HIDE DEF IInv
  <1>. QED
    BY <1>1, <1>2, <1>3, PTL DEF Spec

-----------------------------------------------------------------------------
(* The order of the texts.                                                 *)

(* TextInv at the start.                                                   *)
LEMMA TextInit == Init => TextInv
  <1> SUFFICES ASSUME Init PROVE TextInv
    OBVIOUS
  <1>1. Len(Socket_Queue) = 0 /\ \A s \in 1 .. 3 : shown[s] = NoMsg
    BY DEF Init
  <1>2. \A c \in Conns : rbuf[c] = NoMsg /\ got[c] = 0
    BY DEF Init
  <1>. QED
    BY <1>1, <1>2, ConnsAssumption DEF TextInv, Fetched, NoMsg

(* Messages have numbers, the empty one 0.                                 *)
LEMMA MsgFacts ==
  ASSUME NEW m \in Msg
  PROVE  /\ m.seq \in Nat /\ m.from \in {Nobody} \cup Conns
         /\ m.from = Nobody => m.seq = 0
  <1>1. Nobody \notin Conns
    BY ConnsAssumption
  <1>2. CASE m = NoMsg
    BY <1>2 DEF NoMsg
  <1>3. CASE m \in [from : Conns, seq : 1 .. MaxMsgs]
    <2>1. m.from \in Conns /\ m.seq \in 1 .. MaxMsgs
      BY <1>3
    <2>. QED
      BY <1>1, <2>1, SizesAssumption
  <1>. QED
    BY <1>2, <1>3 DEF Msg

(* Messages are where the types say.                                       *)
LEMMA MsgTypes ==
  ASSUME TypeOK
  PROVE  /\ \A i \in 1 .. Len(Socket_Queue) : Socket_Queue[i].msg \in Msg
         /\ \A s \in 1 .. 3 : shown[s] \in Msg
         /\ \A c \in Conns : rbuf[c] \in Msg
         /\ Len(Socket_Queue) \in Nat
  <1> DEFINE Item == [id : {NoSock} \cup Slot, msg : Msg]
  <1>1. Socket_Queue \in Seq(Item)
    BY DEF TypeOK, QueueTypes
  <1>2. \A m \in Item : m.msg \in Msg
    OBVIOUS
  <1> HIDE DEF Item
  <1>3. \A i \in 1 .. Len(Socket_Queue) : Socket_Queue[i].msg \in Msg
    BY <1>1, <1>2
  <1>. QED
    BY <1>1, <1>3 DEF TypeOK, QueueTypes, ReaderTypes

(* Steps that move no message.                                             *)
LEMMA TextFrame ==
  ASSUME TextInv, UNCHANGED <<rbuf, got, Socket_Queue, shown>>,
         \A c \in Conns : rpc[c] = "done" => rpc'[c] = "done",
         Misbound => Misbound'
  PROVE  TextInv'
  BY DEF TextInv, Fetched, NotNewer

(* A reader fetches a newer message of its own connection.                 *)
LEMMA TextRead ==
  ASSUME TypeOK, OwnInv, TextInv, NEW c \in Conns, ReaderRead(c), Misbound => Misbound'
  PROVE  TextInv'
  <1> USE DEF readers, queue
  <1>a. /\ rpc \in [Conns -> {"none", "start", "dangling", "read", "send", "close", "free", "stuck", "done"}]
        /\ rbuf \in [Conns -> Msg] /\ got \in [Conns -> 0 .. MaxMsgs]
        /\ given \in [Conns -> {NoSock} \cup Slot]
    BY DEF TypeOK, ReaderTypes, LwipTypes
  <1>b. NoSock \notin Slot
    BY DEF NoSock, Slot, NUM_SOCKETS
  <1>1. CASE ReadError(c) \/ ReadEnd(c) \/ ReadFreed(c)
    <2>1. UNCHANGED <<rbuf, got, Socket_Queue, shown>>
      BY <1>1 DEF ReaderRead, ReadError, ReadEnd, ReadFreed
    <2>2. \A d \in Conns : rpc[d] = "done" => rpc'[d] = "done"
      BY <1>a, ReadFacts
    <2>. QED
      BY <2>1, <2>2, TextFrame
  <1>2. CASE ReadData(c)
    <2>1. SUFFICES ASSUME ~Misbound, ~Misbound' PROVE TextInv'
      BY DEF TextInv
    <2>2. slot[rsock[c]] = c
      <3>1. rpc[c] = "read" /\ ~ReadFails(rsock[c])
        BY <1>2 DEF ReaderRead, ReadData
      <3>2. rsock[c] \in Slot /\ rsock[c] = given[c]
        BY <2>1, <3>1, ReadsConnection DEF Misbound
      <3>. QED
        BY <2>1, <3>1, <3>2, <1>b DEF OwnInv, Serves
    <2>3. /\ got' = [got EXCEPT ![c] = got[c] + 1]
          /\ rbuf' = [rbuf EXCEPT ![c] = [from |-> c, seq |-> got[c] + 1]]
          /\ rpc' = [rpc EXCEPT ![c] = "send"] /\ rpc[c] = "read"
          /\ UNCHANGED <<Socket_Queue, shown>>
      BY <1>2, <2>2 DEF ReaderRead, ReadData
    <2>4. got[c] \in Nat /\ rbuf[c].seq \in Nat /\ rbuf[c].seq <= got[c]
      BY <2>1, <1>a, MsgTypes, MsgFacts, SizesAssumption DEF TextInv
    <2>5. \A d \in Conns : rbuf'[d].from \in {Nobody, d} /\ rbuf'[d].seq <= got'[d]
      <3>1. TAKE d \in Conns
      <3>2. CASE d = c
        BY <2>3, <2>4, <3>2, <1>a
      <3>3. CASE d # c
        BY <2>1, <2>3, <3>3, <1>a DEF TextInv
      <3>. QED
        BY <3>2, <3>3
    <2>6. ASSUME NEW m \in Msg, Fetched(m),
                 NEW d \in Conns, m.from = d, rpc'[d] # "done"
          PROVE  m.seq <= rbuf'[d].seq
      <3>1. m.seq \in Nat /\ rpc[d] # "done"
        BY <2>3, <2>6, <1>a, MsgFacts
      <3>2. m.seq <= rbuf[d].seq
        BY <2>6, <3>1 DEF Fetched
      <3>3. CASE d = c
        BY <3>1, <3>2, <3>3, <2>3, <2>4, <1>a
      <3>4. CASE d # c
        BY <3>2, <3>4, <2>3, <1>a
      <3>. QED
        BY <3>3, <3>4
    <2>7. \A i \in 1 .. Len(Socket_Queue) : Fetched(Socket_Queue[i].msg)'
      BY <2>1, <2>3, <2>6, MsgTypes DEF TextInv, Fetched
    <2>8. \A s \in 1 .. 3 : Fetched(shown[s])'
      BY <2>1, <2>3, <2>6, MsgTypes DEF TextInv, Fetched
    <2>. QED
      BY <2>1, <2>3, <2>5, <2>7, <2>8 DEF TextInv, NotNewer
  <1>. QED
    BY <1>1, <1>2 DEF ReaderRead

(* The message that joins the queue is the newest of its connection.       *)
LEMMA TextSend ==
  ASSUME TypeOK, TextInv, NEW c \in Conns, ReaderSend(c), Misbound => Misbound'
  PROVE  TextInv'
  <1> DEFINE n == Len(Socket_Queue)
  <1>a. /\ rpc \in [Conns -> {"none", "start", "dangling", "read", "send", "close", "free", "stuck", "done"}]
        /\ rbuf[c] \in Msg /\ rbuf[c].seq \in Nat
    BY MsgTypes, MsgFacts DEF TypeOK, ReaderTypes
  <1>1. /\ rpc' = [rpc EXCEPT ![c] = "read"] /\ rpc[c] = "send"
        /\ Socket_Queue' = Append(Socket_Queue, [id |-> rsock[c], msg |-> rbuf[c]])
        /\ UNCHANGED <<rbuf, got, shown>>
    BY DEF ReaderSend, lwip
  <1>2. /\ n \in Nat /\ Len(Socket_Queue') = n + 1 /\ Socket_Queue'[n + 1].msg = rbuf[c]
        /\ \A i \in 1 .. n : Socket_Queue'[i] = Socket_Queue[i]
    BY <1>1 DEF TypeOK, QueueTypes
  <1>3. SUFFICES ASSUME ~Misbound, ~Misbound' PROVE TextInv'
    BY DEF TextInv
  <1>4. rbuf[c].from \in {Nobody, c}
    BY <1>3 DEF TextInv
  <1>5. ASSUME NEW m \in Msg, Fetched(m) PROVE NotNewer(m, rbuf[c])
    <2>1. CASE m.from = Nobody
      BY <2>1, <1>a, MsgFacts DEF NotNewer
    <2>2. CASE m.from # Nobody
      <3>1. m.from = rbuf[c].from => m.from = c
        BY <2>2, <1>4
      <3>. QED
        BY <3>1, <1>1, <1>5 DEF NotNewer, Fetched
    <2>. QED
      BY <2>1, <2>2
  <1>6. \A m : Fetched(m) => \A d \in Conns : m.from = d /\ rpc'[d] # "done" => m.seq <= rbuf'[d].seq
    BY <1>1, <1>a DEF Fetched
  <1>7. Fetched(rbuf[c])
    BY <1>4, <1>a, ConnsAssumption DEF Fetched
  <1>8. \A i \in 1 .. n : Socket_Queue[i].msg \in Msg /\ Fetched(Socket_Queue[i].msg)
    BY <1>3, MsgTypes DEF TextInv
  <1>9. \A s \in 1 .. 3 : shown[s] \in Msg /\ Fetched(shown[s])
    BY <1>3, MsgTypes DEF TextInv
  <1>10. \A i, j \in 1 .. n : i <= j => NotNewer(Socket_Queue[i].msg, Socket_Queue[j].msg)
    BY <1>3 DEF TextInv
  <1>11. \A s \in 1 .. 3 : \A i \in 1 .. n : NotNewer(shown[s], Socket_Queue[i].msg)
    BY <1>3 DEF TextInv
  <1>12. NotNewer(rbuf[c], rbuf[c])
    BY <1>a DEF NotNewer
  <1> HIDE DEF n
  <1>13. \A i \in 1 .. n + 1 : i \in 1 .. n \/ i = n + 1
    BY <1>2
  <1>14. ASSUME NEW i \in 1 .. n + 1, NEW j \in 1 .. n + 1, i <= j
         PROVE  NotNewer(Socket_Queue'[i].msg, Socket_Queue'[j].msg)
    <2>1. CASE i \in 1 .. n /\ j \in 1 .. n
      BY <2>1, <1>2, <1>10, <1>14
    <2>2. CASE i \in 1 .. n /\ j = n + 1
      BY <2>2, <1>2, <1>5, <1>8
    <2>3. CASE i = n + 1
      <3>1. j = n + 1
        BY <2>3, <1>2, <1>14
      <3>. QED
        BY <2>3, <3>1, <1>2, <1>12
    <2>. QED
      BY <2>1, <2>2, <2>3, <1>13
  <1>15. \A s \in 1 .. 3 : \A i \in 1 .. n + 1 : NotNewer(shown[s], Socket_Queue'[i].msg)
    BY <1>2, <1>5, <1>9, <1>11, <1>13
  <1>16. \A i \in 1 .. n + 1 : \A d \in Conns :
           Socket_Queue'[i].msg.from = d /\ rpc'[d] # "done" => Socket_Queue'[i].msg.seq <= rbuf'[d].seq
    BY <1>2, <1>6, <1>7, <1>8, <1>13
  <1>17. \A s \in 1 .. 3 : \A d \in Conns :
           shown'[s].from = d /\ rpc'[d] # "done" => shown'[s].seq <= rbuf'[d].seq
    BY <1>1, <1>6, <1>9
  <1>18. \A d \in Conns : rbuf'[d].from \in {Nobody, d} /\ rbuf'[d].seq <= got'[d]
    BY <1>1, <1>3 DEF TextInv
  <1>. QED
    BY <1>1, <1>2, <1>14, <1>15, <1>16, <1>17, <1>18 DEF TextInv, NotNewer, Fetched

(* A reader that ends leaves its messages in the queue.                    *)
LEMMA TextClose ==
  ASSUME TypeOK, TextInv, NEW c \in Conns,
         \A d \in Conns : rpc[d] = "done" => rpc'[d] = "done",
         rpc'[c] = "done", rbuf' = [rbuf EXCEPT ![c] = NoMsg],
         UNCHANGED <<got, Socket_Queue, shown>>, Misbound => Misbound'
  PROVE  TextInv'
  <1>1. \A d \in Conns : rpc[d] = "done" => rpc'[d] = "done"
    OBVIOUS
  <1>2. got[c] \in Nat /\ rbuf \in [Conns -> Msg]
    BY SizesAssumption DEF TypeOK, ReaderTypes, LwipTypes
  <1>3. SUFFICES ASSUME ~Misbound, ~Misbound' PROVE TextInv'
    BY DEF TextInv
  <1>4. \A d \in Conns : rbuf'[d].from \in {Nobody, d} /\ rbuf'[d].seq <= got'[d]
    BY <1>1, <1>2, <1>3 DEF TextInv, NoMsg
  <1>5. ASSUME NEW m, Fetched(m), NEW d \in Conns, m.from = d, rpc'[d] # "done"
        PROVE  m.seq <= rbuf'[d].seq
    BY <1>1, <1>2, <1>5 DEF Fetched
  <1>6. \A i \in 1 .. Len(Socket_Queue) : Fetched(Socket_Queue[i].msg)'
    BY <1>1, <1>3, <1>5 DEF TextInv, Fetched
  <1>7. \A s \in 1 .. 3 : Fetched(shown[s])'
    BY <1>1, <1>3, <1>5 DEF TextInv, Fetched
  <1>. QED
    BY <1>1, <1>3, <1>4, <1>6, <1>7 DEF TextInv, NotNewer

(* The item at the head of the queue becomes a text.                       *)
LEMMA Receives ==
  ASSUME TypeOK, QueueReceive
  PROVE  /\ 1 \in 1 .. Len(Socket_Queue)
         /\ Len(Socket_Queue') = Len(Socket_Queue) - 1
         /\ \A i \in 1 .. Len(Socket_Queue') :
              i + 1 \in 1 .. Len(Socket_Queue) /\ Socket_Queue'[i] = Socket_Queue[i + 1]
         /\ \A s \in 1 .. 3 : shown'[s] \in {shown[s], Socket_Queue[1].msg}
  <1> DEFINE Item == [id : {NoSock} \cup Slot, msg : Msg]
  <1>1. Socket_Queue \in Seq(Item) /\ Socket_Queue # <<>> /\ shown \in [1 .. 3 -> Msg]
    BY DEF QueueReceive, TypeOK, QueueTypes
  <1>2. /\ Socket_Queue' = Tail(Socket_Queue)
        /\ shown' = IF Head(Socket_Queue).id \in 1 .. 3
                      THEN [shown EXCEPT ![Head(Socket_Queue).id] = Head(Socket_Queue).msg]
                      ELSE shown
    BY DEF QueueReceive
  <1> HIDE DEF Item
  <1>3. /\ Head(Socket_Queue) = Socket_Queue[1] /\ Len(Socket_Queue) \in Nat
        /\ Len(Socket_Queue) # 0
        /\ Len(Tail(Socket_Queue)) = Len(Socket_Queue) - 1
        /\ \A i \in 1 .. Len(Socket_Queue) - 1 : Tail(Socket_Queue)[i] = Socket_Queue[i + 1]
    BY <1>1
  <1>4. \A s \in 1 .. 3 : shown'[s] \in {shown[s], Head(Socket_Queue).msg}
    BY <1>1, <1>2
  <1>. QED
    BY <1>2, <1>3, <1>4

(* The oldest message of the queue becomes the text.                       *)
LEMMA TextReceive ==
  ASSUME TypeOK, TextInv, QueueReceive, Misbound => Misbound'
  PROVE  TextInv'
  <1>1. UNCHANGED <<rpc, rbuf, got>>
    BY DEF QueueReceive, readers, lwip
  <1>2. SUFFICES ASSUME ~Misbound, ~Misbound' PROVE TextInv'
    BY DEF TextInv
  <1>3. \A i, j \in 1 .. Len(Socket_Queue) :
          i <= j => NotNewer(Socket_Queue[i].msg, Socket_Queue[j].msg)
    BY <1>2 DEF TextInv
  <1>4. \A s \in 1 .. 3 : \A i \in 1 .. Len(Socket_Queue) : NotNewer(shown[s], Socket_Queue[i].msg)
    BY <1>2 DEF TextInv
  <1>5. \A i, j \in 1 .. Len(Socket_Queue') :
          i <= j => NotNewer(Socket_Queue'[i].msg, Socket_Queue'[j].msg)
    BY <1>3, Receives
  <1>6. \A s \in 1 .. 3 : \A i \in 1 .. Len(Socket_Queue') :
          NotNewer(shown'[s], Socket_Queue'[i].msg)
    BY <1>3, <1>4, Receives
  <1>7. \A m : Fetched(m) <=> \A d \in Conns : m.from = d /\ rpc'[d] # "done" => m.seq <= rbuf'[d].seq
    BY <1>1 DEF Fetched
  <1>8. \A i \in 1 .. Len(Socket_Queue') : Fetched(Socket_Queue'[i].msg)
    BY <1>2, Receives DEF TextInv
  <1>9. \A s \in 1 .. 3 : Fetched(shown'[s])
    BY <1>2, Receives DEF TextInv
  <1>10. \A d \in Conns : rbuf'[d].from \in {Nobody, d} /\ rbuf'[d].seq <= got'[d]
    BY <1>1, <1>2 DEF TextInv
  <1>. QED
    BY <1>1, <1>5, <1>6, <1>8, <1>9, <1>10 DEF TextInv, NotNewer, Fetched

(* Every step preserves TextInv.                                           *)
LEMMA TextNext ==
  TypeOK /\ MailboxInv /\ OwnInv /\ TextInv /\ [Next]_vars => TextInv'
  <1> SUFFICES ASSUME TypeOK, MailboxInv, OwnInv, TextInv, [Next]_vars PROVE TextInv'
    OBVIOUS
  <1> USE DEF gui, server, mutex, readers, queue, lwip
  <1>a. Misbound => Misbound'
    BY MisboundNext
  <1>b. /\ rpc \in [Conns -> {"none", "start", "dangling", "read", "send", "close", "free", "stuck", "done"}]
        /\ caller # Nobody => rpc[caller] = "none"
        /\ caller \in {Nobody} \cup Conns /\ Nobody \notin Conns
    BY ConnsAssumption DEF TypeOK, TaskTypes, ReaderTypes, MailboxInv
  <1>1. ASSUME NEW c \in Conns, ReaderRead(c) \/ ReaderSend(c) PROVE TextInv'
    BY <1>1, <1>a, TextRead, TextSend
  <1>11. ASSUME NEW c \in Conns, ReaderClose(c) PROVE TextInv'
    <2>1. /\ UNCHANGED <<got, Socket_Queue, shown>>
          /\ rbuf' # rbuf => rpc'[c] = "done"
          /\ rbuf' \in {rbuf, [rbuf EXCEPT ![c] = NoMsg]}
      BY <1>11, CloseFacts
    <2>2. \A d \in Conns : rpc[d] = "done" => rpc'[d] = "done"
      BY <1>11, <1>b DEF ReaderClose, CloseNothing, FreeTwice, NetconnDelete
    <2>. QED
      BY <2>1, <2>2, <1>a, TextFrame, TextClose
  <1>12. ASSUME NEW c \in Conns, ReaderFree(c) PROVE TextInv'
    BY <1>12, <1>a, <1>b, TextClose DEF ReaderFree
  <1>2. CASE QueueReceive
    BY <1>2, <1>a, TextReceive
  <1>3. CASE QueueInvalidate \/ QueueUnlock \/ IpArrives
    BY <1>3, <1>a, TextFrame DEF QueueInvalidate, QueueUnlock, IpArrives
  <1>4. ASSUME NEW c \in Conns, ReaderStart(c) \/ ReaderSendTimeout(c) PROVE TextInv'
    BY <1>4, <1>a, <1>b, TextFrame DEF ReaderStart, ReaderSendTimeout
  <1>5. CASE DeleteServer
    BY <1>5, <1>a, TextFrame DEF DeleteServer
  <1>6. CASE GuiStep /\ ~DeleteServer
    BY <1>6, <1>a, TextFrame
    DEF GuiStep, GuiLock, GuiUnlock, OpenSocketServer, CreateQueueRead, CloseServerSocket,
        DeleteQueueRead, WeatherSocket, WeatherClose, WeatherFree
  <1>7. CASE ServerServe
    <2>1. \A d \in Conns : rpc[d] = "done" => rpc'[d] = "done"
      BY <1>7, <1>b DEF ServerServe
    <2>. QED
      BY <1>7, <2>1, <1>a, TextFrame DEF ServerServe
  <1>8. CASE ServerStep /\ ~ServerServe
    BY <1>8, <1>a, TextFrame
    DEF ServerStep, ServerSocket, ServerPeek, ServerBind, ServerAccept, ServerAcceptClosed,
        ServerButton, ServerDraw
  <1>9. ASSUME NEW c \in Conns, Connect(c) \/ ClientSend(c) \/ ClientEnds(c) PROVE TextInv'
    BY <1>9, <1>a, TextFrame DEF Connect, ClientSend, ClientEnds
  <1>10. CASE UNCHANGED vars
    BY <1>10, <1>a, TextFrame DEF vars
  <1>. QED
    BY <1>1, <1>2, <1>3, <1>4, <1>5, <1>6, <1>7, <1>8, <1>9, <1>10, <1>11, <1>12
    DEF Next, QueueStep, Network, ReaderStep

(* What ShownInOrder says of a step.                                       *)
LEMMA TextStep ==
  ASSUME TypeOK, TextInv, [Next]_vars
  PROVE  \A s \in 1 .. 3 :
           ~Misbound /\ shown[s].from = shown'[s].from => shown'[s].seq >= shown[s].seq
  <1> USE DEF gui, server, mutex, readers, queue, lwip
  <1>a. \A s \in 1 .. 3 : shown[s].seq \in Nat
    BY MsgTypes, MsgFacts
  <1>1. CASE QueueReceive
    <2>1. SUFFICES ASSUME NEW s \in 1 .. 3, ~Misbound, shown[s].from = shown'[s].from
                   PROVE  shown'[s].seq >= shown[s].seq
      OBVIOUS
    <2>2. 1 \in 1 .. Len(Socket_Queue) /\ shown'[s] \in {shown[s], Socket_Queue[1].msg}
      BY <1>1, Receives
    <2>3. Socket_Queue[1].msg.seq \in Nat
      BY <2>2, MsgTypes, MsgFacts
    <2>4. NotNewer(shown[s], Socket_Queue[1].msg)
      BY <2>1, <2>2 DEF TextInv
    <2>. QED
      BY <2>1, <2>2, <2>3, <2>4, <1>a DEF NotNewer
  <1>2. CASE ~QueueReceive
    <2>1. ASSUME GuiStep PROVE shown' = shown
      BY <2>1 DEF GuiStep, GuiLock, GuiUnlock, OpenSocketServer, CreateQueueRead,
                  CloseServerSocket, DeleteServer, DeleteQueueRead, WeatherSocket, WeatherClose, WeatherFree
    <2>2. ASSUME ServerStep PROVE shown' = shown
      BY <2>2 DEF ServerStep, ServerSocket, ServerPeek, ServerBind, ServerAccept,
                  ServerAcceptClosed, ServerButton, ServerDraw, ServerServe
    <2>3. ASSUME QueueStep PROVE shown' = shown
      BY <1>2, <2>3 DEF QueueStep, QueueInvalidate, QueueUnlock
    <2>4. ASSUME Network PROVE shown' = shown
      BY <2>4 DEF Network, IpArrives, Connect, ClientSend, ClientEnds
    <2>5. ASSUME NEW c \in Conns, ReaderStep(c) \/ ReaderSendTimeout(c) PROVE shown' = shown
      BY <2>5 DEF ReaderStep, ReaderStart, ReaderRead, ReaderSend, ReaderClose, ReaderFree,
                  ReaderSendTimeout
    <2>6. shown' = shown
      BY <2>1, <2>2, <2>3, <2>4, <2>5 DEF Next, vars
    <2>. QED
      BY <2>6, <1>a
  <1>. QED
    BY <1>1, <1>2

(* As long as every reader found its own socket, the text of a client      *)
(* never goes back to an older message of the same connection, however     *)
(* many messages, timeouts and ends of connections there are.              *)
THEOREM TextsInOrder == Spec => ShownInOrder
  <1> DEFINE IInv == TypeOK /\ ListenInv /\ MailboxInv /\ HalfClosedInv /\ OwnInv /\ TextInv
  <1>1. Init => IInv
    BY TypeInit, ListenInit, MailboxInit, HalfClosedInit, OwnInit, TextInit
  <1>2. IInv /\ [Next]_vars => IInv'
    BY TypeNext, ListenNext, MailboxNext, HalfClosedNext, OwnNext, TextNext
  <1>3. IInv /\ [Next]_vars =>
          [\A s \in 1 .. 3 : ~Misbound /\ shown[s].from = shown'[s].from
                               => shown'[s].seq >= shown[s].seq]_vars
    BY TextStep
  <1> HIDE DEF IInv
  <1>. QED
    BY <1>1, <1>2, <1>3, PTL DEF Spec, ShownInOrder

-----------------------------------------------------------------------------
(* accept.                                                                 *)

(* OpenOnceInv and AbortInv at the start.                                  *)
LEMMA OpenOnceInit == Init => OpenOnceInv /\ AbortInv
  <1> SUFFICES ASSUME Init PROVE OpenOnceInv /\ AbortInv
    OBVIOUS
  <1>1. slot[3] = Free /\ Len(acceptmbox) = 0 /\ Pending = {}
    BY DEF Init, Slot, NUM_SOCKETS, Pending
  <1>2. OpenOnceInv
    BY <1>1 DEF Init, OpenOnceInv, Accepted
  <1>3. AbortInv
    BY <1>1 DEF AbortInv
  <1>. QED
    BY <1>2, <1>3

(* While connections wait for accept or the server is on its way to the    *)
(* next, no reader runs.                                                   *)
LEMMA ReadersWait ==
  ASSUME TypeOK, OpenOnceInv, ReaderMayRun
  PROVE  /\ spc = "accept" => acceptmbox = <<>>
         /\ ~Accepted
  <1>1. ~ServerReady /\ ~Boosted("gui") /\ ~Boosted("qread")
    BY DEF ReaderMayRun
  <1>2. spc = "button" => lock # "none"
    BY <1>1 DEF ServerReady
  <1>3. spc # "button"
    BY <1>1, <1>2 DEF OpenOnceInv, Boosted
  <1>. QED
    BY <1>1, <1>3 DEF ServerReady, Accepted

(* The accept of a server that is opened once returns a connection.        *)
LEMMA AcceptSucceeds ==
  ASSUME TypeOK, CountInv, OpenOnceInv, AbortInv, ServerAccept
  PROVE  AcceptReturns(Head(acceptmbox)) /\ Head(acceptmbox) \in Conns
  <1> DEFINE c == Head(acceptmbox)
  <1>1. c = acceptmbox[1] /\ 1 \in 1 .. Len(acceptmbox) /\ c \in Conns
    BY DEF ServerAccept, TypeOK, LwipTypes
  <1>2. slot[3] = Free /\ 3 \in Slot
    BY DEF ServerAccept, OpenOnceInv, Slot, NUM_SOCKETS
  <1>3. SUFFICES ASSUME AcceptFails(c) PROVE FALSE
    BY <1>1 DEF ServerAccept
  <1>4. FreeSlots # {} /\ peer[c] # "rst"
    BY <1>1, <1>2 DEF FreeSlots, OpenOnceInv
  <1>5. Aborted(c)
    BY <1>3, <1>4 DEF AcceptFails, Aborted
  <1>6. spc # "suspended"
    BY DEF ServerAccept
  <1>7. NetconnsUsed = NUM_SOCKETS /\ \A j \in 1 .. Len(acceptmbox) : Aborted(acceptmbox[j])
    <2>1. \A j \in 1 .. Len(acceptmbox) : 1 <= j
      OBVIOUS
    <2>. QED
      BY <1>1, <1>5, <1>6, <2>1 DEF AbortInv
  <1>8. Pending = {}
    BY <1>6, <1>7 DEF AbortInv, Aborted, Pending
  <1>9. InUse \subseteq Slot \ {3}
    BY <1>2 DEF InUse
  <1>10. Cardinality(InUse) <= Cardinality(Slot) - 1
    BY <1>2, <1>9, PoolFinite, CardinalitySteps
  <1>11. Cardinality(Pending) = 0
    BY <1>8, FS_EmptySet
  <1>. QED
    BY <1>7, <1>10, <1>11, PoolFinite DEF NetconnsUsed, NUM_SOCKETS

(* Every step preserves OpenOnceInv.                                       *)
LEMMA OpenOnceNext ==
  ASSUME OpenedOnce, TypeOK, LockHolderAlive, ListenInv, CountInv, OpenOnceInv, AbortInv,
         [Next]_vars
  PROVE  OpenOnceInv'
  <1> USE DEF gui, server, mutex, readers, queue, lwip, OpenOnceInv
  <1>a. /\ 0 \in Slot /\ 3 \in Slot /\ Free # Listen /\ Free \notin Conns
        /\ slot \in [Slot -> {Free, Listen, Web} \cup HalfClosed \cup Conns]
        /\ acceptmbox \in Seq(Conns)
        /\ rsock \in [Conns -> {NoSock} \cup Slot]
        /\ presses \in Nat /\ lock \in {"none", "gui", "server", "qread"}
    BY SlotValues, SizesAssumption
    DEF TypeOK, TaskTypes, ReaderTypes, LwipTypes, Slot, NUM_SOCKETS
  <1>b. ~opened => spc = "none"
    BY <1>a DEF ListenInv
  <1>1. CASE GuiLock \/ QueueInvalidate
    <2>1. ~ServerReady /\ lock = "none"
      BY <1>1 DEF GuiLock, QueueInvalidate, LowRuns
    <2>2. spc # "button"
      BY <2>1 DEF ServerReady
    <2>. QED
      BY <1>1, <2>2 DEF GuiLock, QueueInvalidate, Accepted
  <1>2. CASE GuiUnlock \/ QueueUnlock
    BY <1>2 DEF GuiUnlock, QueueUnlock, Accepted
  <1>3. CASE OpenSocketServer
    BY <1>3, <1>a, <1>b DEF OpenSocketServer, Accepted
  <1>4. CASE CreateQueueRead \/ DeleteQueueRead
    BY <1>4 DEF CreateQueueRead, DeleteQueueRead, Accepted
  <1>5. ~CloseServerSocket /\ ~DeleteServer /\ ~WeatherSocket /\ ~WeatherClose /\ ~WeatherFree
    BY <1>a, SizesAssumption
    DEF OpenedOnce, CloseServerSocket, DeleteServer, WeatherSocket, WeatherClose, WeatherFree
  <1>6. CASE ServerSocket
    <2>1. SocketAvailable /\ slot[0] = Free
      BY <1>6, SocketLeft DEF ServerSocket, ListenInv
    <2>2. spc' = "peek" /\ slot' = [slot EXCEPT ![0] = Listen]
      BY <1>6, <2>1, FirstFreeIsFree DEF ServerSocket, SocketAvailable
    <2>3. slot'[0] = Listen /\ slot'[3] = slot[3]
      BY <2>2, <1>a
    <2>. QED
      BY <1>6, <2>2, <2>3 DEF ServerSocket, Accepted
  <1>7. CASE ServerPeek \/ ServerBind
    BY <1>7 DEF ServerPeek, ServerBind, Accepted
  <1>8. CASE ServerAccept
    <2> DEFINE c == Head(acceptmbox)
    <2>1. AcceptReturns(c) /\ c \in Conns
      BY <1>8, AcceptSucceeds
    <2> HIDE DEF c
    <2>2. /\ FirstFree \in Slot /\ slot[FirstFree] = Free
          /\ sock_client' = FirstFree /\ slot' = [slot EXCEPT ![FirstFree] = c]
      BY <2>1, FirstFreeIsFree DEF AcceptReturns
    <2>3. slot[3] = Free /\ slot[0] = Listen
      BY <1>8 DEF ServerAccept
    <2>4. slot'[0] = Listen /\ (slot'[3] # Free => sock_client' = 3) /\ sock_client' # NoSock
      BY <2>2, <2>3, <1>a DEF NoSock, Slot, NUM_SOCKETS
    <2>5. lock # "server"
      BY <1>8 DEF ServerAccept, LockHolderAlive
    <2>. QED
      BY <1>8, <2>4, <2>5, <1>a DEF ServerAccept, Accepted
  <1>9. ~ServerAcceptClosed
    BY <1>a DEF ServerAcceptClosed, Listening
  <1>10. CASE ServerButton \/ ServerDraw
    BY <1>10 DEF ServerButton, ServerDraw, Accepted
  <1>11. CASE ServerServe
    BY <1>11 DEF ServerServe, Accepted
  <1>12. CASE QueueReceive \/ IpArrives
    BY <1>12 DEF QueueReceive, IpArrives, Accepted
  <1>13. ASSUME NEW c \in Conns, Connect(c) \/ ClientSend(c) PROVE OpenOnceInv'
    BY <1>13 DEF Connect, ClientSend, Accepted
  <1>14. ASSUME NEW c \in Conns, ClientEnds(c) PROVE OpenOnceInv'
    <2>1. peer' = [peer EXCEPT ![c] = "fin"]
      BY <1>14 DEF ClientEnds, OpenedOnce
    <2>2. \A d \in Conns : peer'[d] # "rst"
      BY <2>1 DEF TypeOK, LwipTypes
    <2>. QED
      BY <1>14, <2>2 DEF ClientEnds, Accepted
  <1>15. ASSUME NEW c \in Conns,
                ReaderStart(c) \/ ReaderRead(c) \/ ReaderSend(c) \/ ReaderSendTimeout(c)
         PROVE  OpenOnceInv'
    BY <1>15 DEF ReaderStart, ReaderRead, ReaderSend, ReaderSendTimeout, Accepted
  <1>16. ASSUME NEW c \in Conns, ReaderClose(c) PROVE OpenOnceInv'
    <2>1. /\ rsock[c] \in Slot /\ rsock[c] # 0 /\ ~Accepted
          /\ \/ slot' = slot
             \/ slot' = [slot EXCEPT ![rsock[c]] = Closing] /\ slot[rsock[c]] # Free
      BY <1>16, <1>a, CloseFacts, ReadersWait DEF ListenInv
    <2>2. slot'[0] = slot[0] /\ (slot[3] = Free => slot'[3] = Free)
      BY <2>1, <1>a
    <2>. QED
      BY <1>16, <2>1, <2>2 DEF ReaderClose, Accepted
  <1>18. ASSUME NEW c \in Conns, ReaderFree(c) PROVE OpenOnceInv'
    <2>1. rsock[c] \in Slot /\ rsock[c] # 0 /\ slot' = [slot EXCEPT ![rsock[c]] = Free]
      BY <1>18, <1>a DEF ReaderFree, ListenInv
    <2>2. slot'[0] = slot[0] /\ slot'[3] \in {slot[3], Free}
      BY <2>1, <1>a
    <2>. QED
      BY <1>18, <2>2 DEF ReaderFree, Accepted
  <1>17. CASE UNCHANGED vars
    BY <1>17 DEF vars, Accepted
  <1> HIDE DEF OpenOnceInv
  <1>. QED
    BY <1>1, <1>2, <1>3, <1>4, <1>5, <1>6, <1>7, <1>8, <1>9, <1>10, <1>11, <1>12, <1>13,
       <1>14, <1>15, <1>16, <1>17, <1>18
    DEF Next, GuiStep, ServerStep, QueueStep, Network, ReaderStep

(* Steps that leave the pool and the mailbox alone.                        *)
LEMMA AbortFrame ==
  ASSUME AbortInv, UNCHANGED <<slot, cstate, acceptmbox>>, spc = "suspended" => spc' = "suspended"
  PROVE  AbortInv'
  <1>1. NetconnsUsed' = NetconnsUsed /\ Pending' = Pending
    BY DEF NetconnsUsed, InUse, Pending
  <1>2. \A c : Aborted(c)' <=> Aborted(c)
    BY DEF Aborted
  <1>. QED
    BY <1>1, <1>2 DEF AbortInv, Aborted

(* Nobody waits for accept.                                                *)
LEMMA AbortEmpty ==
  ASSUME acceptmbox' = <<>>, Pending' = {}
  PROVE  AbortInv'
  <1>1. Len(acceptmbox') = 0
    OBVIOUS
  <1>. QED
    BY <1>1 DEF AbortInv

(* A connection moves from the mailbox to a slot.                          *)
LEMMA AbortAccept ==
  ASSUME TypeOK, AbortInv, ServerAccept,
         AcceptReturns(Head(acceptmbox)), Head(acceptmbox) \in Conns
  PROVE  AbortInv'
  <1> DEFINE c == Head(acceptmbox)
             n == Len(acceptmbox)
  <1>1. /\ c = acceptmbox[1] /\ n \in Nat /\ n # 0 /\ acceptmbox' = Tail(acceptmbox)
        /\ Len(acceptmbox') = n - 1
        /\ \A i \in 1 .. n - 1 : acceptmbox'[i] = acceptmbox[i + 1]
    BY DEF ServerAccept, TypeOK, LwipTypes
  <1>2. spc # "suspended"
    BY DEF ServerAccept
  <1>3. /\ c \in Pending /\ Pending' = Pending \ {c}
        /\ \A d \in Conns : d # c => cstate'[d] = cstate[d]
        /\ cstate[c] = "pending" /\ cstate'[c] = "open"
    BY DEF AcceptReturns, Pending, TypeOK, LwipTypes
  <1>4. NetconnsUsed' = NetconnsUsed
    <2>1. FirstFree \notin InUse /\ InUse' = InUse \cup {FirstFree}
      <3>1. FirstFree \in Slot /\ slot[FirstFree] = Free /\ slot' = [slot EXCEPT ![FirstFree] = c]
        BY FirstFreeIsFree DEF AcceptReturns
      <3>2. c \notin {Free} \cup HalfClosed
            /\ slot \in [Slot -> {Free, Listen, Web} \cup HalfClosed \cup Conns]
        BY SlotValues DEF TypeOK, LwipTypes
      <3> HIDE DEF c
      <3>. QED
        BY <3>1, <3>2 DEF InUse
    <2>2. Cardinality(InUse') = Cardinality(InUse) + 1
      BY <2>1, PoolFinite, FS_AddElement
    <2>3. Cardinality(Pending') = Cardinality(Pending) - 1
      BY <1>3, PoolFinite, FS_RemoveElement
    <2>. QED
      BY <2>2, <2>3, PoolFinite DEF NetconnsUsed
  <1>5. /\ \A i \in 1 .. n : Aborted(acceptmbox[i]) => NetconnsUsed = NUM_SOCKETS
        /\ \A i, j \in 1 .. n : i <= j /\ Aborted(acceptmbox[i]) => Aborted(acceptmbox[j])
        /\ \A d \in Pending : \E i \in 1 .. n : acceptmbox[i] = d
        /\ \A i \in 1 .. n : acceptmbox[i] \in Conns
    BY <1>2 DEF AbortInv, TypeOK, LwipTypes
  <1> HIDE DEF c, n
  <1>6. \A d \in Conns : cstate'[d] = "aborted" <=> Aborted(d)
    BY <1>3 DEF Aborted
  <1>7. \A i \in 1 .. n - 1 : i + 1 \in 1 .. n /\ acceptmbox'[i] = acceptmbox[i + 1]
    BY <1>1
  <1>8. ASSUME NEW i \in 1 .. n - 1, cstate'[acceptmbox'[i]] = "aborted"
        PROVE  /\ NetconnsUsed' = NUM_SOCKETS
               /\ \A j \in 1 .. n - 1 : i <= j => cstate'[acceptmbox'[j]] = "aborted"
    <2>1. Aborted(acceptmbox[i + 1])
      BY <1>5, <1>6, <1>7, <1>8
    <2>2. ASSUME NEW j \in 1 .. n - 1, i <= j PROVE cstate'[acceptmbox'[j]] = "aborted"
      <3>1. i + 1 <= j + 1
        BY <1>1, <2>2
      <3>2. Aborted(acceptmbox[j + 1])
        BY <1>5, <1>7, <2>1, <3>1
      <3>. QED
        BY <1>5, <1>6, <1>7, <3>2
    <2>. QED
      BY <1>4, <1>5, <1>7, <2>1, <2>2
  <1>9. ASSUME NEW d \in Pending' PROVE \E i \in 1 .. n - 1 : acceptmbox'[i] = d
    <2>1. PICK i \in 1 .. n : acceptmbox[i] = d
      BY <1>3, <1>5, <1>9
    <2>2. i # 1
      BY <1>1, <1>3, <1>9, <2>1
    <2>3. i - 1 \in 1 .. n - 1 /\ acceptmbox'[i - 1] = d
      BY <1>1, <2>1, <2>2
    <2>. QED
      BY <2>3
  <1>. QED
    BY <1>1, <1>8, <1>9 DEF AbortInv, Aborted

(* An attempt takes the last place in the mailbox.                         *)
LEMMA AbortConnect ==
  ASSUME TypeOK, CountInv, MailboxInv, AbortInv, NEW c \in Conns, Connect(c)
  PROVE  AbortInv'
  <1> DEFINE n == Len(acceptmbox)
  <1>1. SUFFICES ASSUME spc # "suspended" PROVE AbortInv'
    BY DEF Connect, server, AbortInv
  <1>2. /\ n \in Nat /\ Len(acceptmbox') = n + 1 /\ acceptmbox'[n + 1] = c
        /\ \A i \in 1 .. n : acceptmbox'[i] = acceptmbox[i]
    BY DEF Connect, TypeOK, LwipTypes
  <1>3. /\ cstate[c] = "new" /\ slot' = slot
        /\ cstate' = [cstate EXCEPT ![c] = IF NetconnsUsed < NUM_SOCKETS THEN "pending" ELSE "aborted"]
        /\ cstate \in [Conns -> {"new", "pending", "aborted", "open", "gone"}]
    BY DEF Connect, TypeOK, LwipTypes
  <1>4. /\ \A i \in 1 .. n : Aborted(acceptmbox[i]) => NetconnsUsed = NUM_SOCKETS
        /\ \A i, j \in 1 .. n : i <= j /\ Aborted(acceptmbox[i]) => Aborted(acceptmbox[j])
        /\ \A d \in Pending : \E i \in 1 .. n : acceptmbox[i] = d
        /\ \A i \in 1 .. n : acceptmbox[i] \in Conns /\ acceptmbox[i] # c
    BY <1>1, <1>3 DEF AbortInv, MailboxInv, TypeOK, LwipTypes
  <1> HIDE DEF n
  <1>5. \A i \in 1 .. n + 1 : i \in 1 .. n \/ i = n + 1
    BY <1>2
  <1>6. \A i \in 1 .. n : cstate'[acceptmbox'[i]] = "aborted" <=> Aborted(acceptmbox[i])
    BY <1>2, <1>3, <1>4 DEF Aborted
  <1>7. ASSUME NEW d \in Pending' PROVE \E i \in 1 .. n + 1 : acceptmbox'[i] = d
    <2>1. CASE d = c
      <3>1. n + 1 \in 1 .. n + 1
        BY <1>2
      <3>. QED
        BY <1>2, <2>1, <3>1
    <2>2. CASE d # c
      <3>1. d \in Pending
        BY <1>3, <1>7, <2>2 DEF Pending
      <3>2. PICK i \in 1 .. n : acceptmbox[i] = d
        BY <1>4, <3>1
      <3>3. i \in 1 .. n + 1 /\ acceptmbox'[i] = d
        BY <1>2, <3>2
      <3>. QED
        BY <3>3
    <2>. QED
      BY <2>1, <2>2
  <1>8. CASE NetconnsUsed < NUM_SOCKETS
    <2>1. NetconnsUsed # NUM_SOCKETS
      BY <1>8, PoolFinite DEF NetconnsUsed, NUM_SOCKETS
    <2>2. cstate'[c] = "pending"
      BY <1>3, <1>8
    <2>3. \A i \in 1 .. n + 1 : cstate'[acceptmbox'[i]] # "aborted"
      BY <1>2, <1>4, <1>5, <1>6, <2>1, <2>2
    <2>. QED
      BY <1>2, <1>7, <2>3 DEF AbortInv, Aborted
  <1>9. CASE ~(NetconnsUsed < NUM_SOCKETS)
    <2>1. NetconnsUsed = NUM_SOCKETS
      BY <1>9, PoolFinite DEF CountInv, NetconnsUsed, NUM_SOCKETS
    <2>2. InUse' = InUse /\ Pending' = Pending
      BY <1>3, <1>9 DEF InUse, Pending
    <2>3. NetconnsUsed' = NUM_SOCKETS
      BY <2>1, <2>2 DEF NetconnsUsed, NUM_SOCKETS
    <2>4. cstate'[acceptmbox'[n + 1]] = "aborted"
      BY <1>2, <1>3, <1>9
    <2>5. ASSUME NEW i \in 1 .. n + 1, NEW j \in 1 .. n + 1, i <= j,
                 cstate'[acceptmbox'[i]] = "aborted"
          PROVE  cstate'[acceptmbox'[j]] = "aborted"
      <3>1. CASE j = n + 1
        BY <2>4, <3>1
      <3>2. CASE j \in 1 .. n
        <4>1. i \in 1 .. n
          BY <1>2, <2>5, <3>2
        <4>. QED
          BY <1>4, <1>6, <2>5, <3>2, <4>1
      <3>. QED
        BY <1>5, <3>1, <3>2
    <2>. QED
      BY <1>2, <1>7, <2>3, <2>5 DEF AbortInv, Aborted
  <1>. QED
    BY <1>8, <1>9

(* Every step preserves AbortInv: no netconn is given back while attempts  *)
(* wait, for no reader runs.                                               *)
LEMMA AbortNext ==
  ASSUME OpenedOnce, TypeOK, ListenInv, CountInv, MailboxInv, OpenOnceInv, AbortInv,
         [Next]_vars
  PROVE  AbortInv'
  <1> USE DEF gui, server, mutex, readers, queue, lwip
  <1>1. CASE ServerAccept
    BY <1>1, AcceptSucceeds, AbortAccept
  <1>2. ASSUME NEW c \in Conns, Connect(c) PROVE AbortInv'
    BY <1>2, AbortConnect
  <1>3. ASSUME NEW c \in Conns, ReaderClose(c) \/ ReaderFree(c) PROVE AbortInv'
    <2>1. /\ ReaderMayRun /\ spc' = spc /\ acceptmbox' = acceptmbox
          /\ Pending' \subseteq Pending
      <3>1. CASE ReaderClose(c)
        BY <3>1, CloseFacts DEF Pending
      <3>2. CASE ReaderFree(c)
        BY <3>2 DEF ReaderFree, ReaderRuns, Pending
      <3>. QED
        BY <1>3, <3>1, <3>2
    <2>2. CASE spc = "suspended"
      BY <2>1, <2>2 DEF AbortInv
    <2>3. CASE spc # "suspended"
      <3>1. acceptmbox = <<>>
        BY <2>1, <2>3, ReadersWait DEF OpenOnceInv, TypeOK, TaskTypes, Accepted
      <3>2. Pending = {}
        <4>1. Len(acceptmbox) = 0
          BY <3>1
        <4>. QED
          BY <2>3, <4>1 DEF AbortInv
      <3>. QED
        BY <2>1, <3>1, <3>2, AbortEmpty
    <2>. QED
      BY <2>2, <2>3
  <1>4. CASE ServerSocket
    <2>1. acceptmbox = <<>> /\ Pending = {} /\ acceptmbox' = acceptmbox /\ cstate' = cstate
      <3>1. slot[0] = Free /\ Free # Listen
        BY <1>4, SlotValues DEF ServerSocket, ListenInv
      <3>. QED
        BY <1>4, <3>1 DEF ServerSocket, ListenInv
    <2>2. Pending' = {}
      BY <2>1 DEF Pending
    <2>. QED
      BY <2>1, <2>2, AbortEmpty
  <1>5. CASE GuiLock \/ GuiUnlock \/ OpenSocketServer \/ CreateQueueRead \/ DeleteQueueRead
    <2>1. spc = "suspended" => spc' = "suspended"
      <3>1. ~opened => spc # "suspended"
        BY DEF OpenOnceInv, ListenInv
      <3>. QED
        BY <1>5, <3>1
        DEF GuiLock, GuiUnlock, OpenSocketServer, CreateQueueRead, DeleteQueueRead
    <2>. QED
      BY <1>5, <2>1, AbortFrame
      DEF GuiLock, GuiUnlock, OpenSocketServer, CreateQueueRead, DeleteQueueRead
  <1>6. ~CloseServerSocket /\ ~DeleteServer /\ ~WeatherSocket /\ ~WeatherClose /\ ~WeatherFree
    <2>1. presses \in Nat /\ MaxPress \in Nat
      BY SizesAssumption DEF TypeOK, TaskTypes
    <2>. QED
      BY <2>1
      DEF OpenedOnce, OpenOnceInv, CloseServerSocket, DeleteServer, WeatherSocket, WeatherClose, WeatherFree
  <1>7. CASE ServerPeek \/ ServerBind \/ ServerButton \/ ServerDraw \/ ServerServe
    BY <1>7, AbortFrame DEF ServerPeek, ServerBind, ServerButton, ServerDraw, ServerServe
  <1>8. CASE ServerAcceptClosed
    BY <1>8, AbortFrame DEF ServerAcceptClosed
  <1>9. CASE QueueStep \/ IpArrives
    BY <1>9, AbortFrame DEF QueueStep, QueueReceive, QueueInvalidate, QueueUnlock, IpArrives
  <1>10. ASSUME NEW c \in Conns, ClientSend(c) \/ ClientEnds(c) PROVE AbortInv'
    BY <1>10, AbortFrame DEF ClientSend, ClientEnds
  <1>11. ASSUME NEW c \in Conns,
                ReaderStart(c) \/ ReaderRead(c) \/ ReaderSend(c) \/ ReaderSendTimeout(c)
         PROVE  AbortInv'
    BY <1>11, AbortFrame DEF ReaderStart, ReaderRead, ReaderSend, ReaderSendTimeout
  <1>12. CASE UNCHANGED vars
    BY <1>12, AbortFrame DEF vars
  <1>. QED
    BY <1>1, <1>2, <1>3, <1>4, <1>5, <1>6, <1>7, <1>8, <1>9, <1>10, <1>11, <1>12
    DEF Next, GuiStep, ServerStep, Network, ReaderStep

(* While the page is opened once, and neither the weather page nor a reset *)
(* gets in the way, accept never fails, for any number of attempts: the    *)
(* server stops at socket 3 before it comes to an attempt without netconn. *)
THEOREM AcceptSafe == OpenedOnce => (Spec => []AcceptNeverFails)
  <1> DEFINE IInv == /\ TypeOK /\ LockHolderAlive /\ ListenInv /\ CountInv
                     /\ MailboxInv /\ HalfClosedInv /\ OpenOnceInv /\ AbortInv
  <1> SUFFICES ASSUME OpenedOnce PROVE Spec => []AcceptNeverFails
    OBVIOUS
  <1>1. Init => IInv
    BY TypeInit, LockInit, ListenInit, CountInit, MailboxInit, HalfClosedInit, OpenOnceInit
  <1>2. IInv /\ [Next]_vars => IInv'
    BY TypeNext, LockNext, ListenNext, CountNext, MailboxNext, HalfClosedNext, OpenOnceNext,
       AbortNext
  <1>3. IInv => AcceptNeverFails
    BY DEF OpenOnceInv, Accepted, AcceptNeverFails
  <1> HIDE DEF IInv
  <1>. QED
    BY <1>1, <1>2, <1>3, PTL DEF Spec

=============================================================================
