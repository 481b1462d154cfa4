---------------------------- MODULE SocketServer ----------------------------
(* The message server of the socket page: source/usr_socket.c with the     *)
(* GUI side of it in emwin/emWin_MainTask/SocketActivity.c.                *)
(*                                                                         *)
(* A press of the page's button makes the GUI task create a server task    *)
(* and a queue-reading task, the next press deletes both.  The server      *)
(* accepts connections and creates one reader task for each; the readers   *)
(* put what they receive into Socket_Queue, and the queue task copies it   *)
(* to the text of the client.  Three further parties matter: lwIP, with    *)
(* four netconns and four socket slots for everybody; the GUI lock, which  *)
(* the GUI task holds while it runs a callback; and the scheduler, which   *)
(* runs the ready task of the highest priority.                            *)
EXTENDS Integers, Sequences, FiniteSets

CONSTANTS
    Conns,                \* connection attempts of remote clients
    MaxMsgs,              \* bound on the messages a client sends
    MaxSent,              \* bound on the messages all clients send
    MaxPress,             \* bound on the presses of the page's button
    SOCKETQUEUE_LENTH,    \* length of Socket_Queue (10 in AppTask.c)
    Disturbances          \* which of "weather" and "reset" the run allows

ASSUME SizesAssumption ==
    /\ MaxMsgs \in Nat /\ MaxSent \in Nat /\ MaxPress \in Nat
    /\ SOCKETQUEUE_LENTH \in Nat \ {0}
ASSUME DisturbancesAssumption == Disturbances \subseteq {"weather", "reset"}

NUM_SOCKETS == 4          \* MEMP_NUM_NETCONN: netconns, and socket slots
Slot == 0 .. NUM_SOCKETS - 1
NoSock == -1              \* what a failing lwIP call returns

(* Uses of a slot besides the connections; lwip_close gives the netconn    *)
(* back first (sockets.c:632) and the slot after it (:638), in between the *)
(* slot, of a connection or of the weather page, is half closed.           *)
Free == "free"
Listen == "listen"
Web == "web"
Closing == "closing"
WebClosing == "web_closing"
HalfClosed == {Closing, WebClosing}
Nobody == "nobody"
ASSUME ConnsAssumption ==
    /\ IsFiniteSet(Conns)
    /\ ({Free, Listen, Web, Nobody} \cup HalfClosed) \cap Conns = {}

NoMsg == [from |-> Nobody, seq |-> 0]
Msg == {NoMsg} \cup [from : Conns, seq : 1 .. MaxMsgs]

VARIABLES
    (* the GUI task *)
    gpc,                  \* where it is
    lock, boosted,        \* holder of the GUI mutex, has it inherited
                          \* the priority of the server that waits for it
    opened,               \* SocketButtonColor: FALSE is white, TRUE green
    presses,              \* presses of the button so far
    (* the server task *)
    spc,                  \* where it is, "none" when it does not exist
    sock_client,          \* its local variable, read by the new readers
    caller,               \* the attempt its last accept returned for
    (* the readers, one per accept that returned *)
    rpc, rsock, rbuf,     \* where each is, its socket, its message buffer
    given,                \* the socket accept returned for it
    (* the queue task *)
    qpc,                  \* where it is
    Socket_Queue,
    shown,                \* SocketString_1 .. _3
    lowRan,               \* a low task ran since a reader last did
    (* lwIP and the remote clients *)
    ipReady,              \* IP_Queue holds the address
    slot,                 \* sockets[]: what each slot is used for
    acceptmbox,           \* connections waiting for accept
    port,                 \* the listening port: "none", "5000" or "other"
    cstate, peer,         \* our and the remote side of each connection
    sent, got             \* messages the client sent, messages fetched

gui == <<gpc, opened, presses>>
server == <<spc, sock_client, caller>>
mutex == <<lock, boosted>>
readers == <<rpc, rsock, rbuf, given>>
queue == <<Socket_Queue, shown, qpc>>
lwip == <<ipReady, slot, acceptmbox, port, cstate, peer, sent, got>>
vars == <<gui, mutex, server, readers, queue, lowRan, lwip>>

Init ==
    /\ gpc = "idle" /\ lock = "none" /\ boosted = FALSE
    /\ opened = FALSE /\ presses = 0
    /\ spc = "none" /\ sock_client = NoSock /\ caller = Nobody
    /\ rpc = [c \in Conns |-> "none"]
    /\ rsock = [c \in Conns |-> NoSock]
    /\ rbuf = [c \in Conns |-> NoMsg]
    /\ given = [c \in Conns |-> NoSock]
    /\ qpc = "none"
    /\ Socket_Queue = <<>>
    /\ shown = [s \in 1 .. 3 |-> NoMsg]
    /\ lowRan = FALSE
    /\ ipReady = FALSE
    /\ slot = [s \in Slot |-> Free]
    /\ acceptmbox = <<>> /\ port = "none"
    /\ cstate = [c \in Conns |-> "new"]
    /\ peer = [c \in Conns |-> "up"]
    /\ sent = [c \in Conns |-> 0] /\ got = [c \in Conns |-> 0]

-----------------------------------------------------------------------------
(* lwIP: the netconn pool and the socket slots.                            *)

(* The slots that have a netconn.                                          *)
InUse == {s \in Slot : slot[s] \notin {Free} \cup HalfClosed}
Pending == {c \in Conns : cstate[c] = "pending"}
NetconnsUsed == Cardinality(InUse) + Cardinality(Pending)

Listening == \E s \in Slot : slot[s] = Listen

FreeSlots == {s \in Slot : slot[s] = Free}

(* socket() needs a netconn and a slot.                                    *)
SocketAvailable == NetconnsUsed < NUM_SOCKETS /\ FreeSlots # {}

(* alloc_socket: the first free slot.                                      *)
FirstFree == CHOOSE s \in FreeSlots : \A t \in FreeSlots : s <= t

(* read on socket s: -1 at once for a slot without a connection or for a   *)
(* connection that was reset, else a message, the end of the stream, or    *)
(* the task blocks.                                                        *)
At(s) == IF s \in Slot THEN slot[s] ELSE Free

ReadFails(s) == At(s) \in Conns => peer[At(s)] = "rst"

ReadBlocks(s) ==
    /\ ~ReadFails(s)
    /\ got[slot[s]] = sent[slot[s]]
    /\ peer[slot[s]] = "up"

-----------------------------------------------------------------------------
(* The scheduler.  Server, readers and the two low tasks have priorities   *)
(* 3, 2 and 1; the holder of the GUI mutex inherits the server's priority  *)
(* while the server waits for it.                                          *)

ServerReady ==
    \/ spc \in {"socket", "bind", "draw", "serve"}
    \/ spc = "peek" /\ ipReady
    \/ spc = "accept" /\ (acceptmbox # <<>> \/ ~Listening)
    \/ spc = "button" /\ lock = "none"

(* Fault: a reader polls a full queue instead of blocking.                 *)
ReaderReady_Polls(c) ==
    \/ rpc[c] \in {"start", "dangling", "close", "free", "send"}
    \/ rpc[c] = "read" /\ ~ReadBlocks(rsock[c])

ReaderReady(c) ==
    \/ rpc[c] \in {"start", "dangling", "close", "free"}
    \/ rpc[c] = "read" /\ ~ReadBlocks(rsock[c])
    \/ rpc[c] = "send" /\ Len(Socket_Queue) < SOCKETQUEUE_LENTH

Boosted(t) == boosted /\ lock = t /\ gpc # "web"

ReaderMayRun == ~ServerReady /\ ~\E t \in {"gui", "qread"} : Boosted(t)

ReaderRuns == ReaderMayRun /\ lowRan' = FALSE

(* The step of a low task.                                                 *)
LowRuns(t) ==
    /\ ~ServerReady
    /\ (boosted /\ lock = t) \/ (ReaderMayRun /\ \A c \in Conns : ~ReaderReady(c))
    /\ lowRan' = TRUE

LowReady ==
    \/ gpc # "web" /\ (gpc = "idle" => lock = "none")
    \/ qpc = "receive" /\ Socket_Queue # <<>>
    \/ qpc \in {"client1", "invalidate"} /\ lock = "none"
    \/ qpc \in {"again", "unlock"}

-----------------------------------------------------------------------------
(* The GUI task.  emWin runs a callback with the GUI lock held.            *)

GuiLock ==
    /\ gpc = "idle" /\ lock = "none" /\ LowRuns("gui")
    /\ gpc' = "callback" /\ lock' = "gui"
    /\ UNCHANGED <<boosted, opened, presses, server, readers, queue, lwip>>

GuiUnlock ==
    /\ gpc \in {"callback", "unlock"} /\ LowRuns("gui")
    /\ gpc' = "idle" /\ lock' = "none" /\ boosted' = FALSE
    /\ UNCHANGED <<opened, presses, server, readers, queue, lwip>>

(* A press of the white button: OpenSocketServer creates the server task.  *)
OpenSocketServer ==
    /\ gpc = "callback" /\ ~opened /\ presses < MaxPress /\ LowRuns("gui")
    /\ opened' = TRUE /\ presses' = presses + 1
    /\ spc' = "socket" /\ sock_client' = NoSock /\ caller' = Nobody
    /\ gpc' = "open_queue"
    /\ UNCHANGED <<mutex, readers, queue, lwip>>

(* CreateActivitySocket_QueueRead creates the queue task.                  *)
CreateQueueRead ==
    /\ gpc = "open_queue" /\ LowRuns("gui")
    /\ qpc' = "receive"
    /\ gpc' = "unlock"
    /\ UNCHANGED <<mutex, opened, presses, server, readers, Socket_Queue, shown, lwip>>

(* Fault: the button is handled outside a callback, without the GUI lock.  *)
CloseServerSocket_Unlocked ==
    /\ gpc = "callback" /\ opened /\ presses < MaxPress /\ LowRuns("gui")
    /\ opened' = FALSE /\ presses' = presses + 1
    /\ slot' = [s \in Slot |-> IF slot[s] = Listen THEN Free ELSE slot[s]]
    /\ cstate' = [c \in Conns |-> IF cstate[c] = "pending" THEN "gone" ELSE cstate[c]]
    /\ acceptmbox' = <<>> /\ port' = "none"
    /\ spc' = IF spc = "accept" /\ Listening THEN "stranded" ELSE spc
    /\ gpc' = "delete_server"
    /\ lock' = "none"
    /\ UNCHANGED <<boosted, sock_client, caller, readers, queue, ipReady, peer, sent, got>>

(* Fault: the server's socket is not closed.                               *)
CloseServerSocket_Leak ==
    /\ gpc = "callback" /\ opened /\ presses < MaxPress /\ LowRuns("gui")
    /\ opened' = FALSE /\ presses' = presses + 1
    /\ cstate' = [c \in Conns |-> IF cstate[c] = "pending" THEN "gone" ELSE cstate[c]]
    /\ acceptmbox' = <<>> /\ port' = "none"
    /\ spc' = IF spc = "accept" /\ Listening THEN "stranded" ELSE spc
    /\ gpc' = "delete_server"
    /\ UNCHANGED <<mutex, sock_client, caller, readers, queue, ipReady, slot, peer, sent, got>>

(* A press of the green button: CloseSocketServer closes the server's      *)
(* socket, which aborts the connections that wait for accept, and frees    *)
(* the mailbox without waking the server that may wait in it.  Netconn and *)
(* slot are given back in one step: without a port no connection comes in  *)
(* between, and the server waits for something else or for ever ...        *)
CloseServerSocket ==
    /\ gpc = "callback" /\ opened /\ presses < MaxPress /\ LowRuns("gui")
    /\ opened' = FALSE /\ presses' = presses + 1
    /\ slot' = [s \in Slot |-> IF slot[s] = Listen THEN Free ELSE slot[s]]
    /\ cstate' = [c \in Conns |-> IF cstate[c] = "pending" THEN "gone" ELSE cstate[c]]
    /\ acceptmbox' = <<>> /\ port' = "none"
    /\ spc' = IF spc = "accept" /\ Listening THEN "stranded" ELSE spc
    /\ gpc' = "delete_server"
    /\ UNCHANGED <<mutex, sock_client, caller, readers, queue, ipReady, peer, sent, got>>

(* ... and deletes the server task, wherever it is: its stack, in which    *)
(* the readers not yet started look for their socket, is freed.            *)
DeleteServer ==
    /\ gpc = "delete_server" /\ LowRuns("gui")
    /\ spc' = "none" /\ caller' = Nobody
    /\ rpc' = [c \in Conns |-> IF rpc[c] = "start" THEN "dangling" ELSE rpc[c]]
    /\ gpc' = "delete_queue"
    /\ UNCHANGED <<mutex, opened, presses, sock_client, rsock, rbuf, given, queue, lwip>>

(* DeleteActivitySocket_QueueRead.                                         *)
DeleteQueueRead ==
    /\ gpc = "delete_queue" /\ LowRuns("gui")
    /\ qpc' = "none"
    /\ gpc' = "unlock"
    /\ UNCHANGED <<mutex, opened, presses, server, readers, Socket_Queue, shown, lwip>>

(* The weather page, entered from a callback too: ReadPage takes a socket, *)
(* waits for the answer of the weather host with the GUI lock held ...     *)
WeatherSocket ==
    /\ "weather" \in Disturbances
    /\ gpc = "callback" /\ LowRuns("gui")
    /\ SocketAvailable
    /\ slot' = [slot EXCEPT ![FirstFree] = Web]
    /\ gpc' = "web"
    /\ UNCHANGED <<mutex, opened, presses, server, readers, queue, ipReady, acceptmbox,
                   port, cstate, peer, sent, got>>

(* ... gives its netconn back ...                                          *)
WeatherClose ==
    /\ gpc = "web" /\ LowRuns("gui")
    /\ slot' = [s \in Slot |-> IF slot[s] = Web THEN WebClosing ELSE slot[s]]
    /\ gpc' = "web_free"
    /\ UNCHANGED <<mutex, opened, presses, server, readers, queue, ipReady, acceptmbox,
                   port, cstate, peer, sent, got>>

(* ... and then its slot.                                                  *)
WeatherFree ==
    /\ gpc = "web_free" /\ LowRuns("gui")
    /\ slot' = [s \in Slot |-> IF slot[s] = WebClosing THEN Free ELSE slot[s]]
    /\ gpc' = "unlock"
    /\ UNCHANGED <<mutex, opened, presses, server, readers, queue, ipReady, acceptmbox,
                   port, cstate, peer, sent, got>>

-----------------------------------------------------------------------------
(* isocketTCPServer.                                                       *)

(* Without a netconn or a slot socket() fails and the task function        *)
(* returns, into prvTaskExitError, which stops the system.                 *)
ServerSocket ==
    /\ spc = "socket"
    /\ spc' = IF SocketAvailable THEN "peek" ELSE "returned"
    /\ slot' = IF SocketAvailable THEN [slot EXCEPT ![FirstFree] = Listen] ELSE slot
    /\ UNCHANGED <<gui, lowRan, mutex, sock_client, caller, readers, queue, ipReady, acceptmbox,
                   port, cstate, peer, sent, got>>

(* xQueuePeek(IP_Queue, ..., portMAX_DELAY).                               *)
ServerPeek ==
    /\ spc = "peek" /\ ipReady
    /\ spc' = "bind"
    /\ UNCHANGED <<gui, lowRan, mutex, sock_client, caller, readers, queue, lwip>>

(* bind fails while a connection of an earlier server still has the port;  *)
(* the code goes on, and listen on the unbound socket succeeds.            *)
PortInUse == \E c \in Conns : cstate[c] = "open" /\ peer[c] # "rst"

ServerBind ==
    /\ spc = "bind"
    /\ port' = CASE ~Listening -> "none"
                 [] Listening /\ PortInUse -> "other"
                 [] OTHER -> "5000"
    /\ spc' = "accept"
    /\ UNCHANGED <<gui, lowRan, mutex, sock_client, caller, readers, queue, ipReady, slot,
                   acceptmbox, cstate, peer, sent, got>>

(* accept fails for an attempt that found no netconn, for a connection     *)
(* that was reset before it, and without a slot; else it takes one.        *)
AcceptFails(c) ==
    /\ cstate[c] = "aborted" \/ peer[c] = "rst" \/ FreeSlots = {}
    /\ cstate' = [cstate EXCEPT ![c] = "gone"]
    /\ sock_client' = NoSock
    /\ UNCHANGED slot

AcceptReturns(c) ==
    /\ cstate[c] = "pending" /\ peer[c] # "rst" /\ FreeSlots # {}
    /\ cstate' = [cstate EXCEPT ![c] = "open"]
    /\ sock_client' = FirstFree
    /\ slot' = [slot EXCEPT ![FirstFree] = c]

ServerAccept ==
    /\ spc = "accept" /\ acceptmbox # <<>>
    /\ LET c == Head(acceptmbox) IN
         /\ AcceptFails(c) \/ AcceptReturns(c)
         /\ given' = [given EXCEPT ![c] = sock_client']
         /\ caller' = c
    /\ acceptmbox' = Tail(acceptmbox)
    /\ spc' = "button"
    /\ boosted' = (lock # "none")
    /\ UNCHANGED <<gui, lowRan, lock, rpc, rsock, rbuf, queue, ipReady, port, peer, sent, got>>

(* The socket was closed before the call: accept fails at once.            *)
ServerAcceptClosed ==
    /\ spc = "accept" /\ ~Listening
    /\ sock_client' = NoSock /\ caller' = Nobody
    /\ spc' = "button"
    /\ boosted' = (lock # "none")
    /\ UNCHANGED <<gui, lowRan, lock, readers, queue, lwip>>

(* CreateActivitySocket_MsgButton creates a button under the GUI lock.     *)
ServerButton ==
    /\ spc = "button" /\ lock = "none"
    /\ lock' = "server"
    /\ spc' = "draw"
    /\ UNCHANGED <<gui, lowRan, boosted, sock_client, caller, readers, queue, lwip>>

ServerDraw ==
    /\ spc = "draw"
    /\ lock' = "none"
    /\ spc' = "serve"
    /\ UNCHANGED <<gui, lowRan, boosted, sock_client, caller, readers, queue, lwip>>

(* Fault: the server is not suspended at socket 3.                         *)
ServerServe_NoSuspend ==
    /\ spc = "serve"
    /\ rpc' = [rpc EXCEPT ![caller] = "start"]
    /\ spc' = "accept"
    /\ caller' = Nobody
    /\ UNCHANGED <<gui, lowRan, mutex, sock_client, rsock, rbuf, given, queue, lwip>>

(* write the greeting, create the reader with the address of sock_client,  *)
(* and stop for ever once the socket is 3.                                 *)
ServerServe ==
    /\ spc = "serve"
    /\ rpc' = [rpc EXCEPT ![caller] = "start"]
    /\ spc' = IF sock_client = 3 THEN "suspended" ELSE "accept"
    /\ caller' = Nobody
    /\ UNCHANGED <<gui, lowRan, mutex, sock_client, rsock, rbuf, given, queue, lwip>>

-----------------------------------------------------------------------------
(* isocketClientRead.                                                      *)

(* sock_client = *((int * )arg): the server's variable as it is now, or    *)
(* what is left of it in freed memory.                                     *)
ReaderStart(c) ==
    /\ rpc[c] \in {"start", "dangling"} /\ ReaderRuns
    /\ \E v \in {sock_client} \cup (IF rpc[c] = "dangling" THEN {NoSock} ELSE {}) :
         rsock' = [rsock EXCEPT ![c] = v]
    /\ rpc' = [rpc EXCEPT ![c] = "read"]
    /\ UNCHANGED <<gui, mutex, server, rbuf, given, queue, lwip>>

ReadError(c) ==
    /\ ReadFails(rsock[c])
    /\ rpc' = [rpc EXCEPT ![c] = "send"]
    /\ UNCHANGED <<rbuf, got>>

ReadData(c) ==
    /\ ~ReadFails(rsock[c])
    /\ LET d == slot[rsock[c]] IN
         /\ got[d] < sent[d]
         /\ got' = [got EXCEPT ![d] = @ + 1]
         /\ rbuf' = [rbuf EXCEPT ![c] = [from |-> d, seq |-> got[d] + 1]]
    /\ rpc' = [rpc EXCEPT ![c] = "send"]

ReadEnd(c) ==
    /\ ~ReadFails(rsock[c])
    /\ LET d == slot[rsock[c]] IN got[d] = sent[d] /\ peer[d] = "fin"
    /\ rpc' = [rpc EXCEPT ![c] = "close"]
    /\ UNCHANGED <<rbuf, got>>

(* A half-closed slot still names the netconn that was freed: read fails,  *)
(* ends, or waits in whatever the memory has become.                       *)
ReadFreed(c) ==
    /\ At(rsock[c]) \in HalfClosed
    /\ \E place \in {"close", "stuck"} : rpc' = [rpc EXCEPT ![c] = place]
    /\ UNCHANGED <<rbuf, got>>

(* Only a return value of 0 ends the loop; after an error the reader       *)
(* queues its buffer as it is.                                             *)
ReaderRead(c) ==
    /\ rpc[c] = "read" /\ ReaderRuns
    /\ ReadError(c) \/ ReadData(c) \/ ReadEnd(c) \/ ReadFreed(c)
    /\ UNCHANGED <<gui, mutex, server, rsock, given, queue, ipReady, slot, acceptmbox,
                   port, cstate, peer, sent>>

(* Fault: the queue's limit is ignored.                                    *)
ReaderSend_Unbounded(c) ==
    /\ rpc[c] = "send" /\ ReaderRuns
    /\ Len(Socket_Queue) < 2 * SOCKETQUEUE_LENTH
    /\ Socket_Queue' = Append(Socket_Queue, [id |-> rsock[c], msg |-> rbuf[c]])
    /\ rpc' = [rpc EXCEPT ![c] = "read"]
    /\ UNCHANGED <<gui, mutex, server, rsock, rbuf, given, shown, qpc, lwip>>

(* Fault: messages are sent to the front of the queue.                     *)
ReaderSend_ToFront(c) ==
    /\ rpc[c] = "send" /\ ReaderRuns
    /\ Len(Socket_Queue) < SOCKETQUEUE_LENTH
    /\ Socket_Queue' = <<[id |-> rsock[c], msg |-> rbuf[c]]>> \o Socket_Queue
    /\ rpc' = [rpc EXCEPT ![c] = "read"]
    /\ UNCHANGED <<gui, mutex, server, rsock, rbuf, given, shown, qpc, lwip>>

ReaderSend(c) ==
    /\ rpc[c] = "send" /\ ReaderRuns
    /\ Len(Socket_Queue) < SOCKETQUEUE_LENTH
    /\ Socket_Queue' = Append(Socket_Queue, [id |-> rsock[c], msg |-> rbuf[c]])
    /\ rpc' = [rpc EXCEPT ![c] = "read"]
    /\ UNCHANGED <<gui, mutex, server, rsock, rbuf, given, shown, qpc, lwip>>

(* The send gives up after 134 ticks and the message is lost.  Meanwhile   *)
(* the other readers come to block, and the tasks of priority 1 run, if    *)
(* they can: the GUI task every 5 ticks.                                   *)
ReaderSendTimeout(c) ==
    /\ rpc[c] = "send" /\ Len(Socket_Queue) = SOCKETQUEUE_LENTH
    /\ ~ServerReady /\ \A d \in Conns : ~ReaderReady(d)
    /\ lowRan \/ ~LowReady
    /\ lowRan' = FALSE
    /\ rpc' = [rpc EXCEPT ![c] = "read"]
    /\ UNCHANGED <<gui, mutex, server, rsock, rbuf, given, queue, lwip>>

(* Fault: the reader closes its socket and goes on reading it.             *)
ReaderClose_GoesOn(c) ==
    /\ rpc[c] = "close" /\ ReaderRuns
    /\ rpc' = [r \in Conns |->
                 CASE r = c -> "read"
                   [] r # c /\ rpc[r] = "read" /\ rsock[r] = rsock[c] /\ ReadBlocks(rsock[c]) ->
                        "stuck"
                   [] OTHER -> rpc[r]]
    /\ slot' = [slot EXCEPT ![rsock[c]] = Free]
    /\ cstate' = [d \in Conns |-> IF slot[rsock[c]] = d THEN "gone" ELSE cstate[d]]
    /\ UNCHANGED <<gui, mutex, server, rsock, rbuf, given, queue, ipReady, acceptmbox, port,
                   peer, sent, got>>

(* close(sock_client).  Another reader of the same socket may have closed  *)
(* it, and then there is nothing to do, or be about to, and then the       *)
(* netconn is freed twice; what comes of that is not followed.             *)
CloseNothing(c) ==
    /\ slot[rsock[c]] = Free
    /\ rpc' = [rpc EXCEPT ![c] = "done"]
    /\ rbuf' = [rbuf EXCEPT ![c] = NoMsg]
    /\ UNCHANGED <<slot, cstate>>

FreeTwice(c) ==
    /\ slot[rsock[c]] \in HalfClosed
    /\ rpc' = [rpc EXCEPT ![c] = "stuck"]
    /\ UNCHANGED <<rbuf, slot, cstate>>

(* Else the netconn is given back, whatever the slot is used for by now.   *)
(* A reader that waits in its mailbox is not woken when that is freed ...  *)
NetconnDelete(c) ==
    LET s == rsock[c] IN
      /\ slot[s] \notin {Free} \cup HalfClosed
      /\ rpc' = [r \in Conns |->
                   CASE r = c -> "free"
                     [] r # c /\ rpc[r] = "read" /\ rsock[r] = s /\ ReadBlocks(s) -> "stuck"
                     [] OTHER -> rpc[r]]
      /\ slot' = [slot EXCEPT ![s] = Closing]
      /\ cstate' = [d \in Conns |-> IF slot[s] = d THEN "gone" ELSE cstate[d]]
      /\ UNCHANGED rbuf

ReaderClose(c) ==
    /\ rpc[c] = "close" /\ ReaderRuns
    /\ CloseNothing(c) \/ FreeTwice(c) \/ NetconnDelete(c)
    /\ UNCHANGED <<gui, mutex, server, rsock, given, queue, ipReady, acceptmbox, port,
                   peer, sent, got>>

(* ... and then the slot: free_socket.                                     *)
ReaderFree(c) ==
    /\ rpc[c] = "free" /\ ReaderRuns
    /\ slot' = [slot EXCEPT ![rsock[c]] = Free]
    /\ rpc' = [rpc EXCEPT ![c] = "done"]
    /\ rbuf' = [rbuf EXCEPT ![c] = NoMsg]
    /\ UNCHANGED <<gui, mutex, server, rsock, given, queue, ipReady, acceptmbox, port, cstate,
                   peer, sent, got>>

-----------------------------------------------------------------------------
(* vTaskQueueRead: the item is copied to the text of its client, and the   *)
(* window invalidated under the GUI lock, for client 1 twice.              *)
QueueReceive ==
    /\ qpc = "receive" /\ Socket_Queue # <<>> /\ LowRuns("qread")
    /\ LET item == Head(Socket_Queue) IN
         /\ shown' = IF item.id \in 1 .. 3 THEN [shown EXCEPT ![item.id] = item.msg] ELSE shown
         /\ qpc' = IF item.id = 1 THEN "client1" ELSE "invalidate"
    /\ Socket_Queue' = Tail(Socket_Queue)
    /\ UNCHANGED <<gui, mutex, server, readers, lwip>>

QueueInvalidate ==
    /\ qpc \in {"client1", "invalidate"} /\ lock = "none" /\ LowRuns("qread")
    /\ lock' = "qread"
    /\ qpc' = IF qpc = "client1" THEN "again" ELSE "unlock"
    /\ UNCHANGED <<gui, boosted, server, readers, Socket_Queue, shown, lwip>>

QueueUnlock ==
    /\ qpc \in {"again", "unlock"} /\ LowRuns("qread")
    /\ lock' = "none" /\ boosted' = FALSE
    /\ qpc' = IF qpc = "again" THEN "invalidate" ELSE "receive"
    /\ UNCHANGED <<gui, server, readers, Socket_Queue, shown, lwip>>

-----------------------------------------------------------------------------
(* The network: the address arrives, clients connect, send, close, reset.  *)
(* The tcpip thread has priority 8 and is never held up by these tasks.    *)

IpArrives ==
    /\ ~ipReady /\ ipReady' = TRUE
    /\ UNCHANGED <<gui, lowRan, mutex, server, readers, queue, slot, acceptmbox, port, cstate,
                   peer, sent, got>>

(* Fault: the pool of netconns is not checked.                             *)
Connect_NoPool(c) ==
    /\ cstate[c] = "new" /\ port = "5000"
    /\ cstate' = [cstate EXCEPT ![c] = "pending"]
    /\ acceptmbox' = Append(acceptmbox, c)
    /\ UNCHANGED <<gui, lowRan, mutex, server, readers, queue, ipReady, slot, port, peer,
                   sent, got>>

(* accept_function: without a netconn the attempt is passed on as aborted. *)
Connect(c) ==
    /\ cstate[c] = "new" /\ port = "5000"
    /\ cstate' = [cstate EXCEPT ![c] = IF NetconnsUsed < NUM_SOCKETS
                                      THEN "pending" ELSE "aborted"]
    /\ acceptmbox' = Append(acceptmbox, c)
    /\ UNCHANGED <<gui, lowRan, mutex, server, readers, queue, ipReady, slot, port, peer, sent, got>>

Connected(c) == cstate[c] \in {"pending", "open"} /\ peer[c] = "up"

AllSent == {m \in [from : Conns, seq : 1 .. MaxMsgs] : m.seq <= sent[m.from]}

ClientSend(c) ==
    /\ Connected(c) /\ sent[c] < MaxMsgs /\ Cardinality(AllSent) < MaxSent
    /\ sent' = [sent EXCEPT ![c] = @ + 1]
    /\ UNCHANGED <<gui, lowRan, mutex, server, readers, queue, ipReady, slot, acceptmbox, port,
                   cstate, peer, got>>

ClientEnds(c) ==
    /\ Connected(c)
    /\ \E e \in IF "reset" \in Disturbances THEN {"fin", "rst"} ELSE {"fin"} :
         peer' = [peer EXCEPT ![c] = e]
    /\ UNCHANGED <<gui, lowRan, mutex, server, readers, queue, ipReady, slot, acceptmbox, port,
                   cstate, sent, got>>

-----------------------------------------------------------------------------
GuiStep ==
    \/ GuiLock \/ GuiUnlock
    \/ OpenSocketServer \/ CreateQueueRead
    \/ CloseServerSocket \/ DeleteServer \/ DeleteQueueRead
    \/ WeatherSocket \/ WeatherClose \/ WeatherFree

ServerStep ==
    \/ ServerSocket \/ ServerPeek \/ ServerBind
    \/ ServerAccept \/ ServerAcceptClosed
    \/ ServerButton \/ ServerDraw \/ ServerServe

ReaderStep(c) ==
    \/ ReaderStart(c) \/ ReaderRead(c) \/ ReaderSend(c)
    \/ ReaderClose(c) \/ ReaderFree(c)

QueueStep == QueueReceive \/ QueueInvalidate \/ QueueUnlock

Network ==
    \/ IpArrives
    \/ \E c \in Conns : Connect(c) \/ ClientSend(c) \/ ClientEnds(c)

Next ==
    \/ GuiStep \/ ServerStep \/ QueueStep \/ Network
    \/ \E c \in Conns : ReaderStep(c) \/ ReaderSendTimeout(c)

Spec == Init /\ [][Next]_vars

(* Ready tasks of the higher priorities run; the two tasks of priority 1   *)
(* and the readers take turns, because every preemption moves the          *)
(* scheduler to the next task of the list.  A full queue times out, and    *)
(* the weather host answers.                                               *)
Fairness ==
    /\ WF_vars(ServerStep)
    /\ \A c \in Conns : SF_vars(ReaderStep(c)) /\ WF_vars(ReaderSendTimeout(c))
    /\ SF_vars(QueueStep)
    /\ SF_vars(GuiStep)

FairSpec == Spec /\ Fairness

-----------------------------------------------------------------------------
(* The types of all variables, and the length of Socket_Queue.             *)
TaskTypes ==
    /\ gpc \in {"idle", "callback", "open_queue", "delete_server", "delete_queue",
                "web", "web_free", "unlock"}
    /\ lock \in {"none", "gui", "server", "qread"} /\ boosted \in BOOLEAN
    /\ opened \in BOOLEAN /\ presses \in 0 .. MaxPress
    /\ spc \in {"none", "socket", "peek", "bind", "accept", "button", "draw", "serve",
                "suspended", "stranded", "returned"}
    /\ sock_client \in {NoSock} \cup Slot
    /\ caller \in {Nobody} \cup Conns
    /\ qpc \in {"none", "receive", "client1", "again", "invalidate", "unlock"}
    /\ lowRan \in BOOLEAN
    /\ ipReady \in BOOLEAN
    /\ port \in {"none", "5000", "other"}

ReaderTypes ==
    /\ rpc \in [Conns -> {"none", "start", "dangling", "read", "send", "close", "free", "stuck",
                         "done"}]
    /\ rsock \in [Conns -> {NoSock} \cup Slot]
    /\ rbuf \in [Conns -> Msg]
    /\ given \in [Conns -> {NoSock} \cup Slot]

QueueTypes ==
    /\ Socket_Queue \in Seq([id : {NoSock} \cup Slot, msg : Msg])
    /\ Len(Socket_Queue) <= SOCKETQUEUE_LENTH
    /\ shown \in [1 .. 3 -> Msg]

LwipTypes ==
    /\ slot \in [Slot -> {Free, Listen, Web} \cup HalfClosed \cup Conns]
    /\ acceptmbox \in Seq(Conns)
    /\ cstate \in [Conns -> {"new", "pending", "aborted", "open", "gone"}]
    /\ peer \in [Conns -> {"up", "fin", "rst"}]
    /\ sent \in [Conns -> 0 .. MaxMsgs] /\ got \in [Conns -> 0 .. MaxMsgs]

TypeOK == TaskTypes /\ ReaderTypes /\ QueueTypes /\ LwipTypes

(* The GUI mutex is never left with a deleted task: a server or a queue    *)
(* task that CloseSocketServer or DeleteActivitySocket_QueueRead deletes   *)
(* does not hold it, for the GUI task deletes it from a callback.          *)
LockHolderAlive ==
    /\ lock = "gui" <=> gpc # "idle"
    /\ lock = "server" <=> spc = "draw"
    /\ lock = "qread" <=> qpc \in {"again", "unlock"}

(* isocketTCPServer never returns from its task function (usr_socket.c:51  *)
(* would): opening the page always finds a netconn, however many clients   *)
(* and presses came before.                                                *)
ServerNeverReturns == spc # "returned"

(* The pool: netconns in slots and in the accept mailbox never exceed the  *)
(* pool.  A connection that got a netconn finds a slot when it is          *)
(* accepted, but in one moment: while a task that closes a socket has      *)
(* given its netconn back and not yet the slot (sockets.c:632, 638).  And  *)
(* the listening socket, when there is one, is socket 0, so that clients   *)
(* get 1 to 3.                                                             *)
PoolNotExceeded ==
    /\ NetconnsUsed <= NUM_SOCKETS
    /\ acceptmbox # <<>> /\ cstate[Head(acceptmbox)] = "pending" /\ FreeSlots = {} =>
         gpc = "web_free" \/ \E c \in Conns : rpc[c] = "free"
    /\ \A s \in Slot : slot[s] = Listen => s = 0
    /\ \A c \in Conns : slot[0] # c

(* A reader that reads sock_client after a later accept overwrote it, or   *)
(* after the server died, works on a socket it was not given.              *)
Misbound ==
    \E c \in Conns : rpc[c] \notin {"none", "start", "dangling"} /\ rsock[c] # given[c]

(* As long as every reader found its own socket, no reader ever holds a    *)
(* slot that was closed and given to another connection, and nobody is     *)
(* given the slot it has half closed.                                      *)
ReaderOwnsConnection ==
    ~Misbound =>
        \A c \in Conns : rsock[c] # NoSock =>
            /\ rpc[c] \in {"read", "send", "close"} => slot[rsock[c]] = c
            /\ rpc[c] = "free" => slot[rsock[c]] = Closing

(* The same promise over time: the text of a client never goes back to an  *)
(* older message of the same connection.                                   *)
ShownInOrder ==
    [][\A s \in 1 .. 3 :
          ~Misbound /\ shown[s].from = shown'[s].from => shown'[s].seq >= shown[s].seq]_vars

(* The GUI task is never starved: readers that fail for ever fill the      *)
(* queue, block, and let it run; and every callback comes to its end.      *)
GuiNotStarved == []<>(gpc = "callback") /\ []<>(gpc = "idle")

(* accept never fails: with the suspension at socket 3, the number of      *)
(* clients stays within the netconns of the pool.  usr_socket.c:78 says    *)
(* that the clients cannot exceed 3 and that the cause is not found yet.   *)
AcceptNeverFails == spc = "serve" => sock_client # NoSock

(* task.h:303: "the passed parameter ... must exist for the lifetime of    *)
(* the task"; each reader must find the socket accept returned for it.     *)
ReaderGetsItsSocket == ~Misbound

(* opt.h:1704: closing a socket in one thread while another reads from it  *)
(* needs LWIP_NETCONN_FULLDUPLEX, which is 0: no mailbox is freed while a  *)
(* task waits in it.                                                       *)
NoMailboxFreedUnderWaiter ==
    /\ \A c \in Conns : rpc[c] # "stuck"
    /\ spc # "stranded"

(* Nothing else frees a mailbox under its waiter: it takes two readers     *)
(* that share a socket (usr_socket.c:73), or a second press, which closes  *)
(* the page while the server waits (usr_socket.c:123); not the end of a    *)
(* client, a reset, the weather page or the reuse of a slot.               *)
FreedUnderWaiterOnlyIfShared ==
    ~Misbound /\ presses <= 1 => NoMailboxFreedUnderWaiter

(* Who can take a step: the guards of the actions above.                   *)
ServerCanStep ==
    \/ spc \in {"socket", "bind", "draw", "serve"}
    \/ spc = "peek" /\ ipReady
    \/ spc = "accept" /\ ~Listening
    \/ /\ spc = "accept" /\ acceptmbox # <<>>
       /\ \/ cstate[Head(acceptmbox)] \in {"pending", "aborted"}
          \/ peer[Head(acceptmbox)] = "rst" \/ FreeSlots = {}
    \/ spc = "button" /\ lock = "none"

ReadReturns(s) ==
    \/ ReadFails(s)
    \/ got[slot[s]] < sent[slot[s]]
    \/ got[slot[s]] = sent[slot[s]] /\ peer[slot[s]] = "fin"

ReaderCanStep(c) ==
    /\ ReaderMayRun
    /\ \/ rpc[c] \in {"start", "dangling", "close", "free"}
       \/ rpc[c] = "read" /\ ReadReturns(rsock[c])
       \/ rpc[c] = "send" /\ Len(Socket_Queue) < SOCKETQUEUE_LENTH

LowCanStep(t) ==
    /\ ~ServerReady
    /\ (boosted /\ lock = t) \/ (ReaderMayRun /\ \A c \in Conns : ~ReaderReady(c))

GuiCanStep == LowCanStep("gui") /\ (gpc = "idle" => lock = "none")

QueueCanStep ==
    /\ LowCanStep("qread")
    /\ \/ qpc = "receive" /\ Socket_Queue # <<>>
       \/ qpc \in {"client1", "invalidate"} /\ lock = "none"
       \/ qpc \in {"again", "unlock"}

(* The tasks never block one another for good: whoever waits for the GUI   *)
(* mutex (SocketActivity.c:328), for the queue, in accept or below a task  *)
(* of higher priority, there is one that can take its next step without    *)
(* the network's help.                                                     *)
TasksNeverHang ==
    ServerCanStep \/ (\E c \in Conns : ReaderCanStep(c)) \/ GuiCanStep \/ QueueCanStep

-----------------------------------------------------------------------------
(* What the proofs need besides.                                           *)

(* The first press opens the page, a later one closes it.                  *)
PressInv ==
    /\ opened => presses >= 1
    /\ spc = "stranded" => presses >= 2

(* A reader that is stuck has shared its socket with another.              *)
StuckInv == ~Misbound => \A c \in Conns : rpc[c] # "stuck"

(* What waits for accept has not been accepted, what has a slot has, and   *)
(* no more is fetched than was sent.                                       *)
WaitInv ==
    /\ \A i \in 1 .. Len(acceptmbox) : cstate[acceptmbox[i]] \in {"pending", "aborted"}
    /\ \A s \in Slot : slot[s] \in Conns => cstate[slot[s]] \in {"open", "gone"}
    /\ \A c \in Conns : got[c] <= sent[c]

(* Socket 0 is the listening socket: it is free when the server asks for   *)
(* it, nobody is given or closes it, and connections wait only for it.     *)
ListenInv ==
    /\ \A s \in Slot : slot[s] = Listen => s = 0
    /\ slot[0] \notin Conns
    /\ slot[0] = Listen => opened
    /\ spc = "socket" => gpc = "open_queue" /\ opened /\ slot[0] = Free
    /\ port # "none" \/ acceptmbox # <<>> \/ Pending # {} => slot[0] = Listen
    /\ gpc # "web" => \A s \in Slot : slot[s] # Web
    /\ sock_client # 0 /\ \A c \in Conns : rsock[c] # 0
    /\ \A c \in Conns : rpc[c] \in {"close", "free"} => rsock[c] # NoSock

(* A slot is half closed as long as the task that closes it is at it: no   *)
(* slot is lost, and none is closed by two.                                *)
HalfClosedInv ==
    /\ \A c \in Conns : rpc[c] = "free" => slot[rsock[c]] = Closing
    /\ \A c, d \in Conns : rpc[c] = "free" /\ rpc[d] = "free" /\ rsock[c] = rsock[d] => c = d
    /\ \A s \in Slot : slot[s] = Closing => \E c \in Conns : rpc[c] = "free" /\ rsock[c] = s
    /\ \A s \in Slot : slot[s] = WebClosing => gpc = "web_free"

(* Netconns in slots and in the mailbox.                                   *)
CountInv == NetconnsUsed <= NUM_SOCKETS

(* accept returns once for an attempt, before its reader is created.       *)
Unserved(c) == rpc[c] = "none" /\ caller # c

MailboxInv ==
    /\ \A i, j \in 1 .. Len(acceptmbox) : acceptmbox[i] = acceptmbox[j] => i = j
    /\ \A i \in 1 .. Len(acceptmbox) :
         Unserved(acceptmbox[i]) /\ cstate[acceptmbox[i]] # "new"
    /\ \A c \in Conns : cstate[c] = "new" => Unserved(c)
    /\ caller # Nobody => rpc[caller] = "none"

(* The slot accept returned belongs to the connection until its reader     *)
(* closes it.                                                              *)
Serves(c) == caller = c \/ rpc[c] \in {"start", "dangling", "read", "send", "close"}

OwnInv ==
    ~Misbound => \A c \in Conns : given[c] # NoSock /\ Serves(c) => slot[given[c]] = c

(* The messages of a connection get newer from the text over the queue to  *)
(* its reader.                                                             *)
NotNewer(m, n) == m.from = n.from => m.seq <= n.seq

Fetched(m) == \A c \in Conns : m.from = c /\ rpc[c] # "done" => m.seq <= rbuf[c].seq

TextInv ==
    ~Misbound =>
        /\ \A c \in Conns : rbuf[c].from \in {Nobody, c} /\ rbuf[c].seq <= got[c]
        /\ \A i, j \in 1 .. Len(Socket_Queue) :
             i <= j => NotNewer(Socket_Queue[i].msg, Socket_Queue[j].msg)
        /\ \A s \in 1 .. 3 : \A i \in 1 .. Len(Socket_Queue) :
             NotNewer(shown[s], Socket_Queue[i].msg)
        /\ \A i \in 1 .. Len(Socket_Queue) : Fetched(Socket_Queue[i].msg)
        /\ \A s \in 1 .. 3 : Fetched(shown[s])

(* For AcceptNeverFails, that is, when the page is opened once and nothing *)
(* else takes a netconn or resets a connection.                            *)
Aborted(c) == cstate[c] = "aborted"

(* The server has accepted and not yet come to the next accept.            *)
Accepted == spc \in {"button", "draw", "serve"}

OpenedOnce == MaxPress <= 1 /\ Disturbances = {}

(* The server stays, no reader runs while it waits for the GUI lock, and   *)
(* it does not come to another accept once slot 3 is taken.                *)
OpenOnceInv ==
    /\ opened => presses >= 1
    /\ spc \notin {"stranded", "returned"}
    /\ gpc \notin {"delete_server", "web", "web_free"}
    /\ spc = "none" => ~opened
    /\ spc \notin {"none", "socket"} => slot[0] = Listen
    /\ spc \in {"none", "socket", "peek", "bind"} =>
         acceptmbox = <<>> /\ port = "none" /\ slot[3] = Free
    /\ spc = "button" /\ lock # "none" => boosted /\ lock \in {"gui", "qread"}
    /\ spc = "accept" => slot[3] = Free
    /\ Accepted => sock_client # NoSock /\ (slot[3] # Free => sock_client = 3)
    /\ \A c \in Conns : peer[c] # "rst"

(* What waits for accept: first the connections that got a netconn, then,  *)
(* while no netconn is left, those that did not.                           *)
AbortInv ==
    spc # "suspended" =>
        /\ \A i \in 1 .. Len(acceptmbox) :
             Aborted(acceptmbox[i]) => NetconnsUsed = NUM_SOCKETS
        /\ \A i, j \in 1 .. Len(acceptmbox) :
             i <= j /\ Aborted(acceptmbox[i]) => Aborted(acceptmbox[j])
        /\ \A c \in Pending : \E i \in 1 .. Len(acceptmbox) : acceptmbox[i] = c
=============================================================================
