----------------------------- MODULE EnetStatus -----------------------------
(* How the board gets its address and tells the user: vTaskEnet and        *)
(* vTaskenetstatus of source/AppTask.c, vTaskDHCP of board/usr_enet.c, and *)
(* the icon and the address text of emwin/emWin_MainTask/HomeActivity.c.   *)
(*                                                                         *)
(* lwIP's tcpip thread binds a lease to the network interface.  The DHCP   *)
(* task polls for it and puts the address into IP_Queue, which has room    *)
(* for one, and which everybody else only peeks into: the status task,     *)
(* which advances an animation until then, the address text, the socket    *)
(* server.  The icon is painted by the GUI task, which shares GifFarme     *)
(* with the status task, without a lock on the status task's side.         *)
EXTENDS Integers, Sequences

CONSTANTS
    Addr,                 \* the addresses a lease may carry
    ZeroAddr,             \* 0.0.0.0
    NumImages             \* number of images of the animation

ASSUME AddrAssumption == ZeroAddr \notin Addr
ASSUME ImagesAssumption == NumImages \in Nat \ {0}

IPQUEUE_LENTH == 1
LowTcpipPrio == 3         \* Fault: lwIP's DEFAULT_THREAD_PRIO is used
TCPIP_THREAD_PRIO == 8
VTASKDHCP_TASK_PRIO == 5

Blank == -1               \* an icon that shows the background only
Internet == -2            \* the icon of a connected board

VARIABLES
    (* lwIP *)
    dhcp,                 \* the client's state; "searching" stands for
                          \* every state without a lease, "RENEWING" for
                          \* REBINDING too
    ip_addr,              \* address of the interface
    offered,              \* the tcpip thread is in dhcp_bind: the address
                          \* it has still to set, <<>> otherwise
    lost,                 \* history: a lease was lost between the poll
                          \* that saw it and the sending of its address
    (* the network tasks *)
    dpc,                  \* where vTaskDHCP is
    IP_Queue,
    (* the status task *)
    npc,                  \* where vTaskenetstatus is
    loaded,               \* the value of GifFarme it is about to increment
    (* the GUI task and the home page *)
    gpc,                  \* where it is; outside "idle" it holds the lock
    dirty,                \* the icon's window has to be painted
    GifFarme,             \* image of the animation, 0 once connected
    icon,                 \* what the icon shows
    text                  \* what the address text shows

lwip == <<dhcp, ip_addr, offered, lost>>
network == <<dpc, IP_Queue>>
status == <<npc, loaded>>
home == <<gpc, dirty, GifFarme, icon, text>>
vars == <<lwip, network, status, home>>

(* start_task has created the queues and the tasks.                        *)
Init ==
    /\ dhcp = "OFF" /\ ip_addr = ZeroAddr /\ offered = <<>> /\ lost = FALSE
    /\ dpc = "enet" /\ IP_Queue = <<>>
    /\ npc = "peek" /\ loaded = 0
    /\ gpc = "idle" /\ dirty = TRUE
    /\ GifFarme = 0 /\ icon = Blank /\ text = ZeroAddr

-----------------------------------------------------------------------------
(* lwIP.                                                                   *)

(* dhcp_bind: the state becomes BOUND first, ...                           *)
Bind ==
    /\ dhcp \in {"searching", "RENEWING"} /\ offered = <<>>
    /\ dhcp' = "BOUND"
    /\ \E a \in Addr : offered' = <<a>>
    /\ UNCHANGED <<ip_addr, lost, network, status, home>>

(* ... and netif_set_addr sets the address.                                *)
SetAddr ==
    /\ offered # <<>>
    /\ ip_addr' = Head(offered) /\ offered' = <<>>
    /\ UNCHANGED <<dhcp, lost, network, status, home>>

(* dhcp_t1_timeout, dhcp_t2_timeout: the address is kept meanwhile.        *)
Renew ==
    /\ dhcp = "BOUND" /\ offered = <<>>
    /\ dhcp' = "RENEWING"
    /\ UNCHANGED <<ip_addr, offered, lost, network, status, home>>

(* dhcp_handle_nak while renewing, or the end of the lease in              *)
(* dhcp_coarse_tmr: the address is removed and the search starts again.    *)
LoseLease ==
    /\ dhcp \in {"BOUND", "RENEWING"} /\ offered = <<>>
    /\ dhcp' = "searching" /\ ip_addr' = ZeroAddr
    /\ lost' = (lost \/ dpc = "send")
    /\ UNCHANGED <<offered, network, status, home>>

-----------------------------------------------------------------------------
(* The network tasks, of priority 5.  The tcpip thread does not block      *)
(* inside dhcp_bind, so that a task of a lower priority does not run there.*)

DhcpRuns == offered = <<>> \/ TCPIP_THREAD_PRIO <= VTASKDHCP_TASK_PRIO

(* vusr_enetInit: the interface is added with address 0.0.0.0, the DHCP    *)
(* client started, and the DHCP task created.                              *)
EnetInit ==
    /\ dpc = "enet"
    /\ dhcp' = "searching" /\ ip_addr' = ZeroAddr
    /\ dpc' = "poll"
    /\ UNCHANGED <<offered, lost, IP_Queue, status, home>>

(* Fault: the DHCP task stops polling when the first poll fails.           *)
DhcpPoll_Once ==
    /\ dpc = "poll" /\ DhcpRuns
    /\ dpc' = IF dhcp = "BOUND" THEN "send" ELSE "done"
    /\ UNCHANGED <<lwip, IP_Queue, status, home>>

(* vTaskDHCP: the loop is left in state BOUND, else tried again 200 ticks  *)
(* later.                                                                  *)
DhcpPoll ==
    /\ dpc = "poll" /\ DhcpRuns
    /\ dpc' = IF dhcp = "BOUND" THEN "send" ELSE "delay"
    /\ UNCHANGED <<lwip, IP_Queue, status, home>>

DhcpDelay ==
    /\ dpc = "delay"
    /\ dpc' = "poll"
    /\ UNCHANGED <<lwip, IP_Queue, status, home>>

(* Fault: the number of items is not checked, and the task sends again.    *)
DhcpSend_Twice ==
    /\ dpc = "send" /\ DhcpRuns
    /\ IP_Queue' = Append(IP_Queue, ip_addr)
    /\ dpc' = IF Len(IP_Queue) < 2 THEN "send" ELSE "done"
    /\ UNCHANGED <<lwip, status, home>>

(* xQueueSend copies the address as it is by now; the send gives up after  *)
(* 10 ticks of a full queue.  The task ends.                               *)
DhcpSend ==
    /\ dpc = "send" /\ DhcpRuns
    /\ IP_Queue' = IF Len(IP_Queue) < IPQUEUE_LENTH THEN Append(IP_Queue, ip_addr)
                                                    ELSE IP_Queue
    /\ dpc' = "done"
    /\ UNCHANGED <<lwip, status, home>>

-----------------------------------------------------------------------------
(* vTaskenetstatus, of priority 1 as the GUI task: no time slicing, but    *)
(* every preemption by another task may move on to the other of the two.   *)

(* xQueuePeek(IP_Queue, ..., 15): the item stays in the queue.             *)
StatusPeek ==
    /\ npc = "peek"
    /\ npc' = IF IP_Queue # <<>> THEN "access" ELSE "load"
    /\ UNCHANGED <<lwip, network, loaded, home>>

(* HomeActivity_EnetStatus(ENETSTATUS_LOADING): GifFarme++ is a load and a *)
(* store.                                                                  *)
StatusLoad ==
    /\ npc = "load"
    /\ loaded' = GifFarme
    /\ npc' = "store"
    /\ UNCHANGED <<lwip, network, home>>

(* Values above NumImages behave alike and are not told apart.             *)
Increment(n) == IF n > NumImages THEN n ELSE n + 1

(* Fault: the window is not invalidated, so that nothing orders the        *)
(* increments with the paintings.                                          *)
StatusStore_NoLock ==
    /\ npc = "store"
    /\ GifFarme' = Increment(loaded)
    /\ npc' = "peek"
    /\ UNCHANGED <<lwip, network, loaded, gpc, dirty, icon, text>>

StatusStore ==
    /\ npc = "store"
    /\ GifFarme' = Increment(loaded)
    /\ npc' = "invalidate"
    /\ UNCHANGED <<lwip, network, loaded, gpc, dirty, icon, text>>

(* WM_InvalidateWindow waits for the GUI lock.                             *)
StatusInvalidate ==
    /\ npc = "invalidate" /\ gpc = "idle"
    /\ dirty' = TRUE
    /\ npc' = "peek"
    /\ UNCHANGED <<lwip, network, loaded, gpc, GifFarme, icon, text>>

(* HomeActivity_EnetStatus(ENETSTATUS_ACCESS).                             *)
StatusAccess ==
    /\ npc = "access"
    /\ GifFarme' = 0
    /\ npc' = "last"
    /\ UNCHANGED <<lwip, network, loaded, gpc, dirty, icon, text>>

(* Fault: the last invalidation is left out.                               *)
StatusLast_NoInvalidate ==
    /\ npc = "last" /\ gpc = "idle"
    /\ npc' = "done"
    /\ UNCHANGED <<lwip, network, loaded, home>>

StatusLast ==
    /\ npc = "last" /\ gpc = "idle"
    /\ dirty' = TRUE
    /\ npc' = "done"
    /\ UNCHANGED <<lwip, network, loaded, gpc, GifFarme, icon, text>>

-----------------------------------------------------------------------------
(* The GUI task: GUI_Exec runs the callbacks with the GUI lock held.       *)

(* WM_PAINT of the icon, _cbButton_EnetStatus: the first test.             *)
Paint ==
    /\ gpc = "idle" /\ dirty
    /\ dirty' = FALSE
    /\ \/ GifFarme = 0 /\ icon' = Internet /\ UNCHANGED gpc
       \/ GifFarme # 0 /\ icon' = Blank /\ gpc' = "compare"
    /\ UNCHANGED <<lwip, network, status, GifFarme, text>>

(* Disp_EnetStatus: the second test, which wraps the animation around ...  *)
PaintCompare ==
    /\ gpc = "compare"
    /\ \/ GifFarme < NumImages /\ gpc' = "draw" /\ UNCHANGED GifFarme
       \/ GifFarme >= NumImages /\ gpc' = "idle" /\ GifFarme' = 0
    /\ UNCHANGED <<lwip, network, status, dirty, icon, text>>

(* ... and the drawing, with GifFarme read again.                          *)
PaintDraw ==
    /\ gpc = "draw"
    /\ icon' = GifFarme
    /\ gpc' = "idle"
    /\ UNCHANGED <<lwip, network, status, dirty, GifFarme, text>>

(* The page is shown again, and all of it is to be painted.                *)
PageShown ==
    /\ gpc = "idle"
    /\ dirty' = TRUE
    /\ UNCHANGED <<lwip, network, status, gpc, GifFarme, icon, text>>

(* Disp_IPText: xQueuePeek(IP_Queue, ..., 2).                              *)
Disp_IPText ==
    /\ gpc = "idle"
    /\ text' = IF IP_Queue = <<>> THEN ZeroAddr ELSE IP_Queue[1]
    /\ UNCHANGED <<lwip, network, status, gpc, dirty, GifFarme, icon>>

-----------------------------------------------------------------------------
Lwip == Bind \/ SetAddr \/ Renew \/ LoseLease
Dhcp == EnetInit \/ DhcpPoll \/ DhcpDelay \/ DhcpSend
Status ==
    \/ StatusPeek \/ StatusLoad \/ StatusStore \/ StatusInvalidate
    \/ StatusAccess \/ StatusLast
Gui == Paint \/ PaintCompare \/ PaintDraw

Next == Lwip \/ Dhcp \/ Status \/ Gui \/ PageShown \/ Disp_IPText

Spec == Init /\ [][Next]_vars

(* The tcpip thread and the DHCP task have the highest priorities, so they *)
(* run when they are ready.  The status task may find the lock taken again *)
(* and again, but it waits for it, and is the first to get it when the GUI *)
(* task sleeps for 5 ticks.  No lease, page or text has to come.           *)
Fairness ==
    /\ WF_vars(SetAddr) /\ WF_vars(Dhcp)
    /\ SF_vars(Status) /\ WF_vars(Gui)

FairSpec == Spec /\ Fairness

-----------------------------------------------------------------------------
(* The types of all variables.                                             *)
TypeOK ==
    /\ dhcp \in {"OFF", "searching", "BOUND", "RENEWING"}
    /\ ip_addr \in Addr \cup {ZeroAddr}
    /\ offered \in {<<>>} \cup {<<a>> : a \in Addr} /\ lost \in BOOLEAN
    /\ dpc \in {"enet", "poll", "delay", "send", "done"}
    /\ IP_Queue \in {<<>>} \cup {<<a>> : a \in Addr \cup {ZeroAddr}}
    /\ npc \in {"peek", "load", "store", "invalidate", "access", "last", "done"}
    /\ loaded \in 0 .. NumImages + 1
    /\ gpc \in {"idle", "compare", "draw"}
    /\ dirty \in BOOLEAN
    /\ GifFarme \in 0 .. NumImages + 1
    /\ icon \in {Internet, Blank} \cup (0 .. NumImages + 1)
    /\ text \in Addr \cup {ZeroAddr}

(* What stands in IP_Queue stays there: the three tasks that wait for it   *)
(* only peek, and each of them finds the same address whenever it looks.   *)
AddressSticks == [][IP_Queue # <<>> => IP_Queue' = IP_Queue]_vars

(* Disp_EnetStatus asks for an image of the animation only if GifFarme is  *)
(* below NumImages (HomeActivity.c:365), but reads it again to draw, and   *)
(* the increment of the status task does not wait for the GUI lock.  So an *)
(* image after the last is asked for now and then.  But it is the next one *)
(* and never a later one, and only while the status task, one increment    *)
(* ahead, waits for the lock that the painting holds.                      *)
DrawsNoFurtherThanNext ==
    /\ icon <= NumImages
    /\ gpc = "draw" /\ GifFarme >= NumImages => GifFarme = NumImages /\ npc = "invalidate"

(* Once the address is queued the icon becomes that of a connected board   *)
(* and stays so: no interleaving of the two tasks leaves the animation on. *)
IconSettles == [](IP_Queue # <<>> => <>[](icon = Internet))

(* A lease that lasts is reported: vTaskDHCP does not miss it.             *)
AddressReported == <>[](dhcp = "BOUND") => <>(IP_Queue # <<>>)

(* The queue announces one leased address, never 0.0.0.0, although the     *)
(* state is BOUND before the address is set; only a lease that is lost     *)
(* between the poll and the sending spoils it.                             *)
Board == INSTANCE Announcement WITH told <- IP_Queue, seen <- text
ImplementsAnnouncement == Board!Spec

-----------------------------------------------------------------------------
(* The strengthening of the refinement that every step preserves: where an *)
(* address is on its way to the queue, the interface has one.              *)
LeaseInv ==
    /\ offered # <<>> => dhcp = "BOUND" /\ dpc # "enet"
    /\ dhcp = "BOUND" => offered # <<>> \/ ip_addr # ZeroAddr
    /\ dhcp = "RENEWING" => ip_addr # ZeroAddr
    /\ dpc = "enet" => dhcp = "OFF"
    /\ dpc = "send" => lost \/ (ip_addr # ZeroAddr /\ dhcp # "searching")
    /\ dpc # "done" => IP_Queue = <<>>
    /\ IP_Queue # <<>> => lost \/ IP_Queue[1] # ZeroAddr

(* The strengthening of DrawsNoFurtherThanNext: during a painting the      *)
(* status task has one increment left at most, and where it has one the    *)
(* image is still one of the animation.                                    *)
TurnInv ==
    /\ DrawsNoFurtherThanNext
    /\ npc = "store" => GifFarme \in {loaded, 0}
    /\ npc = "store" /\ gpc = "compare" => GifFarme = loaded
    /\ gpc = "draw" =>
         /\ GifFarme <= NumImages
         /\ npc # "invalidate" => GifFarme < NumImages
         /\ npc = "store" => loaded < NumImages

=============================================================================
