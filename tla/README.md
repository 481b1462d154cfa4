# Verification of the RT1050 emWin demo

TLA+ models of the demo's own code (an i.MX RT1050 board with a touch display, Ethernet,
emWin, lwIP and FreeRTOS), the TLC instances that check them, and TLAPS proofs about them.
Paths below are relative to `src/`; every definition that models code is mapped to its lines
in `PROJECT.json`.

1. [The system](#1-the-system)
2. [Display handshake](#2-display-handshake-multibuffer)
3. [Message server](#3-message-server-socketserver)
4. [Network start and status](#4-network-start-and-status-enetstatus)
5. [Ethernet interface](#5-ethernet-interface-enetrx-enettx-enet)
6. [Pages and touch](#6-pages-and-touch-pages-touch)
7. [Runs](#7-runs)
8. [Proofs](#8-proofs)
9. [Findings](#9-findings)
10. [What is not modelled](#10-what-is-not-modelled)
11. [Plan](#11-plan)

## 1. The system

`source/AppTask.c` creates two queues (`IP_Queue`, one item; `Socket_Queue`, ten) and the
tasks. FreeRTOS is preemptive with `configUSE_TIME_SLICING` 0.

| Task or handler | Priority | Code | Does |
|---|---|---|---|
| Ethernet handler | NVIC 6 | `drivers/fsl_enet.c`, `lwip/port/ethernetif.c` | empties the receive ring, frees transmit descriptors |
| frame handler | NVIC 0, not masked by the kernel | `board/emwin_support.c` | confirms the visible frame buffer |
| tcpip thread | 8 | lwIP | everything TCP/IP, DHCP timers |
| `vTaskEnet`, `vTaskDHCP` | 5 | `AppTask.c`, `board/usr_enet.c` | bring the interface up, wait for a lease, poll the driver |
| touch | 4 | `board/emwin_support.c` | polls the FT5406 |
| message server | 3 | `source/usr_socket.c` | accepts connections, one reader task each |
| readers | 2 | `source/usr_socket.c` | receive, put into `Socket_Queue` |
| GUI, status, queue reader | 1 | `AppTask.c`, `emwin/emWin_MainTask/*` | emWin callbacks; status icon; texts of the clients |

Inventory: state, operations and what makes each part correct.

| Component | State | Operations | Correct if | Here |
|---|---|---|---|---|
| Frame-buffer handshake (`board/emwin_support.c`) | `s_LCDpendingBuffer`, NEXT_BUF, CUR_BUF, emWin's buffer index | draw, show, frame end, interrupt | the panel never shows a buffer that is being drawn; a confirmed buffer is visible; the busy wait ends | `MultiBuffer` |
| Message server (`source/usr_socket.c`, `SocketActivity.c`) | listening socket, `sock_client`, reader tasks, `Socket_Queue`, texts, button | open, close, accept, read, queue, show, delete | readers work on their own connections; pools and mutex survive deletion of tasks at any point; texts in order; the GUI is not starved | `SocketServer` |
| Network start and status (`AppTask.c`, `usr_enet.c`, `HomeActivity.c`) | DHCP state, address, `IP_Queue`, `GifFarme`, icon | bind, poll, send, animate, paint | one leased address is announced for good; the icon ends as connected; a reading of the animation that races with its increment stays next to its bounds | `EnetStatus` |
| Ethernet reception (`lwip/port/ethernetif.c`, `fsl_enet.c`) | descriptor ring, event register, pbufs, messages | arrive, handler, poll, size, allocate, copy, drop, post | driver and controller agree on the ring; nothing leaks; reception cannot die | `EnetRx` |
| Ethernet transmission (same files) | transmit ring, event group, timer queue | output, busy, copy, hand over, activate, wait, reclaim | every frame goes out once, whole, in order; a sender that waits is woken | `EnetTx`, `FrameChannel`; both directions: `Enet` |
| Pages and navigation (`*Activity.c`) | window handles, menu lock, timers | create, hide, show, delete, expire | one screen is shown; handles are 0 exactly when the window is gone; menus close by themselves | `Pages` |
| Touch input (`fsl_ft5406_rt.c`, `emwin_support.c`) | the event that was read, the state that was stored | poll, wait, store | each press is followed by a release | `Touch` |
| Weather client (`weather/weather.c`) | a socket, JSON strings | read page, parse, show | strings owned once; failures shown as such | its page in `Pages`, its socket and its wait under the GUI lock in `SocketServer` |
| SD card host (`sdmmc/port`, `board/usr_sdcard.c`) | event flags | create, wait with timeout, notify | - | not modelled: nothing calls `MOUNT_SDCard`, the linker drops it |
| RTOS port of lwIP (`lwip/port/sys_arch.c`) | queues, semaphores | post, fetch, free | as lwIP demands of a mailbox | not modelled, see section 10 |
| HTTP server (`source/http_server.c`) | - | CGI parameters | compiled, never started: the call is commented out | not modelled |
| FreeRTOS, lwIP, emWin, drivers, FatFs, cJSON, images | | | vendored or binary | as far as the above meets them |

How they meet: the DHCP task, the server and the GUI all look into `IP_Queue`; readers and
queue task share `Socket_Queue`; every task that draws needs emWin's mutex, which has priority
inheritance; the server, its readers and the weather page share four netconns; the Ethernet
handler and `vTaskDHCP` empty the same ring; the message server creates buttons on a page that
GUI callbacks hide and delete. The hard behaviours are therefore: handlers that
preempt anywhere, tasks that are deleted anywhere (`vTaskDelete` from a GUI callback), objects
that outlive their owner (a local variable passed to a task), pools that run out, and values
read twice.

## 2. Display handshake (`MultiBuffer`)

emWin draws into `back`, calls the driver with `LCD_X_SHOWBUFFER`; the driver sets NEXT_BUF
(`SetNext`), remembers the index for the handler (`SetPending`) and spins (`SpinExit`). The
controller latches NEXT_BUF at the end of each frame (`FrameEnd`); the handler
(`IRQHandler`) confirms. The frame end may come between any two of these steps. emWin and the
controller are external: emWin is modelled from how the driver and `vTaskGUI` use it (multiple
buffering: turn to the next buffer, draw, show, learn the visible one from
`GUI_MULTIBUF_Confirm`). Because the handler has NVIC priority 0 the thread makes no step
while it is pending.

`FrameFlip` is what the display promises: frames are finished one at a time and each is shown,
whole, before the next is finished. `MultiBuffer` implements it with
`shown <- content[curBuf]`.

Abstracted: pixels (a buffer holds the number of a frame or `Torn`); layers (one is used).
Fairness: weak for the controller and the handler (the panel is always refreshed), strong for
the thread: an interrupt comes again and again, but a frame lasts milliseconds and the
handler microseconds, so the thread always runs in between.

## 3. Message server (`SocketServer`)

A press of the page's button creates the server and the queue task, the next deletes both. The
module has the GUI task with its callback under the mutex, the server with one action per
blocking call, one reader per accepted connection, the queue task, lwIP's four netconns and
four slots, and the remote clients.

- *Scheduling* is modelled, since correctness hangs on it: the server (3) runs before readers
  (2) and those before the tasks of priority 1 (`ReaderMayRun`, `LowRuns`); the holder of the
  mutex inherits the server's priority (`boosted`). The tcpip thread is above them all, so the
  network's actions are always possible.
- *Deletion* takes the server where it is; readers that have not started yet look for their
  argument in a freed stack (`"dangling"`): they may find the old value or anything. Garbage is
  represented by the old value and by "no socket"; other slots behave like a later accept's.
- *Closing* takes two steps: `lwip_close` gives the netconn back (`sockets.c:632`) and then the slot
  (`sockets.c:638`). In between the slot is half closed (`Closing`, `WebClosing`); the tcpip thread and
  the server preempt the reader (`NetconnDelete`, `ReaderFree`) and the GUI task (`WeatherClose`,
  `WeatherFree`) there, and a connection may get the netconn before there is a slot for it. A reader
  that shares the socket with the one that closes it may read the freed netconn (`ReadFreed`) or
  free it again (`FreeTwice`): it ends or is `"stuck"`, what becomes of the heap is not followed.
  `CloseServerSocket` gives both back in one step. It is the listening socket: once it is closed
  no connection can come to take the netconn, no other task has it, and the server, which could ask
  for one, is in `accept` or will be deleted by the same callback.
- *Waiting in a freed mailbox* (closing a socket under its waiter): the waiter never returns
  (`"stranded"`, `"stuck"`). In the build, the memory may be reused; what happens then is not
  modelled.
- A function that returns from its task (`"returned"`) ends in `prvTaskExitError`.
- A send on a full queue gives up after 134 ticks. `lowRan` says that in this time the tasks
  below get a turn (`vTaskGUI` sleeps 5 ticks only).
- The bytes are abstracted: a message is its sender and number. What a reader queues after an
  error is its old buffer. The text of client 1-3 is `shown`.
- The weather page takes a socket and waits under the GUI lock (`WeatherSocket`,
  `WeatherClose`); the host is taken to answer.

`TasksNeverHang` is the deadlock freedom of these tasks. TLC's own deadlock check says little here,
since the network can always do something; the property asks for a step of server, reader, queue
task or GUI task. ENABLED is out of the prover's reach, so the guards are written out (`ServerCanStep`,
`ReaderCanStep`, `GuiCanStep`, `QueueCanStep`); TLC found them equal to ENABLED of the four
kinds of steps in every state of an instance with two clients, two presses and a message each.

`FreedUnderWaiterOnlyIfShared` delimits the findings of section 9: a mailbox is freed under its
waiter when two readers share a socket or when the page is closed, and in no other way.

Left out: the click on a message button, which only selects a text; the failure of task
creation for want of heap.

Fairness: weak for the server (highest priority here) and the 134 ticks; strong for readers,
queue task and GUI: without time slicing equals do not alternate by themselves, but every
preemption by a higher task moves the scheduler on in its ready list, and every one of them
blocks again and again.

## 4. Network start and status (`EnetStatus`)

lwIP sets the state to `BOUND` before the address (`Bind`, `SetAddr`); `vTaskDHCP` polls the
state and then copies the address into `IP_Queue` (`DhcpPoll`, `DhcpSend`), which nobody
empties. Only the priorities keep the poll out of the window between the two steps
(`DhcpRuns`: the tcpip thread does not block in `dhcp_bind`, and 8 > 5). The status task
increments `GifFarme` until there is an address (load and store are two steps), and the GUI
task compares `GifFarme` and reads it again (`PaintCompare`, `PaintDraw`).

`Announcement` is what the others rely on: one address, announced once, for good; and it is a
leased one unless the lease was lost at that very moment. The lease may end at any time
(`LoseLease`), also in the 200 ms between a poll and the next step, and then 0.0.0.0 can be
announced; the history variable `lost` says that this is what happened. `EnetStatus` implements
`Announcement` with it.

Abstracted: all DHCP states without a lease are `"searching"`; REBINDING is RENEWING;
`GifFarme`, a static `int`, is not told apart above `NumImages` + 1, which stands for all that is
greater; the home page is the visible one.

`Disp_EnetStatus` tests `GifFarme < NumImages` (`HomeActivity.c:365`) and reads it again to draw, and
the status task increments it without the GUI lock. The image that the test excludes is therefore
asked for now and then. `DrawsNoFurtherThanNext` says how far this goes: it is image `NumImages`,
the one after the last, never a later one, because the status task waits for the GUI lock after
each increment.

Fairness: weak for the network tasks and the GUI, strong for the status task, which finds
emWin's mutex taken again and again but is its first waiter when the GUI task sleeps. Nobody
has to grant a lease.

## 5. Ethernet interface (`EnetRx`, `EnetTx`, `Enet`)

### Reception

The controller fills descriptors and raises EIR (`Arrive`). `ENET_ReceiveIRQHandler` clears
EIR, calls `ethernetif_input` and looks again (`IsrEnter`, `IsrCheck`). `ethernetif_input` is
written once, for a reader `r`: ask for the size, allocate, read, give the descriptor back
(`UpdateReadBuffers`), move on to the next (`Advance`), post to the tcpip thread, and again; or drop,
which also ends the loop. The reader is the
handler or, until there is an address, the task `vTaskDHCP`, which the handler may interrupt
between any two of these steps.

Abstracted: frame bytes (a frame is its number, length and error bit; `Garbage` is a pbuf
nothing was copied to). A receive buffer (1536 bytes) holds any legal frame, so that a frame has
one descriptor; the mailbox (32) never fills with 8 messages. A task gets no step while an event is
pending.

Some steps of the task are longer than the code's, in which the handler could preempt it: the paths
on which `ENET_ReadFrame` goes over several descriptors (`ReadNothing`, `Drop`), the loop of
`ENET_GetRxFrameSize`, the clearing of a descriptor's status and the setting of its empty bit
(`fsl_enet.c:1281`, `1283`), and the test of the wrap bit with the move (`1285` to `1292`). What a
handler makes of a descriptor without status and without the empty bit is not explored. For the handler these
are single steps in fact: nothing interrupts it but the display's, and the controller sees one
descriptor at a time. A copy whose length
wrapped around traps the processor (`fault`) and everything stops; a copy of a whole buffer
into a shorter pbuf is not followed into memory.

`LossyChannel` is what lwIP expects of reception: frames may be lost anywhere, but what comes up
is a good frame, whole, once, and in order. `EnetRx` implements it with `onTheWay <-` the good frames
in the ring, in the handler's hands and in the mailbox (`OnTheWay`), as long as there is one
reader (`oneReader <- polls = 0`); after a poll the channel promises nothing.

Fairness is stated in `Enet` (below). Users of pbufs need not release them.

### Transmission

`low_level_output` hands a frame to `enet_send_frame`, which calls `ENET_SendFrame` until a
descriptor is free: copy (`SendCopy`), ready bit (`SendReady`), next descriptor (`SendAdvance`),
`ENET_ActiveSend` (`SendActive`). The controller may take the frame from the moment of the
ready bit on. When the ring is full (`SendBusy`) the sender waits in an event group without a
timeout (`WaitBits`). The handler (`TxIsrEnter`, `TxCallback`, `TxIsrCheck`) may not touch an event
group: it gives the kernel's timer task the command to set the bit, through a queue of 10, and
ignores a refusal. The timer task (17) is above everybody else (`SetBits`).

There is one sender. lwIP's core lock makes it so for the tcpip thread and the socket calls
(`LWIP_TCPIP_CORE_LOCKING`); `dhcp_start` sends from `vTaskEnet` without the lock, but at that
time nobody else has anything to send: the server's answer comes after the last step of that
sending. A transmit buffer holds any legal frame (1518 bytes), hence one descriptor a frame.

A frame gives a buffer event and may give a frame event a little later (`FrameEvent`), so that two
commands a frame may wait for the timer task: the queue must have room for 2 * N + 1, which is 7
of 10 in the build (`TimerQueueAssumption`).

`FrameChannel` is what lwIP relies on: a channel of limited capacity whose frames arrive once,
whole and in order. `EnetTx` implements it with `inFlight <-` the contents of the ready
descriptors.

### Both

`Enet` extends `EnetRx`, instantiates `EnetTx` and joins their steps: one handler serves both
directions, one after the other; tasks run when there is no interrupt; `vTaskDHCP` polls
(`Poller`), as it does in every boot; the tcpip thread takes a frame only when nobody sends, and may
answer it. A full transmit ring therefore holds up reception, and `DeliveredAfterPolls` is a
statement about both. `NothingHangs` is its safety side: while there is a frame to send or to
receive, the handler, the controller, the timer task, the sender, the polling task or the tcpip
thread can take a step, unless a poll made the processor trap. As in section 3 the guards are
written out and were compared with ENABLED by TLC.

What the interface promises with a poll in it: nothing leaks, a full ring always has an event
coming, every frame handed over is sent, nothing hangs. What it promises only if the last poll left
driver and controller in step (`PollsOver`; the `poll_race` finding is the way in which it may not):
frames are delivered, and no empty descriptor is read, from then on.

`DeliveredAfterPolls` is about the frames the handler is called for, and about good ones: a frame
with an error ends the handler's loop, and those behind it wait for the next event.

Fairness: interrupts are served and the controller goes on; timer task and sender, which
inherits the tcpip thread's priority through the core lock; the polling task ends a call of
`ethernetif_input` it has begun; the tcpip thread. All weak.

## 6. Pages and touch (`Pages`, `Touch`)

`Touch`: the finger, `vTaskTouch`, and the state it stored last with `GUI_TOUCH_StoreStateEx`. A
poll reads the panel (`TouchRead`) and reports it 15 ms later (`TouchStore`), whatever the finger
does meanwhile. A poll that reads what was reported last changes nothing and is a stutter.

`Pages` extends it: the home and the Enet page, created once and shown in turn; the start menu,
the socket and the weather page, children of the home page; the bar menus of the Enet page, which
close after 3 s. A GUI callback runs under the GUI lock and is one step. The message server is the
one other task that creates a widget: it reads the page's handle (`ServerReads`), and creates the
button once it has the lock (`ServerCreates`); in between a callback may have deleted the page.
What the server does besides is in `SocketServer`.

The names of the variables are those of the code (`hWin_StartMenu`, `hWin_Socket`,
`hWin_Weather`, `_hWinBarMenu`, `_IndexBarMenu`, `Flag_EnetActivity`, `hTimer`).
`enetactivity_lock` is `enetactivity_lockvalue`: 1 until the first touch of the bar. The window of
`_cbBarMenu` that `_CreateWindow` makes once more, at creation of the page, is `"extra"`.

emWin is external. Taken from its interface: a window goes with its children and its timers; a
timer fires once; a window that is created lies above its siblings and showing it does not change
that; a widget that is covered is not touched; a press captures the touch until the release. The
server that waits for the lock gets it when the GUI task gives it up, before that task's next step
(priority 3 against 1).

Environment: the user touches what is displayed when the finger comes down, and a finger stays
away until the release was reported (two polls, 70 ms). A press that misses every widget, slides
from one widget to another and repeated paints are left out. So is the window that shows the
address when the icon is touched, a toggle like the start menu that nothing else refers to. A
weather request is one step here; its waiting is in `SocketServer`.

Fairness, all weak: the touch task polls every 20 ms, the GUI task runs `GUI_Exec` every 5 ms and
serves its timers and the touch there, the server gets the lock.

## 7. Runs

All bounds are CONSTANTS of the modules. "Distinct" is TLC's count of distinct states.

| Run | Properties | Bounds and why they suffice | Distinct |
|---|---|---|---|
| `multibuffer` | `TypeOK`, `NoTearing`, `HandshakeInv`, `ConfirmedIsVisible`, `ShowBufferReturns`, `ImplementsFrameFlip` | the build's 2 buffers, 9 frames: every buffer is reused, each phase meets the frame end. The proofs cover all numbers | 128 |
| `socket_server` | `TypeOK`, `LockHolderAlive`, `ServerNeverReturns`, `PoolNotExceeded`, `ReaderOwnsConnection`, `FreedUnderWaiterOnlyIfShared`, `TasksNeverHang` | 3 clients, as many as the pool lets in; 3 presses: open, close, open again beside old readers; resets and the weather page; a queue of 1, which readers that fail fill again and again; no messages, for none of these properties tells them apart | 1,289,856 |
| `socket_tasks` | `GuiNotStarved`, `ShownInOrder` | 2 clients with 2 messages each, 3 together (`MaxSent`), that may be reset, after which their readers fail for ever; a queue of 2: old and new message, both clients, and full is common | 357,852 |
| `socket_three_clients` | `AcceptNeverFails` | 5 attempts on 3 places, nothing else using netconns | 526,364 |
| `reader_argument` | `ReaderGetsItsSocket` (violated) | see Findings | |
| `close_while_waiting` | `NoMailboxFreedUnderWaiter` (violated) | see Findings | |
| `enet_status` | `TypeOK`, `DrawsNoFurtherThanNext`, `IconSettles`, `AddressReported`, `ImplementsAnnouncement` | 2 addresses, so that a renewal may change it; 3 images; leases lost at any moment | 38,532 |
| `enet_rx` | `TypeOK`, `RingInSync`, `NeverWedged`, `PbufsConserved`, `ImplementsLossyChannel` | ring of 3, so that 5 frames wrap and fill it; 3 pbufs and 2 messages, so that either runs out first; 2 lengths; 2 polls | 629,103 |
| `enet_tx` | `TypeOK`, `NoLostWakeup`, `PendNeverFails`, `ImplementsFrameChannel` | the build's 3 descriptors and queue of 10; 8 frames go round the ring more than twice and find it full | 13,400 |
| `enet` | `NothingHangs`, `DeliveredAfterPolls`, `EveryFrameSent` | 2 descriptors each way; 2 frames in, good and bad, which fill the ring, and 3 out, which wrap theirs; one poll, interrupted anywhere. The pools are as large as the frames, as 9 pbufs and 8 messages for 5 descriptors are while lwIP gives them back; smaller pools are in `enet_rx` | 367,326 |
| `pages` | `TypeOK`, `HandlesNameWindows`, `OneScreen`, `MenuHasTimer`, `ButtonsOnPage`, `MenuCloses`, `ReleaseReported` | every widget but one of the two bar buttons that only open a menu; one handle a kind, so that a handle is reused by the next window of its kind; one message button at a time; 2 timers | 236,832 |
| `poll_race` | `ReadsOnlyReceived` (violated) | see Findings | |

What they show, beyond the names:

- `PoolNotExceeded` and `ServerNeverReturns`: after any number of clients and deletions the
  server's next `socket()` finds a netconn and a slot, because `CloseSocketServer` closes socket 0
  whatever the server does, and a half-closed socket is never that one. The mutant forgets the close.
  A connection that has a netconn may find no slot, but only while a task is between the two steps
  of a close (section 9).
- `AcceptNeverFails`: the self-suspension at socket 3, whose comment says the cause was not
  found, is what keeps a fourth attempt, which lwIP passes on as aborted, from making `accept`
  return -1. It does not cover the weather page, which takes a netconn too: with it, accept
  fails. Hence the restriction of the run.
- `ReaderOwnsConnection` and `ShownInOrder` hold only as long as every reader found its own
  socket (`~Misbound`), see Findings.
- `FreedUnderWaiterOnlyIfShared`: neither the end of a client, nor a reset, nor the weather page, nor
  the reuse of a slot frees a mailbox under a waiter. The mutant is a reader that goes on after it
  has closed its socket: it comes to close the next connection's.
- `TasksNeverHang`: the waits of these tasks for the mutex, the queue, the mailbox and one
  another's priority never form a circle. The mutant polls a full queue instead of blocking, at a
  priority above the task that empties it.
- `ImplementsLossyChannel`: `ENET_ReadFrame` does not look at the error bits, so that only the size
  that was asked for before keeps bad frames from lwIP. The mutant forgets the bits there.
- `NothingHangs`: a bit that is set before the sender comes to wait sends it back to the ring. The
  mutant clears the bit first, and a wake-up that came early is gone: all networking stands still.
- `NeverWedged`: a full ring gives no further event, so the handler must never return with a
  full ring and no event. Reception survives because the handler gives back at least one
  descriptor on each event.
- `RingInSync` and `ImplementsLossyChannel` are about the time until the task's first poll, which is
  also what a system without polls would guarantee for ever. With polls both fail (Findings).
- `NoLostWakeup`: the bit may be old, the event may come between the look at the descriptor and
  the waiting, and it passes through two more tasks. It holds because a sender that found the
  ring full leaves frames in it whose events are still to come, or finds the bit set.
- `PendNeverFails`: nobody sends before the timer task has emptied its queue, so that the commands
  are limited by the ring.
- `ImplementsAnnouncement` names the two places where the priorities carry the proof: its mutant
  gives the tcpip thread a lower priority.
- `MenuHasTimer` and `MenuCloses`: one static timer handle serves all the windows of `_cbBarMenu`.
  It is enough because a menu that is replaced takes its timer along, and because the lock, added
  for a reason the comment at `EnetActivity.c:214` calls unknown, keeps the extra window from
  starting one. Without the lock (the mutant) that window's timer is forgotten, or ends another's.
- `OneScreen`: there are four ways between the two screens, from two files; each must hide one, show
  the other and take the open menu along, which is a window of neither.
- `ButtonsOnPage`: Exit hides the socket page, and the next visit shows it again, so that a stale
  handle still names it. Only PowerOff under a running server breaks this (`strayed`), and the
  model goes on: the server's button then lies on the desktop, or in freed memory.
- Deadlock is checked in all runs except those of the Ethernet interface, whose frames are used up
  and whose trap is a stop.

Each property is also checked against a fault operator beside the definition it changes (an
action whose comment starts with "Fault:"): TLC finds the property violated when the faulty
action replaces the right one. `PROJECT.json` pairs them.

## 8. Proofs

All for every value of the constants that the named assumptions allow.

| Module | Theorem | States |
|---|---|---|
| `MultiBufferProofs` | `TypeCorrect`, `HandshakeCorrect`, `NeverTorn`, `ConfirmationIsTrue`, `ShowsEveryFrame` | `[]TypeOK`, `[]HandshakeInv`, `[]NoTearing`, `ConfirmedIsVisible`, `ImplementsFrameFlip` |
| `SocketServerProofs` | `TypeCorrect`, `LockNeverLost`, `PoolNeverExceeded`, `ServerGoesOn`, `ReadersOwn`, `TextsInOrder`, `AcceptSafe`, `OnlySharedSocketsStrand`, `TasksGoOn` | `[]TypeOK`, `[]LockHolderAlive`, `[]PoolNotExceeded`, `[]ServerNeverReturns`, `[]ReaderOwnsConnection`, `ShownInOrder`; `[]AcceptNeverFails` under `OpenedOnce`; `[]FreedUnderWaiterOnlyIfShared`, `[]TasksNeverHang` |
| `EnetStatusProofs` | `TypeCorrect`, `QueueKeepsAddress`, `DrawRaceIsBounded`, `TurnsAlternate`, `LeaseCorrect`, `AnnouncesAddress` | `[]TypeOK`, `AddressSticks`, `[]DrawsNoFurtherThanNext`, `[]TurnInv`, `[]LeaseInv`, `ImplementsAnnouncement` |
| `EnetRxProofs` | `TypeCorrect`, `NoPbufLeak`, `ReceptionNeverDies`, `RingStaysInSync`, `OnlyPollsDisturb`, `DeliversInOrder`, `LosesAndNothingWorse` | `[]TypeOK`, `[]PbufsConserved`, `[]NeverWedged`, `[]RingInSync`, no step but a poll ends `InStep`, `FramesInOrder`, `ImplementsLossyChannel` |
| `EnetTxProofs` | `TypeCorrect`, `NeverStuck`, `CommandsAlwaysFit`, `RingIsChannel` | `[]TypeOK`, `[]NoLostWakeup`, `[]PendNeverFails`, `ImplementsFrameChannel` |
| `EnetProofs` | `ReceptionRefines`, `TransmissionRefines` | the steps of `Enet` are steps of `EnetRx`, and of `EnetTx` |
| | `ReceptionSafe`, `InStepForGood` | of `Enet`, polls or not: `[]PbufsConserved`, `[]NeverWedged`; after the last poll, if it left the ring in step: `InStep` and `ReadsOnlyReceived` from then on |
| | `TransmissionSafe`, `SendsInOrder` | of `Enet`: `[]NoLostWakeup`, `[]PendNeverFails`; `ImplementsFrameChannel` |
| | `InterfaceNeverHangs` | `[]NothingHangs` |
| `Promises` | `DisplayPromise`, `AddressPromise`, `ReceptionPromise`, `TransmissionPromise` | what `FrameFlip`, `Announcement`, `LossyChannel` and `FrameChannel` come to |
| `PagesProofs` | `TypeCorrect`, `HandlesCorrect`, `OneScreenShown`, `MenuTimed`, `ButtonsStay` | `[]TypeOK`, `[]HandlesNameWindows`, `[]OneScreen`, `[]MenuHasTimer`, `[]ButtonsOnPage` |

The inductive invariants:

- *MultiBuffer.* `NoTearing` says nothing about what the controller will latch next.
  `HandshakeInv` says which buffer NEXT_BUF, CUR_BUF and the pending index hold in each phase;
  outside the handshake everything is settled on the front buffer. The refinement step needs
  nothing else.
- *SocketServer.* `LockHolderAlive` is inductive: the lock is tied to the holders' places, and
  the GUI task has it wherever it deletes. The pool and the server's socket rest on `ListenInv`,
  that socket 0 is the listening one and free when the next server asks for it: then at most
  three netconns are taken (`SocketLeft`), and a count that only `socket()` and the arrival of a
  connection raise, after a look at it, stays in the pool (`CountInv`, with the cardinalities in
  `PoolStep`). `OwnInv` ties a slot to its connection from `accept` until its reader closes it; it
  needs `MailboxInv`, that an attempt is accepted once and before its reader exists. `HalfClosedInv`
  says that each half-closed slot has one task that will free it, so that without such a task there
  are as many free slots as netconns, and nobody frees a slot that was given away again
  (`CloseFacts`, `HalfClosedNext`). `TextInv` orders the messages of a connection: text, queue, reader's buffer. Both are conditional on
  `~Misbound`, and `MisboundNext` shows that a wrong reader stays wrong.
  `AcceptNeverFails` needs the scheduler: while attempts wait no reader runs (`ReadersWait`), so
  that no netconn comes back, attempts without one stand behind those with one (`AbortInv`),
  and the server has taken slot 3, and stops, before it comes to them (`OpenOnceInv`). The
  theorem assumes `OpenedOnce`: one press, no weather page, no reset. These are the conditions
  of the run; without them the statement is false.
  `FreedUnderWaiterOnlyIfShared` needs `PressInv` (only a second press closes) and `StuckInv`, whose
  step is `StuckClose`: who waits in the socket that is closed would own it too.
  `TasksNeverHang` is `LockHolderAlive`, which gives the mutex a holder that can run, and `WaitInv`:
  what the server finds in the mailbox is an attempt it can accept or fail to accept, and what a
  reader has fetched was sent, so that a ready task has a step (`ServerReadySteps`,
  `ReaderReadySteps`).
- *EnetStatus.* `DrawsNoFurtherThanNext` needs `TurnInv`: the status task has at most one increment
  left during a painting, because its next turn waits for the lock. The refinement needs
  `LeaseInv`: a task on its way to the queue finds an address on the interface unless the lease was
  lost; this uses the priorities.
- *EnetRx.* The upper bounds of the pools follow from conservation, so `TypeInv` is the types
  with the conservation of pbufs and of messages. `NeverWedged` is inductive with it. For the
  ring, `RingInv` adds what the handler remembers of it (the descriptor it has sized is still
  full and has that length); `OrderInv` chains last frame < mailbox < handler's pbuf < oldest
  frame in the ring. `InStep`, what `RingInv` says while nobody has polled, is kept by every step but a
  poll, whatever was before (`InStepNext`). The arithmetic is in `SyncArrive` and `SyncAdvance`: one frame more behind,
  one less in front, for a ring of any size. The refinement of `LossyChannel` needs `GoodInv`, that
  the handler copies good frames only, and `OrderInv`, that the frame the tcpip thread takes is the
  oldest on the way. Each step moves a frame along, loses it, or is a stutter (`WayArrive`,
  `WayInput`, `WayProcess`).
- *EnetTx.* `TxRingInv` says that from the controller's position on the ring holds the frames on
  their way, without a gap; `SenderInv` what the sender has in its hands; `ActiveInv` that a ring
  with frames is active or about to be. `WakeInv` strengthens `NoLostWakeup` to the moment at which
  the ring was found full, and `PendInv` counts the commands that are or will be in the timer queue:
  at most 2 for each descriptor and one.
- *Enet.* The refinements have identity mappings: a step of the interface is a step, or none, of
  either direction (`RxStep`, `TxStep`). The theorems about `EnetRx` and `EnetTx` are then cited, the
  latter through an instance of `EnetTxProofs`. `HandlerInv` adds that the handler is in one
  direction at a time. The task may poll in `Enet`, so that of reception only what `EnetRx` has with
  polls carries over; the order of frames and the channel are theorems of `EnetRx` until the first
  poll. `NothingHangs` follows with `NoLostWakeup`: a sender that is blocked has a wake-up coming, and
  whoever has it next can run. It is assumed (`SendAssumption`) that the timer queue has room for
  two commands a descriptor and one.
- *Promises.* The four abstract specifications are instantiated and proved to mean what their
  comments say (`OneBehind`, `SeenIsTold`, `OnlyLater`, `NoneLost` and the action properties
  beside them), so that a refinement is worth what its abstract specification is.
- *Pages.* `IInv` adds two facts to the properties: a page that is shown, or a menu that is open,
  has been created (`Started`), and what the server has read is the page as it is, unless PowerOff
  came in between (`ServerKnowsPage`). Handles and timers are any sets, and a kind may have several
  handles.

Only model-checked: everything under fairness (`ShowBufferReturns`, `GuiNotStarved`,
`IconSettles`, `AddressReported`, `DeliveredAfterPolls`, `EveryFrameSent`, `MenuCloses`,
`ReleaseReported`), which is out of the prover's reach. Every safety property of a passing run
is proved. `FramesInOrder`, `AddressSticks`, `LeaseInv` and `TurnInv` are proved and have no place in
a run of their own: `ImplementsLossyChannel`, `ImplementsAnnouncement` and `DrawsNoFurtherThanNext`, which
are checked, say what they are for. For the liveness of the message server and of the Ethernet interface `TasksNeverHang` and
`NothingHangs` prove the part that is safety, for all sizes: the system is never stuck.

## 9. Findings

- **`reader_argument`**: `source/usr_socket.c:73` passes every reader the address of the
  server's one local `sock_client`. The readers have a lower priority than the server, so two
  connections that wait together are accepted before the first reader runs: both readers read
  the second socket, the first connection is never served, and when one reader closes the
  socket the other waits in a freed mailbox. `task.h:303` warns of this use.
- **`close_while_waiting`**: `source/usr_socket.c:123` closes the listening socket from the
  GUI task while the server waits in `accept` on it. lwIP supports this only with
  `LWIP_NETCONN_FULLDUPLEX` (`opt.h:1704`), which is 0.
- **`poll_race`**: `board/usr_enet.c:196` calls `ethernetif_input` from a task while the
  handler calls the same function. A frame the handler left in the ring (a dropped frame ends
  its loop) is sized by the task; if the next frame's interrupt comes before the task reads it,
  the handler takes it, and the task reads an empty descriptor, which `fsl_enet.h:1179` forbids. The
  descriptor is skipped: from then on driver and controller disagree on the ring. Only the
  task's polls can cause this (`OnlyPollsDisturb`), and they end with the first address; the
  disagreement they have caused does not.

Seen and not made a run, for want of a statement of the source to check against:

- `HomeActivity.c:367`, `368`: emWin is asked for image `NumImages`, which the test at line 365 is
  there to exclude, when the status task increments `GifFarme` between the test and the second
  reading. TLC reaches this state of `EnetStatus`; that it is never a later image is
  `DrawsNoFurtherThanNext`. What emWin does with the index is in its binary.
- `sockets.c:632`, `638`: with clients in sockets 1 and 2 and the weather page in 3, a client that
  connects while the reader of 1 is between these lines gets the netconn, but `accept` finds no
  slot and returns -1. The connection is lost and the server starts a reader of socket -1, which
  fails for ever. TLC reaches it in `SocketServer`.
- `ethernetif.c:1028`: a drop ends the loop of `ethernetif_input`, so that a poll does not get "any
  outstanding frames" (`usr_enet.c:195`) and frames behind a dropped one wait for the next event;
  `NeverWedged` shows that this is a delay and not an end.

## 10. What is not modelled

- Boot, clocks, pins, MPU (`source/main.c`, `bsp_init.c`, `board/`): sequential, before the
  scheduler starts. Success of `malloc` and of task creation at boot is assumed.
- The HTTP server: never started. The SD card host: never called, `MOUNT_SDCard` is removed by the
  linker (`output/Tristana.map:10115`).
- Memory contents: stacks, heap and the bytes of strings. The places where bytes or lifetimes would
  matter are hazards without a property: `SocketActivity.c:201` (a button keeps the address of a
  parameter), `SocketActivity.c:236` (a text without an end), `weather.c:154` (pointers freed that
  were not set), `WeatherActivity.c:122` (an index that comes from the network).
- What the pages draw. `HomeActivity.c:372` makes the count of the animation 0, for which line
  167 draws the connected icon too; no statement says what a loading icon must not show.
- `sys_arch.c`: thin calls of the kernel's queues. Where their behaviour matters, the modules have
  it: a mailbox freed under its waiter in `SocketServer`, messages that run out in `EnetRx`.
- Start of the PHY and the MAC; what `dhcp_start` writes to the DHCP client from `vTaskEnet` while
  the tcpip thread runs its timers.
- Drivers, emWin (binary), FreeRTOS, lwIP, FatFs, cJSON, images: vendored; modelled where the code
  meets them. They are most of the repository, hence the small share of lines that is mapped.

## 11. Plan

What is left, in this order:

1. `Weather`: reading, parsing and ownership of the strings, with the failures of each call.
2. `SysArch` over a bounded queue that refines an abstract FIFO (`queue.c`).
3. Pure algorithms over bounded inputs against a reference definition: `FindQueueEnd`, the JSON
   offsets of `weather.c`.
