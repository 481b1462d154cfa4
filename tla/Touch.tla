------------------------------- MODULE Touch -------------------------------
(* The touch panel and vTaskTouch, source/AppTask.c, which polls it        *)
(* through BOARD_Touch_Poll, board/emwin_support.c, every 20 ms.           *)
CONSTANT Points           \* the places a finger can touch

Up == "up"                \* no finger on the panel, or its release

ASSUME PointsAssumption == Up \notin Points

TouchState == Points \cup {Up}

VARIABLES
    finger,               \* where the finger is
    tpc,                  \* vTaskTouch polls, or waits in BOARD_Touch_Poll
    touch_event,          \* its local variables: the touch it has read
    pid                   \* the state stored last with GUI_TOUCH_StoreStateEx

touchVars == <<finger, tpc, touch_event, pid>>

TouchInit == finger = Up /\ tpc = "poll" /\ touch_event = Up /\ pid = Up

TouchTypeOK ==
    /\ finger \in TouchState
    /\ tpc \in {"poll", "wait"}
    /\ touch_event \in TouchState
    /\ pid \in TouchState

(* The user: a finger comes down once the last release has been reported   *)
(* (it stays away for two polls at least) and lifts.                       *)
FingerDown(p) ==
    /\ finger = Up /\ touch_event = Up /\ pid = Up
    /\ finger' = p
    /\ UNCHANGED <<tpc, touch_event, pid>>

FingerUp ==
    /\ finger # Up
    /\ finger' = Up
    /\ UNCHANGED <<tpc, touch_event, pid>>

(* FT5406_RT_GetSingleTouch.  A read that fails and a reserved event end   *)
(* the poll, and one that reads what was reported last changes nothing:    *)
(* the task stays where it is.                                             *)
TouchRead ==
    /\ tpc = "poll" /\ finger # pid
    /\ touch_event' = finger
    /\ tpc' = "wait"
    /\ UNCHANGED <<finger, pid>>

(* Fault: only touches are reported, never a release.                      *)
TouchStore_OnlyDown ==
    /\ tpc = "wait"
    /\ pid' = IF touch_event = Up THEN pid ELSE touch_event
    /\ tpc' = "poll"
    /\ UNCHANGED <<finger, touch_event>>

(* After vTaskDelay(15) the touch, by now an old one, goes to emWin.       *)
TouchStore ==
    /\ tpc = "wait"
    /\ pid' = touch_event
    /\ tpc' = "poll"
    /\ UNCHANGED <<finger, touch_event>>

TouchFairness == WF_touchVars(TouchRead) /\ WF_touchVars(TouchStore)
=============================================================================
