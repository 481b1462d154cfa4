------------------------------- MODULE Pages -------------------------------
(* The pages of the user interface and the way from one to another:        *)
(* HomeActivity.c, EnetActivity.c, SocketActivity.c and WeatherActivity.c  *)
(* in emwin/emWin_MainTask.                                                *)
(*                                                                         *)
(* The home and the Enet page are created once, then shown and hidden in   *)
(* turn.  The start menu, the socket and the weather page are children of  *)
(* the home page and come and go, as the menus of the Enet page's bar do,  *)
(* which close by themselves after 3 s.  A file keeps the handle of a      *)
(* window in a static variable, 0 when there is none.                      *)
(* Every callback runs in the GUI task with the GUI lock held and is one   *)
(* step; the message server is the one other task that creates a widget.   *)
EXTENDS Integers, Touch

CONSTANTS
    Handle,               \* what emWin names windows by
    Pool,                 \* the handles a window of a kind may get
    TimerId               \* what it names timers by

Kinds == {"menu", "socket", "weather", "bar", "extra", "msg"}

ASSUME HandleAssumption == 0 \notin Handle
ASSUME PoolAssumption == Pool \in [Kinds -> SUBSET Handle]
ASSUME TimerAssumption == 0 \notin TimerId

(* The widgets, by the place they are at.                                  *)
HomeBottomRow == {"setting", "mail", "weather"}
Bar == [page |-> 0, season |-> 1, bin |-> 2, quit |-> 3]
Items == {"first", "second"}

VARIABLES
    kind,                 \* of each handle, "free" when it names no window
    on,                   \* parent of each message button
    shown,                \* windows with the show flag
    above,                \* <<g, h>>: g was created after h and lies over it
    homeShown, enetShown,
    hWin_StartMenu, hWin_Socket, hWin_Weather, hWinBarMenu,
    Flag_EnetActivity,    \* the Enet page was created
    enetactivity_lock,    \* no bar button was touched yet
    IndexBarMenu,         \* the bar button of the open menu, or -1
    timer, hTimer,        \* owner of each timer; the handle _cbBarMenu keeps
    captured,             \* the widget that is pressed, or Up
    SocketButtonGreen,    \* the page's button says that the server is open
    spc, hRead,           \* the server task, its copy of hWin_Socket
    strayed               \* history: the socket page was deleted under it

windows == <<kind, on, shown, above>>
handles == <<hWin_StartMenu, hWin_Socket, hWin_Weather>>
barMenu == <<hWinBarMenu, IndexBarMenu, hTimer, timer>>
screen == <<homeShown, enetShown, Flag_EnetActivity, enetactivity_lock>>
server == <<SocketButtonGreen, spc, hRead, strayed>>
guiVars == <<windows, handles, barMenu, screen, server, captured>>
vars == <<guiVars, touchVars>>

(* MainTask has created the home page.                                     *)
Init ==
    /\ TouchInit
    /\ kind = [h \in Handle |-> "free"]
    /\ on = [h \in Handle |-> 0]
    /\ shown = {} /\ above = {}
    /\ homeShown = TRUE /\ enetShown = FALSE
    /\ hWin_StartMenu = 0 /\ hWin_Socket = 0 /\ hWin_Weather = 0
    /\ hWinBarMenu = 0 /\ IndexBarMenu = 0
    /\ Flag_EnetActivity = FALSE /\ enetactivity_lock = TRUE
    /\ timer = [t \in TimerId |-> 0] /\ hTimer = 0
    /\ captured = Up
    /\ SocketButtonGreen = FALSE /\ spc = "none" /\ hRead = 0
    /\ strayed = FALSE

-----------------------------------------------------------------------------
(* emWin: windows and timers.                                              *)

(* A window goes with its children.                                        *)
Family(D) == D \cup {h \in Handle : kind[h] = "msg" /\ on[h] \in D}

Free(h) == kind[h] = "free"

(* The children of the home page that overlap.                             *)
Stack == {"menu", "socket", "weather"}

(* WM_DeleteWindow for each window of D, then a window h of kind k is      *)
(* created as a child of p and shown, unless h is 0.                       *)
Replace(D, h, k, p) ==
    LET gone == Family(D)
        left == {g \in Handle : ~Free(g)} \ gone
    IN  /\ kind' = [g \in Handle |-> IF g = h THEN k
                                     ELSE IF g \in gone THEN "free" ELSE kind[g]]
        /\ on' = [g \in Handle |-> IF g = h THEN p
                                   ELSE IF g \in gone THEN 0 ELSE on[g]]
        /\ shown' = (shown \ gone) \cup ({h} \ {0})
        /\ above' = (above \cap (left \X left)) \cup
                    (IF k \in Stack THEN {h} \X {g \in left : kind[g] \in Stack} ELSE {})

Create(h, k) == Free(h) /\ h \in Pool[k] /\ Replace({}, h, k, 0)
Delete(D) == Replace(D, 0, "free", 0)

(* The timers of a deleted window go with it.                              *)
TimersWithout(D) == [t \in TimerId |-> IF timer[t] \in D THEN 0 ELSE timer[t]]

(* WM_CreateTimer for window h, with w the timers there are.               *)
NewTimer(h, w) ==
    /\ \E t \in TimerId : w[t] = 0
    /\ hTimer' = CHOOSE t \in TimerId : w[t] = 0
    /\ timer' = [w EXCEPT ![hTimer'] = h]

(* What covers what: the two pages cover the upper part of the home page,  *)
(* the menu on it and each other; the menu covers nothing that is used.    *)
Covered(h) ==
    \E g \in shown : kind[g] \in {"socket", "weather"} /\ <<g, h>> \in above

OnTop(h) == homeShown /\ h \in shown /\ ~Covered(h)

Reachable(p) ==
    \/ p \in HomeBottomRow /\ homeShown
    \/ p = "game" /\ homeShown /\ ~\E g \in shown : kind[g] \in {"socket", "weather"}
    \/ p \in {"exit", "power"} /\ OnTop(hWin_StartMenu)
    \/ p = "open" /\ OnTop(hWin_Socket)
    \/ p = "update" /\ OnTop(hWin_Weather)
    \/ p \in DOMAIN Bar /\ enetShown
    \/ p \in Items /\ hWinBarMenu # 0

(* A step of the GUI task.  A server that waits for the lock the task      *)
(* holds gets it when the step ends, before the next one.                  *)
GuiRuns == spc # "blocked" /\ UNCHANGED touchVars
ServerWaits == spc' = IF spc = "button" THEN "blocked" ELSE spc
ServerStays == ServerWaits /\ UNCHANGED <<SocketButtonGreen, hRead, strayed>>

Clicked(p) ==
    /\ GuiRuns
    /\ captured = Up /\ pid = p /\ Reachable(p)
    /\ captured' = p

Released(p) ==
    /\ GuiRuns
    /\ captured = p /\ pid = Up
    /\ captured' = Up

-----------------------------------------------------------------------------
(* The Enet page's bar menu.                                               *)

(* Fault: the variables keep the deleted menu.                             *)
DeleteMenuVars_Keep == UNCHANGED <<hWinBarMenu, IndexBarMenu>>

(* What _DeleteMenuWidnow leaves behind when there was a menu.             *)
DeleteMenuVars ==
    /\ hWinBarMenu' = 0
    /\ IndexBarMenu' = IF hWinBarMenu = 0 THEN IndexBarMenu ELSE -1

Menu == {hWinBarMenu} \ {0}

DeleteMenuWidnow ==
    /\ Delete(Menu)
    /\ DeleteMenuVars
    /\ timer' = TimersWithout(Menu)
    /\ UNCHANGED hTimer

(* Fault: nothing is locked while the Enet page is created.                *)
enetactivity_judge_Never == FALSE

enetactivity_judge == enetactivity_lock

(* WM_CREATE of _cbBarMenu for window h, w being the timers there are: the *)
(* window starts a timer unless the page is being created.                 *)
StartTimer(h, w) ==
    IF enetactivity_judge
    THEN timer' = w /\ UNCHANGED hTimer
    ELSE NewTimer(h, w)

(* WM_TIMER, when the timer of a window has expired.                       *)
TimerExpires(t) ==
    /\ GuiRuns /\ timer[t] # 0
    /\ LET left == [s \in TimerId |-> IF s \in {t, hTimer} THEN 0 ELSE timer[s]]
       IN  IF enetactivity_judge
           THEN /\ timer' = [timer EXCEPT ![t] = 0]
                /\ UNCHANGED <<windows, hWinBarMenu, IndexBarMenu, hTimer, captured>>
           ELSE /\ hTimer' = 0
                /\ IF timer[t] # hWinBarMenu
                   THEN timer' = left /\ UNCHANGED <<windows, hWinBarMenu, IndexBarMenu, captured>>
                   ELSE /\ Delete(Menu)
                        /\ DeleteMenuVars
                        /\ timer' = [s \in TimerId |-> IF left[s] \in Menu THEN 0 ELSE left[s]]
                        /\ captured' = IF captured \in Items THEN Up ELSE captured
    /\ ServerStays
    /\ UNCHANGED <<handles, screen>>

(* Fault: the last button is not told from the others.                     *)
BarOpens_NoExit(p) ==
    /\ p \in DOMAIN Bar /\ Clicked(p)
    /\ enetactivity_lock' = FALSE
    /\ IF IndexBarMenu # Bar[p]
       THEN \E h \in Pool["bar"] :
              /\ Free(h) \/ h \in Menu
              /\ Replace(Menu, h, "bar", 0)
              /\ hWinBarMenu' = h /\ IndexBarMenu' = Bar[p]
              /\ NewTimer(h, TimersWithout(Menu))
       ELSE UNCHANGED <<windows, barMenu>>
    /\ ServerStays
    /\ UNCHANGED <<handles, homeShown, enetShown, Flag_EnetActivity>>

(* A touch of the bar opens the menu of its button in place of another.    *)
BarOpens(p) ==
    /\ p \in DOMAIN Bar \ {"quit"} /\ Clicked(p)
    /\ enetactivity_lock' = FALSE
    /\ IF IndexBarMenu # Bar[p]
       THEN \E h \in Pool["bar"] :
              /\ Free(h) \/ h \in Menu
              /\ Replace(Menu, h, "bar", 0)
              /\ hWinBarMenu' = h /\ IndexBarMenu' = Bar[p]
              /\ NewTimer(h, TimersWithout(Menu))
       ELSE UNCHANGED <<windows, barMenu>>
    /\ ServerStays
    /\ UNCHANGED <<handles, homeShown, enetShown, Flag_EnetActivity>>

(* Its last button, Exit, goes back to the home page.                      *)
BarQuits ==
    /\ Clicked("quit")
    /\ enetactivity_lock' = FALSE
    /\ DeleteMenuWidnow
    /\ enetShown' = FALSE /\ homeShown' = TRUE
    /\ ServerStays
    /\ UNCHANGED <<handles, Flag_EnetActivity>>

(* Fault: the menu's item goes home without hiding the Enet page.          *)
ItemReleased_NoHide(p) ==
    /\ p \in Items /\ Released(p) /\ ~enetactivity_judge
    /\ DeleteMenuWidnow
    /\ IF p = "second" /\ IndexBarMenu = Bar["page"]
       THEN homeShown' = TRUE ELSE UNCHANGED homeShown
    /\ ServerStays
    /\ UNCHANGED <<handles, enetShown, Flag_EnetActivity, enetactivity_lock>>

(* An item closes its menu; the second one of Page goes back home.         *)
ItemReleased(p) ==
    /\ p \in Items /\ Released(p) /\ ~enetactivity_judge
    /\ DeleteMenuWidnow
    /\ IF p = "second" /\ IndexBarMenu = Bar["page"]
       THEN enetShown' = FALSE /\ homeShown' = TRUE
       ELSE UNCHANGED <<enetShown, homeShown>>
    /\ ServerStays
    /\ UNCHANGED <<handles, Flag_EnetActivity, enetactivity_lock>>

-----------------------------------------------------------------------------
(* The home page.                                                          *)

(* The game icon: HideHomeActivity and CreateEnetActivity, which creates   *)
(* the page the first time, with one more window of _cbBarMenu.            *)
GameClicked ==
    /\ Clicked("game")
    /\ homeShown' = FALSE /\ enetShown' = TRUE
    /\ Flag_EnetActivity' = TRUE
    /\ IF Flag_EnetActivity
       THEN UNCHANGED <<windows, barMenu>>
       ELSE \E h \in Pool["extra"] :
              /\ Create(h, "extra")
              /\ IndexBarMenu' = -1
              /\ StartTimer(h, timer)
              /\ UNCHANGED hWinBarMenu
    /\ ServerStays
    /\ UNCHANGED <<handles, enetactivity_lock>>

(* Fault: the menu is deleted, its handle stays.                           *)
SettingClicked_Keep ==
    /\ Clicked("setting")
    /\ IF hWin_StartMenu # 0
       THEN Delete({hWin_StartMenu}) /\ UNCHANGED hWin_StartMenu
       ELSE \E h \in Pool["menu"] : Create(h, "menu") /\ hWin_StartMenu' = h
    /\ ServerStays
    /\ UNCHANGED <<hWin_Socket, hWin_Weather, barMenu, screen>>

(* _CreateWindow_StartMenu is a toggle.                                    *)
SettingClicked ==
    /\ Clicked("setting")
    /\ IF hWin_StartMenu # 0
       THEN Delete({hWin_StartMenu}) /\ hWin_StartMenu' = 0
       ELSE \E h \in Pool["menu"] : Create(h, "menu") /\ hWin_StartMenu' = h
    /\ ServerStays
    /\ UNCHANGED <<hWin_Socket, hWin_Weather, barMenu, screen>>

(* CreateActivitySocket and CreateActivityWeather show the page there is,  *)
(* where it is among the windows, or create it on top of all.              *)
MailClicked ==
    /\ Clicked("mail")
    /\ IF hWin_Socket # 0
       THEN shown' = shown \cup {hWin_Socket} /\ UNCHANGED <<kind, on, above, hWin_Socket>>
       ELSE \E h \in Pool["socket"] : Create(h, "socket") /\ hWin_Socket' = h
    /\ ServerStays
    /\ UNCHANGED <<hWin_StartMenu, hWin_Weather, barMenu, screen>>

WeatherClicked ==
    /\ Clicked("weather")
    /\ IF hWin_Weather # 0
       THEN shown' = shown \cup {hWin_Weather} /\ UNCHANGED <<kind, on, above, hWin_Weather>>
       ELSE \E h \in Pool["weather"] : Create(h, "weather") /\ hWin_Weather' = h
    /\ ServerStays
    /\ UNCHANGED <<hWin_StartMenu, hWin_Socket, barMenu, screen>>

(* Fault: Exit deletes the pages' windows as PowerOff does.                *)
ExitReleased_Deletes ==
    /\ Released("exit")
    /\ Delete({hWin_StartMenu, hWin_Socket, hWin_Weather} \ {0})
    /\ hWin_StartMenu' = 0 /\ hWin_Socket' = 0 /\ hWin_Weather' = 0
    /\ ServerStays
    /\ UNCHANGED <<barMenu, screen>>

(* Exit hides the two pages and deletes the menu it is on ...              *)
ExitReleased ==
    /\ Released("exit")
    /\ LET m == {hWin_StartMenu} \ {0}
       IN  /\ kind' = [h \in Handle |-> IF h \in m THEN "free" ELSE kind[h]]
           /\ shown' = shown \ (m \cup {hWin_Socket, hWin_Weather})
           /\ above' = {p \in above : p[1] \notin m /\ p[2] \notin m}
    /\ hWin_StartMenu' = 0
    /\ ServerStays
    /\ UNCHANGED <<on, hWin_Socket, hWin_Weather, barMenu, screen>>

(* ... PowerOff deletes all three, whatever the message server does.       *)
PowerOffReleased ==
    /\ Released("power")
    /\ Delete({hWin_StartMenu, hWin_Socket, hWin_Weather} \ {0})
    /\ hWin_StartMenu' = 0 /\ hWin_Socket' = 0 /\ hWin_Weather' = 0
    /\ ServerWaits
    /\ strayed' = (strayed \/ (spc # "none" /\ hWin_Socket # 0))
    /\ UNCHANGED <<SocketButtonGreen, hRead, barMenu, screen>>

-----------------------------------------------------------------------------
(* The socket page, the server that creates its message buttons, and the   *)
(* weather page, whose button fetches the weather with the lock held.      *)

OpenClicked ==
    /\ Clicked("open")
    /\ SocketButtonGreen' = ~SocketButtonGreen
    /\ spc' = IF SocketButtonGreen THEN "none" ELSE "accept"
    /\ hRead' = 0
    /\ UNCHANGED <<strayed, windows, handles, barMenu, screen>>

(* accept has returned; the page's handle is read for BUTTON_CreateUser,   *)
(* which then takes the GUI lock ...                                       *)
ServerReads ==
    /\ spc = "accept" /\ \E h \in Pool["msg"] : Free(h)
    /\ spc' = "button"
    /\ hRead' = hWin_Socket
    /\ UNCHANGED <<SocketButtonGreen, strayed, windows, handles, barMenu, screen,
                   captured, touchVars>>

(* ... and creates the button on what was the page when it was read: with  *)
(* 0 a window of the desktop; in freed memory, or nothing.                 *)
ServerCreates ==
    /\ spc \in {"button", "blocked"}
    /\ spc' = "accept"
    /\ \/ \E h \in Pool["msg"] : Free(h) /\ Replace({}, h, "msg", hRead)
       \/ hRead # 0 /\ (hRead \in Handle => Free(hRead)) /\ UNCHANGED windows
    /\ hRead' = 0
    /\ UNCHANGED <<SocketButtonGreen, strayed, handles, barMenu, screen,
                   captured, touchVars>>

UpdateReleased ==
    /\ Released("update")
    /\ ServerStays
    /\ UNCHANGED <<windows, handles, barMenu, screen>>

(* A press or release that no handler acts on.                             *)
PressedOnly(p) ==
    /\ p \in Items \cup {"exit", "power", "update"} /\ Clicked(p)
    /\ ServerStays
    /\ UNCHANGED <<windows, handles, barMenu, screen>>

ReleasedOnly(p) ==
    /\ p \in HomeBottomRow \cup DOMAIN Bar \cup {"game", "open"} /\ Released(p)
    /\ ServerStays
    /\ UNCHANGED <<windows, handles, barMenu, screen>>

-----------------------------------------------------------------------------
GuiNext ==
    \/ \E t \in TimerId : TimerExpires(t)
    \/ \E p \in Points :
         BarOpens(p) \/ ItemReleased(p) \/ PressedOnly(p) \/ ReleasedOnly(p)
    \/ BarQuits
    \/ GameClicked \/ SettingClicked \/ MailClicked \/ WeatherClicked
    \/ ExitReleased \/ PowerOffReleased
    \/ OpenClicked \/ UpdateReleased

(* The user touches what is there to be touched when the finger comes down. *)
UserNext ==
    \/ \E p \in Points : Reachable(p) /\ FingerDown(p)
    \/ FingerUp \/ TouchRead \/ TouchStore

ServerNext == ServerReads \/ ServerCreates

Next ==
    \/ GuiNext \/ ServerNext
    \/ UserNext /\ UNCHANGED guiVars

Spec == Init /\ [][Next]_vars

(* The GUI task runs GUI_Exec every 5 ms and serves its timers and the     *)
(* touch there; the touch task and the server are above it.                *)
Fairness ==
    /\ TouchFairness
    /\ WF_vars(\E t \in TimerId : TimerExpires(t))
    /\ WF_vars(captured # Up /\ pid = Up /\ GuiNext)
    /\ WF_vars(ServerCreates)

FairSpec == Spec /\ Fairness

-----------------------------------------------------------------------------
TypeOK ==
    /\ TouchTypeOK
    /\ kind \in [Handle -> Kinds \cup {"free"}]
    /\ on \in [Handle -> Handle \cup {0}]
    /\ shown \subseteq Handle /\ above \subseteq Handle \X Handle
    /\ homeShown \in BOOLEAN /\ enetShown \in BOOLEAN
    /\ {hWin_StartMenu, hWin_Socket, hWin_Weather, hWinBarMenu}
           \subseteq Handle \cup {0}
    /\ Flag_EnetActivity \in BOOLEAN /\ enetactivity_lock \in BOOLEAN
    /\ IndexBarMenu \in -1 .. 2
    /\ timer \in [TimerId -> Handle \cup {0}] /\ hTimer \in TimerId \cup {0}
    /\ captured \in TouchState
    /\ SocketButtonGreen \in BOOLEAN
    /\ spc \in {"none", "accept", "button", "blocked"}
    /\ hRead \in Handle \cup {0}
    /\ strayed \in BOOLEAN

(* The window of a kind that comes and goes is the one its variable names, *)
(* and the variable is 0 when there is none: no callback reaches a deleted *)
(* window and none is left on the screen without a way to close it         *)
(* (the tests of the handles against 0 in HomeActivity.c:282 and :319,     *)
(* SocketActivity.c:296 and WeatherActivity.c:188).                        *)
Named(k, v) == {h \in Handle : kind[h] = k} = {v} \ {0}

HandlesNameWindows ==
    /\ Named("menu", hWin_StartMenu)
    /\ Named("socket", hWin_Socket) /\ Named("weather", hWin_Weather)
    /\ Named("bar", hWinBarMenu)

(* One of the two screens is shown, never both and never none, whichever   *)
(* way the user left the other (HomeActivity.c:208, EnetActivity.c:256 and *)
(* :345), and no bar menu floats over the home page, where no touch of the *)
(* bar could close it.                                                     *)
OneScreen ==
    /\ homeShown = ~enetShown
    /\ hWinBarMenu # 0 => enetShown

(* The menu that is open has the timer whose handle _cbBarMenu keeps, and  *)
(* no other window has one: the one static variable is enough for all the  *)
(* windows of the callback.  IndexBarMenu tells the open menu, -1 none     *)
(* (EnetActivity.c:222 and :333).                                          *)
MenuHasTimer ==
    /\ hWinBarMenu # 0 =>
         /\ hTimer # 0 /\ timer[hTimer] = hWinBarMenu
         /\ IndexBarMenu \in 0 .. 2
    /\ hWinBarMenu = 0 => IndexBarMenu = IF Flag_EnetActivity THEN -1 ELSE 0
    /\ \A t \in TimerId : timer[t] # 0 => t = hTimer /\ timer[t] = hWinBarMenu

(* Unless the page was deleted with PowerOff while the server ran, every   *)
(* message button is on the socket page, though the server reads the       *)
(* page's handle before it has the lock (SocketActivity.c:200).            *)
ButtonsOnPage ==
    \A h \in Handle :
        kind[h] = "msg" /\ ~strayed => on[h] # 0 /\ on[h] = hWin_Socket

(* A bar menu closes by itself, whatever the user does on the page         *)
(* meanwhile (the timer of 3 s, EnetActivity.c:222).                       *)
MenuCloses ==
    \A i \in 0 .. 2 :
        LET Open == hWinBarMenu # 0 /\ IndexBarMenu = i IN Open ~> ~Open

(* Once the finger stays away no widget stays pressed: the release is      *)
(* reported though it may come during the 15 ms a poll waits               *)
(* (emwin_support.c:183).                                                  *)
ReleaseReported == <>[](finger = Up) => <>[](pid = Up /\ captured = Up)
=============================================================================
