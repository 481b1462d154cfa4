---------------------------- MODULE PagesProofs ----------------------------
(* The safety properties of Pages, for every set of windows, timers and    *)
(* places, and with the handles of deleted windows used again in any way.  *)
EXTENDS Pages, TLAPS

USE HandleAssumption, PoolAssumption, TimerAssumption, PointsAssumption

(* Before the Enet page is created it is not shown, and before its bar is  *)
(* touched it has no menu.                                                 *)
Started ==
    /\ enetShown => Flag_EnetActivity
    /\ enetactivity_lock => hWinBarMenu = 0
    /\ ~Flag_EnetActivity => enetactivity_lock

(* While the server runs there is the page it was opened on, unless that   *)
(* was deleted, and the handle it has read is the page's.                  *)
ServerKnowsPage ==
    ~strayed =>
        /\ SocketButtonGreen = (spc # "none")
        /\ spc # "none" => hWin_Socket # 0
        /\ spc \in {"button", "blocked"} => hRead = hWin_Socket

IInv ==
    /\ TypeOK /\ HandlesNameWindows /\ OneScreen /\ MenuHasTimer /\ Started
    /\ ServerKnowsPage /\ ButtonsOnPage

-----------------------------------------------------------------------------
(* What deleting and creating windows does.                                *)

LEMMA ReplaceType ==
    ASSUME TypeOK, NEW D, NEW h \in Handle \cup {0}, NEW k \in Kinds \cup {"free"},
           NEW p \in Handle \cup {0}, k \in Kinds => h # 0, Replace(D, h, k, p)
    PROVE  /\ kind' \in [Handle -> Kinds \cup {"free"}]
           /\ on' \in [Handle -> Handle \cup {0}]
           /\ shown' \subseteq Handle /\ above' \subseteq Handle \X Handle
<1>1. kind' \in [Handle -> Kinds \cup {"free"}]
    BY DEF Replace, TypeOK
<1>2. on' \in [Handle -> Handle \cup {0}]
    BY DEF Replace, TypeOK
<1>3. shown' \subseteq Handle
    BY DEF Replace, TypeOK
<1>4. above' \subseteq Handle \X Handle
    BY DEF Replace, TypeOK, Stack, Kinds
<1> QED BY <1>1, <1>2, <1>3, <1>4

(* The windows of a kind other than a message button are those there were  *)
(* without the deleted ones, and the new one.                              *)
LEMMA ReplaceNamed ==
    ASSUME TypeOK, NEW D, NEW h \in Handle \cup {0}, NEW k, NEW p, Replace(D, h, k, p),
           NEW j \in Kinds \ {"msg"}
    PROVE  {g \in Handle : kind'[g] = j} =
               ({g \in Handle : kind[g] = j} \ (D \cup {h})) \cup
                   (IF j = k THEN {h} \ {0} ELSE {})
<1>1. j # "free" BY DEF Kinds
<1>2. ASSUME NEW g \in Handle
      PROVE  kind'[g] = j <=> IF g = h THEN j = k ELSE kind[g] = j /\ g \notin D
    BY <1>1, <1>2 DEF Replace, TypeOK, Family, Kinds
<1> QED BY <1>2

(* A message button that is there afterwards was there, on a window that   *)
(* is not one of those deleted.                                            *)
LEMMA ReplaceButtons ==
    ASSUME TypeOK, NEW D, NEW h, NEW k, k # "msg", NEW p, Replace(D, h, k, p),
           NEW g \in Handle, kind'[g] = "msg"
    PROVE  kind[g] = "msg" /\ on'[g] = on[g] /\ on[g] \notin D
BY DEF Replace, TypeOK, Family

-----------------------------------------------------------------------------
LEMMA InitIInv == Init => IInv
<1> SUFFICES ASSUME Init PROVE IInv OBVIOUS
<1>1. TypeOK
  <2>1. TouchTypeOK BY DEF Init, TouchInit, TouchTypeOK, TouchState
  <2>2. /\ kind \in [Handle -> Kinds \cup {"free"}]
        /\ on \in [Handle -> Handle \cup {0}]
        /\ timer \in [TimerId -> Handle \cup {0}]
      BY DEF Init
  <2>3. captured \in TouchState BY DEF Init, TouchState
  <2>4. /\ homeShown \in BOOLEAN /\ enetShown \in BOOLEAN /\ strayed \in BOOLEAN
        /\ Flag_EnetActivity \in BOOLEAN /\ enetactivity_lock \in BOOLEAN
        /\ SocketButtonGreen \in BOOLEAN
      BY DEF Init
  <2> QED BY <2>1, <2>2, <2>3, <2>4 DEF Init, TypeOK
<1>2. HandlesNameWindows BY DEF Init, HandlesNameWindows, Named
<1>3. OneScreen /\ MenuHasTimer /\ Started
    BY DEF Init, OneScreen, MenuHasTimer, Started
<1>4. ServerKnowsPage /\ ButtonsOnPage BY DEF Init, ServerKnowsPage, ButtonsOnPage
<1> QED BY <1>1, <1>2, <1>3, <1>4 DEF IInv

-----------------------------------------------------------------------------
(* Type correctness.                                                       *)

WindowsOK ==
    /\ kind \in [Handle -> Kinds \cup {"free"}]
    /\ on \in [Handle -> Handle \cup {0}]
    /\ shown \subseteq Handle /\ above \subseteq Handle \X Handle

LEMMA CreateType ==
    ASSUME TypeOK, NEW h \in Handle, NEW k \in Kinds, Create(h, k)
    PROVE  WindowsOK'
BY ReplaceType DEF Create, WindowsOK

LEMMA DeleteType == ASSUME TypeOK, NEW D, Delete(D) PROVE WindowsOK'
<1>1. "free" \notin Kinds BY DEF Kinds
<1> QED BY <1>1, ReplaceType DEF Delete, WindowsOK

(* A timer that is created is a timer, and owned by a window.              *)
LEMMA NewTimerType ==
    ASSUME NEW h \in Handle, NEW w \in [TimerId -> Handle \cup {0}], NewTimer(h, w)
    PROVE  /\ timer' \in [TimerId -> Handle \cup {0}] /\ hTimer' \in TimerId
           /\ w[hTimer'] = 0 /\ timer' = [w EXCEPT ![hTimer'] = h]
<1>1. hTimer' \in TimerId /\ w[hTimer'] = 0 BY DEF NewTimer
<1> QED BY <1>1 DEF NewTimer

LEMMA PoolKinds == \A k \in Kinds : Pool[k] \subseteq Handle
OBVIOUS

(* The steps of the touch task and of the user.                            *)
LEMMA UserType == ASSUME TypeOK, UserNext, UNCHANGED guiVars PROVE TypeOK'
<1>1. TouchTypeOK'
    BY DEF TypeOK, TouchTypeOK, UserNext, FingerDown, FingerUp, TouchRead, TouchStore, TouchState
<1>2. UNCHANGED <<kind, on, shown, above, hWin_StartMenu, hWin_Socket, hWin_Weather,
                  hWinBarMenu, IndexBarMenu, hTimer, timer, homeShown, enetShown,
                  Flag_EnetActivity, enetactivity_lock, SocketButtonGreen, spc, hRead,
                  strayed, captured>>
    BY DEF guiVars, windows, handles, barMenu, screen, server
<1> QED BY <1>1, <1>2 DEF TypeOK

LEMMA GuiType == ASSUME IInv, GuiNext PROVE TypeOK'
<1> USE DEF IInv
<1>0. TouchTypeOK'
  <2>1. GuiRuns BY DEF GuiNext, TimerExpires, BarOpens, ItemReleased, PressedOnly, ReleasedOnly,
                       BarQuits, GameClicked, SettingClicked, MailClicked, WeatherClicked,
                       ExitReleased, PowerOffReleased, OpenClicked, UpdateReleased,
                       Clicked, Released
  <2> QED BY <2>1 DEF GuiRuns, touchVars, TypeOK, TouchTypeOK, TouchState
<1> DEFINE Captured == captured' \in TouchState
           Server == /\ SocketButtonGreen' \in BOOLEAN /\ strayed' \in BOOLEAN
                     /\ spc' \in {"none", "accept", "button", "blocked"}
                     /\ hRead' \in Handle \cup {0}
           Screen == /\ homeShown' \in BOOLEAN /\ enetShown' \in BOOLEAN
                     /\ Flag_EnetActivity' \in BOOLEAN /\ enetactivity_lock' \in BOOLEAN
           Handles == /\ hWin_StartMenu' \in Handle \cup {0}
                      /\ hWin_Socket' \in Handle \cup {0}
                      /\ hWin_Weather' \in Handle \cup {0}
           BarOK == /\ hWinBarMenu' \in Handle \cup {0} /\ IndexBarMenu' \in -1 .. 2
                    /\ timer' \in [TimerId -> Handle \cup {0}]
                    /\ hTimer' \in TimerId \cup {0}
<1>1. ASSUME WindowsOK', Captured, Server, Screen, Handles, BarOK PROVE TypeOK'
    BY <1>0, <1>1 DEF TypeOK, WindowsOK
<1>2. Captured
    BY DEF GuiNext, TimerExpires, BarOpens, ItemReleased, PressedOnly, ReleasedOnly,
           BarQuits, GameClicked, SettingClicked, MailClicked, WeatherClicked, ExitReleased,
           PowerOffReleased, OpenClicked, UpdateReleased, Clicked, Released, TypeOK,
           TouchTypeOK, TouchState
<1>3. ServerStays => Server BY DEF ServerStays, ServerWaits, TypeOK
<1>4. UNCHANGED screen => Screen BY DEF screen, TypeOK
<1>5. UNCHANGED handles => Handles BY DEF handles, TypeOK
<1>6. UNCHANGED barMenu => BarOK BY DEF barMenu, TypeOK
<1>7. UNCHANGED windows => WindowsOK' BY DEF windows, TypeOK, WindowsOK
<1>8. DeleteMenuWidnow => WindowsOK' /\ BarOK
  <2> SUFFICES ASSUME DeleteMenuWidnow PROVE WindowsOK' /\ BarOK OBVIOUS
  <2>1. WindowsOK' BY DeleteType DEF DeleteMenuWidnow
  <2>2. BarOK BY DEF DeleteMenuWidnow, DeleteMenuVars, TimersWithout, TypeOK
  <2> QED BY <2>1, <2>2
<1>11. ASSUME NEW t \in TimerId, TimerExpires(t) PROVE TypeOK'
  <2>1. Server /\ Screen /\ Handles BY <1>11, <1>3, <1>4, <1>5 DEF TimerExpires
  <2>2. WindowsOK' BY <1>11, <1>7, DeleteType DEF TimerExpires, windows
  <2>3. hWinBarMenu' \in Handle \cup {0} /\ IndexBarMenu' \in -1 .. 2
      BY <1>11 DEF TimerExpires, DeleteMenuVars, TypeOK
  <2>4. timer' \in [TimerId -> Handle \cup {0}] /\ hTimer' \in TimerId \cup {0}
      BY <1>11 DEF TimerExpires, TypeOK
  <2> QED BY <1>1, <1>2, <2>1, <2>2, <2>3, <2>4
<1>12. ASSUME NEW q, BarOpens(q) PROVE TypeOK'
  <2>1. Server /\ Handles BY <1>12, <1>3, <1>5 DEF BarOpens
  <2>2. Screen BY <1>12 DEF BarOpens, TypeOK
  <2>3. CASE IndexBarMenu = Bar[q] BY <1>1, <1>2, <1>6, <1>7, <1>12, <2>1, <2>2, <2>3 DEF BarOpens
  <2>4. CASE IndexBarMenu # Bar[q]
    <3>1. PICK h \in Pool["bar"] :
            /\ Replace(Menu, h, "bar", 0)
            /\ hWinBarMenu' = h /\ IndexBarMenu' = Bar[q]
            /\ NewTimer(h, TimersWithout(Menu))
        BY <1>12, <2>4 DEF BarOpens
    <3>2. h \in Handle BY DEF Kinds
    <3>3. WindowsOK' BY <3>1, <3>2, ReplaceType DEF WindowsOK, Kinds
    <3>4. IndexBarMenu' \in -1 .. 2 BY <1>12, <3>1 DEF BarOpens, Bar
    <3>5. TimersWithout(Menu) \in [TimerId -> Handle \cup {0}] BY DEF TimersWithout, TypeOK
    <3>6. BarOK BY <3>1, <3>2, <3>4, <3>5, NewTimerType
    <3> QED BY <1>1, <1>2, <2>1, <2>2, <3>3, <3>6
  <2> QED BY <2>3, <2>4
<1>13. ASSUME NEW q, ItemReleased(q) PROVE TypeOK'
  <2>1. Server /\ Handles BY <1>13, <1>3, <1>5 DEF ItemReleased
  <2>2. Screen BY <1>13 DEF ItemReleased, TypeOK
  <2> QED BY <1>1, <1>2, <1>8, <1>13, <2>1, <2>2 DEF ItemReleased
<1>14. ASSUME NEW q, PressedOnly(q) \/ ReleasedOnly(q) PROVE TypeOK'
    BY <1>1, <1>2, <1>3, <1>4, <1>5, <1>6, <1>7, <1>14 DEF PressedOnly, ReleasedOnly
<1>15. CASE UpdateReleased
    BY <1>1, <1>2, <1>3, <1>4, <1>5, <1>6, <1>7, <1>15 DEF UpdateReleased
<1>16. CASE BarQuits
  <2>1. Screen BY <1>16 DEF BarQuits, TypeOK
  <2> QED BY <1>1, <1>2, <1>3, <1>5, <1>8, <1>16, <2>1 DEF BarQuits
<1>17. CASE GameClicked
  <2>1. Screen BY <1>17 DEF GameClicked, TypeOK
  <2>2. WindowsOK' /\ BarOK
    <3>1. CASE Flag_EnetActivity BY <1>6, <1>7, <1>17, <3>1 DEF GameClicked
    <3>2. CASE ~Flag_EnetActivity
      <4>1. PICK h \in Pool["extra"] :
              /\ Create(h, "extra") /\ IndexBarMenu' = -1
              /\ StartTimer(h, timer) /\ UNCHANGED hWinBarMenu
          BY <1>17, <3>2 DEF GameClicked
      <4>2. WindowsOK' BY <4>1, CreateType DEF Kinds
      <4>3. UNCHANGED <<timer, hTimer>>
          BY <3>2, <4>1 DEF StartTimer, enetactivity_judge, Started
      <4> QED BY <4>1, <4>2, <4>3 DEF TypeOK
    <3> QED BY <3>1, <3>2
  <2> QED BY <1>1, <1>2, <1>3, <1>5, <1>17, <2>1, <2>2 DEF GameClicked
<1>18. CASE SettingClicked
  <2>1. WindowsOK' BY <1>18, CreateType, DeleteType, PoolKinds DEF SettingClicked, Kinds
  <2>2. Handles BY <1>18, PoolKinds DEF SettingClicked, Kinds, TypeOK
  <2> QED BY <1>1, <1>2, <1>3, <1>4, <1>6, <1>18, <2>1, <2>2 DEF SettingClicked
<1>19. CASE MailClicked
  <2>1. WindowsOK' BY <1>19, CreateType, PoolKinds DEF MailClicked, Kinds, WindowsOK, TypeOK
  <2>2. Handles BY <1>19, PoolKinds DEF MailClicked, Kinds, TypeOK
  <2> QED BY <1>1, <1>2, <1>3, <1>4, <1>6, <1>19, <2>1, <2>2 DEF MailClicked
<1>20. CASE WeatherClicked
  <2>1. WindowsOK' BY <1>20, CreateType, PoolKinds DEF WeatherClicked, Kinds, WindowsOK, TypeOK
  <2>2. Handles BY <1>20, PoolKinds DEF WeatherClicked, Kinds, TypeOK
  <2> QED BY <1>1, <1>2, <1>3, <1>4, <1>6, <1>20, <2>1, <2>2 DEF WeatherClicked
<1>21. CASE ExitReleased
  <2>1. WindowsOK' BY <1>21 DEF ExitReleased, WindowsOK, TypeOK
  <2>2. Handles BY <1>21 DEF ExitReleased, TypeOK
  <2> QED BY <1>1, <1>2, <1>3, <1>4, <1>6, <1>21, <2>1, <2>2 DEF ExitReleased
<1>22. CASE PowerOffReleased
  <2>1. WindowsOK' BY <1>22, DeleteType DEF PowerOffReleased
  <2>2. Handles BY <1>22 DEF PowerOffReleased
  <2>3. Server BY <1>22 DEF PowerOffReleased, ServerWaits, TypeOK
  <2> QED BY <1>1, <1>2, <1>4, <1>6, <1>22, <2>1, <2>2, <2>3 DEF PowerOffReleased
<1>23. CASE OpenClicked
  <2>1. Server BY <1>23 DEF OpenClicked, TypeOK
  <2> QED BY <1>1, <1>2, <1>4, <1>5, <1>6, <1>7, <1>23, <2>1 DEF OpenClicked
<1> QED
    BY <1>11, <1>12, <1>13, <1>14, <1>15, <1>16, <1>17, <1>18, <1>19, <1>20, <1>21, <1>22,
       <1>23 DEF GuiNext

LEMMA ServerType == ASSUME IInv, ServerNext PROVE TypeOK'
<1> USE DEF IInv
<1>1. TouchTypeOK'
    BY DEF ServerNext, ServerReads, ServerCreates, touchVars, TypeOK, TouchTypeOK, TouchState
<1>2. CASE ServerReads
  <2>1. WindowsOK' BY <1>2 DEF ServerReads, windows, TypeOK, WindowsOK
  <2> QED BY <1>1, <1>2, <2>1 DEF ServerReads, handles, barMenu, screen, TypeOK, WindowsOK
<1>3. CASE ServerCreates
  <2>1. WindowsOK'
    <3>1. CASE UNCHANGED windows BY <3>1 DEF windows, TypeOK, WindowsOK
    <3>2. ASSUME NEW h \in Pool["msg"], Replace({}, h, "msg", hRead) PROVE WindowsOK'
        BY <3>2, ReplaceType, PoolKinds DEF Kinds, WindowsOK, TypeOK
    <3> QED BY <1>3, <3>1, <3>2 DEF ServerCreates
  <2> QED BY <1>1, <1>3, <2>1 DEF ServerCreates, handles, barMenu, screen, TypeOK, WindowsOK
<1> QED BY <1>2, <1>3 DEF ServerNext

-----------------------------------------------------------------------------
(* The handles.                                                            *)

LEMMA UserFrame ==
    ASSUME UNCHANGED guiVars
    PROVE  UNCHANGED <<kind, on, shown, above, hWin_StartMenu, hWin_Socket, hWin_Weather,
                       hWinBarMenu, IndexBarMenu, hTimer, timer, homeShown, enetShown,
                       Flag_EnetActivity, enetactivity_lock, SocketButtonGreen, spc, hRead,
                       strayed, captured>>
BY DEF guiVars, windows, handles, barMenu, screen, server

(* A free handle is the value of no variable.                              *)
LEMMA FreeHandle ==
    ASSUME TypeOK, HandlesNameWindows, NEW h \in Handle, Free(h)
    PROVE  h \notin {hWin_StartMenu, hWin_Socket, hWin_Weather, hWinBarMenu}
BY DEF TypeOK, HandlesNameWindows, Named, Free

(* The windows of two kinds are different ones.                            *)
LEMMA HandlesDiffer ==
    ASSUME TypeOK, HandlesNameWindows
    PROVE  /\ hWin_StartMenu # 0 => hWin_StartMenu \notin {hWin_Socket, hWin_Weather, hWinBarMenu}
           /\ hWin_Socket # 0 => hWin_Socket \notin {hWin_Weather, hWinBarMenu}
           /\ hWin_Weather # 0 => hWin_Weather # hWinBarMenu
BY DEF TypeOK, HandlesNameWindows, Named

(* The windows of a kind after windows were deleted and created, in terms  *)
(* of the variable that named the one there was.                           *)
Left(v, D, h, k, j) == (({v} \ {0}) \ (D \cup {h})) \cup (IF j = k THEN {h} \ {0} ELSE {})
Now(j) == {g \in Handle : kind[g] = j}

LEMMA NamesAfter ==
    ASSUME TypeOK, HandlesNameWindows, NEW D, NEW h \in Handle \cup {0}, NEW k, NEW p,
           Replace(D, h, k, p)
    PROVE  /\ Now("menu")' = Left(hWin_StartMenu, D, h, k, "menu")
           /\ Now("socket")' = Left(hWin_Socket, D, h, k, "socket")
           /\ Now("weather")' = Left(hWin_Weather, D, h, k, "weather")
           /\ Now("bar")' = Left(hWinBarMenu, D, h, k, "bar")
<1>1. ASSUME NEW j \in {"menu", "socket", "weather", "bar"}, NEW v, Now(j) = {v} \ {0}
      PROVE  Now(j)' = Left(v, D, h, k, j)
  <2>1. j \in Kinds \ {"msg"} BY DEF Kinds
  <2>2. Now(j)' = (Now(j) \ (D \cup {h})) \cup (IF j = k THEN {h} \ {0} ELSE {})
      BY <2>1, ReplaceNamed DEF Now
  <2> QED BY <1>1, <2>2 DEF Left
<1>2. /\ Now("menu") = {hWin_StartMenu} \ {0} /\ Now("socket") = {hWin_Socket} \ {0}
      /\ Now("weather") = {hWin_Weather} \ {0} /\ Now("bar") = {hWinBarMenu} \ {0}
    BY DEF HandlesNameWindows, Named, Now
<1> QED BY <1>1, <1>2

LEMMA NamesFrom ==
    ASSUME TypeOK, HandlesNameWindows, NEW D, NEW h \in Handle \cup {0}, NEW k, NEW p,
           Replace(D, h, k, p),
           Left(hWin_StartMenu, D, h, k, "menu") = {hWin_StartMenu'} \ {0},
           Left(hWin_Socket, D, h, k, "socket") = {hWin_Socket'} \ {0},
           Left(hWin_Weather, D, h, k, "weather") = {hWin_Weather'} \ {0},
           Left(hWinBarMenu, D, h, k, "bar") = {hWinBarMenu'} \ {0}
    PROVE  HandlesNameWindows'
<1>1. Named("menu", hWin_StartMenu)' BY NamesAfter DEF Named, Now
<1>2. Named("socket", hWin_Socket)' BY NamesAfter DEF Named, Now
<1>3. Named("weather", hWin_Weather)' BY NamesAfter DEF Named, Now
<1>4. Named("bar", hWinBarMenu)' BY NamesAfter DEF Named, Now
<1> QED BY <1>1, <1>2, <1>3, <1>4 DEF HandlesNameWindows

(* A variable that keeps its value.                                        *)
LEMMA LeftSame ==
    ASSUME NEW v, NEW D, NEW h, NEW k, NEW j, v # 0 => v \notin D \cup {h}, j # k
    PROVE  Left(v, D, h, k, j) = {v} \ {0}
BY DEF Left

LEMMA LeftNone ==
    ASSUME NEW v, NEW D, NEW h, NEW k, NEW j, v # 0 => v \in D, j # k
    PROVE  Left(v, D, h, k, j) = {0} \ {0}
BY DEF Left

LEMMA LeftNew ==
    ASSUME NEW v, NEW D, NEW h, NEW k, v # 0 => v \in D
    PROVE  Left(v, D, h, k, k) = {h} \ {0}
BY DEF Left

LEMMA NamesStep == ASSUME IInv, Next PROVE HandlesNameWindows'
<1> USE DEF IInv
<1>1. ASSUME UNCHANGED <<windows, handles, hWinBarMenu>> PROVE HandlesNameWindows'
    BY <1>1 DEF windows, handles, HandlesNameWindows, Named
<1>2. ASSUME Delete(Menu), DeleteMenuVars, UNCHANGED handles PROVE HandlesNameWindows'
    BY <1>2, LeftSame, LeftNone, LeftNew, NamesFrom, HandlesDiffer
       DEF Delete, Menu, DeleteMenuVars, handles
<1>3. CASE UserNext /\ UNCHANGED guiVars
    BY <1>3, UserFrame, <1>1 DEF windows, handles
<1>4. CASE ServerReads BY <1>1, <1>4 DEF ServerReads, barMenu
<1>5. CASE ServerCreates
  <2>1. UNCHANGED handles /\ UNCHANGED hWinBarMenu BY <1>5 DEF ServerCreates, barMenu
  <2>2. ASSUME NEW h \in Pool["msg"], Free(h), Replace({}, h, "msg", hRead)
        PROVE  HandlesNameWindows'
    <3>1. h \in Handle BY PoolKinds DEF Kinds
    <3>2. h \notin {hWin_StartMenu, hWin_Socket, hWin_Weather, hWinBarMenu}
        BY <2>2, <3>1, FreeHandle
    <3>3. /\ Left(hWin_StartMenu, {}, h, "msg", "menu") = {hWin_StartMenu'} \ {0}
          /\ Left(hWin_Socket, {}, h, "msg", "socket") = {hWin_Socket'} \ {0}
          /\ Left(hWin_Weather, {}, h, "msg", "weather") = {hWin_Weather'} \ {0}
          /\ Left(hWinBarMenu, {}, h, "msg", "bar") = {hWinBarMenu'} \ {0}
        BY <2>1, <3>2, LeftSame DEF handles
    <3> QED BY <2>2, <3>1, <3>3, NamesFrom
  <2> QED BY <1>1, <1>5, <2>1, <2>2 DEF ServerCreates
<1>6. ASSUME NEW t \in TimerId, TimerExpires(t) PROVE HandlesNameWindows'
    BY <1>1, <1>2, <1>6 DEF TimerExpires
<1>7. ASSUME NEW q, BarOpens(q) PROVE HandlesNameWindows'
  <2>1. CASE IndexBarMenu = Bar[q] BY <1>1, <1>7, <2>1 DEF BarOpens, barMenu
  <2>2. CASE IndexBarMenu # Bar[q]
    <3>1. PICK h \in Pool["bar"] :
            /\ Free(h) \/ h \in Menu
            /\ Replace(Menu, h, "bar", 0)
            /\ hWinBarMenu' = h
        BY <1>7, <2>2 DEF BarOpens
    <3>2. h \in Handle /\ h # 0 BY PoolKinds DEF Kinds
    <3>3. h \notin {hWin_StartMenu, hWin_Socket, hWin_Weather}
        BY <3>1, <3>2, FreeHandle, HandlesDiffer DEF Menu
    <3>4. UNCHANGED handles BY <1>7 DEF BarOpens
    <3> QED BY <3>1, <3>2, <3>3, <3>4, HandlesDiffer, LeftSame, LeftNone, LeftNew, NamesFrom
            DEF Menu, handles
  <2> QED BY <2>1, <2>2
<1>8. ASSUME NEW q, ItemReleased(q) PROVE HandlesNameWindows'
    BY <1>2, <1>8 DEF ItemReleased, DeleteMenuWidnow
<1>9. ASSUME NEW q, PressedOnly(q) \/ ReleasedOnly(q) PROVE HandlesNameWindows'
    BY <1>1, <1>9 DEF PressedOnly, ReleasedOnly, barMenu
<1>10. CASE UpdateReleased \/ OpenClicked
    BY <1>1, <1>10 DEF UpdateReleased, OpenClicked, barMenu
<1>11. CASE BarQuits BY <1>2, <1>11 DEF BarQuits, DeleteMenuWidnow
<1>12. CASE GameClicked
  <2>1. CASE Flag_EnetActivity BY <1>1, <1>12, <2>1 DEF GameClicked, barMenu
  <2>2. CASE ~Flag_EnetActivity
    <3>1. PICK h \in Pool["extra"] : Create(h, "extra") /\ UNCHANGED hWinBarMenu
        BY <1>12, <2>2 DEF GameClicked
    <3>2. h \in Handle /\ Free(h) BY <3>1, PoolKinds DEF Create, Kinds
    <3>3. UNCHANGED handles BY <1>12 DEF GameClicked
    <3> QED BY <3>1, <3>2, <3>3, FreeHandle, LeftSame, LeftNone, LeftNew, NamesFrom DEF Create, handles
  <2> QED BY <2>1, <2>2
<1>13. CASE SettingClicked
  <2>1. UNCHANGED <<hWin_Socket, hWin_Weather, hWinBarMenu>>
      BY <1>13 DEF SettingClicked, barMenu
  <2>2. CASE hWin_StartMenu # 0
      BY <1>13, <2>1, <2>2, HandlesDiffer, LeftSame, LeftNone, LeftNew, NamesFrom DEF SettingClicked, Delete
  <2>3. ASSUME NEW h \in Pool["menu"], Create(h, "menu"), hWin_StartMenu' = h, hWin_StartMenu = 0
        PROVE  HandlesNameWindows'
    <3>1. h \in Handle /\ Free(h) BY <2>3, PoolKinds DEF Create, Kinds
    <3> QED BY <2>1, <2>3, <3>1, FreeHandle, LeftSame, LeftNone, LeftNew, NamesFrom DEF Create
  <2> QED BY <1>13, <2>2, <2>3 DEF SettingClicked
<1>14. CASE MailClicked
  <2>1. UNCHANGED <<hWin_StartMenu, hWin_Weather, hWinBarMenu>>
      BY <1>14 DEF MailClicked, barMenu
  <2>2. CASE hWin_Socket # 0
      BY <1>14, <2>1, <2>2 DEF MailClicked, HandlesNameWindows, Named
  <2>3. ASSUME NEW h \in Pool["socket"], Create(h, "socket"), hWin_Socket' = h, hWin_Socket = 0
        PROVE  HandlesNameWindows'
    <3>1. h \in Handle /\ Free(h) BY <2>3, PoolKinds DEF Create, Kinds
    <3> QED BY <2>1, <2>3, <3>1, FreeHandle, LeftSame, LeftNone, LeftNew, NamesFrom DEF Create
  <2> QED BY <1>14, <2>2, <2>3 DEF MailClicked
<1>15. CASE WeatherClicked
  <2>1. UNCHANGED <<hWin_StartMenu, hWin_Socket, hWinBarMenu>>
      BY <1>15 DEF WeatherClicked, barMenu
  <2>2. CASE hWin_Weather # 0
      BY <1>15, <2>1, <2>2 DEF WeatherClicked, HandlesNameWindows, Named
  <2>3. ASSUME NEW h \in Pool["weather"], Create(h, "weather"), hWin_Weather' = h, hWin_Weather = 0
        PROVE  HandlesNameWindows'
    <3>1. h \in Handle /\ Free(h) BY <2>3, PoolKinds DEF Create, Kinds
    <3> QED BY <2>1, <2>3, <3>1, FreeHandle, LeftSame, LeftNone, LeftNew, NamesFrom DEF Create
  <2> QED BY <1>15, <2>2, <2>3 DEF WeatherClicked
<1>16. CASE ExitReleased
  <2>1. UNCHANGED <<hWin_Socket, hWin_Weather, hWinBarMenu>> /\ hWin_StartMenu' = 0
      BY <1>16 DEF ExitReleased, barMenu
  <2>2. ASSUME NEW h \in Handle
        PROVE  kind'[h] = IF h = hWin_StartMenu THEN "free" ELSE kind[h]
      BY <1>16, <2>2 DEF ExitReleased, TypeOK
  <2> QED BY <2>1, <2>2, HandlesDiffer DEF HandlesNameWindows, Named
<1>17. CASE PowerOffReleased
  <2>1. /\ hWin_StartMenu' = 0 /\ hWin_Socket' = 0 /\ hWin_Weather' = 0
        /\ hWinBarMenu' = hWinBarMenu
      BY <1>17 DEF PowerOffReleased, barMenu
  <2> QED BY <1>17, <2>1, HandlesDiffer, LeftSame, LeftNone, LeftNew, NamesFrom DEF PowerOffReleased, Delete
<1> QED
    BY <1>3, <1>4, <1>5, <1>6, <1>7, <1>8, <1>9, <1>10, <1>11, <1>12, <1>13, <1>14, <1>15,
       <1>16, <1>17 DEF Next, GuiNext, ServerNext

-----------------------------------------------------------------------------
(* The two screens.                                                        *)

LEMMA ScreenStep == ASSUME IInv, Next PROVE OneScreen' /\ Started'
<1> USE DEF IInv
<1>1. ASSUME UNCHANGED screen, hWinBarMenu' \in {hWinBarMenu, 0} PROVE OneScreen' /\ Started'
    BY <1>1 DEF screen, OneScreen, Started
<1>2. CASE UserNext /\ UNCHANGED guiVars
    BY <1>1, <1>2, UserFrame DEF screen
<1>3. CASE ServerReads \/ ServerCreates
    BY <1>1, <1>3 DEF ServerReads, ServerCreates, barMenu
<1>4. ASSUME NEW t \in TimerId, TimerExpires(t) PROVE OneScreen' /\ Started'
    BY <1>1, <1>4 DEF TimerExpires, DeleteMenuVars
<1>5. ASSUME NEW q, BarOpens(q) PROVE OneScreen' /\ Started'
  <2>1. enetShown
      BY <1>5 DEF BarOpens, Clicked, Reachable, HomeBottomRow, Bar, Items
  <2>2. UNCHANGED <<homeShown, enetShown, Flag_EnetActivity>> /\ enetactivity_lock' = FALSE
      BY <1>5 DEF BarOpens
  <2> QED BY <2>1, <2>2 DEF OneScreen, Started
<1>6. ASSUME NEW q, ItemReleased(q) PROVE OneScreen' /\ Started'
    BY <1>6 DEF ItemReleased, DeleteMenuWidnow, DeleteMenuVars, OneScreen, Started
<1>7. ASSUME NEW q, PressedOnly(q) \/ ReleasedOnly(q) PROVE OneScreen' /\ Started'
    BY <1>1, <1>7 DEF PressedOnly, ReleasedOnly, barMenu
<1>8. CASE UpdateReleased \/ OpenClicked \/ SettingClicked \/ MailClicked \/ WeatherClicked
             \/ ExitReleased \/ PowerOffReleased
    BY <1>1, <1>8 DEF UpdateReleased, OpenClicked, SettingClicked, MailClicked,
                      WeatherClicked, ExitReleased, PowerOffReleased, barMenu
<1>9. CASE BarQuits
  <2>1. Flag_EnetActivity
      BY <1>9 DEF BarQuits, Clicked, Reachable, HomeBottomRow, Bar, Items, Started
  <2> QED BY <1>9, <2>1 DEF BarQuits, DeleteMenuWidnow, DeleteMenuVars, OneScreen, Started
<1>10. CASE GameClicked
  <2>1. hWinBarMenu' = hWinBarMenu BY <1>10 DEF GameClicked, barMenu
  <2> QED BY <1>10, <2>1 DEF GameClicked, OneScreen, Started
<1> QED
    BY <1>2, <1>3, <1>4, <1>5, <1>6, <1>7, <1>8, <1>9, <1>10 DEF Next, GuiNext, ServerNext

-----------------------------------------------------------------------------
(* The menu and its timer.                                                 *)

LEMMA MenuDeleted ==
    ASSUME IInv, DeleteMenuVars, Flag_EnetActivity, Flag_EnetActivity',
           \A t \in TimerId : timer'[t] # 0 => timer[t] # 0 /\ timer[t] \notin Menu
    PROVE  MenuHasTimer'
<1>1. \A t \in TimerId : timer'[t] = 0 BY DEF IInv, MenuHasTimer, Menu
<1>2. hWinBarMenu' = 0 /\ IndexBarMenu' = -1
    BY DEF DeleteMenuVars, IInv, MenuHasTimer
<1> QED BY <1>1, <1>2 DEF MenuHasTimer

LEMMA MenuStep == ASSUME IInv, Next PROVE MenuHasTimer'
<1> USE DEF IInv
<1>1. ASSUME UNCHANGED barMenu, UNCHANGED Flag_EnetActivity PROVE MenuHasTimer'
    BY <1>1 DEF barMenu, MenuHasTimer
<1>2. CASE UserNext /\ UNCHANGED guiVars
    BY <1>1, <1>2, UserFrame DEF barMenu
<1>3. CASE ServerNext BY <1>1, <1>3 DEF ServerNext, ServerReads, ServerCreates, screen
<1>4. ASSUME NEW q, DeleteMenuWidnow, Clicked("quit") \/ enetactivity_lock = FALSE,
             UNCHANGED Flag_EnetActivity
      PROVE  MenuHasTimer'
  <2>1. Flag_EnetActivity
      BY <1>4 DEF Clicked, Reachable, HomeBottomRow, Bar, Items, Started
  <2>2. \A t \in TimerId : timer'[t] # 0 => timer[t] # 0 /\ timer[t] \notin Menu
      BY <1>4 DEF DeleteMenuWidnow, TimersWithout
  <2> QED BY <1>4, <2>1, <2>2, MenuDeleted DEF DeleteMenuWidnow
<1>5. ASSUME NEW t \in TimerId, TimerExpires(t) PROVE MenuHasTimer'
  <2>1. timer[t] = hWinBarMenu /\ hWinBarMenu # 0 /\ Flag_EnetActivity
      BY <1>5 DEF TimerExpires, MenuHasTimer, OneScreen, Started
  <2>2. ~enetactivity_judge BY <2>1 DEF enetactivity_judge, Started
  <2>3. DeleteMenuVars /\ Flag_EnetActivity' = Flag_EnetActivity
      BY <1>5, <2>1, <2>2 DEF TimerExpires, screen
  <2>4. \A s \in TimerId : timer'[s] # 0 => timer[s] # 0 /\ timer[s] \notin Menu
      BY <1>5, <2>1, <2>2 DEF TimerExpires, MenuHasTimer, Menu
  <2> QED BY <2>1, <2>3, <2>4, MenuDeleted
<1>6. ASSUME NEW q, BarOpens(q) PROVE MenuHasTimer'
  <2>1. CASE IndexBarMenu = Bar[q] BY <1>1, <1>6, <2>1 DEF BarOpens
  <2>2. CASE IndexBarMenu # Bar[q]
    <3>1. PICK h \in Pool["bar"] :
            /\ hWinBarMenu' = h /\ IndexBarMenu' = Bar[q]
            /\ NewTimer(h, TimersWithout(Menu))
        BY <1>6, <2>2 DEF BarOpens
    <3>2. h \in Handle /\ h # 0 BY PoolKinds DEF Kinds
    <3>3. \A t \in TimerId : TimersWithout(Menu)[t] = 0
        BY DEF TimersWithout, Menu, MenuHasTimer
    <3>4. TimersWithout(Menu) \in [TimerId -> Handle \cup {0}] BY DEF TimersWithout, TypeOK
    <3>5. /\ hTimer' \in TimerId
          /\ timer' = [TimersWithout(Menu) EXCEPT ![hTimer'] = h]
        BY <3>1, <3>2, <3>4, NewTimerType
    <3>6. IndexBarMenu' \in 0 .. 2 BY <1>6, <3>1 DEF BarOpens, Bar
    <3> QED BY <3>1, <3>2, <3>3, <3>4, <3>5, <3>6 DEF MenuHasTimer
  <2> QED BY <2>1, <2>2
<1>7. ASSUME NEW q, ItemReleased(q) PROVE MenuHasTimer'
  <2>1. DeleteMenuWidnow /\ UNCHANGED Flag_EnetActivity /\ ~enetactivity_lock
      BY <1>7 DEF ItemReleased, enetactivity_judge
  <2>2. enetactivity_lock = FALSE BY <2>1 DEF TypeOK
  <2> QED BY <1>4, <2>1, <2>2
<1>8. ASSUME NEW q, PressedOnly(q) \/ ReleasedOnly(q) PROVE MenuHasTimer'
    BY <1>1, <1>8 DEF PressedOnly, ReleasedOnly, screen
<1>9. CASE UpdateReleased \/ OpenClicked \/ SettingClicked \/ MailClicked \/ WeatherClicked
             \/ ExitReleased \/ PowerOffReleased
    BY <1>1, <1>9 DEF UpdateReleased, OpenClicked, SettingClicked, MailClicked,
                      WeatherClicked, ExitReleased, PowerOffReleased, screen
<1>10. CASE BarQuits BY <1>4, <1>10 DEF BarQuits
<1>11. CASE GameClicked
  <2>1. CASE Flag_EnetActivity BY <1>1, <1>11, <2>1 DEF GameClicked
  <2>2. CASE ~Flag_EnetActivity
    <3>1. hWinBarMenu = 0 /\ enetactivity_judge BY <2>2 DEF Started, enetactivity_judge
    <3>2. /\ IndexBarMenu' = -1 /\ Flag_EnetActivity'
          /\ UNCHANGED <<timer, hTimer, hWinBarMenu>>
        BY <1>11, <2>2, <3>1 DEF GameClicked, StartTimer
    <3> QED BY <3>1, <3>2 DEF MenuHasTimer
  <2> QED BY <2>1, <2>2
<1> QED
    BY <1>2, <1>3, <1>5, <1>6, <1>7, <1>8, <1>9, <1>10, <1>11 DEF Next, GuiNext

-----------------------------------------------------------------------------
(* The message buttons.                                                    *)

(* Nothing but the buttons' windows, the page and the server matters.      *)
LEMMA ButtonsKept ==
    ASSUME IInv, NEW D, NEW h, NEW k, k # "msg", NEW p, Replace(D, h, k, p),
           UNCHANGED <<hWin_Socket, strayed>>
    PROVE  ButtonsOnPage'
BY ReplaceButtons DEF IInv, ButtonsOnPage

LEMMA ServerKept ==
    ASSUME IInv, ServerStays, UNCHANGED hWin_Socket
    PROVE  ServerKnowsPage'
BY DEF IInv, ServerStays, ServerWaits, ServerKnowsPage, TypeOK

LEMMA ButtonStep == ASSUME IInv, Next PROVE ServerKnowsPage' /\ ButtonsOnPage'
<1> USE DEF IInv
<1>1. ASSUME UNCHANGED <<windows, hWin_Socket, strayed>> PROVE ButtonsOnPage'
    BY <1>1 DEF windows, ButtonsOnPage
<1>2. ASSUME Delete(Menu), UNCHANGED <<hWin_Socket, strayed>> PROVE ButtonsOnPage'
    BY <1>2, ButtonsKept DEF Delete
<1>3. CASE UserNext /\ UNCHANGED guiVars
  <2>1. ServerKnowsPage' BY <1>3, UserFrame DEF ServerKnowsPage
  <2>2. ButtonsOnPage' BY <1>3, UserFrame DEF ButtonsOnPage
  <2> QED BY <2>1, <2>2
<1>4. CASE ServerReads
  <2>1. ServerKnowsPage' BY <1>4 DEF ServerReads, ServerKnowsPage, handles
  <2>2. ButtonsOnPage' BY <1>1, <1>4 DEF ServerReads, handles
  <2> QED BY <2>1, <2>2
<1>5. CASE ServerCreates
  <2>1. ServerKnowsPage' BY <1>5 DEF ServerCreates, ServerKnowsPage, handles
  <2>2. UNCHANGED <<hWin_Socket, strayed>> BY <1>5 DEF ServerCreates, handles
  <2>3. ASSUME NEW h \in Pool["msg"], Replace({}, h, "msg", hRead) PROVE ButtonsOnPage'
    <3>1. ASSUME NEW g \in Handle, kind'[g] = "msg", ~strayed
          PROVE  on'[g] # 0 /\ on'[g] = hWin_Socket
      <4>1. CASE g = h
        <5>1. on'[g] = hRead BY <2>3, <3>1, <4>1 DEF Replace
        <5>2. hRead = hWin_Socket /\ hWin_Socket # 0
            BY <1>5, <3>1 DEF ServerCreates, ServerKnowsPage
        <5> QED BY <5>1, <5>2
      <4>2. CASE g # h
        <5>1. kind[g] = "msg" /\ on'[g] = on[g]
            BY <2>3, <3>1, <4>2 DEF Replace, Family, TypeOK
        <5> QED BY <3>1, <5>1 DEF ButtonsOnPage
      <4> QED BY <4>1, <4>2
    <3> QED BY <2>2, <3>1 DEF ButtonsOnPage
  <2> QED BY <1>1, <1>5, <2>1, <2>2, <2>3 DEF ServerCreates
<1>6. ASSUME NEW t \in TimerId, TimerExpires(t) PROVE ServerKnowsPage' /\ ButtonsOnPage'
    BY <1>1, <1>2, <1>6, ServerKept DEF TimerExpires, handles, ServerStays
<1>7. ASSUME NEW q, BarOpens(q) PROVE ServerKnowsPage' /\ ButtonsOnPage'
  <2>1. ServerStays /\ UNCHANGED hWin_Socket /\ UNCHANGED strayed
      BY <1>7 DEF BarOpens, handles, ServerStays
  <2>2. ASSUME NEW h, Replace(Menu, h, "bar", 0) PROVE ButtonsOnPage'
      BY <2>1, <2>2, ButtonsKept
  <2> QED BY <1>1, <1>7, <2>1, <2>2, ServerKept DEF BarOpens
<1>8. ASSUME NEW q, ItemReleased(q) PROVE ServerKnowsPage' /\ ButtonsOnPage'
    BY <1>2, <1>8, ServerKept DEF ItemReleased, DeleteMenuWidnow, handles, ServerStays
<1>9. ASSUME NEW q, PressedOnly(q) \/ ReleasedOnly(q) \/ UpdateReleased
      PROVE  ServerKnowsPage' /\ ButtonsOnPage'
    BY <1>1, <1>9, ServerKept DEF PressedOnly, ReleasedOnly, UpdateReleased, handles, ServerStays
<1>10. CASE BarQuits
    BY <1>2, <1>10, ServerKept DEF BarQuits, DeleteMenuWidnow, handles, ServerStays
<1>11. CASE GameClicked
  <2>1. ServerStays /\ UNCHANGED hWin_Socket /\ UNCHANGED strayed
      BY <1>11 DEF GameClicked, handles, ServerStays
  <2>2. ASSUME NEW h, Create(h, "extra") PROVE ButtonsOnPage'
      BY <2>1, <2>2, ButtonsKept DEF Create
  <2> QED BY <1>1, <1>11, <2>1, <2>2, ServerKept DEF GameClicked
<1>12. CASE SettingClicked
  <2>1. ServerStays /\ UNCHANGED hWin_Socket /\ UNCHANGED strayed
      BY <1>12 DEF SettingClicked, ServerStays
  <2>2. ASSUME NEW h, Create(h, "menu") \/ Delete({hWin_StartMenu}) PROVE ButtonsOnPage'
      BY <2>1, <2>2, ButtonsKept DEF Create, Delete
  <2> QED BY <1>12, <2>1, <2>2, ServerKept DEF SettingClicked
<1>13. CASE WeatherClicked
  <2>1. ServerStays /\ UNCHANGED hWin_Socket /\ UNCHANGED strayed
      BY <1>13 DEF WeatherClicked, ServerStays
  <2>2. ASSUME NEW h, Create(h, "weather") PROVE ButtonsOnPage'
      BY <2>1, <2>2, ButtonsKept DEF Create
  <2>3. ASSUME UNCHANGED <<kind, on>> PROVE ButtonsOnPage'
      BY <2>1, <2>3 DEF ButtonsOnPage
  <2> QED BY <1>13, <2>1, <2>2, <2>3, ServerKept DEF WeatherClicked
<1>14. CASE MailClicked
  <2>1. ServerStays /\ UNCHANGED strayed BY <1>14 DEF MailClicked, ServerStays
  <2>2. CASE hWin_Socket # 0
    <3>1. UNCHANGED <<kind, on, hWin_Socket>> BY <1>14, <2>2 DEF MailClicked
    <3> QED BY <2>1, <3>1, ServerKept DEF ButtonsOnPage
  <2>3. CASE hWin_Socket = 0
    <3>1. PICK h \in Pool["socket"] : Create(h, "socket") /\ hWin_Socket' = h
        BY <1>14, <2>3 DEF MailClicked
    <3>2. ServerKnowsPage'
        BY <2>1, <2>3 DEF ServerKnowsPage, ServerStays, ServerWaits, TypeOK
    <3>3. ASSUME NEW g \in Handle, kind'[g] = "msg", ~strayed' PROVE FALSE
      <4>1. kind[g] = "msg" BY <3>1, <3>3, ReplaceButtons DEF Create
      <4> QED BY <2>1, <2>3, <3>3, <4>1 DEF ButtonsOnPage
    <3> QED BY <3>2, <3>3 DEF ButtonsOnPage
  <2> QED BY <2>2, <2>3
<1>15. CASE ExitReleased
  <2>1. ServerStays /\ UNCHANGED <<hWin_Socket, on>> /\ UNCHANGED strayed
      BY <1>15 DEF ExitReleased, ServerStays
  <2>2. \A g \in Handle : kind'[g] = "msg" => kind[g] = "msg"
      BY <1>15 DEF ExitReleased
  <2> QED BY <2>1, <2>2, ServerKept DEF ButtonsOnPage
<1>16. CASE PowerOffReleased
  <2>1. hWin_Socket' = 0 /\ ServerWaits /\ UNCHANGED <<SocketButtonGreen, hRead>>
      BY <1>16 DEF PowerOffReleased
  <2>2. ~strayed' => ~strayed /\ (spc = "none" \/ hWin_Socket = 0)
      BY <1>16 DEF PowerOffReleased
  <2>3. ServerKnowsPage' BY <2>1, <2>2 DEF ServerKnowsPage, ServerWaits, TypeOK
  <2>4. ASSUME NEW g \in Handle, kind'[g] = "msg", ~strayed' PROVE FALSE
    <3>1. /\ kind[g] = "msg"
          /\ on[g] \notin {hWin_StartMenu, hWin_Socket, hWin_Weather} \ {0}
        BY <1>16, <2>4, ReplaceButtons DEF PowerOffReleased, Delete
    <3> QED BY <2>2, <2>4, <3>1 DEF ButtonsOnPage
  <2> QED BY <2>3, <2>4 DEF ButtonsOnPage
<1>17. CASE OpenClicked
  <2>1. hWin_Socket # 0
    <3>1. hWin_Socket \in shown
        BY <1>17 DEF OpenClicked, Clicked, Reachable, OnTop, HomeBottomRow, Bar, Items
    <3> QED BY <3>1 DEF TypeOK
  <2>2. ServerKnowsPage' BY <1>17, <2>1 DEF OpenClicked, ServerKnowsPage, handles, TypeOK
  <2> QED BY <1>1, <1>17, <2>2 DEF OpenClicked, handles
<1> QED
    BY <1>3, <1>4, <1>5, <1>6, <1>7, <1>8, <1>9, <1>10, <1>11, <1>12, <1>13, <1>14, <1>15,
       <1>16, <1>17 DEF Next, GuiNext, ServerNext

-----------------------------------------------------------------------------
LEMMA IInvHolds == Spec => []IInv
<1>1. ASSUME IInv, Next PROVE IInv'
  <2>1. TypeOK' BY <1>1, UserType, GuiType, ServerType DEF Next, IInv
  <2> QED BY <1>1, <2>1, NamesStep, ScreenStep, MenuStep, ButtonStep DEF IInv
<1>2. ASSUME IInv, UNCHANGED vars PROVE IInv'
  <2> USE <1>2 DEF IInv, vars
  <2>1. UNCHANGED touchVars BY <1>2 DEF vars
  <2>2. TypeOK' BY <1>2, <2>1, UserFrame DEF TypeOK, TouchTypeOK, touchVars
  <2>3. HandlesNameWindows' BY <1>2, UserFrame DEF HandlesNameWindows, Named
  <2>4. OneScreen' /\ MenuHasTimer' /\ Started'
      BY <1>2, UserFrame DEF OneScreen, MenuHasTimer, Started
  <2>5. ServerKnowsPage' /\ ButtonsOnPage'
      BY <1>2, UserFrame DEF ServerKnowsPage, ButtonsOnPage
  <2> QED BY <2>2, <2>3, <2>4, <2>5
<1> QED BY InitIInv, <1>1, <1>2, PTL DEF Spec

(* Every variable of the pages, the menus, the timers and the touch task   *)
(* has a value of its type; the menu's index never is that of Exit.        *)
THEOREM TypeCorrect == Spec => []TypeOK
<1>1. IInv => TypeOK BY DEF IInv
<1> QED BY <1>1, IInvHolds, PTL

(* A handle that is not 0 names the one window of its kind.                *)
THEOREM HandlesCorrect == Spec => []HandlesNameWindows
<1>1. IInv => HandlesNameWindows BY DEF IInv
<1> QED BY <1>1, IInvHolds, PTL

(* The home page or the Enet page is shown, and a menu only over the       *)
(* latter.                                                                 *)
THEOREM OneScreenShown == Spec => []OneScreen
<1>1. IInv => OneScreen BY DEF IInv
<1> QED BY <1>1, IInvHolds, PTL

(* The one timer handle is enough for all the windows of _cbBarMenu.       *)
THEOREM MenuTimed == Spec => []MenuHasTimer
<1>1. IInv => MenuHasTimer BY DEF IInv
<1> QED BY <1>1, IInvHolds, PTL

(* A message button goes astray in no other way than with PowerOff.        *)
THEOREM ButtonsStay == Spec => []ButtonsOnPage
<1>1. IInv => ButtonsOnPage BY DEF IInv
<1> QED BY <1>1, IInvHolds, PTL

=============================================================================
