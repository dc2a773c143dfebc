-------------------------- MODULE PointerInputProofs --------------------------
(***************************************************************************)
(* Theorems about PointerInput, for any set of pages and any queue.        *)
(*                                                                         *)
(* The overlays, the coalescer and the device's finger, and the browser's  *)
(* queue have an invariant each; the second and the third rest on types.   *)
(***************************************************************************)
EXTENDS PointerInput, TLAPS

-----------------------------------------------------------------------------
(* The browser's queue is for browser sessions. *)

BrowserOnly == ~web => inbox = <<>> /\ hand = NoCommand

\* Nothing in a terminal session fills the browser's queue.
LEMMA BrowserOnlyStep == BrowserOnly /\ [Next]_vars => BrowserOnly'
<1> SUFFICES ASSUME BrowserOnly, [Next]_vars PROVE BrowserOnly'
  OBVIOUS
<1> USE DEF vars, session, coalescer, device, terminal, browser
<1>1. CASE Elapse \/ FlushTake \/ FlushLooks \/ FlushSends
  BY <1>1 DEF BrowserOnly, Elapse, FlushTake, FlushLooks, FlushSends
<1>2. CASE Key \/ QuitChord \/ Expire \/ ZellijRegrab \/ LoseRelease \/ OtherButton
  BY <1>2 DEF BrowserOnly, Key, QuitChord, Expire, ZellijRegrab, LoseRelease, OtherButton
<1>3. ASSUME NEW p \in Places,
             LeftPress(p) \/ Motion(p) \/ \E plain \in BOOLEAN : LeftRelease(p, plain)
      PROVE  BrowserOnly'
  BY <1>3 DEF BrowserOnly, LeftPress, Motion, LeftRelease
<1>4. ASSUME NEW v \in Viewers, PageLeaves(v) \/ \E c \in Commands : PagePointer(v, c.op, c.at)
      PROVE  BrowserOnly'
  BY <1>4 DEF BrowserOnly, PageLeaves, PagePointer
<1>5. CASE Apply \/ ApplySends
  BY <1>5 DEF BrowserOnly, NoCommand, Apply, ApplySends
<1>6. CASE UNCHANGED vars
  BY <1>6 DEF BrowserOnly
<1> QED
  BY <1>1, <1>2, <1>3, <1>4, <1>5, <1>6 DEF Next

-----------------------------------------------------------------------------
(* The overlays *)

\* An open overlay has the mouse, and has taken it for itself exactly in Zellij; but
\* for a user who has toggled the grab.
Sane(u) ==
  /\ u \in Overlays
  /\ ~(u.menu /\ u.kb)
  /\ u.auto => u.menu \/ u.kb
  /\ ~web /\ ~u.toggled => /\ (u.menu \/ u.kb) => u.grabbed /\ (u.auto <=> zellij)
                           /\ ~u.menu /\ ~u.kb => (u.grabbed <=> ~zellij)

\* An armed Quit was pressed last; so was the one that has ended the session.
Armed ==
  /\ quit = "no" /\ ui.arm # "none" => last = ui.arm
  /\ quit \in Controls => last = quit

OverlayInv ==
  /\ web \in BOOLEAN /\ zellij \in BOOLEAN
  /\ quit \in Controls \cup {"no", "chord"} /\ last \in Controls \cup {"other"}
  /\ Sane(ui) /\ Armed

\* The bar, Zellij's timer and the armed Quit are apart from the grab.
LEMMA SaneApart ==
  ASSUME NEW u, Sane(u), NEW b \in BOOLEAN
  PROVE  /\ Sane([u EXCEPT !.arm = "none"])
         /\ Sane([u EXCEPT !.bar = b])
         /\ Sane([u EXCEPT !.nudge = b])
  BY DEF Sane, Overlays

\* The operations on the overlays keep them in order: toggleGrab,
LEMMA ToggleGrabSane == ASSUME NEW u, Sane(u) PROVE Sane(ToggleGrab(u))
  BY DEF Sane, Overlays, ToggleGrab

\* closeMenu,
LEMMA CloseMenuSane ==
  ASSUME zellij \in BOOLEAN, NEW u, Sane(u) PROVE Sane(CloseMenu(u)) /\ ~CloseMenu(u).menu
  BY DEF Sane, Overlays, CloseMenu

\* closeKeyboard,
LEMMA CloseKeyboardSane ==
  ASSUME zellij \in BOOLEAN, NEW u, Sane(u), u.kb
  PROVE  Sane(CloseKeyboard(u)) /\ ~CloseKeyboard(u).menu /\ ~CloseKeyboard(u).kb
  BY DEF Sane, Overlays, CloseKeyboard

\* openKeyboard, which closes the menu first,
LEMMA OpenKeyboardSane ==
  ASSUME zellij \in BOOLEAN, NEW u, Sane(u), ~u.kb PROVE Sane(OpenKeyboard(u))
<1>1. Sane(CloseMenu(u)) /\ ~CloseMenu(u).menu
  BY CloseMenuSane
<1>2. ~CloseMenu(u).kb
  BY DEF CloseMenu, Sane, Overlays
<1> DEFINE w == CloseMenu(u)
<1> HIDE DEF w
<1>3. Sane(w) /\ ~w.menu /\ ~w.kb
  BY <1>1, <1>2 DEF w
<1>4. Sane(AutoGrab([w EXCEPT !.kb = TRUE, !.nudge = @ \/ zellij]))
  BY <1>3 DEF Sane, Overlays, AutoGrab
<1> QED
  BY <1>4 DEF w, OpenKeyboard

\* toggleKeyboard,
LEMMA ToggleKeyboardSane ==
  ASSUME zellij \in BOOLEAN, NEW u, Sane(u) PROVE Sane(ToggleKeyboard(u))
  BY CloseKeyboardSane, OpenKeyboardSane DEF ToggleKeyboard

\* toggleMenu, which closes the keyboard first,
LEMMA ToggleMenuSane ==
  ASSUME zellij \in BOOLEAN, NEW u, Sane(u) PROVE Sane(ToggleMenu(u))
<1>1. CASE u.menu
  BY <1>1, CloseMenuSane DEF ToggleMenu
<1>2. CASE ~u.menu
  <2> DEFINE w == IF u.kb THEN CloseKeyboard(u) ELSE u
  <2>1. Sane(w) /\ ~w.menu /\ ~w.kb
    BY <1>2, CloseKeyboardSane
  <2>2. ToggleMenu(u) = AutoGrab([w EXCEPT !.menu = TRUE])
    BY <1>2 DEF ToggleMenu
  <2> HIDE DEF w
  <2>3. Sane(AutoGrab([w EXCEPT !.menu = TRUE]))
    BY <2>1 DEF Sane, Overlays, AutoGrab
  <2> QED
    BY <2>2, <2>3
<1> QED
  BY <1>1, <1>2

\* any operation of a row or a button,
LEMMA OperationsSane ==
  ASSUME zellij \in BOOLEAN, NEW u, Sane(u), NEW w \in Operations(u) PROVE Sane(w)
  BY ToggleGrabSane, ToggleKeyboardSane DEF Operations

\* and wakeBar.
LEMMA WakeBarSane ==
  ASSUME NEW u, Sane(u) PROVE Sane(WakeBar(u)) /\ WakeBar(u).arm = u.arm
  BY DEF Sane, Overlays, WakeBar

\* A press that leaves the overlays in order keeps the invariant, whatever was armed.
LEMMA PressKeeps ==
  ASSUME OverlayInv, web' = web, zellij' = zellij, NEW u, Sane(u), Press(u)
  PROVE  OverlayInv'
  BY DEF OverlayInv, Sane, Overlays, Armed, Press, Controls

\* So does a press on a Quit.
LEMMA PressQuitKeeps ==
  ASSUME OverlayInv, web' = web, zellij' = zellij, NEW control \in Controls, PressQuit(control)
  PROVE  OverlayInv'
  BY DEF OverlayInv, Sane, Overlays, Armed, PressQuit, Controls

\* So do a row of the menu,
LEMMA RunMenuRowKeeps ==
  ASSUME OverlayInv, web' = web, zellij' = zellij, RunMenuRow
  PROVE  OverlayInv'
  BY PressQuitKeeps, PressKeeps, CloseMenuSane, OperationsSane
  DEF RunMenuRow, OverlayInv, Controls

\* a key of the keyboard,
LEMMA KeyboardActKeeps ==
  ASSUME OverlayInv, web' = web, zellij' = zellij, ui.kb, KeyboardAct
  PROVE  OverlayInv'
  BY PressQuitKeeps, PressKeeps, ToggleGrabSane, CloseKeyboardSane
  DEF KeyboardAct, OverlayInv, Controls

\* and a button of the bar.
LEMMA BarActKeeps ==
  ASSUME OverlayInv, web' = web, zellij' = zellij, BarAct
  PROVE  OverlayInv'
  BY PressQuitKeeps, PressKeeps, OperationsSane DEF BarAct, OverlayInv, Controls

\* A step that changes no more of the overlays than to wake or hide the bar, or the
\* browser's grab, keeps the invariant.
LEMMA OverlaysUntouched ==
  ASSUME OverlayInv, UNCHANGED <<web, zellij, quit, last>>,
         \/ ui' = ui \/ ui' = WakeBar(ui)
         \/ web /\ \E b \in BOOLEAN : ui' = [ui EXCEPT !.grabbed = @ \/ b]
  PROVE  OverlayInv'
  BY DEF OverlayInv, Sane, Overlays, Armed, WakeBar, Controls

\* Every step keeps what is said of the overlays.
LEMMA OverlayStep == OverlayInv /\ BrowserOnly /\ [Next]_vars => OverlayInv'
<1> SUFFICES ASSUME OverlayInv, BrowserOnly, [Next]_vars PROVE OverlayInv'
  OBVIOUS
<1> USE DEF vars, session, coalescer, device, terminal, browser
<1>1. CASE Elapse \/ FlushTake \/ FlushLooks \/ FlushSends
  BY <1>1, OverlaysUntouched DEF Elapse, FlushTake, FlushLooks, FlushSends
<1>2. CASE Key
  <2>1. web' = web /\ zellij' = zellij /\ zellij \in BOOLEAN /\ Sane(ui)
    BY <1>2 DEF Key, OverlayInv
  <2>2. ASSUME NEW u \in {ToggleGrab(ui), ToggleKeyboard(ui), CloseMenu(ui), ToggleMenu(ui), ui}
        PROVE  Sane(u)
    BY <2>1, ToggleGrabSane, ToggleKeyboardSane, CloseMenuSane, ToggleMenuSane
  <2>3. CASE ui.menu /\ RunMenuRow
    BY <2>1, <2>3, RunMenuRowKeeps
  <2>4. CASE ui.kb /\ (KeyboardAct \/ Press(CloseKeyboard(ui)))
    BY <2>1, <2>4, KeyboardActKeeps, PressKeeps, CloseKeyboardSane
  <2>5. ASSUME NEW u \in {ToggleGrab(ui), ToggleKeyboard(ui), CloseMenu(ui), ToggleMenu(ui), ui},
               Press(u)
        PROVE  OverlayInv'
    BY <2>1, <2>2, <2>5, PressKeeps
  <2> QED
    BY <1>2, <2>3, <2>4, <2>5 DEF Key
<1>3. CASE QuitChord
  BY <1>3 DEF QuitChord, OverlayInv, Sane, Overlays, Armed, Controls
<1>4. CASE Expire
  <2>1. Sane(ui') /\ web' = web /\ zellij' = zellij
    BY <1>4, SaneApart DEF Expire, OverlayInv
  <2>2. ui'.arm \in {ui.arm, "none"}
    BY <1>4 DEF Expire, OverlayInv, Sane, Overlays
  <2> QED
    BY <1>4, <2>1, <2>2 DEF Expire, OverlayInv, Sane, Armed
<1>5. CASE ZellijRegrab
  <2>1. Sane(IF ui.kb THEN AutoGrab(ui) ELSE ui)
    BY DEF AutoGrab, OverlayInv, Sane, Overlays
  <2>2. Sane(ui') /\ web' = web /\ zellij' = zellij
    BY <1>5, <2>1, SaneApart, ZenonT(40) DEF ZellijRegrab
  <2>3. ui'.arm = ui.arm
    BY <1>5 DEF ZellijRegrab, AutoGrab, OverlayInv, Sane, Overlays
  <2> QED
    BY <1>5, <2>2, <2>3 DEF ZellijRegrab, OverlayInv, Sane, Armed
<1>6. CASE LoseRelease
  BY <1>6, OverlaysUntouched DEF LoseRelease
<1>7. CASE OtherButton
  <2>1. Sane(IF ui.menu \/ ~ui.grabbed THEN ui ELSE WakeBar(ui))
    BY WakeBarSane DEF OverlayInv
  <2> QED
    BY <1>7, <2>1, PressKeeps DEF OtherButton
<1>8. ASSUME NEW p \in Places, LeftPress(p) PROVE OverlayInv'
  <2>1. web' = web /\ zellij' = zellij
    BY <1>8 DEF LeftPress
  <2>2. Sane(ui) /\ Sane(WakeBar(ui))
    BY WakeBarSane DEF OverlayInv
  <2>3. CASE Tap(p)
    BY <2>1, <2>2, <2>3, PressKeeps DEF Tap
  <2>4. ASSUME NEW plain \in BOOLEAN, Click(p, plain) PROVE OverlayInv'
    BY <2>1, <2>2, <2>4, PressKeeps, RunMenuRowKeeps, KeyboardActKeeps, BarActKeeps DEF Click
  <2> QED
    BY <1>8, <2>3, <2>4 DEF LeftPress
<1>9. ASSUME NEW p \in Places, Motion(p) PROVE OverlayInv'
  BY <1>9, OverlaysUntouched DEF Motion
<1>10. ASSUME NEW p \in Places, NEW plain \in BOOLEAN, LeftRelease(p, plain) PROVE OverlayInv'
  <2>1. UNCHANGED <<web, zellij, quit, last>> /\ (ui' = ui \/ ui' = WakeBar(ui))
    BY <1>10 DEF LeftRelease
  <2> QED
    BY <2>1, OverlaysUntouched
<1>11. ASSUME NEW v \in Viewers, NEW c \in Commands, PagePointer(v, c.op, c.at)
       PROVE  OverlayInv'
  BY <1>11, OverlaysUntouched DEF PagePointer
<1>12. ASSUME NEW v \in Viewers, PageLeaves(v) PROVE OverlayInv'
  BY <1>12, OverlaysUntouched DEF PageLeaves
<1>13. CASE Apply
  <2>1. web /\ ui' = [ui EXCEPT !.grabbed = @ \/ Head(inbox).op = "down"]
    BY <1>13 DEF Apply, BrowserOnly, OverlayInv
  <2> QED
    BY <1>13, <2>1, OverlaysUntouched DEF Apply
<1>14. CASE ApplySends
  BY <1>14, OverlaysUntouched DEF ApplySends
<1>15. CASE UNCHANGED vars
  BY <1>15, OverlaysUntouched
<1> QED
  BY <1>1, <1>2, <1>3, <1>4, <1>5, <1>6, <1>7, <1>8, <1>9, <1>10, <1>11, <1>12, <1>13, <1>14,
     <1>15 DEF Next

\* The overlays start in order, in Zellij and out of it.
LEMMA OverlayInit == Init => OverlayInv /\ BrowserOnly
<1> SUFFICES ASSUME Init PROVE OverlayInv /\ BrowserOnly
  OBVIOUS
<1>1. web \in BOOLEAN /\ zellij \in BOOLEAN
  BY DEF Init
<1>2. Sane(ui)
  BY <1>1 DEF Init, Sane, Overlays, Controls
<1> QED
  BY <1>1, <1>2 DEF Init, OverlayInv, BrowserOnly, Armed, Controls

\* The overlays are in order for ever.
THEOREM OverlaysInvariant == Spec => [](OverlayInv /\ BrowserOnly)
<1>1. OverlayInv /\ BrowserOnly /\ [Next]_vars => (OverlayInv /\ BrowserOnly)'
  BY OverlayStep, BrowserOnlyStep
<1> QED
  BY <1>1, OverlayInit, PTL DEF Spec

\* The menu and the keyboard are never open together, and leave the mouse as they
\* found it, however they are opened, closed and replaced.
THEOREM OverlaysRestoreGrabCorrect == Spec => []OverlaysRestoreGrab
<1>1. OverlayInv => OverlaysRestoreGrab
  BY DEF OverlayInv, Sane, Overlays, OverlaysRestoreGrab
<1> QED
  BY <1>1, OverlaysInvariant, PTL

\* An overlay's Quit ends the session only if the press before was on the same Quit.
THEOREM QuitTwiceCorrect == Spec => QuitTwice
<1>1. OverlayInv /\ BrowserOnly /\ OverlayInv' /\ [Next]_vars
        => [quit' \in Controls => last = quit']_vars
  <2> SUFFICES ASSUME OverlayInv, BrowserOnly, Next, quit' \in Controls PROVE last = quit'
    BY DEF vars, session, coalescer, device, terminal, browser
  <2>1. CASE quit' = quit
    BY <2>1 DEF OverlayInv, Armed
  <2>2. CASE quit' # quit
    <3>1. quit = "no" /\ \E control \in Controls : PressQuit(control)
      <4> USE <2>2 DEF Next, session, coalescer, device, terminal, browser, Press, Controls, Loop
      <4>1. CASE Key
        BY <4>1 DEF Key, RunMenuRow, KeyboardAct
      <4>2. ASSUME NEW p \in Places, LeftPress(p)
            PROVE  quit = "no" /\ \E control \in Controls : PressQuit(control)
        BY <4>2 DEF LeftPress, Tap, Click, RunMenuRow, KeyboardAct, BarAct
      <4>3. quit' = quit \/ Key \/ \E p \in Places : LeftPress(p)
        BY DEF Elapse, FlushTake, FlushLooks, FlushSends, QuitChord, Expire, ZellijRegrab,
           LoseRelease, OtherButton, Motion, LeftRelease, PagePointer, PageLeaves, Apply, ApplySends
      <4> QED
        BY <4>1, <4>2, <4>3
    <3>2. PICK control \in Controls : PressQuit(control)
      BY <3>1
    <3> QED
      BY <3>1, <3>2 DEF PressQuit, OverlayInv, Armed, Controls
  <2> QED
    BY <2>1, <2>2
<1> QED
  BY <1>1, OverlaysInvariant, PTL DEF Spec, QuitTwice

\* Both together: nothing an overlay took over is forgotten.
THEOREM OverlaysKeepTrackCorrect == Spec => OverlaysKeepTrack
BY OverlaysRestoreGrabCorrect, QuitTwiceCorrect DEF OverlaysKeepTrack

-----------------------------------------------------------------------------
(* The types of the rest *)

DragTypes ==
  /\ drag \in [down : BOOLEAN, due : BOOLEAN, pending : Places \cup {None},
               last : Places \cup {None}]
  /\ flush \in {"idle", "taken", "down"} /\ moving \in Places \cup {None}
  /\ (flush = "idle") <=> (moving = None)
  /\ finger \in Places \cup {None} /\ want \in Places \cup {None}
  /\ stray \subseteq {"down", "move"}

CommandTypes ==
  /\ inbox \in Seq(Commands) /\ Len(inbox) <= MaxQueue
  /\ hand \in Commands \cup {NoCommand}
  /\ held \subseteq Viewers \cup {"mouse"} /\ lost \in BOOLEAN

\* What the coalescer's operations return.
LEMMA CoalescerTypes ==
  ASSUME DragTypes
  PROVE  /\ \A v \in BOOLEAN : SetDown(drag, v) \in [down : {v}, due : BOOLEAN,
                                 pending : Places \cup {None}, last : Places \cup {None}]
         /\ Lifted \in [down : {FALSE}, due : BOOLEAN, pending : Places \cup {None},
                        last : Places \cup {None}]
         /\ \A p \in Places : Queue(drag, p) \in [down : {drag.down}, due : BOOLEAN,
                                pending : {p, None}, last : {drag.last}]
  BY DEF DragTypes, SetDown, Lifted, Queue

\* Every step keeps the types of the coalescer and of the finger,
LEMMA DragTypesStep == DragTypes /\ CommandTypes /\ [Next]_vars => DragTypes'
<1> SUFFICES ASSUME DragTypes, CommandTypes, [Next]_vars PROVE DragTypes'
  OBVIOUS
<1> USE NoneIsNoPlace DEF vars, session, coalescer, device, terminal, browser
<1>1. CASE Elapse \/ FlushTake \/ FlushLooks
  BY <1>1 DEF DragTypes, Elapse, FlushTake, FlushLooks
<1>2. CASE FlushSends
  BY <1>2 DEF DragTypes, FlushSends, DeviceMove
<1>3. CASE Key \/ QuitChord \/ Expire \/ ZellijRegrab \/ LoseRelease \/ OtherButton
  BY <1>3 DEF DragTypes, Key, QuitChord, Expire, ZellijRegrab, LoseRelease, OtherButton
<1>4. ASSUME NEW p \in Places, LeftPress(p) PROVE DragTypes'
  <2>1. CASE Tap(p)
    BY <1>4, <2>1, CoalescerTypes DEF DragTypes, LeftPress, Tap, SetDown
  <2>2. ASSUME NEW plain \in BOOLEAN, Click(p, plain) PROVE DragTypes'
    BY <1>4, <2>2, CoalescerTypes DEF DragTypes, LeftPress, Click
  <2> QED
    BY <1>4, <2>1, <2>2 DEF LeftPress
<1>5. ASSUME NEW p \in Places, Motion(p) PROVE DragTypes'
  <2>1. CASE drag.down
    <3>1. drag' = [Queue(drag, p) EXCEPT !.last = IF drag.due THEN p ELSE @] /\ want' = p
      BY <1>5, <2>1 DEF Motion
    <3>2. finger' \in Places \cup {None} /\ stray' \subseteq {"down", "move"}
      BY <1>5, <2>1 DEF DragTypes, Motion, DeviceMove
    <3>3. drag' \in [down : BOOLEAN, due : BOOLEAN, pending : Places \cup {None},
                    last : Places \cup {None}]
      BY <3>1 DEF DragTypes, Queue
    <3> QED
      BY <1>5, <3>1, <3>2, <3>3 DEF DragTypes, Motion
  <2>2. CASE ~drag.down
    BY <1>5, <2>2 DEF DragTypes, Motion
  <2> QED
    BY <2>1, <2>2
<1>6. ASSUME NEW p \in Places, NEW plain \in BOOLEAN, LeftRelease(p, plain) PROVE DragTypes'
  BY <1>6, CoalescerTypes DEF DragTypes, LeftRelease, DeviceUp
<1>7. ASSUME NEW v \in Viewers, PageLeaves(v) \/ \E c \in Commands : PagePointer(v, c.op, c.at)
      PROVE  DragTypes'
  BY <1>7 DEF DragTypes, PageLeaves, PagePointer
<1>8. CASE Apply
  <2>1. Head(inbox) \in Commands
    BY <1>8 DEF Apply, CommandTypes
  <2>2. drag' \in {drag, SetDown(drag, TRUE), SetDown(drag, FALSE), Queue(drag, Head(inbox).at)}
    BY <1>8 DEF Apply
  <2> QED
    BY <1>8, <2>1, <2>2, CoalescerTypes DEF DragTypes, Apply, Commands
<1>9. CASE ApplySends
  <2>1. hand \in Commands
    BY <1>9 DEF ApplySends, CommandTypes, NoCommand
  <2> QED
    BY <1>9, <2>1 DEF DragTypes, ApplySends, Commands, DeviceDown, DeviceMove, DeviceUp
<1>10. CASE UNCHANGED vars
  BY <1>10 DEF DragTypes
<1> QED
  BY <1>1, <1>2, <1>3, <1>4, <1>5, <1>6, <1>7, <1>8, <1>9, <1>10 DEF Next

\* and of the browser's commands.
LEMMA CommandTypesStep == DragTypes /\ CommandTypes /\ [Next]_vars => CommandTypes'
<1> SUFFICES ASSUME DragTypes, CommandTypes, [Next]_vars PROVE CommandTypes'
  OBVIOUS
<1> USE MaxQueuePositive DEF vars, session, coalescer, device, terminal, browser
<1>1. CASE Elapse \/ FlushTake \/ FlushLooks \/ FlushSends
  BY <1>1 DEF CommandTypes, Elapse, FlushTake, FlushLooks, FlushSends
<1>2. CASE Key \/ QuitChord \/ Expire \/ ZellijRegrab \/ OtherButton
  BY <1>2 DEF CommandTypes, Key, QuitChord, Expire, ZellijRegrab, OtherButton
<1>3. ASSUME NEW p \in Places, LeftPress(p) \/ Motion(p) PROVE CommandTypes'
  BY <1>3 DEF CommandTypes, LeftPress, Motion
<1>4. CASE LoseRelease \/ \E p \in Places, plain \in BOOLEAN : LeftRelease(p, plain)
  BY <1>4 DEF DragTypes, CommandTypes, LoseRelease, LeftRelease
<1>5. ASSUME NEW v \in Viewers, NEW c \in Commands, PagePointer(v, c.op, c.at) PROVE CommandTypes'
  <2>1. [op |-> c.op, at |-> c.at] \in Commands
    BY DEF Commands
  <2>2. inbox' \in Seq(Commands) /\ Len(inbox') <= MaxQueue
    BY <1>5, <2>1 DEF CommandTypes, PagePointer, Dispatch
  <2>3. held' \subseteq Viewers \cup {"mouse"}
    BY <1>5 DEF CommandTypes, PagePointer, Commands
  <2> QED
    BY <1>5, <2>2, <2>3 DEF CommandTypes, PagePointer
<1>6. ASSUME NEW v \in Viewers, PageLeaves(v) PROVE CommandTypes'
  BY <1>6 DEF CommandTypes, PageLeaves
<1>7. CASE Apply
  <2>1. Head(inbox) \in Commands /\ Tail(inbox) \in Seq(Commands)
        /\ Len(Tail(inbox)) <= MaxQueue
    BY <1>7 DEF Apply, CommandTypes
  <2>2. hand' \in {Head(inbox), NoCommand}
    BY <1>7 DEF Apply
  <2> QED
    BY <1>7, <2>1, <2>2 DEF Apply, CommandTypes
<1>8. CASE ApplySends
  BY <1>8 DEF ApplySends, CommandTypes
<1>9. CASE UNCHANGED vars
  BY <1>9 DEF CommandTypes
<1> QED
  BY <1>1, <1>2, <1>3, <1>4, <1>5, <1>6, <1>7, <1>8, <1>9 DEF Next

TypeInv == OverlayInv /\ BrowserOnly /\ DragTypes /\ CommandTypes

\* The overlays are in order and the types hold.
THEOREM TypesInvariant == Spec => []TypeInv
<1>1. Init => TypeInv
  <2> SUFFICES ASSUME Init PROVE TypeInv
    OBVIOUS
  <2>1. DragTypes
    BY DEF Init, DragTypes
  <2>2. CommandTypes
    <3>1. inbox \in Seq(Commands) /\ Len(inbox) <= MaxQueue
      BY MaxQueuePositive DEF Init
    <3> QED
      BY <3>1 DEF Init, CommandTypes
  <2> QED
    BY <2>1, <2>2, OverlayInit DEF TypeInv
<1>2. TypeInv /\ [Next]_vars => TypeInv'
  BY OverlayStep, BrowserOnlyStep, DragTypesStep, CommandTypesStep DEF TypeInv
<1> QED
  BY <1>1, <1>2, PTL DEF Spec

\* The types hold for any pages and any room in the queue.
THEOREM TypeCorrect == Spec => []TypeOK
<1>1. TypeInv => TypeOK
  BY DEF TypeInv, OverlayInv, Sane, DragTypes, CommandTypes, TypeOK
<1> QED
  BY <1>1, TypesInvariant, PTL

-----------------------------------------------------------------------------
(* The gestures *)

\* What run loop and coalescer know of the finger.  In the terminal nothing comes
\* between flushPendingMove's look and its message.
GestureInv ==
  /\ drag.pending # None => drag.down
  /\ ~web => /\ drag.pending \in {None, want}
             /\ stray = {}
             /\ drag.down <=> finger # None
             /\ drag.down => drag.last = finger
             /\ flush # "idle" => drag.down

\* Every step keeps what is said of the finger.
LEMMA GestureStep == TypeInv /\ GestureInv /\ [Next]_vars => GestureInv'
<1> SUFFICES ASSUME TypeInv, GestureInv, [Next]_vars PROVE GestureInv'
  OBVIOUS
<1>t. DragTypes /\ CommandTypes /\ BrowserOnly
  BY DEF TypeInv
<1> USE NoneIsNoPlace DEF vars, session, coalescer, device, terminal, browser
<1>1. CASE Elapse \/ FlushTake \/ FlushLooks
  BY <1>1, <1>t DEF GestureInv, DragTypes, Elapse, FlushTake, FlushLooks
<1>2. CASE FlushSends
  BY <1>2, <1>t DEF GestureInv, DragTypes, FlushSends, DeviceMove
<1>3. CASE Key \/ QuitChord \/ Expire \/ ZellijRegrab \/ LoseRelease \/ OtherButton
  BY <1>3 DEF GestureInv, Key, QuitChord, Expire, ZellijRegrab, LoseRelease, OtherButton
<1>4. ASSUME NEW p \in Places, LeftPress(p) PROVE GestureInv'
  <2>1. CASE Tap(p)
    BY <1>4, <1>t, <2>1 DEF GestureInv, DragTypes, LeftPress, Loop, Tap, Lifted, SetDown
  <2>2. ASSUME NEW plain \in BOOLEAN, Click(p, plain) PROVE GestureInv'
    BY <1>4, <1>t, <2>2 DEF GestureInv, DragTypes, LeftPress, Loop, Click, Lifted, SetDown
  <2> QED
    BY <1>4, <2>1, <2>2 DEF LeftPress
<1>5. ASSUME NEW p \in Places, Motion(p) PROVE GestureInv'
  BY <1>5, <1>t DEF GestureInv, DragTypes, Motion, Loop, Queue, DeviceMove
<1>6. ASSUME NEW p \in Places, NEW plain \in BOOLEAN, LeftRelease(p, plain) PROVE GestureInv'
  BY <1>6, <1>t DEF GestureInv, DragTypes, LeftRelease, Loop, SetDown, DeviceUp
<1>7. ASSUME NEW v \in Viewers, PageLeaves(v) \/ \E c \in Commands : PagePointer(v, c.op, c.at)
      PROVE  GestureInv'
  BY <1>7 DEF GestureInv, PageLeaves, PagePointer
<1>8. CASE Apply
  <2>1. web' = web /\ web
    BY <1>8, <1>t DEF Apply, BrowserOnly
  <2>2. Head(inbox) \in Commands
    BY <1>8, <1>t DEF Apply, CommandTypes
  <2> QED
    BY <1>8, <1>t, <2>1, <2>2 DEF GestureInv, DragTypes, Apply, Commands, SetDown, Queue
<1>9. CASE ApplySends
  <2>1. web' = web /\ web
    BY <1>9, <1>t DEF ApplySends, BrowserOnly, NoCommand
  <2>2. hand \in Commands
    BY <1>9, <1>t DEF ApplySends, CommandTypes, NoCommand
  <2>3. drag' \in {drag, [drag EXCEPT !.last = hand.at]}
    BY <1>9, <2>2 DEF ApplySends, Commands
  <2>4. drag'.pending = drag.pending /\ drag'.down = drag.down
    BY <1>t, <2>3 DEF DragTypes
  <2> QED
    BY <2>1, <2>4 DEF GestureInv
<1>10. CASE UNCHANGED vars
  BY <1>10 DEF GestureInv
<1> QED
  BY <1>1, <1>2, <1>3, <1>4, <1>5, <1>6, <1>7, <1>8, <1>9, <1>10 DEF Next

\* A queued move belongs to the press that is down; in the terminal the device gets
\* whole gestures and the finger is where lastSent says.
THEOREM GesturesCorrect == Spec => []Gestures
<1>1. Init => GestureInv
  BY DEF Init, GestureInv
<1>2. TypeInv /\ GestureInv => Gestures
  BY NoneIsNoPlace DEF TypeInv, DragTypes, GestureInv, Gestures
<1> QED
  BY <1>1, <1>2, TypesInvariant, GestureStep, PTL DEF Spec

-----------------------------------------------------------------------------
(* The finger that is down has somebody to lift it. *)

Minded == held # {} \/ lost
UpAfter(i) == \E j \in DOMAIN inbox : j > i /\ inbox[j].op = "up"

\* A press on its way to the device is followed by its release, or is still held.
FingerInv ==
  /\ finger # None => Minded \/ hand.op = "up" \/ UpAfter(0)
  /\ hand.op = "down" => Minded \/ UpAfter(0)
  /\ \A i \in DOMAIN inbox : inbox[i].op = "down" => Minded \/ UpAfter(i)

\* In the terminal there is no queue.
LEMMA FingerInTerminal ==
  ASSUME BrowserOnly, ~web, web' = web, UNCHANGED browser, finger' # None => Minded'
  PROVE  FingerInv'
  BY DEF BrowserOnly, FingerInv, NoCommand, browser

\* Every step keeps somebody, or a release on its way, for the finger.
LEMMA FingerStep == TypeInv /\ GestureInv /\ FingerInv /\ [Next]_vars => FingerInv'
<1> SUFFICES ASSUME TypeInv, GestureInv, FingerInv, [Next]_vars PROVE FingerInv'
  OBVIOUS
<1>t. DragTypes /\ CommandTypes /\ BrowserOnly
  BY DEF TypeInv
<1> USE NoneIsNoPlace DEF vars, session, coalescer, device, terminal, browser
<1>1. CASE \/ Elapse \/ FlushTake \/ FlushLooks
           \/ Key \/ QuitChord \/ Expire \/ ZellijRegrab \/ OtherButton
  BY <1>1 DEF FingerInv, Minded, UpAfter, Elapse, FlushTake, FlushLooks, Key, QuitChord, Expire,
     ZellijRegrab, OtherButton
<1>2. CASE FlushSends
  BY <1>2 DEF FingerInv, Minded, UpAfter, FlushSends, DeviceMove
<1>3. CASE LoseRelease
  BY <1>3, <1>t, FingerInTerminal DEF LoseRelease, Loop, GestureInv, Minded
<1>4. ASSUME NEW p \in Places, LeftPress(p) PROVE FingerInv'
  BY <1>4, <1>t, FingerInTerminal DEF LeftPress, Loop, Minded
<1>5. ASSUME NEW p \in Places, Motion(p) PROVE FingerInv'
  BY <1>5 DEF FingerInv, Minded, UpAfter, Motion, DeviceMove
<1>6. ASSUME NEW p \in Places, NEW plain \in BOOLEAN, LeftRelease(p, plain) PROVE FingerInv'
  <2>1. ~web /\ web' = web /\ UNCHANGED browser /\ (drag.down <=> finger # None)
    BY <1>6 DEF LeftRelease, Loop, GestureInv
  <2>2. finger' # None => lost'
    BY <1>6, <2>1 DEF LeftRelease, KeyboardTakes, DeviceUp
  <2> QED
    BY <1>t, <2>1, <2>2, FingerInTerminal DEF Minded
<1>7. ASSUME NEW v \in Viewers, PageLeaves(v) PROVE FingerInv'
  BY <1>7 DEF FingerInv, Minded, PageLeaves
<1>8. ASSUME NEW v \in Viewers, NEW c \in Commands, PagePointer(v, c.op, c.at) PROVE FingerInv'
  <2>1. CASE c.op # "up" \/ Len(inbox) >= MaxQueue
    <3>1. Minded'
      <4>1. CASE c.op = "up"
        <5>1. Len(inbox) = MaxQueue
          BY <2>1, <4>1, <1>t, MaxQueuePositive DEF CommandTypes
        <5>2. lost'
          BY <1>8, <4>1, <5>1, Zenon DEF PagePointer
        <5> QED
          BY <5>2 DEF Minded
      <4>2. CASE c.op # "up"
        <5>1. v \in held'
          BY <1>8, <4>2 DEF PagePointer, Commands
        <5> QED
          BY <5>1 DEF Minded
      <4> QED
        BY <4>1, <4>2
    <3> QED
      BY <3>1 DEF FingerInv
  <2>2. CASE c.op = "up" /\ Len(inbox) < MaxQueue
    <3>1. inbox' = Append(inbox, [op |-> "up", at |-> c.at])
      BY <1>8, <2>2 DEF PagePointer, Dispatch
    <3>2. \A i \in 0 .. Len(inbox) : UpAfter(i)'
      BY <1>t, <3>1 DEF UpAfter, CommandTypes
    <3>3. \A i \in DOMAIN inbox' : inbox'[i].op = "down" => i \in 0 .. Len(inbox)
      BY <1>t, <3>1 DEF CommandTypes
    <3> QED
      BY <1>8, <1>t, <3>2, <3>3 DEF FingerInv, PagePointer, CommandTypes
  <2> QED
    BY <2>1, <2>2, MaxQueuePositive, <1>t DEF CommandTypes
<1>9. CASE Apply
  <2>1. inbox \in Seq(Commands) /\ inbox # <<>> /\ inbox' = Tail(inbox) /\ finger' = finger
        /\ (Minded <=> Minded') /\ hand.op = "none"
    BY <1>9, <1>t DEF Apply, CommandTypes, Minded
  <2>2. hand'.op \in {Head(inbox).op, "none"} /\ (Head(inbox).op = "up" => hand'.op = "up")
    BY <1>9, <1>t DEF Apply, CommandTypes, NoCommand
  <2>3. ASSUME NEW i \in Nat, NEW k \in Nat, UpAfter(i),
               \A j \in 1 .. Len(inbox) : j > i /\ inbox[j].op = "up" => j > k + 1
        PROVE  UpAfter(k)'
    <3>1. PICK j \in 1 .. Len(inbox) : j > i /\ inbox[j].op = "up" /\ j > k + 1
      BY <2>1, <2>3 DEF UpAfter
    <3>2. j - 1 \in DOMAIN inbox' /\ inbox'[j - 1].op = "up" /\ j - 1 > k
      BY <2>1, <2>3, <3>1
    <3> QED
      BY <3>2 DEF UpAfter
  <2>4. (finger' # None => Minded' \/ hand'.op = "up" \/ UpAfter(0)')
    <3>1. CASE Head(inbox).op = "up"
      BY <2>2, <3>1
    <3>2. CASE Head(inbox).op # "up"
      <4>1. \A j \in 1 .. Len(inbox) : j > 0 /\ inbox[j].op = "up" => j > 0 + 1
        BY <2>1, <3>2
      <4>2. UpAfter(0) => UpAfter(0)'
        BY <2>3, <4>1
      <4> QED
        BY <2>1, <4>2 DEF FingerInv
    <3> QED
      BY <3>1, <3>2
  <2>5. hand'.op = "down" => Minded' \/ UpAfter(0)'
    <3> SUFFICES ASSUME hand'.op = "down" PROVE Minded' \/ UpAfter(0)'
      OBVIOUS
    <3>1. 1 \in DOMAIN inbox /\ inbox[1].op = "down"
      BY <2>1, <2>2
    <3>2. UpAfter(1) => UpAfter(0)'
      BY <2>3
    <3> QED
      BY <2>1, <3>1, <3>2 DEF FingerInv
  <2>6. ASSUME NEW i \in DOMAIN inbox', inbox'[i].op = "down" PROVE Minded' \/ UpAfter(i)'
    <3>1. i + 1 \in DOMAIN inbox /\ inbox[i + 1].op = "down" /\ i \in Nat \ {0}
      BY <2>1, <2>6
    <3>2. UpAfter(i + 1) => UpAfter(i)'
      BY <2>3, <3>1
    <3> QED
      BY <2>1, <3>1, <3>2 DEF FingerInv
  <2> QED
    BY <2>4, <2>5, <2>6 DEF FingerInv
<1>10. CASE ApplySends
  <2>1. hand \in Commands
    BY <1>10, <1>t DEF ApplySends, CommandTypes, NoCommand
  <2>2. UNCHANGED <<inbox, held, lost>> /\ hand'.op = "none"
    BY <1>10 DEF ApplySends, NoCommand
  <2>3. finger' # None => hand.op = "down" \/ (finger # None /\ hand.op # "up")
    BY <1>10, <2>1 DEF ApplySends, Commands, DeviceDown, DeviceMove, DeviceUp
  <2> QED
    BY <2>2, <2>3 DEF FingerInv, Minded, UpAfter
<1>11. CASE UNCHANGED vars
  BY <1>11 DEF FingerInv, Minded, UpAfter
<1> QED
  BY <1>1, <1>2, <1>3, <1>4, <1>5, <1>6, <1>7, <1>8, <1>9, <1>10, <1>11 DEF Next

\* No finger stays down that nobody holds, but for a release that never reached the
\* program or that it passes over by design.
THEOREM NoFingerLeftCorrect == Spec => []NoFingerLeft
<1>1. Init => GestureInv /\ FingerInv
  BY DEF Init, GestureInv, FingerInv, NoCommand
<1>2. FingerInv => NoFingerLeft
  BY DEF FingerInv, Minded, UpAfter, NoFingerLeft
<1> QED
  BY <1>1, <1>2, TypesInvariant, GestureStep, FingerStep, PTL DEF Spec

===============================================================================
