----------------------------- MODULE PointerInput -----------------------------
(***************************************************************************)
(* From the pointer to the device's finger: the drag coalescer that the    *)
(* terminal and the browser share (appkeys.go), the terminal's mouse and   *)
(* the overlays that take its clicks (input.go, menu.go, keyboard.go,      *)
(* actionbar.go), and the browser's command queue and its dispatcher       *)
(* (webinput.go).                                                          *)
(*                                                                         *)
(* In the terminal one goroutine, the run loop, handles the input and      *)
(* flushes the coalescer on its ticks.  In a browser session the           *)
(* dispatcher handles the input while the run loop flushes.  A step is one *)
(* critical section of dragState.mu, or one message written to the device; *)
(* in the terminal, one event of the run loop.                             *)
(***************************************************************************)
EXTENDS Naturals, Sequences

CONSTANTS Viewers,   \* the pages of a browser session
          MaxQueue,  \* room in inbox (webInbox)
          None

ASSUME MaxQueuePositive == MaxQueue \in Nat \ {0}

\* Where a pointer may be: at the bottom the keyboard and the action bar cover
\* the video, when they are open.
Places == {"top", "bottom"}

ASSUME NoneIsNoPlace == None \notin Places

VARIABLES
  web,       \* the session's display is the browser
  zellij,    \* the terminal is in Zellij: the mouse starts ungrabbed
  drag,      \* app.drag: pending is None when have is FALSE; due, when at least
             \* moveCoalesceNs have passed since lastNs
  flush,     \* flushPendingMove: "idle", "taken", "down" (it was, when isDown looked)
  moving,    \* the position that flushPendingMove has taken
  ui,        \* the terminal's overlays; quit arm; grab (see Overlays)
  quit,      \* what has asked for the end: "no", "chord" or an overlay's Quit
  inbox,     \* webServer.inbox
  hand,      \* the command whose message the dispatcher has yet to write
  held,      \* who holds a button, a finger or a pen down: pages, "mouse"
  finger,    \* the device's finger: where it is, or None
  want,      \* ghost: in the terminal, the newest position handled while down
  stray,     \* ghost: messages that came when the finger made no sense of them
  lost,      \* ghost: no release will come for what is down
  last       \* ghost: the Quit control that the latest press was on, or "other"

session == <<web, zellij>>
coalescer == <<drag, flush, moving>>
device == <<finger, stray>>
terminal == <<ui, quit, last>>
browser == <<inbox, hand>>
vars == <<session, coalescer, device, terminal, browser, held, want, lost>>

Controls == {"bar", "menu", "keyboard"}   \* the overlays that have a Quit
Commands == [op : {"down", "move", "up"}, at : Places]
NoCommand == [op |-> "none", at |-> None]

Overlays == [menu : BOOLEAN, kb : BOOLEAN, bar : BOOLEAN,  \* menuOpen, kb.open, barShow
             grabbed : BOOLEAN,                            \* mouse reporting is on
             auto : BOOLEAN,                               \* kbAutoGrabbed
             nudge : BOOLEAN,                              \* openKeyboard's timer in Zellij
             arm : Controls \cup {"none"},                 \* kb.quit.from
             toggled : BOOLEAN]                            \* ghost: the user has changed the grab

TypeOK ==
  /\ web \in BOOLEAN /\ zellij \in BOOLEAN
  /\ drag \in [down : BOOLEAN, due : BOOLEAN, pending : Places \cup {None},
               last : Places \cup {None}]
  /\ flush \in {"idle", "taken", "down"} /\ moving \in Places \cup {None}
  /\ (flush = "idle") = (moving = None)
  /\ ui \in Overlays
  /\ quit \in Controls \cup {"no", "chord"} /\ last \in Controls \cup {"other"}
  /\ inbox \in Seq(Commands) /\ Len(inbox) <= MaxQueue
  /\ hand \in Commands \cup {NoCommand}
  /\ held \subseteq Viewers \cup {"mouse"}
  /\ finger \in Places \cup {None} /\ want \in Places \cup {None}
  /\ stray \subseteq {"down", "move"} /\ lost \in BOOLEAN

Init ==
  /\ web \in BOOLEAN /\ zellij \in (IF web THEN {FALSE} ELSE BOOLEAN)
  /\ drag = [down |-> FALSE, due |-> TRUE, pending |-> None, last |-> None]
  /\ flush = "idle" /\ moving = None
  /\ ui = [menu |-> FALSE, kb |-> FALSE, bar |-> FALSE, grabbed |-> ~zellij, auto |-> FALSE,
           nudge |-> FALSE, arm |-> "none", toggled |-> FALSE]
  /\ quit = "no" /\ last = "other"
  /\ inbox = <<>> /\ hand = NoCommand
  /\ held = {} /\ finger = None /\ want = None /\ stray = {} /\ lost = FALSE

-----------------------------------------------------------------------------
(* dragState *)

\* Mutant: a release leaves the queued move.
SetDownKeeps(d, v) == [d EXCEPT !.down = v]

SetDown(d, v) == [d EXCEPT !.down = v, !.pending = IF v THEN @ ELSE None]

\* Mutant: a move within the interval is dropped.
QueueDrops(d, p) == IF d.due THEN [d EXCEPT !.due = FALSE, !.pending = None] ELSE d

\* queue, which has the caller send p at once if the interval is over.
Queue(d, p) ==
  IF d.due THEN [d EXCEPT !.due = FALSE, !.pending = None] ELSE [d EXCEPT !.pending = p]

-----------------------------------------------------------------------------
(* What the device makes of a touch message (touch, touchMove, touchRelease). *)

DeviceDown(p) ==
  /\ finger' = p
  /\ stray' = IF finger = None THEN stray ELSE stray \cup {"down"}

DeviceMove(p) ==
  IF finger = None THEN finger' = None /\ stray' = stray \cup {"move"}
  ELSE finger' = p /\ stray' = stray

DeviceUp == finger' = None /\ stray' = stray

-----------------------------------------------------------------------------
(* flushPendingMove, on the run loop's ticks, and the passing of time *)

Elapse ==
  /\ ~drag.due
  /\ drag' = [drag EXCEPT !.due = TRUE]
  /\ UNCHANGED <<session, flush, moving, device, terminal, browser, held, want, lost>>

FlushTake ==
  /\ quit = "no" /\ flush = "idle" /\ drag.pending # None /\ drag.due
  /\ flush' = "taken" /\ moving' = drag.pending
  /\ drag' = [drag EXCEPT !.pending = None, !.due = FALSE]
  /\ UNCHANGED <<session, device, terminal, browser, held, want, lost>>

FlushLooks ==
  /\ flush = "taken"
  /\ IF drag.down THEN flush' = "down" /\ moving' = moving ELSE flush' = "idle" /\ moving' = None
  /\ UNCHANGED <<session, drag, device, terminal, browser, held, want, lost>>

FlushSends ==
  /\ flush = "down"
  /\ drag' = [drag EXCEPT !.last = moving]
  /\ DeviceMove(moving)
  /\ flush' = "idle" /\ moving' = None
  /\ UNCHANGED <<session, terminal, browser, held, want, lost>>

-----------------------------------------------------------------------------
(* The overlays: what an operation makes of ui *)

ToggleGrab(u) ==
  [u EXCEPT !.grabbed = ~@, !.bar = @ /\ ~u.grabbed, !.toggled = TRUE]

CloseMenu(u) ==
  IF u.menu THEN [u EXCEPT !.menu = FALSE, !.grabbed = @ /\ ~u.auto, !.auto = FALSE] ELSE u

CloseKeyboard(u) == [u EXCEPT !.kb = FALSE, !.grabbed = @ /\ ~u.auto, !.auto = FALSE]

\* What both overlays do when they open.
AutoGrab(u) == [u EXCEPT !.grabbed = TRUE, !.auto = @ \/ ~u.grabbed]

OpenKeyboard(u) == AutoGrab([CloseMenu(u) EXCEPT !.kb = TRUE, !.nudge = @ \/ zellij])

ToggleKeyboard(u) == IF u.kb THEN CloseKeyboard(u) ELSE OpenKeyboard(u)

ToggleMenu(u) ==
  IF u.menu THEN CloseMenu(u)
  ELSE AutoGrab([IF u.kb THEN CloseKeyboard(u) ELSE u EXCEPT !.menu = TRUE])

\* The operations of a button, a row or a key of an overlay, but for Quit.
Operations(u) == {u, ToggleGrab(u), ToggleKeyboard(u)}

BarVisible(u) == u.bar /\ ~u.menu /\ ~u.kb
WakeBar(u) == [u EXCEPT !.bar = @ \/ (~u.menu /\ ~u.kb)]

\* Mutant: a press elsewhere leaves an armed Quit armed.
PressKeepsArm(u) == ui' = u /\ quit' = "no" /\ last' = "other"

\* A press other than on a Quit, which makes u of the overlays: dropQuitArm.
Press(u) ==
  /\ ui' = [u EXCEPT !.arm = "none"]
  /\ quit' = "no" /\ last' = "other"

\* A press on a control's Quit: pressQuit, and dropQuitArm for another's arm.
PressQuit(control) ==
  /\ ui' = [ui EXCEPT !.arm = IF @ = control THEN "none" ELSE control]
  /\ quit' = IF ui.arm = control THEN control ELSE "no"
  /\ last' = control

\* runMenuRow: a row closes the menu and runs, but a first Quit keeps it.
RunMenuRow == PressQuit("menu") \/ \E u \in Operations(CloseMenu(ui)) : Press(u)

\* keyboard.act, for the key under the cursor or under a click.
KeyboardAct ==
  \/ PressQuit("keyboard")
  \/ \E u \in {ui, ToggleGrab(ui), CloseKeyboard(ui)} : Press(u)

\* barClick on a button, or beside them.
BarAct == PressQuit("bar") \/ \E u \in Operations(ui) : Press(u)

-----------------------------------------------------------------------------
(* The terminal.  Its run loop handles an event only between two flushes. *)

Loop == ~web /\ quit = "no" /\ flush = "idle"

\* handleInput for a key or a paste.
Key ==
  /\ Loop
  /\ \/ \E u \in {ToggleGrab(ui), ToggleKeyboard(ui)} : Press(u)    \* Ctrl-G, Ctrl-K
     \/ ui.menu /\ (RunMenuRow \/ Press(CloseMenu(ui)))             \* menuKeyInput
     \/ ui.kb /\ (KeyboardAct \/ Press(CloseKeyboard(ui)))          \* keyboardInput
     \/ Press(ToggleMenu(ui))                                       \* Alt+/
     \/ Press(ui)                                                   \* the device's
  /\ UNCHANGED <<session, coalescer, device, browser, held, want, lost>>

\* Alt+Q, and Ctrl-Q in the menu: at once.
QuitChord ==
  /\ Loop
  /\ ui' = ui /\ quit' = "chord" /\ last' = "other"
  /\ UNCHANGED <<session, coalescer, device, browser, held, want, lost>>

\* kbTick: an armed Quit has run out.  barTick: the bar is hidden, at any time.
Expire ==
  /\ Loop
  /\ \/ ui.arm # "none" /\ ui' = [ui EXCEPT !.arm = "none"]
     \/ ui.bar /\ ui' = [ui EXCEPT !.bar = FALSE]
  /\ UNCHANGED <<session, coalescer, device, quit, last, browser, held, want, lost>>

\* zellijRegrab, 300 ms after the keyboard was opened.
ZellijRegrab ==
  /\ Loop /\ ui.nudge
  /\ \E more \in BOOLEAN :
       ui' = [IF ui.kb THEN AutoGrab(ui) ELSE ui EXCEPT !.nudge = more]
  /\ UNCHANGED <<session, coalescer, device, quit, last, browser, held, want, lost>>

(***************************************************************************)
(* mouseEvent.  plain: the report carries no Ctrl or Alt, which a press on *)
(* an overlay does not mind and the video's does.                          *)
(***************************************************************************)

\* Mutant: the keyboard takes what is over it from a drag, too.
KeyboardTakesDrags(p) == ui.kb /\ p = "bottom"

KeyboardTakes(p) == ui.kb /\ ~drag.down /\ p = "bottom"

\* The drag after the finger of one whose release never arrived is lifted.
Lifted == IF drag.down THEN SetDown(drag, FALSE) ELSE drag

\* A left press that the overlays let through to the video.
Tap(p) ==
  /\ ~ui.menu /\ ~(ui.kb /\ p = "bottom") /\ ui.grabbed /\ ~(BarVisible(ui) /\ p = "bottom")
  /\ Press(WakeBar(ui))
  /\ drag' = [SetDown(Lifted, TRUE) EXCEPT !.last = p]
  /\ finger' = p
  /\ stray' = IF finger = None \/ ~Lifted.down THEN stray ELSE stray \cup {"down"}
  /\ want' = p

\* A left press that does not reach the video.
Click(p, plain) ==
  /\ \/ ui.menu /\ (RunMenuRow \/ Press(ui))
     \/ ~ui.menu /\ ui.kb /\ p = "bottom" /\ (KeyboardAct \/ Press(ui))
     \/ ~ui.menu /\ ~(ui.kb /\ p = "bottom") /\ ~ui.grabbed /\ Press(ui)
     \/ ~ui.menu /\ ~(ui.kb /\ p = "bottom") /\ ui.grabbed /\ ~plain /\ Press(WakeBar(ui))
     \/ ui.grabbed /\ plain /\ BarVisible(ui) /\ p = "bottom" /\ BarAct
  /\ drag' = Lifted
  /\ finger' = IF drag.down /\ ~Lifted.down THEN None ELSE finger
  /\ UNCHANGED <<stray, want>>

LeftPress(p) ==
  /\ Loop /\ "mouse" \notin held
  /\ held' = {"mouse"} /\ lost' = FALSE
  /\ Tap(p) \/ \E plain \in BOOLEAN : Click(p, plain)
  /\ UNCHANGED <<session, flush, moving, browser>>

LeftRelease(p, plain) ==
  /\ Loop /\ "mouse" \in held
  /\ held' = {}
  /\ LET taken == ui.menu \/ KeyboardTakes(p) \/ ~ui.grabbed
         bar == BarVisible(ui) /\ p = "bottom" /\ ~drag.down
     IN /\ ui' = IF taken THEN ui ELSE WakeBar(ui)
        /\ IF taken \/ bar \/ ~plain
           THEN /\ lost' = (drag.down /\ (ui.menu \/ ~ui.grabbed \/ ~plain))
                /\ UNCHANGED <<drag, device>>
           ELSE lost' = FALSE /\ drag' = SetDown(drag, FALSE) /\ DeviceUp
  /\ UNCHANGED <<session, flush, moving, quit, last, browser, want>>

\* The button is let go outside of the window, or a multiplexer drops the report.
LoseRelease ==
  /\ Loop /\ "mouse" \in held
  /\ held' = {} /\ lost' = drag.down
  /\ UNCHANGED <<session, coalescer, device, terminal, browser, want>>

\* coalescedMove, in the terminal.
Motion(p) ==
  /\ Loop
  /\ ~ui.menu /\ ~KeyboardTakes(p) /\ ui.grabbed
  /\ ui' = WakeBar(ui)
  /\ IF drag.down
     THEN /\ want' = p
          /\ drag' = [Queue(drag, p) EXCEPT !.last = IF drag.due THEN p ELSE @]
          /\ IF drag.due THEN DeviceMove(p) ELSE UNCHANGED device
     ELSE UNCHANGED <<want, drag, device>>
  /\ UNCHANGED <<session, flush, moving, quit, last, browser, held, lost>>

\* The wheel, the middle or the right button.
OtherButton ==
  /\ Loop
  /\ Press(IF ui.menu \/ ~ui.grabbed THEN ui ELSE WakeBar(ui))
  /\ UNCHANGED <<session, coalescer, device, browser, held, want, lost>>

-----------------------------------------------------------------------------
(* The browser *)

\* dispatch: a full queue drops the command.
Dispatch(c) == inbox' = IF Len(inbox) < MaxQueue THEN Append(inbox, c) ELSE inbox

\* A page's pointer goes down, moves, and goes up (player.js).
PagePointer(v, op, p) ==
  /\ web
  /\ op = "down" <=> v \notin held
  /\ held' = CASE op = "down" -> held \cup {v} [] op = "move" -> held [] op = "up" -> held \ {v}
  /\ Dispatch([op |-> op, at |-> p])
  /\ lost' = (lost \/ (op = "up" /\ Len(inbox) = MaxQueue))
  /\ UNCHANGED <<session, coalescer, device, terminal, hand, want>>

\* A page is closed with its pointer down: nobody lifts its finger.
PageLeaves(v) ==
  /\ web /\ v \in held
  /\ held' = held \ {v} /\ lost' = TRUE
  /\ UNCHANGED <<session, coalescer, device, terminal, browser, want>>

\* applyControl, up to the message it writes.
Apply ==
  /\ inbox # <<>> /\ hand.op = "none"
  /\ inbox' = Tail(inbox)
  /\ LET c == Head(inbox)
         moves == c.op = "move" /\ drag.down
     IN /\ drag' = CASE c.op = "down" -> SetDown(drag, TRUE)
                     [] c.op = "up" -> SetDown(drag, FALSE)
                     [] moves -> Queue(drag, c.at)
                     [] OTHER -> drag
        /\ hand' = IF c.op # "move" \/ (moves /\ drag.due) THEN c ELSE NoCommand
        /\ ui' = [ui EXCEPT !.grabbed = @ \/ c.op = "down"]   \* webGrab
  /\ UNCHANGED <<session, flush, moving, device, quit, last, held, want, lost>>

\* The message: touch, sendTouchMove or touchRelease.
ApplySends ==
  /\ hand.op # "none"
  /\ hand' = NoCommand
  /\ CASE hand.op = "down" -> DeviceDown(hand.at) /\ UNCHANGED drag
       [] hand.op = "move" -> DeviceMove(hand.at) /\ drag' = [drag EXCEPT !.last = hand.at]
       [] hand.op = "up" -> DeviceUp /\ UNCHANGED drag
  /\ UNCHANGED <<session, flush, moving, terminal, inbox, held, want, lost>>

-----------------------------------------------------------------------------
Next ==
  \/ Elapse \/ FlushTake \/ FlushLooks \/ FlushSends
  \/ Key \/ QuitChord \/ Expire \/ ZellijRegrab \/ LoseRelease \/ OtherButton
  \/ \E p \in Places : LeftPress(p) \/ Motion(p) \/ \E plain \in BOOLEAN : LeftRelease(p, plain)
  \/ \E v \in Viewers, c \in Commands : PagePointer(v, c.op, c.at)
  \/ \E v \in Viewers : PageLeaves(v)
  \/ Apply \/ ApplySends

Spec == Init /\ [][Next]_vars

(***************************************************************************)
(* Fairness: time passes, and the run loop gets its ticks, which wait for  *)
(* room in its queue (app.go), and runs what it has begun.                 *)
(***************************************************************************)
Fairness ==
  /\ WF_vars(Elapse)
  /\ WF_vars(FlushTake) /\ WF_vars(FlushLooks) /\ WF_vars(FlushSends)

FairSpec == Spec /\ Fairness

-----------------------------------------------------------------------------
(***************************************************************************)
(* A queued move belongs to the press that is down.  In the terminal it is *)
(* where the pointer last was; the device gets whole gestures, one after   *)
(* the other; and the finger is where lastSent says, so that one whose     *)
(* release was lost is lifted there and not dragged across the screen.     *)
(***************************************************************************)
Gestures ==
  /\ drag.pending # None => drag.down
  /\ ~web => /\ drag.pending \in {None, want}
             /\ stray = {}
             /\ drag.down = (finger # None)
             /\ drag.down => drag.last = finger

(***************************************************************************)
(* The device's finger is down only while somebody holds a button down, or *)
(* the release is on its way; but for a release that was lost, or that     *)
(* found the menu open, the mouse ungrabbed or a modifier pressed.  The    *)
(* keyboard and the action bar take none away from a drag.                 *)
(***************************************************************************)
NoFingerLeft ==
  finger # None =>
    held # {} \/ lost \/ hand.op = "up" \/ \E i \in DOMAIN inbox : inbox[i].op = "up"

(***************************************************************************)
(* The menu and the keyboard, however they replace one another, are never  *)
(* open together, and leave the mouse as they found it.                    *)
(***************************************************************************)
OverlaysRestoreGrab ==
  /\ ~(ui.menu /\ ui.kb)
  /\ ui.auto => ui.menu \/ ui.kb
  /\ ~web /\ ~ui.toggled /\ ~ui.menu /\ ~ui.kb => ui.grabbed = ~zellij

(***************************************************************************)
(* An overlay's Quit ends the session only if the press before was on the  *)
(* same Quit: any other press in between drops the arm.                    *)
(***************************************************************************)
QuitTwice == [][quit' \in Controls => last = quit']_vars

(***************************************************************************)
(* However the overlays replace one another and whoever presses what, they *)
(* keep track of what they took over: the mouse's grab and an armed Quit.  *)
(***************************************************************************)
OverlaysKeepTrack == []OverlaysRestoreGrab /\ QuitTwice

(***************************************************************************)
(* In the terminal a drag ends up where the pointer is, without a further  *)
(* report: the last move within an interval is sent after it.              *)
(***************************************************************************)
Behind == ~web /\ quit = "no" /\ drag.down /\ finger # want

DragArrives == Behind ~> ~Behind

(***************************************************************************)
(* What webinput.go:89-90 and setDown's comment (appkeys.go) say: a        *)
(* release is never followed by a stale move.  In a browser session it can *)
(* be (README, "What the checks found"); in a terminal Gestures covers it. *)
(***************************************************************************)
NoMoveAfterRelease == "move" \notin stray

=============================================================================
