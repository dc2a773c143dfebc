------------------------------ MODULE WebSession ------------------------------
(***************************************************************************)
(* The life of a browser display: viewers connect (handleWS) and leave     *)
(* (closeWith), the last one's leaving ends a --window session after a     *)
(* grace (leaveLater, quit), and any of several goroutines stops it        *)
(* (stopWith, killWindow) while run may still be starting it (run,         *)
(* startWindow).  The app loop (runWeb) exits when it has been stopped.    *)
(*                                                                         *)
(* A step is one critical section of clientsMu, srvMu or winMu, one atomic *)
(* operation, or one blocking call.  How long calls take is not modelled   *)
(* here: a later stop waits for the first without its 5 s limit            *)
(* (StopDeadline is about that limit).                                     *)
(***************************************************************************)
EXTENDS Naturals, Sequences, FiniteSets

CONSTANTS Viewers,  \* the connections: a page that reconnects is a new viewer
          None,     \* no viewer
          Window,   \* --window: the session owns a browser window
          Cap       \* room in app.events (256 in the code)

ASSUME NoneIsNoViewer == None \notin Viewers
ASSUME WindowBoolean == Window \in BOOLEAN
ASSUME CapPositive == Cap \in Nat \ {0}

\* The goroutines that call stopWith, and the reasons they give.
Stoppers == {"dispatcher", "loop"}
Reasons == {"quit", "stopped", "streamEnded"}

VARIABLES
  closing,    \* webServer.closing
  done,       \* the channel done is closed
  stopped,    \* the channel stopped is closed
  reason,     \* the reason of the first stopWith
  stopBye,    \* webServer.stopBye
  clients,    \* webServer.clients
  vst,        \* where each connection is: see ViewerAt
  byStop,     \* the viewers whose closed flag the stop was first to set
  bye,        \* the last message each viewer got
  spc,        \* stopWith, for each stopper: see StopAt
  slist,      \* the first stop's list, less the viewers it has called closeWith on
  leaveTimer, \* webServer.leaveTimer; a timer is named after the viewer that left
  timer,      \* each timer: see TimerAt
  lastOut,    \* ghost: whose leaving emptied the list of viewers, None if not empty
  rpc,        \* run: "start", "window", "serving", "returned"
  lnKnown,    \* webServer.ln is set
  lnOpen,     \* the listener is open
  win,        \* the browser window: "none", "running", "killed"
  events,     \* app.events
  lpc         \* runWeb's loop: "run", "stop", "exited"

stopping == <<closing, done, stopped, reason, spc, slist>>
hub == <<stopBye, clients, lastOut>>
conns == <<vst, byStop, bye>>
timers == <<leaveTimer, timer>>
server == <<rpc, lnKnown, lnOpen, win>>
app == <<events, lpc>>
vars == <<closing, done, stopped, reason, stopBye, clients, vst, byStop, bye, spc, slist,
          leaveTimer, timer, lastOut, rpc, lnKnown, lnOpen, win, events, lpc>>

\* "upgraded": handleWS before clientsMu; "closing": closed is set, its socket is
\* being closed; "left": its socket is closed, it is still on the list.
ViewerAt == {"none", "upgraded", "open", "closing", "left", "gone"}
StopAt == {"none", "swapped", "shutdown", "list", "close", "kill", "finish", "later",
           "returned", "told"}
\* "fired": its function waits for clientsMu; "decided": it saw its own timer and no
\* viewers; "quitting": in quit, waiting for room in app.events.
TimerAt == {"none", "armed", "fired", "decided", "quitting", "off"}

TypeOK ==
  /\ closing \in BOOLEAN /\ done \in BOOLEAN /\ stopped \in BOOLEAN
  /\ reason \in Reasons \cup {""} /\ stopBye \in {"", reason}
  /\ clients \subseteq Viewers
  /\ vst \in [Viewers -> ViewerAt]
  /\ byStop \subseteq Viewers
  /\ bye \in [Viewers -> Reasons \cup {""}]
  /\ spc \in [Stoppers -> StopAt]
  /\ slist \subseteq Viewers
  /\ leaveTimer \in Viewers \cup {None}
  /\ timer \in [Viewers -> TimerAt]
  /\ lastOut \in Viewers \cup {None}
  /\ rpc \in {"start", "window", "serving", "returned"}
  /\ lnKnown \in BOOLEAN /\ lnOpen \in BOOLEAN
  /\ win \in {"none", "running", "killed"}
  /\ events \in Seq({"quit", "other"}) /\ Len(events) <= Cap
  /\ lpc \in {"run", "stop", "exited"}

\* main sets s.ln before run; run listens itself otherwise.
Init ==
  /\ closing = FALSE /\ done = FALSE /\ stopped = FALSE
  /\ reason = "" /\ stopBye = ""
  /\ clients = {} /\ byStop = {}
  /\ vst = [v \in Viewers |-> "none"]
  /\ bye = [v \in Viewers |-> ""]
  /\ spc = [t \in Stoppers |-> "none"]
  /\ slist = {}
  /\ leaveTimer = None /\ lastOut = None
  /\ timer = [v \in Viewers |-> "none"]
  /\ rpc = "start" /\ lnKnown \in BOOLEAN /\ lnOpen = TRUE /\ win = "none"
  /\ events = <<>> /\ lpc = "run"

-----------------------------------------------------------------------------
\* cancelLeave: a timer that has already fired goes on, but is no longer current.
CancelledTimers ==
  [v \in Viewers |-> IF v = leaveTimer /\ timer[v] = "armed" THEN "off" ELSE timer[v]]

HasRoom == Len(events) < Cap

(***************************************************************************)
(* Viewers.                                                                *)
(***************************************************************************)
\* The server accepts a connection and its handler upgrades it.
Connect(v) ==
  /\ vst[v] = "none" /\ rpc \in {"window", "serving"} /\ lnOpen
  /\ vst' = [vst EXCEPT ![v] = "upgraded"]
  /\ UNCHANGED <<stopping, hub, byStop, bye, timers, server, app>>

\* Mutant: handleWS adds the viewer whether or not a stop has taken its list.
RegisterLate(v) ==
  /\ vst[v] = "upgraded"
  /\ clients' = clients \cup {v}
  /\ lastOut' = None
  /\ timer' = CancelledTimers /\ leaveTimer' = None
  /\ vst' = [vst EXCEPT ![v] = "open"]
  /\ UNCHANGED <<stopping, stopBye, byStop, bye, server, app>>

\* handleWS under clientsMu.
Register(v) ==
  /\ vst[v] = "upgraded" /\ stopBye = ""
  /\ clients' = clients \cup {v}
  /\ lastOut' = None
  /\ timer' = CancelledTimers /\ leaveTimer' = None
  /\ vst' = [vst EXCEPT ![v] = "open"]
  /\ UNCHANGED <<stopping, stopBye, byStop, bye, server, app>>

\* A stop has taken its list: the newcomer gets that stop's bye.
TurnedAway(v) ==
  /\ vst[v] = "upgraded" /\ stopBye # ""
  /\ bye' = [bye EXCEPT ![v] = stopBye]
  /\ vst' = [vst EXCEPT ![v] = "gone"]
  /\ UNCHANGED <<stopping, hub, byStop, timers, server, app>>

\* closeWith: closed.Swap, by the viewer's own loops or (who) by the stop.
CloseBegin(v, who) ==
  /\ vst[v] = "open"
  /\ vst' = [vst EXCEPT ![v] = "closing"]
  /\ byStop' = IF who = "stop" THEN byStop \cup {v} ELSE byStop

CloseItself(v) ==
  /\ CloseBegin(v, "self")
  /\ UNCHANGED <<stopping, hub, bye, timers, server, app>>

\* closeWith: ws.CloseWith(last).
CloseSocket(v) ==
  /\ vst[v] = "closing"
  /\ vst' = [vst EXCEPT ![v] = "left"]
  /\ bye' = [bye EXCEPT ![v] = IF v \in byStop THEN reason ELSE ""]
  /\ UNCHANGED <<stopping, hub, byStop, timers, server, app>>

\* closeWith under clientsMu: off the list, and leaveLater after the last one.
Leave(v) ==
  /\ vst[v] = "left"
  /\ clients' = clients \ {v}
  /\ vst' = [vst EXCEPT ![v] = "gone"]
  /\ lastOut' = IF clients' = {} THEN v ELSE lastOut
  /\ IF clients' = {} /\ Window /\ ~closing
       THEN /\ leaveTimer' = v
            /\ timer' = [CancelledTimers EXCEPT ![v] = "armed"]
       ELSE UNCHANGED timers
  /\ UNCHANGED <<stopping, stopBye, byStop, bye, server, app>>

(***************************************************************************)
(* leaveLater's timer and quit.                                            *)
(***************************************************************************)
TimerFires(v) ==
  /\ timer[v] = "armed"
  /\ timer' = [timer EXCEPT ![v] = "fired"]
  /\ UNCHANGED <<stopping, hub, conns, leaveTimer, server, app>>

\* Mutant: the function does not ask whether its timer is still the current one.
TimerDecidesStale(v) ==
  /\ timer[v] = "fired"
  /\ leaveTimer' = IF leaveTimer = v THEN None ELSE leaveTimer
  /\ timer' = [timer EXCEPT ![v] = IF clients = {} THEN "decided" ELSE "off"]
  /\ UNCHANGED <<stopping, hub, conns, server, app>>

\* The function under clientsMu.
TimerDecides(v) ==
  /\ timer[v] = "fired"
  /\ leaveTimer' = IF leaveTimer = v THEN None ELSE leaveTimer
  /\ timer' = [timer EXCEPT ![v] =
                 IF leaveTimer = v /\ clients = {} THEN "decided" ELSE "off"]
  /\ UNCHANGED <<stopping, hub, conns, server, app>>

TimerLooksAtClosing(v) ==
  /\ timer[v] = "decided"
  /\ timer' = [timer EXCEPT ![v] = IF closing THEN "off" ELSE "quitting"]
  /\ UNCHANGED <<stopping, hub, conns, leaveTimer, server, app>>

\* Mutant: a quit that finds no room is dropped.
QuitDrops(v) ==
  /\ timer[v] = "quitting"
  /\ events' = IF HasRoom THEN Append(events, "quit") ELSE events
  /\ timer' = [timer EXCEPT ![v] = "off"]
  /\ UNCHANGED <<stopping, hub, conns, leaveTimer, server, lpc>>

\* quit waits for room in app.events, or for the session's end.
Quit(v) ==
  /\ timer[v] = "quitting"
  /\ \/ HasRoom /\ events' = Append(events, "quit")
     \/ done /\ UNCHANGED events
  /\ timer' = [timer EXCEPT ![v] = "off"]
  /\ UNCHANGED <<stopping, hub, conns, leaveTimer, server, lpc>>

(***************************************************************************)
(* stopWith.                                                               *)
(***************************************************************************)
\* closing.Swap(true): only the first caller stops the server.
StopBegins(t, why) ==
  /\ spc[t] = "none"
  /\ closing' = TRUE
  /\ reason' = IF closing THEN reason ELSE why
  /\ spc' = [spc EXCEPT ![t] = IF closing THEN "later" ELSE "swapped"]

StopWaited(t) ==
  /\ spc[t] = "later" /\ stopped
  /\ spc' = [spc EXCEPT ![t] = "returned"]
  /\ UNCHANGED <<closing, done, stopped, reason, slist, hub, conns, timers, server, app>>

\* close(done), then the look at s.http and s.ln under srvMu, Shutdown and ln.Close.
StopDone(t) ==
  /\ spc[t] = "swapped"
  /\ done' = TRUE
  /\ spc' = [spc EXCEPT ![t] = "shutdown"]
  /\ UNCHANGED <<closing, stopped, reason, slist, hub, conns, timers, server, app>>

StopServer(t) ==
  /\ spc[t] = "shutdown"
  /\ lnOpen' = IF lnKnown THEN FALSE ELSE lnOpen
  /\ spc' = [spc EXCEPT ![t] = "list"]
  /\ UNCHANGED <<closing, done, stopped, reason, slist, hub, conns, timers, rpc, lnKnown,
                 win, app>>

\* Under clientsMu: the list to close, the bye for latecomers, no more leave timer.
StopLists(t) ==
  /\ spc[t] = "list"
  /\ slist' = clients
  /\ stopBye' = reason
  /\ timer' = CancelledTimers /\ leaveTimer' = None
  /\ spc' = [spc EXCEPT ![t] = "close"]
  /\ UNCHANGED <<closing, done, stopped, reason, clients, lastOut, conns, server, app>>

\* closeWith(bye), all at once; it returns at once for a viewer that is closing.
StopCloses(t, v) ==
  /\ spc[t] = "close" /\ v \in slist
  /\ slist' = slist \ {v}
  /\ \/ CloseBegin(v, "stop")
     \/ vst[v] # "open" /\ UNCHANGED <<vst, byStop>>
  /\ UNCHANGED <<closing, done, stopped, reason, spc, hub, bye, timers, server, app>>

\* wg.Wait.
StopClosed(t) ==
  /\ spc[t] = "close" /\ slist = {}
  /\ \A v \in byStop : vst[v] = "gone"
  /\ spc' = [spc EXCEPT ![t] = "kill"]
  /\ UNCHANGED <<closing, done, stopped, reason, slist, hub, conns, timers, server, app>>

\* killWindow: whatever window is remembered.
StopKills(t) ==
  /\ spc[t] = "kill"
  /\ win' = IF win = "running" THEN "killed" ELSE win
  /\ spc' = [spc EXCEPT ![t] = "finish"]
  /\ UNCHANGED <<closing, done, stopped, reason, slist, hub, conns, timers, rpc, lnKnown,
                 lnOpen, app>>

StopFinishes(t) ==
  /\ spc[t] = "finish"
  /\ stopped' = TRUE
  /\ spc' = [spc EXCEPT ![t] = "returned"]
  /\ UNCHANGED <<closing, done, reason, slist, hub, conns, timers, server, app>>

(***************************************************************************)
(* run.                                                                    *)
(***************************************************************************)
\* Under srvMu: the server is published, or a stop has begun and run closes the listener.
RunPublishes ==
  /\ rpc = "start"
  /\ IF closing
       THEN rpc' = "returned" /\ lnOpen' = FALSE /\ UNCHANGED lnKnown
       ELSE /\ rpc' = IF Window THEN "window" ELSE "serving"
            /\ lnKnown' = TRUE /\ UNCHANGED lnOpen
  /\ UNCHANGED <<stopping, hub, conns, timers, win, app>>

\* openWindow and startWindow; the browser may fail to start.
StartWindow ==
  /\ rpc = "window"
  /\ \E starts \in BOOLEAN : win' = IF starts /\ ~closing THEN "running" ELSE win
  /\ rpc' = "serving"
  /\ UNCHANGED <<stopping, hub, conns, timers, lnKnown, lnOpen, app>>

\* Mutant: run waits for the server only, which a stop before Serve leaves to itself.
RunReturnsOnServe ==
  /\ rpc = "serving" /\ ~done
  /\ rpc' = "returned"
  /\ UNCHANGED <<stopping, hub, conns, timers, lnKnown, lnOpen, win, app>>

\* run's select: the session's end.
RunReturns ==
  /\ rpc = "serving" /\ done
  /\ rpc' = "returned"
  /\ UNCHANGED <<stopping, hub, conns, timers, lnKnown, lnOpen, win, app>>

\* Serve fails for a reason of its own.
ServeFails ==
  /\ rpc = "serving" /\ ~done
  /\ rpc' = "returned"
  /\ UNCHANGED <<stopping, hub, conns, timers, lnKnown, lnOpen, win, app>>

(***************************************************************************)
(* The app: its event queue, the dispatcher's Quit and the loop.           *)
(***************************************************************************)
\* Ticks, keys and signals; a signal that finds no room is dropped.
EventArrives ==
  /\ HasRoom /\ lpc = "run"
  /\ \E e \in {"quit", "other"} : events' = Append(events, e)
  /\ UNCHANGED <<stopping, hub, conns, timers, server, lpc>>

\* quitWeb, from a viewer's Quit, on the dispatcher's goroutine.
DispatcherQuits(v) ==
  /\ vst[v] \notin {"none", "upgraded"} /\ rpc \in {"window", "serving"}
  /\ StopBegins("dispatcher", "quit")
  /\ UNCHANGED <<done, stopped, slist, hub, conns, timers, server, app>>

\* quitWeb's end: evQuit, dropped when there is no room.
DispatcherTells ==
  /\ spc["dispatcher"] = "returned"
  /\ events' = IF HasRoom THEN Append(events, "quit") ELSE events
  /\ spc' = [spc EXCEPT !["dispatcher"] = "told"]
  /\ UNCHANGED <<closing, done, stopped, reason, slist, hub, conns, timers, server, lpc>>

LoopConsumes ==
  /\ lpc = "run" /\ events # <<>> /\ Head(events) = "other"
  /\ events' = Tail(events)
  /\ UNCHANGED <<stopping, hub, conns, timers, server, lpc>>

LoopQuits ==
  /\ lpc = "run" /\ events # <<>> /\ Head(events) = "quit"
  /\ events' = Tail(events)
  /\ StopBegins("loop", "stopped")
  /\ lpc' = "stop"
  /\ UNCHANGED <<done, stopped, slist, hub, conns, timers, server>>

LoopServeErr ==
  /\ lpc = "run" /\ rpc = "returned"
  /\ StopBegins("loop", "stopped")
  /\ lpc' = "stop"
  /\ UNCHANGED <<done, stopped, slist, hub, conns, timers, server, events>>

LoopVideoErr ==
  /\ lpc = "run"
  /\ StopBegins("loop", "streamEnded")
  /\ lpc' = "stop"
  /\ UNCHANGED <<done, stopped, slist, hub, conns, timers, server, events>>

\* runWeb returns, and with it scterm exits.
LoopExits ==
  /\ lpc = "stop" /\ spc["loop"] = "returned"
  /\ lpc' = "exited"
  /\ UNCHANGED <<stopping, hub, conns, timers, server, events>>

-----------------------------------------------------------------------------
ViewerStep(v) == Register(v) \/ TurnedAway(v) \/ CloseSocket(v) \/ Leave(v)
TimerStep(v) == TimerFires(v) \/ TimerDecides(v) \/ TimerLooksAtClosing(v)
StopStep(t) ==
  \/ StopWaited(t) \/ StopDone(t) \/ StopServer(t) \/ StopLists(t)
  \/ \E v \in Viewers : StopCloses(t, v)
  \/ StopClosed(t) \/ StopKills(t) \/ StopFinishes(t)
RunStep == RunPublishes \/ StartWindow \/ RunReturns
LoopStep == LoopConsumes \/ LoopQuits \/ LoopServeErr \/ LoopExits

\* The process is gone once the loop has exited.
Next ==
  /\ lpc # "exited"
  /\ \/ \E v \in Viewers : \/ Connect(v) \/ ViewerStep(v) \/ CloseItself(v)
                           \/ TimerStep(v) \/ Quit(v) \/ DispatcherQuits(v)
     \/ \E t \in Stoppers : StopStep(t)
     \/ RunStep \/ ServeFails
     \/ EventArrives \/ DispatcherTells \/ LoopStep \/ LoopVideoErr

Spec == Init /\ [][Next]_vars

(***************************************************************************)
(* Fairness: every goroutine that can go on does, and timers fire.  A send *)
(* that waits for room is served in its turn, since Go queues the senders  *)
(* of a channel (SF).  The loop's select picks among ready cases at        *)
(* random, so it sees serveErr however many events come.  What the user,   *)
(* the device and the network do is not fair.                              *)
(***************************************************************************)
FairSpec ==
  /\ Spec
  /\ \A v \in Viewers : /\ WF_vars(ViewerStep(v) /\ lpc # "exited")
                        /\ WF_vars(TimerStep(v) /\ lpc # "exited")
                        /\ SF_vars(Quit(v) /\ lpc # "exited")
  /\ \A t \in Stoppers : WF_vars(StopStep(t) /\ lpc # "exited")
  /\ WF_vars(RunStep /\ lpc # "exited")
  /\ WF_vars(LoopConsumes \/ LoopQuits \/ LoopExits)
  /\ WF_vars(LoopServeErr)

-----------------------------------------------------------------------------
\* When the stop has finished every page has been told, and told the first stop's
\* reason only, whoever asked again and why.  That goes for a page whose upgrade the
\* stop overtook, too; nobody is connected but those who were closing by themselves.
NobodyLeftBehind ==
  /\ \A v \in Viewers : bye[v] \in {"", reason}
  /\ stopped => \A v \in Viewers :
    \/ vst[v] \in {"none", "upgraded"} /\ stopBye = reason
    \/ vst[v] = "gone" /\ (v \in byStop => bye[v] = reason)
    \/ vst[v] \in {"closing", "left"} /\ v \notin byStop

\* No browser window outlives the session, however its start races the stop.
NoOrphanWindow == stopped => win # "running" /\ (rpc = "window" => closing)

\* No listener outlives the session: stop or run closes it, whichever comes second.
NoListenerLeft == stopped /\ rpc # "start" => ~lnOpen

\* A stop that has finished has stopped everything: the pages, the window and the
\* listener, however the upgrade, the start of the browser and run raced it.
StopIsComplete == NobodyLeftBehind /\ NoOrphanWindow /\ NoListenerLeft

\* A session ends for want of viewers only when there has been none since the timer
\* was armed: a timer of an earlier gap, fired and overtaken by a reload, does not
\* cut the next gap short.
LeaveGrace ==
  [][\A v \in Viewers : timer'[v] = "decided" /\ timer[v] # "decided" => lastOut = v]_vars

\* Any stop ends the process, also when its evQuit found no room in the queue.
StopEnds == closing ~> lpc = "exited"

\* A window that is closed, and that nobody reopens within the grace, ends the session.
WindowEnds == \A v \in Viewers : leaveTimer = v ~> lpc = "exited" \/ lastOut # v
==============================================================================
