------------------------------ MODULE StopProofs ------------------------------
(***************************************************************************)
(* The two specifications of how a browser display stops: WebSession, its  *)
(* steps, and StopDeadline, the time they take.                            *)
(*                                                                         *)
(* One stopWith is at work at any time (OneStop).  Once it has taken its   *)
(* list nobody opens a page that is not on it, and a page it closes hears  *)
(* its reason before it is gone (PageOf).  The window and the listener are *)
(* given up by the stop or, if the stop came first, never taken (Shut).    *)
(***************************************************************************)
EXTENDS WebSession, StopDeadline, TLAPS

QueueTypes == events \in Seq({"quit", "other"}) /\ Len(events) <= Cap
FlagTypes == closing \in BOOLEAN /\ done \in BOOLEAN /\ stopped \in BOOLEAN
             /\ lnKnown \in BOOLEAN /\ lnOpen \in BOOLEAN

\* The types, in parts that no step has to keep all at once.
StopTypes ==
  /\ reason \in Reasons \cup {""}
  /\ spc \in [Stoppers -> StopAt]
PageTypes ==
  /\ clients \subseteq Viewers
  /\ vst \in [Viewers -> ViewerAt]
  /\ byStop \subseteq Viewers
  /\ bye \in [Viewers -> Reasons \cup {""}]
  /\ slist \subseteq Viewers
TimerTypes ==
  /\ leaveTimer \in Viewers \cup {None}
  /\ timer \in [Viewers -> TimerAt]
  /\ lastOut \in Viewers \cup {None}
PlaceTypes ==
  /\ rpc \in {"start", "window", "serving", "returned"}
  /\ win \in {"none", "running", "killed"}
  /\ lpc \in {"run", "stop", "exited"}
Types == StopTypes /\ PageTypes /\ TimerTypes /\ PlaceTypes

\* Where a stopWith is between its Swap and close(stopped).
Active == {"swapped", "shutdown", "list", "close", "kill", "finish"}

\* The stop has taken its list; its byes are all written; the server is shut down.
Listed == stopped \/ \E t \in Stoppers : spc[t] \in {"close", "kill", "finish"}
Closed == stopped \/ \E t \in Stoppers : spc[t] \in {"kill", "finish"}
ServerDown == Listed \/ \E t \in Stoppers : spc[t] = "list"

\* Only the caller whose Swap set closing works, and its reason is the stop's.
OneStop ==
  /\ \A t \in Stoppers : spc[t] # "none" => closing
  /\ \A t, u \in Stoppers : spc[t] \in Active /\ spc[u] \in Active => t = u
  /\ stopped => closing /\ \A t \in Stoppers : spc[t] \notin Active
  /\ closing => reason \in Reasons
  /\ ~closing => reason = ""
  /\ stopBye \in {"", reason} /\ (stopBye # "" <=> Listed)

\* Where one viewer is, against the list, the stop's list and what it was told.
PageOf(v) ==
  /\ v \in clients <=> vst[v] \in {"open", "closing", "left"}
  /\ Listed /\ vst[v] = "open" => v \in slist
  /\ v \in byStop => /\ vst[v] \in {"closing", "left", "gone"}
                     /\ vst[v] \in {"left", "gone"} => bye[v] = reason
                     /\ Closed => vst[v] = "gone"
  /\ bye[v] \in {"", reason}

Pages ==
  /\ slist # {} => \E t \in Stoppers : spc[t] = "close"
  /\ byStop # {} => Listed
  /\ \A v \in Viewers : PageOf(v)

\* The window and the listener: run has told the stop of the listener or closed it.
Shut ==
  /\ stopped \/ (\E t \in Stoppers : spc[t] = "finish") => win # "running"
  /\ rpc # "start" => lnKnown \/ ~lnOpen
  /\ ServerDown /\ rpc # "start" => ~lnOpen

\* The current leave timer is that of the viewer whose leaving emptied the list.
Grace == leaveTimer # None => clients = {} /\ lastOut = leaveTimer

IInv == Types /\ FlagTypes /\ QueueTypes /\ OneStop /\ Pages /\ Shut /\ Grace

-----------------------------------------------------------------------------
USE NoneIsNoViewer, WindowBoolean, CapPositive

\* runWeb starts with no event.
LEMMA EmptyQueue == events = <<>> => QueueTypes
<1>1. <<>> \in Seq({"quit", "other"}) /\ Len(<<>>) = 0
  OBVIOUS
<1> QED
  BY <1>1, CapPositive DEF QueueTypes

\* A display starts with no viewer, no stop and its listener open.
LEMMA InitIInv == Init => IInv
<1> SUFFICES ASSUME Init PROVE IInv
  OBVIOUS
<1> USE DEF Init
<1>1. Types
  BY DEF Types, StopTypes, PageTypes, TimerTypes, PlaceTypes, ViewerAt, StopAt, TimerAt
<1>2. FlagTypes
  BY DEF FlagTypes
<1>3. QueueTypes
  BY EmptyQueue
<1>4. OneStop /\ Pages
  BY DEF OneStop, Pages, PageOf, Listed, Closed, Stoppers, Active
<1>5. Shut /\ Grace
  BY DEF Shut, Grace, ServerDown, Listed, Stoppers
<1> QED BY <1>1, <1>2, <1>3, <1>4, <1>5 DEF IInv

\* What a step may do to the stop, the viewers and the server: the leave timer's
\* steps and the queue's only forget the timer (Rest), and three callers begin a stop.
ViewerMoves(v) == \/ Connect(v) \/ Register(v) \/ TurnedAway(v) \/ CloseSocket(v)
                  \/ CloseItself(v) \/ Leave(v)
TimerMoves(v) == TimerFires(v) \/ TimerDecides(v) \/ TimerLooksAtClosing(v) \/ Quit(v)
QueueMoves == EventArrives \/ LoopConsumes \/ LoopExits
Begins(t) == /\ \E why \in Reasons : StopBegins(t, why)
             /\ UNCHANGED <<done, stopped, slist, hub, conns, timers, server>>
Rest == UNCHANGED <<stopping, stopBye, clients, conns, lastOut, server>>
        /\ leaveTimer' \in {leaveTimer, None}

\* Every step is one of these.
LEMMA Steps ==
  ASSUME Types, [Next]_vars
  PROVE  \/ \E v \in Viewers : ViewerMoves(v)
         \/ \E t \in Stoppers : StopStep(t) \/ Begins(t)
         \/ RunPublishes \/ StartWindow \/ RunReturns \/ ServeFails \/ DispatcherTells
         \/ Rest
<1> USE DEF stopping, hub, conns, timers, server, app
<1>1. ASSUME NEW v \in Viewers, TimerMoves(v) PROVE Rest
  BY <1>1 DEF TimerMoves, TimerFires, TimerDecides, TimerLooksAtClosing, Quit, Rest
<1>2. CASE QueueMoves \/ UNCHANGED vars
  BY <1>2 DEF QueueMoves, EventArrives, LoopConsumes, LoopExits, Rest, vars
<1>3. ASSUME NEW v \in Viewers, DispatcherQuits(v) PROVE Begins("dispatcher")
  BY <1>3 DEF DispatcherQuits, Begins, Reasons
<1>4. CASE LoopQuits \/ LoopServeErr \/ LoopVideoErr
  <2>1. Begins("loop")
    BY <1>4 DEF LoopQuits, LoopServeErr, LoopVideoErr, Begins, Reasons
  <2> QED BY <2>1 DEF Stoppers
<1> QED BY <1>1, <1>2, <1>3, <1>4
        DEF Next, ViewerStep, ViewerMoves, TimerStep, TimerMoves, QueueMoves, LoopStep, RunStep, Stoppers

\* Every step leaves the stop, the viewers, the timers and the places in their types.
LEMMA TypesKept == ASSUME Types, OneStop, [Next]_vars PROVE Types'
<1> USE DEF Types, StopTypes, PageTypes, TimerTypes, PlaceTypes, stopping, hub, conns, timers, server, app
<1>1. ASSUME NEW v \in Viewers, ViewerMoves(v) PROVE Types'
  <2>1. CASE Connect(v)
    BY <2>1 DEF Connect, ViewerAt
  <2>5. CASE TurnedAway(v)
    <3>1. stopBye \in Reasons \cup {""}
      BY DEF OneStop
    <3> QED BY <2>5, <3>1 DEF TurnedAway, ViewerAt
  <2>6. CASE CloseSocket(v)
    BY <2>6 DEF CloseSocket, ViewerAt
  <2>2. CASE CloseItself(v)
    BY <2>2 DEF CloseItself, CloseBegin, ViewerAt
  <2>3. CASE Register(v)
    BY <2>3 DEF Register, CancelledTimers, ViewerAt, TimerAt
  <2>4. CASE Leave(v)
    BY <2>4 DEF Leave, CancelledTimers, ViewerAt, TimerAt
  <2> QED BY <1>1, <2>1, <2>2, <2>3, <2>4, <2>5, <2>6 DEF ViewerMoves
<1>2. ASSUME NEW v \in Viewers, TimerMoves(v) PROVE Types'
  <2>1. CASE TimerFires(v) \/ TimerDecides(v) \/ TimerLooksAtClosing(v)
    BY <2>1 DEF TimerFires, TimerDecides, TimerLooksAtClosing, TimerAt
  <2>2. CASE Quit(v)
    BY <2>2 DEF Quit, HasRoom, TimerAt
  <2> QED BY <1>2, <2>1, <2>2 DEF TimerMoves
<1>3. CASE QueueMoves \/ UNCHANGED vars
  BY <1>3 DEF QueueMoves, EventArrives, LoopConsumes, LoopExits, HasRoom, vars
<1>4. ASSUME NEW v \in Viewers, DispatcherQuits(v) PROVE Types'
  BY <1>4 DEF DispatcherQuits, StopBegins, Stoppers, StopAt, Reasons
<1>5. CASE LoopQuits \/ LoopServeErr \/ LoopVideoErr
  BY <1>5, ZenonT(40)
     DEF LoopQuits, LoopServeErr, LoopVideoErr, StopBegins, Stoppers, StopAt, Reasons
<1>6. ASSUME NEW t \in Stoppers, StopStep(t) PROVE Types'
  <2>1. CASE StopWaited(t) \/ StopDone(t) \/ StopServer(t) \/ StopClosed(t)
    BY <2>1 DEF StopWaited, StopDone, StopServer, StopClosed, StopAt
  <2>2. CASE StopLists(t)
    BY <2>2 DEF StopLists, CancelledTimers, StopAt, TimerAt
  <2>3. ASSUME NEW v \in Viewers, StopCloses(t, v) PROVE Types'
    BY <2>3 DEF StopCloses, CloseBegin, ViewerAt
  <2>4. CASE StopKills(t) \/ StopFinishes(t)
    BY <2>4 DEF StopKills, StopFinishes, StopAt
  <2> QED BY <1>6, <2>1, <2>2, <2>3, <2>4 DEF StopStep
<1>7. CASE RunStep \/ ServeFails
  BY <1>7 DEF RunStep, RunPublishes, StartWindow, RunReturns, ServeFails
<1>8. CASE DispatcherTells
  BY <1>8 DEF DispatcherTells, HasRoom, StopAt, Stoppers
<1> QED BY <1>1, <1>2, <1>3, <1>4, <1>5, <1>6, <1>7, <1>8
        DEF Next, ViewerStep, ViewerMoves, TimerStep, TimerMoves, QueueMoves, LoopStep

\* A stop that begins while another is under way waits for it, and only the one that
\* works sets stopBye, as it takes its list, and stopped, at its end.
LEMMA OneStopKept == ASSUME Types, OneStop, [Next]_vars PROVE OneStop'
<1> USE DEF Types, StopTypes, OneStop, Listed, stopping, hub, conns, timers, server, app
<1>1. ASSUME NEW v \in Viewers, ViewerMoves(v) PROVE OneStop'
  <2>1. UNCHANGED <<closing, stopped, reason, spc, stopBye>>
    BY <1>1 DEF ViewerMoves, Connect, Register, TurnedAway, CloseSocket, CloseItself, Leave
  <2> QED BY <2>1
<1>2. ASSUME NEW t \in Stoppers, Begins(t) PROVE OneStop'
  <2>1. CASE closing
    <3>1. /\ UNCHANGED <<closing, stopped, reason, stopBye>> /\ spc[t] = "none"
          /\ spc' = [spc EXCEPT ![t] = "later"]
      BY <1>2, <2>1 DEF Begins, StopBegins
    <3> QED BY <2>1, <3>1 DEF Active
  <2>2. CASE ~closing
    <3>1. /\ closing' /\ UNCHANGED <<stopped, stopBye>> /\ reason' \in Reasons
          /\ spc' = [spc EXCEPT ![t] = "swapped"]
      BY <1>2, <2>2 DEF Begins, StopBegins
    <3>2. stopBye = "" /\ ~stopped /\ \A u \in Stoppers : spc[u] = "none"
      BY <2>2
    <3> QED BY <3>1, <3>2, ZenonT(40) DEF Active
  <2> QED BY <2>1, <2>2
<1>3. ASSUME NEW t \in Stoppers, StopStep(t) PROVE OneStop'
  <2>1. CASE StopWaited(t)
    BY <2>1 DEF StopWaited, Active
  <2>2. CASE StopDone(t) \/ StopServer(t) \/ StopClosed(t) \/ StopKills(t)
    <3>1. /\ UNCHANGED <<closing, stopped, reason, stopBye>>
          /\ \/ spc[t] = "swapped" /\ spc' = [spc EXCEPT ![t] = "shutdown"]
             \/ spc[t] = "shutdown" /\ spc' = [spc EXCEPT ![t] = "list"]
             \/ spc[t] = "close" /\ spc' = [spc EXCEPT ![t] = "kill"]
             \/ spc[t] = "kill" /\ spc' = [spc EXCEPT ![t] = "finish"]
      BY <2>2 DEF StopDone, StopServer, StopClosed, StopKills
    <3>2. spc[t] \in Active /\ spc'[t] \in Active /\ \A u \in Stoppers \ {t} : spc'[u] = spc[u]
      BY <3>1 DEF Active
    <3>3. Listed' <=> Listed
      BY <3>1
    <3> QED BY <3>1, <3>2, <3>3 DEF Active
  <2>3. CASE StopLists(t)
    <3>1. /\ UNCHANGED <<closing, stopped, reason>> /\ stopBye' = reason
          /\ spc[t] = "list" /\ spc' = [spc EXCEPT ![t] = "close"]
      BY <2>3 DEF StopLists
    <3>2. closing /\ reason # ""
      BY <3>1 DEF Reasons
    <3> QED BY <3>1, <3>2 DEF Active
  <2>4. ASSUME NEW v \in Viewers, StopCloses(t, v) PROVE OneStop'
    <3>1. UNCHANGED <<closing, stopped, reason, spc, stopBye>>
      BY <2>4 DEF StopCloses
    <3> QED BY <3>1
  <2>5. CASE StopFinishes(t)
    <3>1. /\ UNCHANGED <<closing, reason, stopBye>> /\ stopped'
          /\ spc[t] = "finish" /\ spc' = [spc EXCEPT ![t] = "returned"]
      BY <2>5 DEF StopFinishes
    <3>2. \A u \in Stoppers : spc'[u] \notin Active
      BY <3>1 DEF Active
    <3> QED BY <3>1, <3>2
  <2> QED BY <1>3, <2>1, <2>2, <2>3, <2>4, <2>5 DEF StopStep
<1>4. CASE RunPublishes \/ StartWindow \/ RunReturns \/ ServeFails \/ Rest
  <2>1. UNCHANGED <<closing, stopped, reason, spc, stopBye>>
    BY <1>4 DEF RunPublishes, StartWindow, RunReturns, ServeFails, Rest
  <2> QED BY <2>1
<1>5. CASE DispatcherTells
  BY <1>5 DEF DispatcherTells, Active, Stoppers
<1> QED BY <1>1, <1>2, <1>3, <1>4, <1>5, Steps

\* A viewer that registers after the stop took its list is turned away, so every open
\* page stays on the list until the stop has called closeWith on it.
LEMMA PagesKept == ASSUME Types, OneStop, Pages, [Next]_vars PROVE Pages'
<1> USE DEF Types, StopTypes, PageTypes, stopping, hub, conns, timers, server, app
<1>1. ASSUME NEW v \in Viewers, ViewerMoves(v) PROVE Pages'
  <2>0. UNCHANGED <<stopped, reason, spc, slist>>
    BY <1>1 DEF ViewerMoves, Connect, Register, TurnedAway, CloseSocket, CloseItself, Leave
  <2>1. UNCHANGED <<stopped, reason, spc, slist>> /\ Listed' = Listed /\ Closed' = Closed
    BY <2>0 DEF Listed, Closed
  <2>2. stopBye \in {"", reason} /\ (stopBye # "" <=> Listed)
    BY DEF OneStop
  <2>3. PageOf(v) /\ (byStop # {} => Listed) /\ (Closed => Listed)
    BY DEF Pages, Closed, Listed
  <2>4. ASSUME NEW s \in ViewerAt, vst' = [vst EXCEPT ![v] = s], byStop' = byStop,
               clients' \in {clients, clients \cup {v}, clients \ {v}},
               bye' = bye \/ \E b \in Reasons \cup {""} : bye' = [bye EXCEPT ![v] = b],
               PageOf(v)'
        PROVE  Pages'
    <3>1. ASSUME NEW w \in Viewers, w # v PROVE PageOf(w)'
      <4>1. /\ vst'[w] = vst[w] /\ (w \in clients' <=> w \in clients)
            /\ bye'[w] = bye[w]
        BY <2>4, <3>1
      <4> QED BY <2>1, <2>4, <4>1 DEF Pages, PageOf
    <3>2. (slist # {} => \E t \in Stoppers : spc[t] = "close")' /\ (byStop # {} => Listed)'
      BY <2>1, <2>4 DEF Pages
    <3> QED BY <2>4, <3>1, <3>2 DEF Pages
  <2>5. CASE Connect(v)
    <3>1. PageOf(v)'
      BY <2>1, <2>2, <2>3, <2>5 DEF Connect, PageOf
    <3> QED BY <2>4, <2>5, <3>1 DEF Connect, ViewerAt
  <2>6. CASE Register(v)
    <3>1. PageOf(v)'
      BY <2>1, <2>2, <2>3, <2>6 DEF Register, PageOf
    <3> QED BY <2>4, <2>6, <3>1 DEF Register, ViewerAt
  <2>7. CASE TurnedAway(v)
    <3>1. PageOf(v)'
      BY <2>1, <2>2, <2>3, <2>7 DEF TurnedAway, PageOf
    <3>2. stopBye \in Reasons \cup {""}
      BY <2>2
    <3> QED BY <2>4, <2>7, <3>1, <3>2 DEF TurnedAway, ViewerAt
  <2>8. CASE CloseSocket(v)
    <3>1. PageOf(v)'
      BY <2>1, <2>2, <2>3, <2>8 DEF CloseSocket, PageOf
    <3>2. (IF v \in byStop THEN reason ELSE "") \in Reasons \cup {""}
      OBVIOUS
    <3> QED BY <2>4, <2>8, <3>1, <3>2 DEF CloseSocket, ViewerAt
  <2>9. CASE CloseItself(v)
    <3>1. byStop' = byStop /\ vst[v] = "open" /\ vst' = [vst EXCEPT ![v] = "closing"]
          /\ UNCHANGED <<clients, bye>>
      BY <2>9 DEF CloseItself, CloseBegin
    <3>2. PageOf(v)'
      BY <2>1, <2>2, <2>3, <3>1 DEF PageOf
    <3> QED BY <2>4, <3>1, <3>2 DEF ViewerAt
  <2>10. CASE Leave(v)
    <3>1. PageOf(v)'
      BY <2>1, <2>2, <2>3, <2>10 DEF Leave, PageOf
    <3> QED BY <2>4, <2>10, <3>1 DEF Leave, ViewerAt
  <2> QED BY <1>1, <2>5, <2>6, <2>7, <2>8, <2>9, <2>10 DEF ViewerMoves
<1>2. ASSUME NEW t \in Stoppers, Begins(t) PROVE Pages'
  <2>1. /\ UNCHANGED <<stopped, slist, clients, vst, byStop, bye>> /\ spc[t] = "none"
        /\ spc' = [spc EXCEPT ![t] = IF closing THEN "later" ELSE "swapped"]
        /\ closing => reason' = reason
    BY <1>2 DEF Begins, StopBegins
  <2>2. ~closing => reason = "" /\ ~Listed
    BY DEF OneStop
  <2>3. ~closing => byStop = {} /\ \A v \in Viewers : bye[v] = ""
    BY <2>2 DEF Pages, PageOf
  <2>4. Listed' => Listed
    BY <2>1 DEF Listed
  <2> QED BY <2>1, <2>2, <2>3, <2>4 DEF Pages, PageOf, Listed, Closed
<1>3. ASSUME NEW t \in Stoppers, StopStep(t) PROVE Pages'
  <2>1. CASE StopWaited(t) \/ StopDone(t) \/ StopServer(t)
    <3>1. /\ UNCHANGED <<stopped, reason, slist, clients, vst, byStop, bye>>
          /\ spc[t] \in {"later", "swapped", "shutdown"}
          /\ \E c \in {"returned", "shutdown", "list"} : spc' = [spc EXCEPT ![t] = c]
      BY <2>1 DEF StopWaited, StopDone, StopServer
    <3> QED BY <3>1 DEF Pages, PageOf, Listed, Closed
  <2>2. CASE StopLists(t)
    <3>1. /\ UNCHANGED <<stopped, reason, clients, vst, byStop, bye>> /\ slist' = clients
          /\ spc[t] = "list" /\ spc' = [spc EXCEPT ![t] = "close"]
      BY <2>2 DEF StopLists
    <3>2. ~Listed
      BY <3>1 DEF OneStop, Active, Listed
    <3>3. byStop = {}
      BY <3>2 DEF Pages
    <3> QED BY <3>1, <3>3 DEF Pages, PageOf, Listed, Closed
  <2>3. ASSUME NEW v \in Viewers, StopCloses(t, v) PROVE Pages'
    <3>1. /\ UNCHANGED <<stopped, reason, spc, clients, bye>> /\ slist' = slist \ {v}
          /\ spc[t] = "close" /\ v \in slist
          /\ \/ vst[v] = "open" /\ vst' = [vst EXCEPT ![v] = "closing"] /\ byStop' = byStop \cup {v}
             \/ vst[v] # "open" /\ UNCHANGED <<vst, byStop>>
      BY <2>3 DEF StopCloses, CloseBegin
    <3>2. Listed /\ ~stopped /\ \A u \in Stoppers : spc[u] \notin {"kill", "finish"}
      BY <3>1 DEF OneStop, Active, Listed
    <3> QED BY <3>1, <3>2, ZenonT(40) DEF Pages, PageOf, Listed, Closed
  <2>4. CASE StopClosed(t)
    <3>1. /\ UNCHANGED <<stopped, reason, slist, clients, vst, byStop, bye>> /\ spc[t] = "close"
          /\ spc' = [spc EXCEPT ![t] = "kill"] /\ slist = {} /\ \A v \in byStop : vst[v] = "gone"
      BY <2>4 DEF StopClosed
    <3> QED BY <3>1 DEF Pages, PageOf, Listed, Closed
  <2>5. CASE StopKills(t) \/ StopFinishes(t)
    <3>1. /\ UNCHANGED <<reason, slist, clients, vst, byStop, bye>>
          /\ \/ spc[t] = "kill" /\ spc' = [spc EXCEPT ![t] = "finish"] /\ stopped' = stopped
             \/ spc[t] = "finish" /\ spc' = [spc EXCEPT ![t] = "returned"] /\ stopped'
      BY <2>5 DEF StopKills, StopFinishes
    <3>2. Listed /\ \A v \in byStop : vst[v] = "gone"
      BY <3>1 DEF Pages, PageOf, Listed, Closed
    <3> QED BY <3>1, <3>2 DEF Pages, PageOf, Listed, Closed
  <2> QED BY <1>3, <2>1, <2>2, <2>3, <2>4, <2>5 DEF StopStep
<1>4. CASE RunPublishes \/ StartWindow \/ RunReturns \/ ServeFails \/ Rest
  <2>1. UNCHANGED <<stopped, reason, spc, slist, clients, vst, byStop, bye>>
    BY <1>4 DEF RunPublishes, StartWindow, RunReturns, ServeFails, Rest
  <2> QED BY <2>1 DEF Pages, PageOf, Listed, Closed
<1>5. CASE DispatcherTells
  <2>1. /\ UNCHANGED <<stopped, reason, slist, clients, vst, byStop, bye>>
        /\ spc["dispatcher"] = "returned" /\ spc' = [spc EXCEPT !["dispatcher"] = "told"]
    BY <1>5 DEF DispatcherTells
  <2> QED BY <2>1 DEF Pages, PageOf, Listed, Closed, Stoppers
<1> QED BY <1>1, <1>2, <1>3, <1>4, <1>5, Steps

\* run and the stop both look at the other under srvMu: the second of the two closes the
\* listener; a window starts only before closing is set, hence before killWindow.
LEMMA ShutKept == ASSUME Types, FlagTypes, OneStop, Shut, [Next]_vars PROVE Shut'
<1> USE DEF Types, StopTypes, FlagTypes, stopping, hub, conns, timers, server, app
<1>1. ASSUME NEW v \in Viewers, ViewerMoves(v) PROVE Shut'
  <2>1. UNCHANGED <<stopped, spc, server>>
    BY <1>1 DEF ViewerMoves, Connect, Register, TurnedAway, CloseSocket, CloseItself, Leave
  <2> QED BY <2>1 DEF Shut, ServerDown, Listed
<1>2. ASSUME NEW t \in Stoppers, Begins(t) PROVE Shut'
  <2>1. UNCHANGED <<stopped, server>> /\ \E c \in {"later", "swapped"} : spc' = [spc EXCEPT ![t] = c]
    BY <1>2 DEF Begins, StopBegins
  <2> QED BY <2>1 DEF Shut, ServerDown, Listed
<1>3. ASSUME NEW t \in Stoppers, StopStep(t) PROVE Shut'
  <2>1. CASE StopWaited(t) \/ StopDone(t)
    <3>1. UNCHANGED <<stopped, server>> /\ \E c \in {"returned", "shutdown"} : spc' = [spc EXCEPT ![t] = c]
      BY <2>1 DEF StopWaited, StopDone
    <3> QED BY <3>1 DEF Shut, ServerDown, Listed
  <2>2. CASE StopServer(t)
    BY <2>2 DEF StopServer, Shut, ServerDown, Listed
  <2>3. CASE StopLists(t) \/ StopClosed(t)
    <3>1. /\ UNCHANGED <<stopped, server>>
          /\ \/ spc[t] = "list" /\ spc' = [spc EXCEPT ![t] = "close"]
             \/ spc[t] = "close" /\ spc' = [spc EXCEPT ![t] = "kill"]
      BY <2>3 DEF StopLists, StopClosed
    <3> QED BY <3>1 DEF Shut, ServerDown, Listed
  <2>4. ASSUME NEW v \in Viewers, StopCloses(t, v) PROVE Shut'
    BY <2>4 DEF StopCloses, Shut, ServerDown, Listed
  <2>5. CASE StopKills(t)
    BY <2>5 DEF StopKills, Shut, ServerDown, Listed
  <2>6. CASE StopFinishes(t)
    BY <2>6 DEF StopFinishes, Shut, ServerDown, Listed
  <2> QED BY <1>3, <2>1, <2>2, <2>3, <2>4, <2>5, <2>6 DEF StopStep
<1>4. CASE RunPublishes
  <2>1. UNCHANGED <<stopped, spc, win>> /\ (closing => ~lnOpen') /\ (lnKnown' \/ ~lnOpen')
    BY <1>4 DEF RunPublishes
  <2>2. ServerDown => closing
    BY DEF ServerDown, Listed, OneStop
  <2> QED BY <2>1, <2>2 DEF Shut, ServerDown, Listed
<1>5. CASE StartWindow
  <2>1. UNCHANGED <<stopped, spc, lnKnown, lnOpen>> /\ rpc = "window" /\ (closing => win' = win)
    BY <1>5 DEF StartWindow
  <2>2. stopped \/ (\E t \in Stoppers : spc[t] = "finish") => closing
    BY DEF OneStop
  <2> QED BY <2>1, <2>2 DEF Shut, ServerDown, Listed
<1>6. CASE RunReturns \/ ServeFails
  <2>1. UNCHANGED <<stopped, spc, win, lnKnown, lnOpen>> /\ rpc = "serving"
    BY <1>6 DEF RunReturns, ServeFails
  <2> QED BY <2>1 DEF Shut, ServerDown, Listed
<1>7. CASE DispatcherTells
  <2>1. UNCHANGED <<stopped, server>> /\ spc' = [spc EXCEPT !["dispatcher"] = "told"]
    BY <1>7 DEF DispatcherTells
  <2> QED BY <2>1 DEF Shut, ServerDown, Listed
<1>8. CASE Rest
  BY <1>8 DEF Rest, Shut, ServerDown, Listed
<1> QED BY <1>1, <1>2, <1>3, <1>4, <1>5, <1>6, <1>7, <1>8, Steps

\* A viewer that registers forgets the timer under clientsMu, and the last one to leave
\* arms a timer of its own.
LEMMA GraceKept == ASSUME Types, Pages, Grace, [Next]_vars PROVE Grace'
<1> USE DEF Types, PageTypes, Grace, stopping, hub, conns, timers, server, app
<1>1. ASSUME NEW v \in Viewers, ViewerMoves(v) PROVE Grace'
  <2>1. CASE Connect(v) \/ TurnedAway(v) \/ CloseSocket(v) \/ CloseItself(v)
    BY <2>1 DEF Connect, TurnedAway, CloseSocket, CloseItself
  <2>2. CASE Register(v)
    BY <2>2 DEF Register
  <2>3. CASE Leave(v)
    <3>1. v \in clients
      BY <2>3 DEF Leave, Pages, PageOf
    <3> QED BY <2>3, <3>1 DEF Leave
  <2> QED BY <1>1, <2>1, <2>2, <2>3 DEF ViewerMoves
<1>2. ASSUME NEW t \in Stoppers, StopStep(t) \/ Begins(t) PROVE Grace'
  <2>1. UNCHANGED <<clients, lastOut>> /\ leaveTimer' \in {leaveTimer, None}
    BY <1>2 DEF StopStep, StopWaited, StopDone, StopServer, StopLists, StopCloses, StopClosed,
                StopKills, StopFinishes, Begins
  <2> QED BY <2>1
<1>3. CASE RunPublishes \/ StartWindow \/ RunReturns \/ ServeFails \/ DispatcherTells \/ Rest
  BY <1>3 DEF RunPublishes, StartWindow, RunReturns, ServeFails, DispatcherTells, Rest
<1> QED BY <1>1, <1>2, <1>3, Steps

\* The flags are booleans: no step clears closing, done or stopped.
LEMMA FlagsKept == ASSUME FlagTypes, [Next]_vars PROVE FlagTypes'
<1> USE DEF FlagTypes, stopping, hub, conns, timers, server, app
<1>1. ASSUME NEW v \in Viewers, ViewerMoves(v) \/ TimerMoves(v) \/ DispatcherQuits(v)
      PROVE  FlagTypes'
  <2>1. UNCHANGED <<done, stopped, lnKnown, lnOpen>> /\ closing' \in {closing, TRUE}
    BY <1>1 DEF ViewerMoves, Connect, Register, TurnedAway, CloseSocket, CloseItself, Leave,
                TimerMoves, TimerFires, TimerDecides, TimerLooksAtClosing, Quit,
                DispatcherQuits, StopBegins
  <2> QED BY <2>1
<1>2. ASSUME NEW t \in Stoppers, StopStep(t) PROVE FlagTypes'
  <2>1. /\ UNCHANGED <<closing, lnKnown>> /\ done' \in {done, TRUE}
        /\ stopped' \in {stopped, TRUE} /\ lnOpen' \in {lnOpen, FALSE}
    BY <1>2 DEF StopStep, StopWaited, StopDone, StopServer, StopLists, StopCloses, StopClosed,
                StopKills, StopFinishes
  <2> QED BY <2>1
<1>3. CASE LoopStep \/ LoopVideoErr \/ QueueMoves \/ DispatcherTells
  <2>1. UNCHANGED <<done, stopped, lnKnown, lnOpen>> /\ closing' \in {closing, TRUE}
    BY <1>3 DEF LoopStep, LoopConsumes, LoopQuits, LoopServeErr, LoopExits, LoopVideoErr,
                QueueMoves, EventArrives, DispatcherTells, StopBegins
  <2> QED BY <2>1
<1>4. CASE RunStep \/ ServeFails \/ UNCHANGED vars
  <2>1. /\ UNCHANGED <<done, stopped, closing>>
        /\ lnKnown' \in {lnKnown, TRUE} /\ lnOpen' \in {lnOpen, FALSE}
    BY <1>4 DEF RunStep, RunPublishes, StartWindow, RunReturns, ServeFails, vars
  <2> QED BY <2>1
<1> QED BY <1>1, <1>2, <1>3, <1>4
        DEF Next, ViewerStep, ViewerMoves, TimerStep, TimerMoves, QueueMoves

\* What a step may do to app.events.
Fills == events' = events \/ (events # <<>> /\ events' = Tail(events))
         \/ (HasRoom /\ \E e \in {"quit", "other"} : events' = Append(events, e))

\* Whoever puts an event into app.events has found room for it.
LEMMA QueueKept == ASSUME QueueTypes, [Next]_vars PROVE QueueTypes'
<1> USE DEF stopping, hub, conns, timers, server, app
<1>1. Fills
  <2>1. ASSUME NEW v \in Viewers, ViewerMoves(v) \/ TimerMoves(v) \/ DispatcherQuits(v)
        PROVE  Fills
    BY <2>1 DEF Fills, ViewerMoves, Connect, Register, TurnedAway, CloseSocket, CloseItself,
                Leave, TimerMoves, TimerFires, TimerDecides, TimerLooksAtClosing, Quit,
                DispatcherQuits
  <2>2. ASSUME NEW t \in Stoppers, StopStep(t) PROVE Fills
    BY <2>2 DEF Fills, StopStep, StopWaited, StopDone, StopServer, StopLists, StopCloses,
                StopClosed, StopKills, StopFinishes
  <2>3. CASE LoopStep \/ LoopVideoErr \/ QueueMoves \/ DispatcherTells
    BY <2>3 DEF Fills, LoopStep, LoopConsumes, LoopQuits, LoopServeErr, LoopExits,
                LoopVideoErr, QueueMoves, EventArrives, DispatcherTells
  <2>4. CASE RunStep \/ ServeFails \/ UNCHANGED vars
    BY <2>4 DEF Fills, RunStep, RunPublishes, StartWindow, RunReturns, ServeFails, vars
  <2> QED BY <2>1, <2>2, <2>3, <2>4
          DEF Next, ViewerStep, ViewerMoves, TimerStep, TimerMoves, QueueMoves
<1>2. CASE events' = events
  BY <1>2 DEF QueueTypes
<1>3. CASE events # <<>> /\ events' = Tail(events)
  <2>1. events' \in Seq({"quit", "other"}) /\ Len(events') = Len(events) - 1
    BY <1>3 DEF QueueTypes
  <2>2. Cap \in Nat /\ Len(events) \in Nat /\ Len(events) <= Cap
    BY CapPositive DEF QueueTypes
  <2> QED BY <2>1, <2>2 DEF QueueTypes
<1>4. ASSUME NEW e \in {"quit", "other"}, HasRoom, events' = Append(events, e)
      PROVE  QueueTypes'
  <2>1. events' \in Seq({"quit", "other"}) /\ Len(events') = Len(events) + 1
    BY <1>4 DEF QueueTypes
  <2>2. Cap \in Nat /\ Len(events) \in Nat /\ Len(events) < Cap
    BY <1>4, CapPositive DEF QueueTypes, HasRoom
  <2> QED BY <2>1, <2>2 DEF QueueTypes
<1> QED BY <1>1, <1>2, <1>3, <1>4 DEF Fills

-----------------------------------------------------------------------------
\* The inductive invariant holds at every moment, for any viewers and any room in the
\* queue, with a window or without one.
THEOREM Inductive == Spec => []IInv
<1>1. Init => IInv
  BY InitIInv
<1>2. IInv /\ [Next]_vars => IInv'
  BY TypesKept, FlagsKept, QueueKept, OneStopKept, PagesKept, ShutKept, GraceKept DEF IInv
<1> QED
  BY <1>1, <1>2, PTL DEF Spec

\* The state of a session stays in its types; a latecomer's bye, once set, is the reason
\* of the one stop, and the queue keeps to its size.
THEOREM TypeCorrect == Spec => []TypeOK
<1>1. IInv => TypeOK
  BY DEF IInv, Types, StopTypes, PageTypes, TimerTypes, PlaceTypes, FlagTypes, QueueTypes,
         OneStop, TypeOK
<1> QED
  BY <1>1, Inductive, PTL

\* What the parts of the invariant say of a stop that has finished.
LEMMA Complete == ASSUME IInv PROVE StopIsComplete
<1> USE DEF IInv
<1>1. NobodyLeftBehind
  <2>1. \A v \in Viewers : bye[v] \in {"", reason}
    BY DEF Pages, PageOf
  <2>2. ASSUME stopped, NEW v \in Viewers
        PROVE  \/ vst[v] \in {"none", "upgraded"} /\ stopBye = reason
               \/ vst[v] = "gone" /\ (v \in byStop => bye[v] = reason)
               \/ vst[v] \in {"closing", "left"} /\ v \notin byStop
    <3>1. slist = {} /\ stopBye = reason /\ Listed /\ Closed
      BY <2>2 DEF Pages, OneStop, Active, Listed, Closed
    <3>2. PageOf(v) /\ vst[v] \in ViewerAt
      BY DEF Pages, Types, PageTypes
    <3> QED BY <3>1, <3>2 DEF PageOf, ViewerAt
  <2> QED BY <2>1, <2>2 DEF NobodyLeftBehind
<1>2. NoOrphanWindow
  BY DEF NoOrphanWindow, Shut, OneStop
<1>3. NoListenerLeft
  BY DEF NoListenerLeft, Shut, ServerDown, Listed
<1> QED
  BY <1>1, <1>2, <1>3 DEF StopIsComplete

\* A stop that has finished has stopped everything: each page was told the first stop's
\* reason and no other, latecomers too, and neither the browser window nor the listener
\* outlives it, whatever order stopWith, handleWS, startWindow and run went in.
THEOREM StopIsCompleteCorrect == Spec => []StopIsComplete
<1>1. IInv => StopIsComplete
  BY Complete
<1> QED
  BY <1>1, Inductive, PTL

\* Only the leave timer's own function decides, and only while its timer is current.
LEMMA Decided ==
  ASSUME IInv, [Next]_vars, NEW v \in Viewers, timer'[v] = "decided", timer[v] # "decided"
  PROVE  lastOut = v
<1> USE DEF stopping, hub, conns, timers, server, app, IInv, Types, TimerTypes
<1>1. CASE \E w \in Viewers : TimerDecides(w)
  <2>1. PICK w \in Viewers : TimerDecides(w)
    BY <1>1
  <2>2. w = v /\ leaveTimer = v
    BY <2>1 DEF TimerDecides
  <2> QED BY <2>2, NoneIsNoViewer DEF Grace
<1>2. ASSUME NEW w \in Viewers, ViewerMoves(w) PROVE FALSE
  <2>1. timer' = timer \/ timer' = CancelledTimers
        \/ timer' = [CancelledTimers EXCEPT ![w] = "armed"]
    BY <1>2 DEF ViewerMoves, Connect, Register, TurnedAway, CloseSocket, CloseItself, Leave
  <2> QED BY <2>1 DEF CancelledTimers
<1>3. ASSUME NEW w \in Viewers, TimerFires(w) \/ TimerLooksAtClosing(w) \/ Quit(w) PROVE FALSE
  <2>1. \E s \in {"fired", "off", "quitting"} : timer' = [timer EXCEPT ![w] = s]
    BY <1>3 DEF TimerFires, TimerLooksAtClosing, Quit
  <2> QED BY <2>1
<1>4. ASSUME NEW t \in Stoppers, StopStep(t) PROVE FALSE
  <2>1. timer' = timer \/ timer' = CancelledTimers
    BY <1>4 DEF StopStep, StopWaited, StopDone, StopServer, StopLists, StopCloses, StopClosed,
                StopKills, StopFinishes
  <2> QED BY <2>1 DEF CancelledTimers
<1>5. CASE UNCHANGED timer
  BY <1>5
<1>6. ASSUME NEW w \in Viewers, DispatcherQuits(w) PROVE UNCHANGED timer
  BY <1>6 DEF DispatcherQuits
<1>7. CASE LoopStep \/ LoopVideoErr \/ EventArrives \/ DispatcherTells \/ RunStep \/ ServeFails
           \/ UNCHANGED vars
  <2>1. UNCHANGED timer
    BY <1>7 DEF LoopStep, LoopConsumes, LoopQuits, LoopServeErr, LoopExits, LoopVideoErr,
                EventArrives, DispatcherTells, RunStep, RunPublishes, StartWindow, RunReturns,
                ServeFails, vars
  <2> QED BY <2>1
<1> QED
  BY <1>1, <1>2, <1>3, <1>4, <1>5, <1>6, <1>7 DEF Next, ViewerStep, ViewerMoves, TimerStep

\* A timer that fired in an earlier gap, and waited for clientsMu while a page came and
\* left again, does not end the session in the next gap.
THEOREM LeaveGraceCorrect == Spec => LeaveGrace
<1>1. IInv /\ [Next]_vars =>
        [\A v \in Viewers : timer'[v] = "decided" /\ timer[v] # "decided" => lastOut = v]_vars
  BY Decided
<1> QED
  BY <1>1, Inductive, PTL DEF Spec, LeaveGrace

-----------------------------------------------------------------------------
(***************************************************************************)
(* The time a stop takes.                                                  *)
(***************************************************************************)
\* A later stop of the loop has not waited longer than the phases gone by may have
\* taken, and the time spent in this one.
WaitedSoFar ==
  loop # "run" /\ first = "dispatcher" =>
    /\ phase = "shutdown" => waited <= spent
    /\ phase = "close" => waited <= ShutdownMax + spent
    /\ phase = "kill" => waited <= ShutdownMax + CloseMax + spent

InTime == phase \in Busy => spent <= Limit(phase)

\* The loop calls stopWith before it exits, so a stop is under way.
SomeoneStops == loop # "run" => phase # "none"
NotBegun == phase = "none" => spent = 0
WaitsForOther == loop = "run" \/ first # "dispatcher" => waited = 0

\* Viewers are being closed in the phase of their closes only.
ListInClose == phase # "close" => pending = {}

DeadlineInv ==
  DeadlineTypeOK /\ WaitedSoFar /\ InTime /\ SomeoneStops /\ NotBegun /\ WaitsForOther

\* Every step keeps the inductive invariant, whatever the limits are: each call of
\* stopWith's returns by its own limit, and the loop's wait grows no faster.
THEOREM DeadlineInductive ==
  ASSUME LimitsAreTimes
  PROVE  DeadlineSpec => []DeadlineInv
<1> USE DEF LimitsAreTimes, DeadlineTypeOK, Whole, Busy, Phases, Limit
<1>1. DeadlineInit => DeadlineInv
  BY DEF DeadlineInit, DeadlineInv, WaitedSoFar, InTime, SomeoneStops, NotBegun, WaitsForOther
<1>2. DeadlineInv /\ [DeadlineNext]_deadlineVars => DeadlineInv'
  <2> SUFFICES ASSUME DeadlineInv, [DeadlineNext]_deadlineVars PROVE DeadlineInv'
    OBVIOUS
  <2> USE DEF DeadlineInv, WaitedSoFar, InTime, SomeoneStops, NotBegun, WaitsForOther
  <2>1. CASE PageQuits
    BY <2>1 DEF PageQuits, FirstStop
  <2>2. CASE LoopStopsFirst
    BY <2>2 DEF LoopStopsFirst, FirstStop
  <2>3. CASE LoopStopsLater
    BY <2>3 DEF LoopStopsLater
  <2>4. CASE ShutdownReturns
    BY <2>4 DEF ShutdownReturns
  <2>5. ASSUME NEW v \in Connected, ViewerCloses(v) PROVE DeadlineInv'
    BY <2>5 DEF ViewerCloses
  <2>6. CASE ByesWritten
    BY <2>6 DEF ByesWritten
  <2>7. CASE WindowGone
    BY <2>7 DEF WindowGone
  <2>8. CASE LoopEnds
    BY <2>8 DEF LoopEnds
  <2>9. CASE Tick
    BY <2>9 DEF Tick, LoopWaits
  <2>10. CASE UNCHANGED deadlineVars
    BY <2>10 DEF deadlineVars
  <2> QED
    BY <2>1, <2>2, <2>3, <2>4, <2>5, <2>6, <2>7, <2>8, <2>9, <2>10 DEF DeadlineNext
<1> QED
  BY <1>1, <1>2, PTL DEF DeadlineSpec

\* No part of a stop, and no wait for one, is longer than the limits of the parts
\* together.
THEOREM DeadlineTypeCorrect ==
  ASSUME LimitsAreTimes
  PROVE  DeadlineSpec => []DeadlineTypeOK
<1>1. DeadlineInv => DeadlineTypeOK
  BY DEF DeadlineInv
<1>2. DeadlineSpec => []DeadlineInv
  BY DeadlineInductive, LimitsAreTimes
<1> QED
  BY <1>1, <1>2, PTL

\* Until the byes are written, a later stop has time left to wait; and the list of
\* viewers to close is taken in one phase and empty after it.
LEMMA ByesKept ==
  ASSUME LimitsAreTimes, ByesFit, DeadlineInv, ByesBeforeExit, ListInClose,
         [DeadlineNext]_deadlineVars
  PROVE  ByesBeforeExit' /\ ListInClose'
<1> USE DEF LimitsAreTimes, ByesBeforeExit, ListInClose, DeadlineInv, DeadlineTypeOK
<1>1. CASE LoopEnds
  <2>1. ASSUME first = "dispatcher", waited = StopWait, phase \in {"shutdown", "close"}
        PROVE  FALSE
    <3>1. loop # "run" /\ spent <= Limit(phase)
      BY <1>1, <2>1 DEF LoopEnds, InTime, Busy
    <3> QED
      BY <2>1, <3>1 DEF ByesFit, WaitedSoFar, Limit
  <2>2. phase # "none"
    BY <1>1 DEF LoopEnds, SomeoneStops
  <2> QED
    BY <1>1, <2>1, <2>2 DEF LoopEnds, Phases, Busy
<1>2. CASE LoopStopsFirst \/ LoopStopsLater \/ Tick \/ PageQuits
  BY <1>2 DEF LoopStopsFirst, LoopStopsLater, Tick, PageQuits, DeadlineNext, FirstStop
<1>3. CASE UNCHANGED deadlineVars
  BY <1>3 DEF deadlineVars
<1>4. CASE ShutdownReturns \/ (\E v \in Connected : ViewerCloses(v)) \/ ByesWritten \/ WindowGone
  BY <1>4 DEF DeadlineNext, ShutdownReturns, ViewerCloses, ByesWritten, WindowGone,
              LoopStopsFirst, LoopStopsLater, Tick, PageQuits, LoopEnds
<1> QED
  BY <1>1, <1>2, <1>3, <1>4 DEF DeadlineNext

\* scterm does not exit while a Quit from the browser is still writing the byes, if
\* Shutdown and the closes together take less than a later stop waits, as they do in the
\* code (2 + 2 s of 5 s).  The window's 1.5 s no longer fit (see the runs).
THEOREM ByesBeforeExitCorrect ==
  ASSUME LimitsAreTimes, ByesFit
  PROVE  DeadlineSpec => []ByesBeforeExit
<1>1. DeadlineInit => ByesBeforeExit /\ ListInClose
  BY DEF DeadlineInit, ByesBeforeExit, ListInClose
<1>2. DeadlineInv /\ ByesBeforeExit /\ ListInClose /\ [DeadlineNext]_deadlineVars
        => ByesBeforeExit' /\ ListInClose'
  BY ByesKept, LimitsAreTimes, ByesFit
<1>3. DeadlineSpec => []DeadlineInv
  BY DeadlineInductive, LimitsAreTimes
<1> QED
  BY <1>1, <1>2, <1>3, PTL DEF DeadlineSpec
==============================================================================
