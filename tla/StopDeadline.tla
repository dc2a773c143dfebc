----------------------------- MODULE StopDeadline -----------------------------
(***************************************************************************)
(* How long stopping a browser display takes, against how long a later     *)
(* stopWith waits for the first.  A Quit from a page stops the server on   *)
(* the dispatcher's goroutine; the app loop may stop it again at any time  *)
(* on its way out of the process (a signal, the stream's end), and then    *)
(* waits at most webStopWait.  WebSession has the steps without the time;  *)
(* here is the time without the steps that take none.                      *)
(*                                                                         *)
(* Time goes in ticks of half a second and passes only where a call waits: *)
(* a call that has reached its own limit returns before the next tick.     *)
(***************************************************************************)
EXTENDS Naturals

CONSTANTS Connected,    \* the connected viewers
          ShutdownMax,  \* http.Server.Shutdown's context, 2 s: 4
          CloseMax,     \* wsCloseTimeout, 2 s: 4
          KillMax,      \* windowKillGracePolls * windowKillPoll, 1.5 s: 3
          StopWait      \* webStopWait, 5 s: 10

LimitsAreTimes ==
  /\ ShutdownMax \in Nat /\ CloseMax \in Nat /\ KillMax \in Nat
  /\ StopWait \in Nat

VARIABLES
  phase,    \* the first stopWith: see Phases
  spent,    \* ticks spent in the phase
  pending,  \* the viewers whose closeWith has not returned
  first,    \* who called stopWith first
  loop,     \* runWeb's loop: "run", "wait" in stopWith, "exited"
  waited    \* ticks a later stopWith of the loop has waited

deadlineVars == <<phase, spent, pending, first, loop, waited>>

Busy == {"shutdown", "close", "kill"}
Phases == Busy \cup {"none", "stopped"}

\* What the whole stop may take.
Whole == ShutdownMax + CloseMax + KillMax

DeadlineTypeOK ==
  /\ phase \in Phases /\ spent \in 0 .. Whole
  /\ pending \subseteq Connected
  /\ first \in {"nobody", "dispatcher", "loop"}
  /\ loop \in {"run", "wait", "exited"}
  /\ waited \in 0 .. Whole

DeadlineInit ==
  /\ phase = "none" /\ spent = 0 /\ pending = {}
  /\ first = "nobody" /\ loop = "run" /\ waited = 0

\* How long a phase may take at most.  The viewers are closed all at once.
Limit(p) ==
  CASE p = "shutdown" -> ShutdownMax
    [] p = "close" -> CloseMax
    [] p = "kill" -> KillMax

-----------------------------------------------------------------------------
\* closing.Swap(true) by the first caller.
FirstStop(who) ==
  /\ phase = "none"
  /\ first' = who /\ phase' = "shutdown" /\ spent' = 0

PageQuits ==
  /\ loop = "run"
  /\ FirstStop("dispatcher")
  /\ UNCHANGED <<pending, loop, waited>>

LoopStopsFirst ==
  /\ loop = "run"
  /\ FirstStop("loop")
  /\ loop' = "wait"
  /\ UNCHANGED <<pending, waited>>

\* Another stop is under way, or over.
LoopStopsLater ==
  /\ loop = "run" /\ phase # "none"
  /\ loop' = "wait" /\ waited' = 0
  /\ UNCHANGED <<phase, spent, pending, first>>

\* Shutdown waits for requests being answered and for connections that have sent
\* none yet (a browser opens some in advance); then the list is taken.
ShutdownReturns ==
  /\ phase = "shutdown"
  /\ phase' = "close" /\ spent' = 0
  /\ pending' \in SUBSET Connected
  /\ UNCHANGED <<first, loop, waited>>

\* A viewer that reads is closed soon; one that stopped reading holds wmu until the
\* deadline that CloseWith brought in.
ViewerCloses(v) ==
  /\ phase = "close" /\ v \in pending
  /\ pending' = pending \ {v}
  /\ UNCHANGED <<phase, spent, first, loop, waited>>

\* wg.Wait returns, and killWindow sends SIGTERM.
ByesWritten ==
  /\ phase = "close" /\ pending = {}
  /\ phase' = "kill" /\ spent' = 0
  /\ UNCHANGED <<pending, first, loop, waited>>

\* There is no window, or its processes have exited, or they are killed at the limit.
WindowGone ==
  /\ phase = "kill"
  /\ phase' = "stopped" /\ spent' = 0
  /\ UNCHANGED <<pending, first, loop, waited>>

\* The loop's stopWith returns, and scterm exits: its own stop has finished, or it
\* has waited for the other's to finish, or for webStopWait.
LoopEnds ==
  /\ loop = "wait"
  /\ \/ phase = "stopped"
     \/ first = "dispatcher" /\ waited = StopWait
  /\ loop' = "exited"
  /\ UNCHANGED <<phase, spent, pending, first, waited>>

LoopWaits == loop = "wait" /\ first = "dispatcher" /\ phase # "stopped"

\* Half a second passes.
Tick ==
  /\ phase \in Busy /\ spent < Limit(phase)
  /\ LoopWaits => waited < StopWait
  /\ spent' = spent + 1
  /\ waited' = IF LoopWaits THEN waited + 1 ELSE waited
  /\ UNCHANGED <<phase, pending, first, loop>>

\* The process is gone once the loop has exited.
DeadlineNext ==
  /\ loop # "exited"
  /\ \/ PageQuits \/ LoopStopsFirst \/ LoopStopsLater
     \/ ShutdownReturns \/ (\E v \in Connected : ViewerCloses(v))
     \/ ByesWritten \/ WindowGone \/ LoopEnds \/ Tick

DeadlineSpec == DeadlineInit /\ [][DeadlineNext]_deadlineVars

-----------------------------------------------------------------------------
\* scterm "must not exit while a Quit from the browser is still writing the byes or
\* closing the window" (the comment on stopWith).  The code's limits break it: Shutdown,
\* a viewer that stopped reading and a window that does not end take 2, 2 and 1.5 s, and
\* the loop waits 5 s.
ExitAfterStop == loop = "exited" => phase = "stopped"

\* What the code does keep of it: the byes are written before scterm exits, each viewer
\* closed or given up at its own deadline.  Only the window can outlive scterm.
ByesBeforeExit == loop = "exited" => phase \in {"kill", "stopped"} /\ pending = {}

\* Shutdown and the closes fit into the wait of a later stop: 2 + 2 s of 5 s.
ByesFit == ShutdownMax + CloseMax < StopWait
==============================================================================
