------------------------------- MODULE Sound -------------------------------
(***************************************************************************)
(* The session's sound where this computer plays it: the sink is opened    *)
(* (src/audio.go), the demuxer reads, perhaps drops, and writes a packet at*)
(* a time (runAudio in src/stream.go, Backlog), the follower moves the     *)
(* stream to the desktop's default sink (src/audiofollow.go), and the      *)
(* stream is closed when the sound stops (playAudio) or the run ends.      *)
(*                                                                         *)
(* A packet lasts one unit of time.  A write returns once the sound server *)
(* has room, which takes the time that the packet plays, and never while   *)
(* the server's sink is suspended; it holds the sink's lock.               *)
(***************************************************************************)
EXTENDS Backlog, SequencesExt

CONSTANTS
  Servers,    \* how many sound servers there are to try
  Sinks,      \* the desktop's sinks
  Starts      \* the sessions to start: whether the sound plays here, whether there
              \* is pactl, the default sink, the one that SCT_AUDIO_DEVICE names, the
              \* sinks that are sound cards, that are running and that have streams,
              \* how many packets wait when the first is read, and, to bound them,
              \* how many packets there are, what can come between and how often

\* The network stalls, the sink is suspended, the volume goes to or from zero,
\* the user selects another sink, a write fails, the sound ends, the user quits.
Surprises == {"stall", "suspend", "mute", "select", "fail", "end", "quit"}

None == "none"

ASSUME SoundAssumption ==
  /\ Servers \in Nat \ {0} /\ None \notin Sinks
  /\ Starts \subseteq [here : BOOLEAN, pactl : BOOLEAN, default : Sinks, pinned : Sinks \cup {None},
                      cards : SUBSET Sinks, running : SUBSET Sinks, busy : SUBSET Sinks,
                      waiting : Nat, packets : Nat, may : SUBSET Surprises, times : Nat]
  /\ \A s \in Starts : s.waiting <= s.packets

VARIABLES
  start,     \* the session
  round, tried, refused, \* openFirst: its round, how many pairs it has tried in
                         \* it, the pairs that the server refused
  stream,    \* the sink's stream: "none", "open" or "freed"
  closed,    \* the sink plays nothing more
  failed,    \* a write failed
  muted,     \* the volume is zero
  demux,     \* the demuxer's place
  pts,       \* the packet in its hands
  now,       \* the time, up to the last packet's
  arrived,   \* the last packet that has come
  stalled,   \* the network holds packets back
  suspended, \* the server's sink takes no sound
  soundEnd,  \* why the sound stopped is stored
  main,      \* the run: "run", "leave", "closed" or "over"
  follower, target, lastMoved,
             \* the follower's place, the default it read, the one it last left
             \* the stream on
  default, at,
             \* the desktop's default sink, and the one the stream plays on
  steady,    \* how many packets have been written since something came between
  recent,    \* the queue's lengths at the packets measured since the window
             \* started, as many as a whole window has
  surprises  \* how often something came between

openVars == <<round, tried, refused>>
sinkVars == <<stream, closed, failed, muted>>
demuxVars == <<demux, pts, soundEnd>>
netVars == <<now, arrived, stalled, suspended>>
followVars == <<follower, target, lastMoved, default, at>>
shadowVars == <<steady, recent>>
vars == <<start, openVars, sinkVars, demuxVars, netVars, followVars, shadowVars, backlogVars, main,
          surprises>>

Rounds == 3

Init ==
  /\ round = 1 /\ tried = 0 /\ refused = {}
  /\ stream = "none" /\ closed = FALSE /\ failed = FALSE /\ muted = FALSE
  /\ demux = "off" /\ pts = 0 /\ soundEnd = FALSE /\ main = "open"
  /\ start \in Starts /\ now = start.waiting /\ arrived = now
  /\ stalled = FALSE /\ suspended = FALSE
  /\ follower = "off" /\ target = None /\ lastMoved = None
  /\ default = start.default /\ at = None
  /\ steady = 0 /\ recent = <<>> /\ surprises = 0 /\ BacklogInit

Surprise(what) ==
  what \in start.may /\ surprises < start.times /\ surprises' = surprises + 1
Playing == main # "open"

-----------------------------------------------------------------------------
(* Opening the sink. *)

\* audioDevices: the sinks that the user means, the surest sign first.  None
\* leaves the choice to the server, which takes the default.
Signs ==
  LET known == IF start.pactl THEN Sinks ELSE {} IN
  <<{start.pinned} \ {None}, {start.default} \cap start.cards \cap known, start.busy \cap known,
    start.running \cap start.cards \cap known, start.cards \cap known, {None}>>
Devices == SetToSeq(SelectSeq(Signs, LAMBDA sinks : sinks # {})[1])

\* audioServers, each with each device.
Pairs == 1 .. Servers * Len(Devices)
Device(pair) == Devices[((pair - 1) % Len(Devices)) + 1]

\* The next pair of this round that has not been refused.
Untried == {i \in Pairs : i > tried /\ i \notin refused}

\* A session whose sound plays in the browser, or that has none, opens no sink.
NoSink ==
  /\ main = "open" /\ ~start.here /\ main' = "run"
  /\ UNCHANGED <<start, openVars, sinkVars, demuxVars, netVars, followVars, shadowVars, backlogVars,
                 surprises>>

\* openFirst.
Try ==
  /\ main = "open" /\ start.here /\ Untried # {}
  /\ LET i == Min(Untried) IN
     \/ /\ stream' = "open" /\ main' = "run"
        /\ at' = IF Device(i) = None THEN default ELSE Device(i)
        /\ UNCHANGED <<tried, refused>>
     \/ tried' = i /\ UNCHANGED <<refused, stream, main, at>>
     \/ tried' = i /\ refused' = refused \cup {i} /\ UNCHANGED <<stream, main, at>>
  /\ UNCHANGED <<start, round, closed, failed, muted, demuxVars, netVars, follower, target,
                 lastMoved, default, shadowVars, backlogVars, surprises>>

\* After a pause, the next round; or the sink's error, and a session in which
\* this computer plays nothing.
NextRound ==
  /\ main = "open" /\ start.here /\ Untried = {}
  /\ IF round < Rounds /\ refused # Pairs
     THEN round' = round + 1 /\ tried' = 0 /\ UNCHANGED main
     ELSE main' = "run" /\ UNCHANGED <<round, tried>>
  /\ UNCHANGED <<start, refused, sinkVars, demuxVars, netVars, followVars, shadowVars, backlogVars,
                 surprises>>

-----------------------------------------------------------------------------
(* The demuxer. *)

\* audioSink.plays and paces.
Plays == stream # "none" /\ ~failed /\ ~closed
Paces == Plays /\ ~muted

\* audioFollower: an explicit choice is not followed.
Follower == start.pactl /\ start.pinned = None

\* The demuxers and the follower, if this computer plays the sound, start.
Begin ==
  /\ main = "run" /\ demux = "off"
  /\ demux' = "read" /\ follower' = IF Plays /\ Follower THEN "wait" ELSE "off"
  /\ round' = 1 /\ tried' = 0 /\ refused' = {}
  /\ UNCHANGED <<start, sinkVars, pts, soundEnd, netVars, target, lastMoved, default, at,
                 shadowVars, backlogVars, main, surprises>>

WholeWindow == Windows * Segment + 1
Sampled(q) ==
  LET all == Append(recent, q) IN IF Len(all) > WholeWindow THEN Tail(all) ELSE all

\* A packet is read, and dropped or to be written (dropBehind).
Read ==
  /\ demux = "read" /\ pts < arrived /\ pts' = pts + 1
  /\ LET queued == arrived - pts' IN
     \/ /\ Paces /\ SkipDrops(pts', queued)
        /\ recent' = <<>> /\ UNCHANGED <<demux, steady>>
     \/ /\ Paces /\ SkipPlays(pts', queued)
        /\ recent' = Sampled(queued) /\ demux' = "write" /\ UNCHANGED steady
     \/ ~Paces /\ Restart /\ recent' = <<>> /\ demux' = "write" /\ steady' = 0
  /\ UNCHANGED <<start, openVars, sinkVars, soundEnd, netVars, followVars, main, surprises>>

\* Time passes, at the end of what the device sends too.
Pass == now' = Min({now + 1, start.packets}) /\ arrived' = IF stalled THEN arrived ELSE now'

\* The queue is empty, or the demuxer waits for a suspended sink.
Tick ==
  /\ now < start.packets /\ Pass /\ steady' = 0
  /\ \/ demux = "read" /\ pts = arrived
     \/ demux = "writing" /\ suspended
  /\ UNCHANGED <<start, openVars, sinkVars, demuxVars, stalled, suspended, followVars, recent,
                 backlogVars, main, surprises>>

Locked == demux = "writing"

\* writePCM16 returns at once where nothing plays.
WriteNothing ==
  /\ demux = "write" /\ (~Plays \/ muted) /\ demux' = "read" /\ steady' = 0
  /\ UNCHANGED <<start, openVars, sinkVars, pts, soundEnd, netVars, followVars, recent, backlogVars,
                 main, surprises>>

\* With the lock it looks at the stream again and hands the sound over.
WriteBegins ==
  /\ demux = "write" /\ stream = "open" /\ ~failed /\ ~muted /\ demux' = "writing"
  /\ UNCHANGED <<start, openVars, sinkVars, pts, soundEnd, netVars, followVars, shadowVars,
                 backlogVars, main, surprises>>

Written ==
  /\ demux = "writing" /\ ~suspended /\ demux' = "read" /\ Pass
  /\ steady' = IF stalled THEN 0 ELSE Min({steady + 1, start.packets})
  /\ UNCHANGED <<start, openVars, sinkVars, pts, soundEnd, stalled, suspended, followVars, recent,
                 backlogVars, main, surprises>>

WriteFails ==
  /\ demux = "writing" /\ Surprise("fail") /\ demux' = "read" /\ failed' = TRUE
  /\ UNCHANGED <<start, openVars, stream, closed, muted, pts, soundEnd, netVars, followVars,
                 shadowVars, backlogVars, main>>

\* The device ends the sound, or the session's stop has closed the socket;
\* before a quit that is the end of the session's sound.
SoundStops ==
  /\ demux = "read"
  /\ IF main = "over" THEN UNCHANGED surprises ELSE Surprise("end")
  /\ demux' = "ended" /\ soundEnd' = (main = "run")
  /\ UNCHANGED <<start, openVars, sinkVars, pts, netVars, followVars, shadowVars, backlogVars,
                 main>>

\* audioSink.close, by the demuxer's goroutine once the sound has stopped and
\* by main at the end, when no write holds the lock.
CloseAnyway ==     \* mutant: without the lock
  closed' = TRUE /\ stream' = IF stream = "open" THEN "freed" ELSE stream
Close ==
  /\ ~Locked /\ closed' = TRUE
  /\ stream' = IF stream = "open" THEN "freed" ELSE stream

PlayAudioCloses ==
  /\ demux = "ended" /\ soundEnd /\ ~closed /\ Close
  /\ UNCHANGED <<start, openVars, failed, muted, demuxVars, netVars, followVars, shadowVars,
                 backlogVars, main, surprises>>

-----------------------------------------------------------------------------
(* The run's end. *)

\* quitting is set, and the follower told to stop as the run returns.
Quit ==
  /\ main = "run" /\ demux # "off" /\ Surprise("quit") /\ main' = "leave"
  /\ UNCHANGED <<start, openVars, sinkVars, demuxVars, netVars, followVars, shadowVars,
                 backlogVars>>

Shutdown ==
  /\ main = "leave" /\ main' = "over" /\ Close
  /\ UNCHANGED <<start, openVars, failed, muted, demuxVars, netVars, followVars, shadowVars,
                 backlogVars, surprises>>

-----------------------------------------------------------------------------
(* The follower.  Each of its steps asks pactl once. *)

\* A tick: the stop, the closed sink, and the default.
FollowerIgnoresEnd ==     \* mutant: a tick after the end asks again
  /\ follower = "wait" /\ follower' = "list" /\ target' = default /\ UNCHANGED <<lastMoved, at>>
FollowerLooks ==
  /\ follower = "wait"
  /\ IF main \in {"leave", "over"} \/ closed
     THEN follower' = "stopped" /\ UNCHANGED target
     ELSE follower' = "list" /\ target' = default
  /\ UNCHANGED <<lastMoved, at>>

\* The streams: ours is not there, or already where it should be.
FollowerLists ==
  /\ follower = "list" /\ UNCHANGED at
  /\ \/ stream # "open" /\ follower' = "wait" /\ lastMoved' = None
     \/ stream = "open" /\ target = lastMoved /\ follower' = "wait" /\ UNCHANGED lastMoved
     \/ stream = "open" /\ target # lastMoved /\ at = target
        /\ follower' = "wait" /\ lastMoved' = target
     \/ stream = "open" /\ target # lastMoved /\ at # target
        /\ follower' = "move" /\ UNCHANGED lastMoved
  /\ target' = IF follower' = "move" THEN target ELSE None

\* Mutant: a move that failed is taken for one that worked.
MoveFailsQuietly ==
  /\ follower = "move" /\ follower' = "wait" /\ lastMoved' = target /\ target' = None
  /\ UNCHANGED at

FollowerMoves ==
  /\ follower = "move" /\ follower' = "wait" /\ at' = target /\ lastMoved' = target
  /\ target' = None

\* Any of pactl's answers can be an error; the next tick asks again.
PactlFails ==
  /\ follower \in {"list", "move"} /\ follower' = "wait"
  /\ lastMoved' = IF follower = "list" THEN None ELSE lastMoved
  /\ target' = None /\ UNCHANGED at

Asked(step) ==
  /\ step
  /\ UNCHANGED <<start, openVars, sinkVars, demuxVars, netVars, default, shadowVars,
                 backlogVars, main, surprises>>

-----------------------------------------------------------------------------
(* The world: the network, the user and the sound server. *)

Stall ==
  /\ Playing /\ ~stalled /\ Surprise("stall") /\ stalled' = TRUE
  /\ UNCHANGED <<start, openVars, sinkVars, demuxVars, now, arrived, suspended, followVars,
                 shadowVars, backlogVars, main>>

StallEnds ==
  /\ stalled /\ stalled' = FALSE /\ arrived' = now /\ steady' = 0
  /\ UNCHANGED <<start, openVars, sinkVars, demuxVars, now, suspended, followVars, recent,
                 backlogVars, main, surprises>>

Suspend ==
  /\ Playing /\ ~suspended /\ Surprise("suspend") /\ suspended' = TRUE
  /\ UNCHANGED <<start, openVars, sinkVars, demuxVars, now, arrived, stalled, followVars,
                 shadowVars, backlogVars, main>>

Resume ==
  /\ suspended /\ suspended' = FALSE
  /\ UNCHANGED <<start, openVars, sinkVars, demuxVars, now, arrived, stalled, followVars,
                 shadowVars, backlogVars, main, surprises>>

ToggleMute ==
  /\ Playing /\ Surprise("mute") /\ muted' = ~muted
  /\ UNCHANGED <<start, openVars, stream, closed, failed, demuxVars, netVars, followVars,
                 shadowVars, backlogVars, main>>

SelectSink ==
  /\ Playing /\ Surprise("select") /\ default' \in Sinks \ {default}
  /\ UNCHANGED <<start, openVars, sinkVars, demuxVars, netVars, follower, target, lastMoved, at,
                 shadowVars, backlogVars, main>>

DemuxStep == Read \/ WriteNothing \/ WriteBegins \/ Written \/ PlayAudioCloses
World == Stall \/ StallEnds \/ Suspend \/ Resume \/ ToggleMute \/ SelectSink

Next ==
  \/ NoSink \/ Try \/ NextRound \/ Begin \/ DemuxStep \/ Tick \/ WriteFails \/ SoundStops
  \/ Quit \/ Shutdown \/ World
  \/ Asked(FollowerLooks) \/ Asked(FollowerLists) \/ Asked(FollowerMoves) \/ Asked(PactlFails)

Spec == Init /\ [][Next]_vars

\* The goroutines go on, a write ends while the server takes sound, and pactl
\* does not fail for ever.
Fairness ==
  /\ WF_vars(Begin) /\ WF_vars(DemuxStep) /\ SF_vars(Shutdown)
  /\ WF_vars(Asked(FollowerLooks))
  /\ SF_vars(Asked(FollowerLists)) /\ SF_vars(Asked(FollowerMoves))

FairSpec == Spec /\ Fairness

-----------------------------------------------------------------------------
\* What a drop takes had stayed queued: at no packet of the last whole window
\* was the queue shorter than the drop and Margin together, so a drop never
\* takes sound that a late burst only just brought, and leaves the last packet
\* (src/audiobacklog.go:83-97).
DropOnlyStayed ==
  [][drop # drop' /\ drop' # NoDrop =>
       LET queues == Sampled(arrived - pts') IN
       /\ Len(queues) = WholeWindow
       /\ \A i \in DOMAIN queues : drop'.to - drop'.from + Margin <= queues[i]]_vars

\* Sound that comes and plays steadily trails the device by no more than the
\* margin and a burst's cushion after a window, and by the margin alone once
\* the bursts before are forgotten (src/audiobacklog.go:13-46).
LagBounded ==
  demux = "write" /\ Paces =>
    /\ steady >= (2 * Windows + 1) * Segment => arrived - pts < Margin + Step + Burst
    /\ steady >= Memory + (2 * Windows + 1) * Segment => arrived - pts < Margin + Step

\* The stream is not freed while a write plays on it (src/audio.go:614-625).
StreamSafe == demux = "writing" => stream = "open"

\* A write waits for a suspended sink, with the lock.
Stuck == demux = "writing" /\ suspended

\* Once the sound has stopped, or the run ends, the stream leaves the sound
\* server's mixer and the follower stops asking; but for a write that waits
\* for a suspended sink (src/app.go:350-363, src/audiofollow.go:29-35).
SoundEnds ==
  soundEnd \/ main = "leave" ~> (stream # "open" /\ follower \in {"off", "stopped"}) \/ Stuck

\* The stream ends up on the sink that the user last selected, whenever that
\* was and wherever it opened, as long as the session's sound goes on, and with
\* SCT_AUDIO_DEVICE it stays on that one (src/audiofollow.go:11-90).
Follows ==
  /\ at # default /\ follower # "off" ~> at = default \/ ~Plays \/ main # "run"
  /\ [](stream = "open" /\ start.pinned # None => at = start.pinned)
=============================================================================
