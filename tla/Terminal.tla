----------------------------- MODULE Terminal -----------------------------
(***************************************************************************)
(* A session shown in the terminal, from the link's bring-up to its end:   *)
(* main, app.run and runHeadless on top of Link.  One run loop takes       *)
(* events, frames, notice wake-ups and the loss of the stream; it alone    *)
(* paints.  The video demuxer scales each picture into a buffer of a pool  *)
(* of two and leaves it in a one-slot mailbox.  Ticks, typing and signals  *)
(* come through a queue of Room events whose senders wait for room.        *)
(* The terminal is given back once, by the loop or by a goroutine that     *)
(* panics, and the notices kept meanwhile are printed then.                *)
(***************************************************************************)
EXTENDS Link, SequencesExt

CONSTANTS
  Starts,     \* the runs to start: display ("tui" or "headless"), want (the
              \* sockets the options ask for) and the terminal's size
  Room,       \* the event queue's capacity (256 in the code)
  ReplayMax,  \* how many notices the replay keeps (50 in the code)
  Panes,      \* the sizes the terminal can have
  Pictures,   \* the sizes the device's picture can have
  MaxSurprises
              \* how often, in one run, the terminal is resized, the device turned
              \* or lost, the end asked for, a notice posted, the sound server's
              \* sink suspended, or a goroutine panics; a bound

ASSUME TerminalAssumption ==
  /\ Starts \subseteq [display : {"tui", "headless"}, want : (SUBSET Kinds) \ {{}}, pane : Panes]
  /\ Room \in Nat \ {0} /\ ReplayMax \in Nat \ {0}
  /\ Panes \subseteq Nat \ {0} /\ Pictures # {} /\ MaxSurprises \in Nat

VARIABLES
  display,   \* "tui" or "headless"
  loop,      \* the run loop's place
  doing,     \* the buffer it paints
  status,    \* how the run ended: "none", "quit", "lost" or "error"
  events,    \* the queue
  senders,   \* the events whose senders wait for room
  asked,     \* somebody asked for the end, by a signal or Alt+Q
  lost,      \* how the stream on show ended: "no", "lost" or "error"
  restore,   \* the restorer's place: "no", "stopping" or "done"
  crashed,   \* a goroutine panicked: "no", "panic", or "dead" once that ended
             \* the process
  running,   \* the tui paints
  screen,    \* "shell", or "alt" while the tui has the terminal
  video,     \* the video demuxer's place
  audio,     \* the audio demuxer: "off", "on" or "ended"
  held,      \* its write waits for a suspended sink, with the sink's lock
  hand, mailbox, pool,
             \* the buffer the demuxer holds, the one in the mailbox, and the
             \* pooled ones
  pane, grid, picture, canvas, dirty,
             \* the terminal's size, the tui's idea of it, the picture's size,
             \* the demuxer's geometry, its flag to compute that again
  board, kept, wake,
             \* notices: the tui shows them, how many the replay has to print, and
             \* the loop's wake-up
  surprises  \* see MaxSurprises

loopVars == <<loop, doing, status>>
queueVars == <<events, senders, asked>>
frameVars == <<video, hand, mailbox, pool>>
sizeVars == <<pane, grid, picture, canvas, dirty>>
screenVars == <<restore, running, screen>>
noticeVars == <<board, kept, wake>>
endVars == <<display, lost, crashed>>
soundVars == <<audio, held>>
calm == <<endVars, surprises>>
vars == <<linkVars, loopVars, queueVars, frameVars, sizeVars, screenVars,
          noticeVars, endVars, soundVars, surprises>>

Geometries == Panes \X Pictures
\* A buffer: the terminal size it was made for, the geometry of the frame in it,
\* whether it shows an older one beside that, and whether it was out of the pool
\* when that was last reset.
Buffers == [made : Panes, shows : Geometries, mixed : BOOLEAN, old : BOOLEAN]
None == [made |-> 0]

Init ==
  /\ LinkInit
  /\ \E s \in Starts : display = s.display /\ want = s.want /\ pane = s.pane
  /\ loop = "off" /\ doing = None /\ status = "none"
  /\ events = <<>> /\ senders = {} /\ asked = FALSE
  /\ lost = "no" /\ restore = "no" /\ crashed = "no" /\ running = FALSE
  /\ screen = "shell" /\ video = "off" /\ audio = "off" /\ held = FALSE
  /\ hand = None /\ mailbox = None /\ pool = <<>>
  /\ grid = pane /\ picture = CHOOSE p \in Pictures : TRUE
  /\ canvas = <<pane, picture>> /\ dirty = FALSE /\ surprises = 0
  /\ board = FALSE /\ kept = 0 /\ wake = FALSE

InProcess == crashed # "dead"
Alive == InProcess /\ step = "up" /\ loop # "off"
Surprise == surprises < MaxSurprises /\ surprises' = surprises + 1
Quitting == restore # "no" \/ status # "none"
\* A read on the socket fails: the device hung up, or stop closed it.
Broken(k) == host[k] = "closed" \/ server = "exited"

-----------------------------------------------------------------------------
(* The demuxers (stream.runVideo, app.frame, app.watchStreams, playAudio). *)

VideoStarts ==
  /\ Alive /\ video = "header" /\ ~Broken("video")
  /\ video' = "read" /\ canvas' = <<pane, picture>>
  /\ UNCHANGED <<linkVars, loopVars, queueVars, hand, mailbox, pool, pane,
                 grid, picture, dirty, screenVars, noticeVars, calm, soundVars>>

\* Before the session header a failure is an error, after it the loss of the
\* device; a codec or decoder that does not serve is an error.
VideoEnds ==
  /\ InProcess /\ video \in {"header", "read"} /\ video' = "ended"
  /\ \/ Broken("video") /\ lost' = (IF video = "read" THEN "lost" ELSE "error")
     \/ Alive /\ lost' = "error"
  /\ UNCHANGED <<linkVars, loopVars, queueVars, hand, mailbox, pool, sizeVars,
                 screenVars, noticeVars, display, crashed, soundVars, surprises>>

\* A session header with another size.
Rotate ==
  /\ Alive /\ video = "read" /\ ~Broken("video") /\ Surprise
  /\ picture' \in Pictures \ {picture} /\ dirty' = TRUE
  /\ UNCHANGED <<linkVars, loopVars, queueVars, frameVars, pane, grid, canvas, screenVars,
                 noticeVars, endVars, soundVars>>

\* returnPooled: two are kept, the rest are garbage.
Pooled(b) == pool' = IF b = None \/ Len(pool) = 2 THEN pool ELSE Append(pool, b)

\* takePooled, and the picture scaled into it: a pooled buffer made for a canvas
\* as large, or else a zeroed one; with what is left of the pool.
Scaled(p, c) ==
  LET large == {i \in DOMAIN p : p[i].made >= c[1]} IN
  IF large = {}
  THEN {<<[made |-> c[1], shows |-> c, mixed |-> FALSE, old |-> FALSE], p>>}
  ELSE {<<[p[i] EXCEPT !.shows = c, !.mixed = @ \/ p[i].shows # c], RemoveAt(p, i)>> : i \in large}

\* resetPool, when the geometry changes.
PoolKept == pool    \* mutant: it keeps them
PoolNow == IF dirty THEN <<>> ELSE pool

\* A decoded picture.  The flag is taken and the geometry, the terminal's size
\* with it, computed again with an empty pool; the picture is scaled into a
\* buffer, and that left in the mailbox unless a frame is in it.
Out(b) == IF dirty /\ b # None THEN [b EXCEPT !.old = TRUE] ELSE b
Frame ==
  /\ Alive /\ video = "read" /\ ~Broken("video")
  /\ canvas' = IF dirty THEN <<pane, picture>> ELSE canvas
  /\ dirty' = FALSE /\ doing' = Out(doing)
  /\ \E scaled \in Scaled(PoolNow, canvas') :
       /\ pool' = scaled[2]
       /\ IF mailbox = None
          THEN mailbox' = scaled[1] /\ UNCHANGED <<hand, video>>
          ELSE mailbox' = Out(mailbox) /\ hand' = scaled[1] /\ video' = "full"
  /\ UNCHANGED <<linkVars, loop, status, queueVars, pane, grid, picture, screenVars,
                 noticeVars, calm, soundVars>>

\* app.frame: out with the frame in the mailbox, if the loop has not taken it.
Evict ==
  /\ InProcess /\ video = "full" /\ video' = "again"
  /\ mailbox' = None /\ Pooled(mailbox)
  /\ UNCHANGED <<linkVars, loopVars, queueVars, hand, sizeVars, screenVars,
                 noticeVars, calm, soundVars>>

DeliverAgain ==
  /\ InProcess /\ video = "again" /\ mailbox = None
  /\ mailbox' = hand /\ hand' = None /\ video' = "read"
  /\ UNCHANGED <<linkVars, loopVars, queueVars, pool, sizeVars, screenVars,
                 noticeVars, calm, soundVars>>

\* noticeBoard.put: to the status row, with so many more lines for the replay, which
\* drops its oldest for one too many; or to stderr.
Put(more) ==
  /\ IF board
     THEN wake' = TRUE /\ kept' = (IF kept = ReplayMax THEN kept ELSE kept + more)
     ELSE UNCHANGED <<kept, wake>>
  /\ UNCHANGED board

\* A goroutine has something to say: a saved screenshot, a failed key.  The replay keeps
\* no more lines for one that it counts as a repeat, or that tells of a paste.
Notice ==
  /\ Alive /\ Surprise /\ \E more \in 0..1 : Put(more)
  /\ UNCHANGED <<linkVars, loopVars, queueVars, frameVars, sizeVars, screenVars, endVars,
                 soundVars>>

\* Without video the sound is what the tui shows, and its end the session's,
\* unless the device turned it off.  On the way out a closed socket is no news.
AudioEnds ==
  /\ InProcess /\ audio = "on" /\ ~held /\ audio' = "ended" /\ UNCHANGED held
  /\ \/ /\ Broken("audio") /\ "video" \notin want /\ display = "tui"
        /\ lost' = "lost" /\ UNCHANGED noticeVars
     \/ /\ Broken("audio") /\ ("video" \in want \/ display = "headless")
        /\ IF Quitting /\ host["audio"] = "closed" THEN UNCHANGED noticeVars ELSE Put(1)
        /\ UNCHANGED lost
     \/ Alive /\ Put(1) /\ UNCHANGED lost
  /\ UNCHANGED <<linkVars, loopVars, queueVars, frameVars, sizeVars, screenVars, display,
                 crashed, surprises>>

\* The sink is suspended (a monitor turned off), and writePCM16 waits with the sink's
\* lock; nobody but the sound server ends that.
SinkSuspends ==
  /\ Alive /\ audio = "on" /\ ~held /\ Surprise /\ held' = TRUE
  /\ UNCHANGED <<linkVars, loopVars, queueVars, frameVars, sizeVars, screenVars, noticeVars,
                 endVars, audio>>

SinkResumes ==
  /\ InProcess /\ held /\ held' = FALSE
  /\ UNCHANGED <<linkVars, loopVars, queueVars, frameVars, sizeVars, screenVars, noticeVars,
                 calm, audio>>

-----------------------------------------------------------------------------
(* The queue's senders, one goroutine for each kind of event. *)

Event == {"tick", "quit key", "quit", "resize"}

\* A signal arrives (quit, resize), or Alt+Q is typed.  One run asks once.
Arrive(e) ==
  /\ Alive /\ Surprise /\ senders' = senders \cup {e}
  /\ \/ /\ e \in {"quit", "quit key"} /\ ~asked /\ asked' = TRUE
        /\ display = "tui" \/ e = "quit"
        /\ UNCHANGED pane
     \/ /\ e = "resize" /\ display = "tui"
        /\ pane' \in Panes \ {pane} /\ UNCHANGED asked
  /\ UNCHANGED <<linkVars, loopVars, events, frameVars, grid, picture, canvas, dirty,
                 screenVars, noticeVars, endVars, soundVars>>

\* The tickers always have another tick to send; the channel serves senders that
\* wait before it.
Send(e) ==
  /\ InProcess /\ Len(events) < Room
  /\ e \in senders \/ (e = "tick" /\ senders = {} /\ display = "tui" /\ Alive)
  /\ senders' = senders \ {e} /\ events' = Append(events, e)
  /\ UNCHANGED <<linkVars, loopVars, asked, frameVars, sizeVars, screenVars, noticeVars,
                 calm, soundVars>>

-----------------------------------------------------------------------------
(* The run loop (app.loop, runHeadless). *)

\* The tui takes the terminal and the board the notices; the demuxers start.
Begin ==
  /\ InProcess /\ step = "up" /\ loop = "off" /\ loop' = "wait"
  /\ video' = IF "video" \in want THEN "header" ELSE "ended"
  /\ audio' = IF "audio" \in want THEN "on" ELSE "ended"
  /\ IF display = "tui" THEN running' = TRUE /\ screen' = "alt" /\ board' = TRUE
                        ELSE UNCHANGED <<running, screen, board>>
  /\ UNCHANGED <<linkVars, doing, status, queueVars, hand, mailbox, pool,
                 sizeVars, restore, kept, wake, held, calm>>

Ready == InProcess /\ loop = "wait"
Leave(why) == loop' = "leave" /\ status' = why /\ UNCHANGED <<doing, pool>>

\* Mutant: it paints whether or not the tui has stopped.
PaintAnyway(b) == loop' = "write" /\ doing' = b /\ UNCHANGED <<status, pool>>

\* tui.draw and setStatus, under the tui's lock: nothing is written once the
\* tui has stopped, and a frame of another size than the grid is dropped.
Paint(b) ==
  /\ IF running /\ (b # None => b.shows[1] = grid')
     THEN loop' = "write" /\ doing' = b /\ UNCHANGED pool
     ELSE loop' = "wait" /\ doing' = None /\ Pooled(b)
  /\ UNCHANGED status

\* onResize.
GridOnly == grid' = pane /\ UNCHANGED dirty    \* mutant: the demuxer is not told
Resized == grid' = pane /\ dirty' = TRUE

\* A press of Alt+Q puts a quit event into the queue; ticks and resizes repaint
\* the status row.  Without the tui the only event is a quit.
TakeEvent ==
  /\ Ready /\ events # <<>> /\ events' = Tail(events)
  /\ LET e == Head(events) IN
     /\ IF e = "resize" THEN Resized ELSE UNCHANGED <<grid, dirty>>
     /\ \/ e = "quit" /\ Leave("quit")
        \/ e = "quit key" /\ loop' = "post" /\ UNCHANGED <<doing, status, pool>>
        \/ e \in {"tick", "resize"} /\ Paint(None)
  /\ UNCHANGED <<linkVars, senders, asked, video, hand, mailbox, pane, picture,
                 canvas, screenVars, noticeVars, calm, soundVars>>

\* a.events <- quit, on the goroutine that alone empties the queue.
PostQuit ==
  /\ InProcess /\ loop = "post" /\ Len(events) < Room
  /\ events' = Append(events, "quit") /\ loop' = "wait"
  /\ UNCHANGED <<linkVars, doing, status, senders, asked, frameVars, sizeVars, screenVars,
                 noticeVars, calm, soundVars>>

TakeFrame ==
  /\ Ready /\ mailbox # None /\ mailbox' = None /\ UNCHANGED grid /\ Paint(mailbox)
  /\ UNCHANGED <<linkVars, queueVars, video, hand, pane, picture, canvas, dirty,
                 screenVars, noticeVars, calm, soundVars>>

TakeWake ==
  /\ Ready /\ wake /\ wake' = FALSE /\ UNCHANGED grid /\ Paint(None)
  /\ UNCHANGED <<linkVars, queueVars, video, hand, mailbox, pane, picture,
                 canvas, dirty, screenVars, board, kept, calm,
                 soundVars>>

TakeLoss ==
  /\ Ready /\ lost # "no" /\ Leave(lost)
  /\ UNCHANGED <<linkVars, queueVars, video, hand, mailbox, sizeVars,
                 screenVars, noticeVars, calm, soundVars>>

\* The terminal takes the output, after a while; the frame goes to the pool.
Written ==
  /\ InProcess /\ loop = "write" /\ loop' = "wait"
  /\ Pooled(doing) /\ doing' = None
  /\ UNCHANGED <<linkVars, status, queueVars, video, hand, mailbox, sizeVars,
                 screenVars, noticeVars, calm, soundVars>>

-----------------------------------------------------------------------------
(* The way out: terminalRestorer, by the loop's end or by a panic. *)

Panic ==
  /\ Alive /\ Surprise /\ crashed = "no" /\ crashed' = "panic"
  /\ UNCHANGED <<linkVars, loopVars, queueVars, frameVars, sizeVars, screenVars, noticeVars,
                 display, lost, soundVars>>

\* shellClose stops the tui with the painter's lock, or without it when a
\* painter stuck in a write keeps that longer than shellCloseWait.
RestoreStops ==
  /\ InProcess /\ display = "tui" /\ restore = "no"
  /\ loop = "leave" \/ crashed = "panic"
  /\ restore' = "stopping" /\ running' = FALSE
  /\ UNCHANGED <<linkVars, loopVars, queueVars, frameVars, sizeVars, screen, noticeVars,
                 calm, soundVars>>

\* Its own writes wait behind that one; then the notices are printed.
RestoreWrites ==
  /\ InProcess /\ restore = "stopping" /\ loop # "write"
  /\ restore' = "done" /\ screen' = "shell"
  /\ board' = FALSE /\ kept' = 0
  /\ UNCHANGED <<linkVars, loopVars, queueVars, frameVars, sizeVars, running, wake,
                 calm, soundVars>>

Restored == display = "headless" \/ restore = "done"

\* The panic goes on and ends the process.
Die ==
  /\ crashed = "panic" /\ Restored /\ crashed' = "dead"
  /\ UNCHANGED <<linkVars, loopVars, queueVars, frameVars, sizeVars, screenVars, noticeVars,
                 display, lost, soundVars, surprises>>

\* main: shutdown closes the sink, which needs its lock; then the session's stop.  What
\* is still in the queue, the mailbox and the pool goes with the process.
Shutdown ==
  /\ InProcess /\ loop = "leave" /\ Restored /\ ~held
  /\ loop' = "left" /\ step' = "stop"
  /\ events' = <<>> /\ senders' = {} /\ pool' = <<>> /\ wake' = FALSE
  /\ mailbox' = None /\ hand' = None
  /\ video' = IF video \in {"full", "again"} THEN "read" ELSE video
  /\ UNCHANGED <<want, forwardMode, tunnel, listener, server, wires, late, plugged, doing,
                 status, asked, sizeVars, screenVars, board, kept, calm, soundVars>>

LinkStep == InProcess /\ HostStep
            /\ UNCHANGED <<loopVars, queueVars, frameVars, sizeVars, screenVars, noticeVars,
                           calm, soundVars>>
DeviceStep == (ServerStep \/ Deadline)
              /\ UNCHANGED <<loopVars, queueVars, frameVars, sizeVars, screenVars, noticeVars,
                             calm, soundVars>>
DeviceLost == (ServerExits \/ Unplug) /\ Surprise
              /\ UNCHANGED <<loopVars, queueVars, frameVars, sizeVars, screenVars, noticeVars,
                             endVars, soundVars>>

DemuxStep == VideoStarts \/ VideoEnds \/ Frame \/ Evict \/ DeliverAgain \/ AudioEnds
LoopStep == Begin \/ PostQuit \/ Written \/ Shutdown
RestoreStep == RestoreStops \/ RestoreWrites \/ Die
SinkStep == SinkSuspends \/ SinkResumes

Next ==
  \/ LinkStep \/ DeviceStep \/ DeviceLost \/ DemuxStep \/ Rotate \/ Notice \/ Panic
  \/ LoopStep \/ TakeEvent \/ TakeFrame \/ TakeWake \/ TakeLoss \/ RestoreStep
  \/ SinkStep
  \/ \E e \in Event : Arrive(e) \/ Send(e)

Spec == Init /\ [][Next]_vars

\* A goroutine that can go on does.  A select picks among its ready cases at
\* random and so passes none over for ever; the terminal takes what is written
\* to it.  Nothing makes a suspended sink resume.
Fairness ==
  /\ WF_vars(LinkStep) /\ WF_vars(LoopStep) /\ WF_vars(RestoreStep)
  /\ SF_vars(TakeEvent) /\ SF_vars(TakeLoss)
  /\ WF_vars(\E e \in Event \ {"tick"} : Send(e))

FairSpec == Spec /\ Fairness

-----------------------------------------------------------------------------
TypeOK ==
  /\ LinkTypeOK
  /\ display \in {"tui", "headless"}
  /\ loop \in {"off", "wait", "post", "write", "leave", "left"}
  /\ {doing, hand, mailbox} \subseteq Buffers \cup {None}
  /\ events \in Seq(Event) /\ Len(events) <= Room /\ senders \subseteq Event
  /\ asked \in BOOLEAN /\ lost \in {"no", "lost", "error"}
  /\ restore \in {"no", "stopping", "done"}
  /\ crashed \in {"no", "panic", "dead"} /\ running \in BOOLEAN
  /\ screen \in {"shell", "alt"} /\ board \in BOOLEAN /\ wake \in BOOLEAN
  /\ video \in {"off", "header", "read", "full", "again", "ended"}
  /\ audio \in {"off", "on", "ended"} /\ held \in BOOLEAN
  /\ pool \in Seq(Buffers) /\ Len(pool) <= 2
  /\ pane \in Panes /\ grid \in Panes /\ picture \in Pictures /\ canvas \in Geometries
  /\ dirty \in BOOLEAN /\ surprises \in 0..MaxSurprises
  /\ kept \in 0..ReplayMax
  /\ status \in {"none", "quit", "lost", "error"}

Over == step = "gone" \/ crashed = "dead"

\* Nothing is painted on the shell's screen, and however the run ends, by a
\* quit, a lost stream or a panic elsewhere, the terminal is given back first
\* and the notices kept for the replay meanwhile have been printed
\* (src/app.go:306-320, 425-444, src/tui.go:479-528, src/notice.go:144-165).
TerminalGivenBack ==
  /\ loop = "write" => screen = "alt"
  /\ display = "tui" /\ (loop = "left" \/ crashed = "dead") => screen = "shell" /\ ~board
  /\ ~board => kept = 0

\* Once no resize is on its way, the grid that is painted and the canvas that
\* frames are scaled to are the terminal's, whatever the order in which the
\* loop and the demuxer looked (src/app.go:772-793, src/stream.go:466-470).
GeometrySettles ==
  /\ loop # "left" /\ "resize" \notin senders /\ (\A i \in DOMAIN events : events[i] # "resize")
       => grid = pane /\ (~dirty /\ video = "read" => canvas = <<pane, picture>>)

\* The black bars beside the picture hold nothing of an older one, except in a
\* buffer that was in the mailbox or being painted when the pool was reset
\* (src/stream.go:312-320, 484-487).
BlackBars == \A b \in {hand, mailbox, doing} \ {None} : b.mixed => b.old

\* The loop waits for room in the queue that only it empties.
SelfWait == loop = "post" /\ Len(events) = Room

\* A run ends, with the terminal given back and the link taken down, once the
\* server exits before it connected (and not only at the deadline), once the
\* stream on show is lost and once a signal or Alt+Q asks for it, however many
\* ticks and frames come; but for a loop that waits on its own queue (SelfWait)
\* and for a sink that stays suspended for ever, whose lock main's shutdown needs
\* (src/link.go:150-161, 228-231, src/app.go:264-304, src/main.go:146).
RunEnds ==
  asked \/ lost # "no" \/ (Waiting /\ server = "exited" /\ ~Complete)
    ~> Over \/ SelfWait \/ []held
=============================================================================
