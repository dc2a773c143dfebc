----------------------------- MODULE MediaFanout -----------------------------
(***************************************************************************)
(* How the serving device shares one encoded stream among its viewers      *)
(* (android/peer, MediaFanout.kt; one fanout for video and one for sound). *)
(*                                                                         *)
(* The source's thread hands every item to a queue per viewer and never    *)
(* waits.  Each viewer's own thread (pump) writes what is queued, and may  *)
(* be stuck in a write for as long as its connection is slow.  A video     *)
(* viewer that falls behind is cut back to the current session and codec   *)
(* config and skipped ahead to the next keyframe; a sound viewer sheds its *)
(* oldest packets.                                                         *)
(*                                                                         *)
(* Each critical section of lock is one step.  qlock is only taken inside  *)
(* it, by pump for an instant, and by close, so a section of qlock is one  *)
(* step, too.  What a batch holds counts as received when pump takes it:   *)
(* it is written in order, or the connection fails and nobody reads on.  A *)
(* pump that is stuck in a write is one that does not take.                *)
(***************************************************************************)
EXTENDS Integers, FiniteSets, Sequences

CONSTANTS Viewers,     \* the connections of one channel
          MaxStart,    \* bound: how often the stream (re)starts
          MaxSession,  \* bound: capture sessions
          Cycle,       \* packets are numbered modulo Cycle
          MaxQueue     \* media packets within the byte budget of a queue

ASSUME ViewersFinite == IsFiniteSet(Viewers)
ASSUME BoundsNat == MaxStart \in Nat /\ {MaxSession, MaxQueue} \subseteq Nat \ {0}
ASSUME CycleSeesAGap == Cycle \in Nat /\ Cycle > 1

VARIABLES
  video,     \* which fanout this is; never changes
  src,       \* the source: "off", "on", "stopping" (its end resets the fanout)
  next,      \* what it sends next: a "session" and its "config", then a "key" frame; or
             \* "replay" and "reconfig", both again; then "media"; "none" after a refusal
  starts, captures, packet,   \* the newest number of each
  late,      \* its thread has passed Sink.current() and not yet called onItem
  asked,     \* a keyframe has been requested of it and not yet sent
  recent,    \* less than minKeyFrameIntervalNanos since lastKeyFrameRequest
  header,    \* MediaFanout.header: the start it came with, 0 for null
  ended,     \* MediaFanout.ended
  session, config,            \* MediaFanout.session and config: <<item>> or <<>>
  closing,   \* subscribers that onStart or reset still has to close
  sub        \* a Subscriber for each connection

source == <<src, next, starts, captures, packet, late>>
stream == <<header, ended, session, config>>
fanoutVars == <<video, source, asked, recent, stream, closing, sub>>

Kinds == {"session", "config", "key", "delta", "audio"}
Items == [kind : Kinds, start : 0 .. MaxStart, n : 0 .. MaxSession, i : 0 .. Cycle - 1]
NoPacket == Cycle

\* A decoder that has been sent nothing.  ok: nothing it was sent was undecodable.
Blank == [start |-> 0, session |-> 0, config |-> 0, packet |-> NoPacket, ok |-> TRUE]
Decoders == [start : 0 .. MaxStart, session : 0 .. MaxSession, config : 0 .. MaxSession,
             packet : 0 .. Cycle, ok : BOOLEAN]

(***************************************************************************)
(* A Subscriber: state is "out" (the connection is not open), "open", or   *)
(* "closed" (still in the list of subscribers).  header is what begin set, *)
(* finish endAfterHeader.  Two history fields follow the viewer's decoder: *)
(* seen, after everything pump has taken, and ahead, after all that has    *)
(* been queued besides.                                                    *)
(***************************************************************************)
Out == [state |-> "out", header |-> 0, finish |-> FALSE, queue |-> <<>>,
        waiting |-> FALSE, seen |-> Blank, ahead |-> Blank]

Subscribers == [state : {"out", "open", "closed"}, header : 0 .. MaxStart, finish : BOOLEAN,
                queue : Seq(Items), waiting : BOOLEAN, seen : Decoders, ahead : Decoders]

FanoutTypeOK ==
  /\ video \in BOOLEAN
  /\ src \in {"off", "on", "stopping"}
  /\ next \in {"session", "config", "key", "replay", "reconfig", "media", "none"}
  /\ starts \in 0 .. MaxStart /\ captures \in 0 .. MaxSession /\ packet \in 0 .. Cycle - 1
  /\ late \in BOOLEAN /\ asked \in BOOLEAN /\ recent \in BOOLEAN
  /\ header \in 0 .. MaxStart /\ ended \in BOOLEAN
  /\ {session, config} \subseteq {<<>>} \cup {<<item>> : item \in Items}
  /\ closing \subseteq Viewers
  /\ sub \in [Viewers -> Subscribers]
  /\ \A v \in Viewers : sub[v].state = "closed" => sub[v].queue = <<>>

FanoutInit ==
  /\ video \in BOOLEAN
  /\ src = "off" /\ next = "none"
  /\ starts = 0 /\ packet = 0
  /\ captures = IF video THEN 0 ELSE 1   \* sound has no sessions: one for all
  /\ late = FALSE /\ asked = FALSE /\ recent = FALSE
  /\ header = 0 /\ ended = FALSE /\ session = <<>> /\ config = <<>>
  /\ closing = {}
  /\ sub = [v \in Viewers |-> Out]

Listed == {v \in Viewers : sub[v].state # "out"}
IsOpen(v) == sub[v].state = "open"
PacketsOf(q) == {i \in DOMAIN q : q[i].kind \in {"key", "delta", "audio"}}

-----------------------------------------------------------------------------
(* Subscriber *)

\* The decoder x can make something of m.
Fits(x, m) ==
  /\ m.start = x.start
  /\ m.kind \in {"key", "delta", "audio"} => x.config = m.n
  /\ m.kind \in {"config", "key", "delta"} /\ video => x.session = m.n
  /\ m.kind = "delta" => m.i = (x.packet + 1) % Cycle /\ x.packet # NoPacket

\* What x is after it has been sent m.
Decode(x, m) ==
  LET y == [x EXCEPT !.ok = @ /\ Fits(x, m)]
  IN CASE m.kind = "session" -> [y EXCEPT !.session = m.n, !.config = 0, !.packet = NoPacket]
       [] m.kind = "config" -> [y EXCEPT !.config = m.n]
       [] OTHER -> [y EXCEPT !.packet = m.i]

\* The decoder x after the current session and codec config.
AfterSetup(x) ==
  LET y == IF session = <<>> THEN x ELSE Decode(x, session[1])
  IN IF config = <<>> THEN y ELSE Decode(y, config[1])

Put(r, item) == [r EXCEPT !.queue = Append(@, item), !.ahead = Decode(@, item)]

Enqueue(r, item) == IF r.state = "open" THEN Put(r, item) ELSE r

Begin(r, start, ends) == [r EXCEPT !.header = start, !.finish = ends, !.ahead.start = start]

\* Mutant: the bytes queued are not looked at, only their age.
OverBudgetByAge(q, old) == q # <<>> /\ old > 0

\* overBudget for a queue whose first old entries are over the age limit.
OverBudget(q, old) == q # <<>> /\ (old > 0 \/ Cardinality(PacketsOf(q)) >= MaxQueue)

\* Mutant: the queue is cleared, but the viewer does not wait for a keyframe.
CutBackGoesOn(r) ==
  [r EXCEPT !.queue = session \o config, !.ahead = AfterSetup([r.seen EXCEPT !.start = r.header])]

\* resync: the queue restarts from the setup, and the viewer waits.
CutBack(r) ==
  [r EXCEPT !.queue = session \o config, !.ahead = AfterSetup([r.seen EXCEPT !.start = r.header]),
            !.waiting = TRUE]

\* offerMedia for video: a viewer that waits is given nothing but a keyframe.
OfferVideo(r, item, old) ==
  LET x == IF OverBudget(r.queue, old) THEN CutBack(r) ELSE r
  IN CASE r.state # "open" -> r
       [] r.state = "open" /\ x.waiting /\ item.kind # "key" -> x
       [] OTHER -> Put([x EXCEPT !.waiting = FALSE], item)

\* The indices of q that are left when the first d media packets are dropped.
LeftOf(q, d) ==
  {i \in DOMAIN q : i \in PacketsOf(q) => Cardinality({j \in PacketsOf(q) : j <= i}) > d}

\* Those are few enough and young enough, or only setup.
Enough(q, d, old) ==
  \/ LeftOf(q, d) \cap PacketsOf(q) = {}
  \/ /\ \A i \in LeftOf(q, d) : i > old
     /\ Cardinality(LeftOf(q, d) \cap PacketsOf(q)) < MaxQueue

\* The j-th of a set of indices.
Nth(S, j) == CHOOSE i \in S : Cardinality({k \in S : k <= i}) = j

\* The loop of offerMedia for sound: drop the oldest media packets until the
\* rest is within the budget or only setup is left.
Shed(q, old) ==
  LET d == CHOOSE e \in 0 .. Len(q) : Enough(q, e, old) /\ \A f \in 0 .. e - 1 : ~Enough(q, f, old)
      left == LeftOf(q, d)
  IN [j \in 1 .. Cardinality(left) |-> q[Nth(left, j)]]

\* What is shed has been counted into ahead: a decoder that can do without a
\* packet can do with it.
OfferAudio(r, item, old) ==
  IF r.state = "open" THEN Put([r EXCEPT !.queue = Shed(@, old)], item) ELSE r

\* close.  Until it leaves, a closed viewer is only counted among those that wait.
CloseSub(r) ==
  IF r.state = "open" THEN [Out EXCEPT !.state = "closed", !.waiting = r.waiting] ELSE r

-----------------------------------------------------------------------------
(* MediaFanout *)

\* claimKeyFrameRequest when wanted, and requestKeyFrame, which reaches the
\* source unless it is gone.
AskIf(wanted) ==
  LET claimed == wanted /\ video /\ ~recent IN
  /\ recent' = (recent \/ claimed)
  /\ asked' = (asked \/ (claimed /\ src = "on"))

\* Mutant: viewers left waiting after the last keyframe do not ask again.
OnMediaAsksOnce(item) ==
  /\ \E old \in [Viewers -> 0 .. MaxQueue + 1] :
       sub' = [v \in Viewers |-> IF video THEN OfferVideo(sub[v], item, old[v])
                                 ELSE OfferAudio(sub[v], item, old[v])]
  /\ asked' = (asked /\ item.kind # "key")
  /\ UNCHANGED <<recent, session, config>>

\* onItem of a packet that is not config.
OnMedia(item) ==
  /\ \E old \in [Viewers -> 0 .. MaxQueue + 1] :
       sub' = [v \in Viewers |-> IF video THEN OfferVideo(sub[v], item, old[v])
                                 ELSE OfferAudio(sub[v], item, old[v])]
  /\ LET claimed == video /\ ~recent /\ \E v \in Listed : sub'[v].waiting IN
     /\ recent' = (recent \/ claimed)
     /\ asked' = ((asked /\ item.kind # "key") \/ (claimed /\ src = "on"))
  /\ UNCHANGED <<session, config>>

\* onItem of a session or a codec config.
OnSetup(item) ==
  /\ sub' = [v \in Viewers |-> Enqueue(sub[v], item)]
  /\ IF item.kind = "session" THEN session' = <<item>> /\ config' = <<>>
     ELSE config' = <<item>> /\ session' = session
  /\ UNCHANGED <<asked, recent>>

(***************************************************************************)
(* onStart.  The viewers of an earlier start are left to be closed, after  *)
(* the lock; the others begin.                                             *)
(***************************************************************************)
Start(enabled, then) ==
  /\ starts' = starts + 1
  /\ header' = starts + 1 /\ ended' = ~enabled /\ session' = <<>> /\ config' = <<>>
  /\ closing' = IF header = 0 THEN {} ELSE {v \in Viewers : IsOpen(v)}
  /\ sub' = [v \in Viewers |-> IF v \in Listed /\ header = 0
                               THEN Begin(sub[v], starts + 1, ~enabled) ELSE sub[v]]
  /\ src' = "on" /\ next' = then
  /\ UNCHANGED <<video, captures, packet, late, asked, recent>>

\* serve, up to pump: the viewer joins with the current header and setup.
Subscribe(v) ==
  /\ sub[v].state = "out"
  /\ src = "off" => starts = 0
  /\ sub' = [sub EXCEPT ![v] = [Out EXCEPT !.state = "open", !.waiting = video,
                !.header = header, !.finish = ended, !.queue = session \o config,
                !.ahead = AfterSetup([Blank EXCEPT !.start = header])]]
  /\ AskIf(header # 0)
  /\ UNCHANGED <<video, source, stream, closing>>

\* requestKeyFrameNow: a viewer resets its video.
RequestKeyFrameNow ==
  /\ \E v \in Viewers : IsOpen(v)
  /\ AskIf(TRUE)
  /\ UNCHANGED <<video, source, stream, closing, sub>>

\* The interval after a keyframe request is over.
IntervalOver ==
  /\ recent
  /\ recent' = FALSE
  /\ UNCHANGED <<video, source, asked, stream, closing, sub>>

\* onStart or reset, having let go of the lock, closes one of its viewers.
CloseNext(v) ==
  /\ v \in closing
  /\ closing' = closing \ {v}
  /\ sub' = [sub EXCEPT ![v] = CloseSub(@)]
  /\ UNCHANGED <<video, source, asked, recent, stream>>

\* A viewer's session ends, or its connection fails: close.
Close(v) ==
  /\ IsOpen(v)
  /\ sub' = [sub EXCEPT ![v] = CloseSub(@)]
  /\ UNCHANGED <<video, source, asked, recent, stream, closing>>

\* reset, under the lock: the source has stopped.
Reset ==
  /\ src = "on"
  /\ header' = 0 /\ ended' = FALSE /\ session' = <<>> /\ config' = <<>>
  /\ closing' = closing \cup {v \in Viewers : IsOpen(v)}
  /\ src' = "stopping" /\ asked' = FALSE
  /\ late' \in {FALSE, closing = {} /\ next # "none"}
  /\ UNCHANGED <<video, next, starts, captures, packet, recent, sub>>

\* pump takes the header, once, and all that is queued; a refusal's header is
\* the end of the stream.
Take(v) ==
  /\ IsOpen(v) /\ sub[v].header # 0
  /\ sub[v].seen.start = 0 \/ sub[v].queue # <<>> \/ sub[v].finish
  /\ sub' = [sub EXCEPT ![v] = IF @.finish THEN CloseSub(@)
                               ELSE [@ EXCEPT !.seen = sub[v].ahead, !.queue = <<>>]]
  /\ UNCHANGED <<video, source, asked, recent, stream, closing>>

\* pump has returned: serve leaves the list of subscribers.
Leave(v) ==
  /\ sub[v].state = "closed"
  /\ sub' = [sub EXCEPT ![v] = Out]
  /\ UNCHANGED <<video, source, asked, recent, stream, closing>>

-----------------------------------------------------------------------------
(***************************************************************************)
(* The source, as the two backends drive the fanout through Sink.          *)
(* HelperBackend replays its session and config when it is started and     *)
(* goes on in the middle of its stream; a keyframe request makes it start  *)
(* a new capture session.  ProjectionBackend answers with a keyframe, and  *)
(* pauses while nobody wants video.  A new source takes a person or an     *)
(* activation by adb, by when the old one's end is over.                   *)
(***************************************************************************)
Starts ==
  /\ src \in {"off", "on"} /\ closing = {} /\ starts < MaxStart
  /\ \/ Start(FALSE, "none")
     \/ video /\ captures < MaxSession /\ Start(TRUE, "session")
     \/ video /\ Start(TRUE, "replay")
     \/ ~video /\ Start(TRUE, "config")

Item(kind, n, i) == [kind |-> kind, start |-> starts, n |-> n, i |-> i]

SendSession ==
  /\ next \in {"session", "replay"}
  /\ \E n \in 1 .. MaxSession :
       /\ n = captures + 1 \/ (next = "replay" /\ n = captures)
       /\ OnSetup(Item("session", n, 0))
       /\ captures' = n
  /\ next' = IF next = "session" THEN "config" ELSE "reconfig"
  /\ packet' = IF next = "session" THEN 0 ELSE packet

SendConfig ==
  /\ next \in {"config", "reconfig"}
  /\ OnSetup(Item("config", captures, 0))
  /\ next' = IF video /\ next = "config" THEN "key" ELSE "media"
  /\ UNCHANGED <<captures, packet>>

SendKey ==
  /\ video /\ next \in {"key", "media"}
  /\ packet' = (packet + 1) % Cycle
  /\ OnMedia(Item("key", captures, packet'))
  /\ next' = "media"
  /\ UNCHANGED captures

SendOther ==
  /\ next = "media"
  /\ IF video THEN packet' = (packet + 1) % Cycle ELSE packet' = packet
  /\ OnMedia(Item(IF video THEN "delta" ELSE "audio", captures, packet'))
  /\ UNCHANGED <<next, captures>>

Sends == SendSession \/ SendConfig \/ SendKey \/ SendOther

\* onItem, with Sink's look at current() just before it.
Produce ==
  /\ src = "on" /\ closing = {}
  /\ Sends
  /\ UNCHANGED <<video, src, starts, late, header, ended, closing>>

\* onItem after the reset it has missed.
ProduceLate ==
  /\ late /\ late' = FALSE
  /\ Sends
  /\ UNCHANGED <<video, src, starts, header, ended, closing>>

\* The capture restarts: it was asked to, or the device was turned.
Recapture ==
  /\ video /\ src = "on" /\ next = "media" /\ captures < MaxSession
  /\ next' = "session"
  /\ UNCHANGED <<video, src, starts, captures, packet, late, asked, recent, stream, closing, sub>>

\* onPause: nobody wants video; the source goes on with a new session.
Pause ==
  /\ video /\ src = "on" /\ closing = {} /\ next \in {"config", "reconfig", "key", "media"}
  /\ captures < MaxSession
  /\ session' = <<>> /\ config' = <<>>
  /\ next' = "session"
  /\ UNCHANGED <<video, src, starts, captures, packet, late, asked, recent, header, ended,
                 closing, sub>>

\* The end of the source is over, and with it every session it served.
Stopped ==
  /\ src = "stopping" /\ closing = {} /\ ~late
  /\ \A v \in Viewers : ~IsOpen(v)
  /\ src' = "off" /\ next' = "none"
  /\ UNCHANGED <<video, starts, captures, packet, late, asked, recent, stream, closing, sub>>

-----------------------------------------------------------------------------
FanoutNext ==
  \/ Starts \/ Produce \/ ProduceLate \/ Recapture \/ Pause \/ Reset \/ Stopped
  \/ RequestKeyFrameNow \/ IntervalOver
  \/ \E v \in Viewers : Subscribe(v) \/ Take(v) \/ Close(v) \/ CloseNext(v) \/ Leave(v)

FanoutSpec == FanoutInit /\ [][FanoutNext]_fanoutVars

(***************************************************************************)
(* Fairness: a source that has started keeps sending (a still screen       *)
(* yields a frame every 100 ms) and answers a request with a keyframe, the *)
(* interval passes, and who has viewers to close closes them.  No viewer's *)
(* thread need ever run, and nobody need join, leave, pause or restart.    *)
(***************************************************************************)
FanoutFairness ==
  /\ WF_fanoutVars(Produce) /\ WF_fanoutVars(asked /\ Produce /\ SendKey)
  /\ WF_fanoutVars(IntervalOver) /\ WF_fanoutVars(\E v \in Viewers : CloseNext(v))

FairFanoutSpec == FanoutSpec /\ FanoutFairness

-----------------------------------------------------------------------------
(***************************************************************************)
(* All that a viewer was sent or has queued can be decoded when it comes:  *)
(* never a dependent frame after a gap, never media before its session and *)
(* codec config, never a second stream under the header of the first.  But *)
(* for the viewers that reset is about to close: a late packet that finds  *)
(* one behind cuts it back to a setup that reset has forgotten.            *)
(***************************************************************************)
Decodable ==
  \A v \in Viewers \ closing : IsOpen(v) /\ sub[v].header # 0 => sub[v].ahead.ok

(***************************************************************************)
(* A viewer whose connection is stuck holds no more media than its budget. *)
(***************************************************************************)
WithinBudget ==
  \A v \in Viewers : Cardinality(PacketsOf(sub[v].queue)) <= MaxQueue

(***************************************************************************)
(* A video viewer that waits for a keyframe, having joined or fallen       *)
(* behind, gets one in the end or is closed: also when its own request     *)
(* fell into the interval after another viewer's.                          *)
(***************************************************************************)
Waits(v) == IsOpen(v) /\ sub[v].waiting /\ sub[v].header # 0 /\ ~ended /\ src = "on"

KeyFrameComes == \A v \in Viewers : Waits(v) ~> ~Waits(v)

=============================================================================
