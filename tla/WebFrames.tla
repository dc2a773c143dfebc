------------------------------ MODULE WebFrames ------------------------------
(***************************************************************************)
(* How the browser display shares one decoded frame among its viewers:     *)
(* webServer.frame, webClient.offer, takeFrame, releaseFrame, the frame    *)
(* part of sendLoop and sendFrame, and closeWith (web.go).                 *)
(*                                                                         *)
(* The demux goroutine hands every frame to a one-slot mailbox per viewer  *)
(* and never waits.  One goroutine per viewer empties the mailbox, encodes *)
(* and sends.  Any goroutine may close a viewer.  The frame's buffer is    *)
(* shared, and the atomic counter videoFrame.refs decides which of them    *)
(* returns it to the pool.                                                 *)
(*                                                                         *)
(* Each critical section of frameMu or clientsMu is one step; so is a      *)
(* releaseFrame, since after the decrement to 0 nobody else can reach the  *)
(* frame before its poolPut.                                               *)
(***************************************************************************)
EXTENDS Integers, FiniteSets

CONSTANTS Viewers,   \* the connections (a reconnect is a new webClient)
          MaxFrame   \* bound: frames decoded in a behaviour

ASSUME ViewersFinite == IsFiniteSet(Viewers)
ASSUME MaxFrameNat == MaxFrame \in Nat

Frames == 1 .. MaxFrame
NoFrame == 0
Slot == 0 .. MaxFrame

VARIABLES
  produced,  \* frames handed to the sink; the one being handed out, too
  dpc,       \* demux goroutine: "idle", "offer", "swapped", "signal"
  todo,      \* its snapshot of clients, less those already offered
  target,    \* the viewer it is offering to
  evicted,   \* the frame its offer pushed out of that viewer's mailbox
  refs,      \* videoFrame.refs
  returned,  \* how often the frame's buffer went back to the pool
  clients,   \* webServer.clients
  mailbox,   \* webClient.frame
  ready,     \* webClient.frameReady holds its one token
  spc,       \* sendLoop: "none", "wait", "take", "send", "exit"
  sending,   \* the frame sendFrame is reading
  closed,    \* webClient.closed
  cpc,       \* closeWith: "open", "closing", "emptied", "left"
  last       \* ghost: the newest frame this viewer's sender has taken

demux == <<produced, dpc, todo, target, evicted>>
vars == <<produced, dpc, todo, target, evicted, refs, returned, clients, mailbox,
          ready, spc, sending, closed, cpc, last>>

TypeOK ==
  /\ produced \in Slot
  /\ dpc \in {"idle", "offer", "swapped", "signal"}
  /\ todo \subseteq Viewers
  /\ target \in Viewers \cup {NoFrame}
  /\ evicted \in Slot
  /\ refs \in [Frames -> Nat]
  /\ returned \in [Frames -> Nat]
  /\ clients \subseteq Viewers
  /\ mailbox \in [Viewers -> Slot]
  /\ ready \in [Viewers -> BOOLEAN]
  /\ spc \in [Viewers -> {"none", "wait", "take", "send", "exit"}]
  /\ sending \in [Viewers -> Slot]
  /\ closed \in [Viewers -> BOOLEAN]
  /\ cpc \in [Viewers -> {"open", "closing", "emptied", "left"}]
  /\ last \in [Viewers -> Slot]

Init ==
  /\ produced = 0 /\ dpc = "idle" /\ todo = {} /\ target = NoFrame /\ evicted = NoFrame
  /\ refs = [f \in Frames |-> 0]
  /\ returned = [f \in Frames |-> 0]
  /\ clients = {}
  /\ mailbox = [c \in Viewers |-> NoFrame]
  /\ ready = [c \in Viewers |-> FALSE]
  /\ spc = [c \in Viewers |-> "none"]
  /\ sending = [c \in Viewers |-> NoFrame]
  /\ closed = [c \in Viewers |-> FALSE]
  /\ cpc = [c \in Viewers |-> "open"]
  /\ last = [c \in Viewers |-> NoFrame]

-----------------------------------------------------------------------------
\* releaseFrame: one hold less on f; the last hold returns the buffer.
Release(f) ==
  /\ refs' = [refs EXCEPT ![f] = @ - 1]
  /\ returned' = [returned EXCEPT ![f] = @ + (IF refs[f] = 1 THEN 1 ELSE 0)]

ReleaseIfAny(f) ==
  \/ f = NoFrame /\ UNCHANGED <<refs, returned>>
  \/ f # NoFrame /\ Release(f)

(***************************************************************************)
(* The demux goroutine (webServer.frame and offer).                        *)
(***************************************************************************)
\* Mutant: the sink takes no hold of its own.
FrameBeginNoHold ==
  /\ dpc = "idle" /\ produced < MaxFrame
  /\ produced' = produced + 1
  /\ todo' = clients
  /\ dpc' = "offer"
  /\ UNCHANGED <<target, evicted, refs, returned, clients, mailbox, ready, spc, sending,
                 closed, cpc, last>>

\* frame: snapshot the clients and take the sink's own hold.
FrameBegin ==
  /\ dpc = "idle" /\ produced < MaxFrame
  /\ produced' = produced + 1
  /\ refs' = [refs EXCEPT ![produced + 1] = 1]
  /\ todo' = clients
  /\ dpc' = "offer"
  /\ UNCHANGED <<target, evicted, returned, clients, mailbox, ready, spc, sending,
                 closed, cpc, last>>

\* offer to a viewer that is closed: frame's check, or offer's under frameMu.
OfferClosed(c) ==
  /\ dpc = "offer" /\ c \in todo /\ closed[c]
  /\ todo' = todo \ {c}
  /\ UNCHANGED <<produced, dpc, target, evicted, refs, returned, clients, mailbox,
                 ready, spc, sending, closed, cpc, last>>

\* Mutant: closed is read before frameMu only, so it may be stale here.
OfferSwapStale(c) ==
  /\ dpc = "offer" /\ c \in todo
  /\ refs' = [refs EXCEPT ![produced] = @ + 1]
  /\ mailbox' = [mailbox EXCEPT ![c] = produced]
  /\ evicted' = mailbox[c]
  /\ target' = c
  /\ dpc' = "swapped"
  /\ UNCHANGED <<produced, todo, returned, clients, ready, spc, sending, closed, cpc,
                 last>>

\* Mutant: the sink waits for room in the mailbox.
OfferSwapWaits(c) == mailbox[c] = NoFrame /\ OfferSwapStale(c) /\ ~closed[c]

\* offer under frameMu: the mailbox takes a hold on the frame and gives up its old one.
OfferSwap(c) ==
  /\ dpc = "offer" /\ c \in todo /\ ~closed[c]
  /\ refs' = [refs EXCEPT ![produced] = @ + 1]
  /\ mailbox' = [mailbox EXCEPT ![c] = produced]
  /\ evicted' = mailbox[c]
  /\ target' = c
  /\ dpc' = "swapped"
  /\ UNCHANGED <<produced, todo, returned, clients, ready, spc, sending, closed, cpc,
                 last>>

\* offer after frameMu: the frame that was pushed out is released.
OfferEvict ==
  /\ dpc = "swapped"
  /\ ReleaseIfAny(evicted)
  /\ evicted' = NoFrame
  /\ dpc' = "signal"
  /\ UNCHANGED <<produced, todo, target, clients, mailbox, ready, spc, sending, closed,
                 cpc, last>>

\* offer's last line: a token for the sender, unless one is there already.
OfferSignal ==
  /\ dpc = "signal"
  /\ ready' = [ready EXCEPT ![target] = TRUE]
  /\ todo' = todo \ {target}
  /\ target' = NoFrame
  /\ dpc' = "offer"
  /\ UNCHANGED <<produced, evicted, refs, returned, clients, mailbox, spc, sending,
                 closed, cpc, last>>

\* frame's end: every viewer has been offered the frame, the sink lets go.
FrameEnd ==
  /\ dpc = "offer" /\ todo = {}
  /\ Release(produced)
  /\ dpc' = "idle"
  /\ UNCHANGED <<produced, todo, target, evicted, clients, mailbox, ready, spc, sending,
                 closed, cpc, last>>

(***************************************************************************)
(* A viewer's sender (sendLoop, takeFrame, sendFrame).                     *)
(***************************************************************************)
SenderWake(c) ==
  /\ spc[c] = "wait" /\ ready[c]
  /\ ready' = [ready EXCEPT ![c] = FALSE]
  /\ spc' = [spc EXCEPT ![c] = "take"]
  /\ UNCHANGED <<demux, refs, returned, clients, mailbox, sending, closed, cpc, last>>

\* Mutant: takeFrame leaves the frame in the mailbox.
SenderTakeKeeps(c) ==
  /\ spc[c] = "take"
  /\ sending' = [sending EXCEPT ![c] = mailbox[c]]
  /\ spc' = [spc EXCEPT ![c] = IF mailbox[c] = NoFrame THEN "wait" ELSE "send"]
  /\ last' = [last EXCEPT ![c] = IF mailbox[c] = NoFrame THEN @ ELSE mailbox[c]]
  /\ UNCHANGED <<demux, refs, returned, clients, mailbox, ready, closed, cpc>>

\* takeFrame, and the sender's "continue" when the mailbox is empty.
SenderTake(c) ==
  /\ spc[c] = "take"
  /\ mailbox' = [mailbox EXCEPT ![c] = NoFrame]
  /\ sending' = [sending EXCEPT ![c] = mailbox[c]]
  /\ spc' = [spc EXCEPT ![c] = IF mailbox[c] = NoFrame THEN "wait" ELSE "send"]
  /\ last' = [last EXCEPT ![c] = IF mailbox[c] = NoFrame THEN @ ELSE mailbox[c]]
  /\ UNCHANGED <<demux, refs, returned, clients, ready, closed, cpc>>

\* Mutant: the token is drained once the frame is out, not before it is taken.
SenderDoneDrains(c) ==
  /\ spc[c] = "send"
  /\ Release(sending[c])
  /\ ready' = [ready EXCEPT ![c] = FALSE]
  /\ sending' = [sending EXCEPT ![c] = NoFrame]
  /\ spc' = [spc EXCEPT ![c] = "wait"]
  /\ UNCHANGED <<demux, clients, mailbox, closed, cpc, last>>

\* sendFrame: the buffer is read (copied or encoded) up to here, then released on
\* every path, also when the encode or the write fails.
SenderDone(c) ==
  /\ spc[c] = "send"
  /\ Release(sending[c])
  /\ sending' = [sending EXCEPT ![c] = NoFrame]
  /\ spc' = [spc EXCEPT ![c] = "wait"]
  /\ UNCHANGED <<demux, clients, mailbox, ready, closed, cpc, last>>

\* select sees closeCh; with a token waiting too, it may pick either.
SenderExit(c) ==
  /\ spc[c] = "wait" /\ closed[c]
  /\ spc' = [spc EXCEPT ![c] = "exit"]
  /\ UNCHANGED <<demux, refs, returned, clients, mailbox, ready, sending, closed, cpc,
                 last>>

(***************************************************************************)
(* Viewers come (handleWS) and go (closeWith, from any goroutine).         *)
(***************************************************************************)
Connect(c) ==
  /\ spc[c] = "none"
  /\ clients' = clients \cup {c}
  /\ spc' = [spc EXCEPT ![c] = "wait"]
  /\ UNCHANGED <<demux, refs, returned, mailbox, ready, sending, closed, cpc, last>>

\* closed.Swap(true): only the first caller goes on.
CloseBegin(c) ==
  /\ spc[c] # "none" /\ ~closed[c]
  /\ closed' = [closed EXCEPT ![c] = TRUE]
  /\ cpc' = [cpc EXCEPT ![c] = "closing"]
  /\ UNCHANGED <<demux, refs, returned, clients, mailbox, ready, spc, sending, last>>

\* closeWith under frameMu: what the mailbox still holds is let go.
CloseEmptyBox(c) ==
  /\ cpc[c] = "closing"
  /\ ReleaseIfAny(mailbox[c])
  /\ mailbox' = [mailbox EXCEPT ![c] = NoFrame]
  /\ cpc' = [cpc EXCEPT ![c] = "emptied"]
  /\ UNCHANGED <<demux, clients, ready, spc, sending, closed, last>>

CloseLeave(c) ==
  /\ cpc[c] = "emptied"
  /\ clients' = clients \ {c}
  /\ cpc' = [cpc EXCEPT ![c] = "left"]
  /\ UNCHANGED <<demux, refs, returned, mailbox, ready, spc, sending, closed, last>>

-----------------------------------------------------------------------------
DemuxStep ==
  \/ \E c \in Viewers : OfferClosed(c) \/ OfferSwap(c)
  \/ OfferEvict
  \/ OfferSignal
  \/ FrameEnd

SenderStep(c) ==
  \/ SenderWake(c)
  \/ SenderTake(c)
  \/ SenderDone(c)
  \/ SenderExit(c)

CloseStep(c) == CloseEmptyBox(c) \/ CloseLeave(c)

Next ==
  \/ FrameBegin
  \/ DemuxStep
  \/ \E c \in Viewers : Connect(c) \/ SenderStep(c) \/ CloseBegin(c) \/ CloseStep(c)

Spec == Init /\ [][Next]_vars

(***************************************************************************)
(* Fairness: Go runs every runnable goroutine, so a frame being handed     *)
(* out, a sender with something to do and a close that has begun all go    *)
(* on.  New frames, viewers and closes are the environment's.              *)
(***************************************************************************)
DemuxFair == WF_vars(DemuxStep)
ViewerFair == \A c \in Viewers : WF_vars(SenderStep(c)) /\ WF_vars(CloseStep(c))
FairSpec == Spec /\ DemuxFair /\ ViewerFair

-----------------------------------------------------------------------------
(***************************************************************************)
(* Who holds frame f: the sink while it hands it out, a mailbox, a sender, *)
(* or the offer that pushed it out of a mailbox.                           *)
(***************************************************************************)
Holder == {<<"sink", NoFrame>>, <<"evict", NoFrame>>} \cup ({"box", "send"} \X Viewers)

Holders(f) ==
  {h \in {<<"sink", NoFrame>>} : dpc # "idle" /\ produced = f}
  \cup {h \in {<<"evict", NoFrame>>} : evicted = f}
  \cup {<<"box", c>> : c \in {c \in Viewers : mailbox[c] = f}}
  \cup {<<"send", c>> : c \in {c \in Viewers : sending[c] = f}}

\* The counter is right: refs is the number of holders (web.go's comment on frame).
RefsCountHolders == \A f \in Frames : refs[f] = Cardinality(Holders(f))

\* Every buffer goes back exactly once: once the last holder lets go, not before,
\* and no path (eviction, close, failed encode) returns it again or forgets it.
ReturnedExactlyOnce ==
  \A f \in Frames : returned[f] = IF f <= produced /\ Holders(f) = {} THEN 1 ELSE 0

\* A frame cannot slip into a mailbox after its close has emptied it, where no
\* sender would ever release it: offer's second look at closed, under frameMu.
ClosedBoxStaysEmpty ==
  \A c \in Viewers : cpc[c] \in {"emptied", "left"} => mailbox[c] = NoFrame

\* A viewer is never shown a frame twice, nor an older one after a newer one,
\* however the mailbox, its token, the sender and a close interleave.
NeverGoesBack ==
  [][\A c \in Viewers : sending'[c] \notin {NoFrame, sending[c]} => sending'[c] > last[c]]_vars

\* No lost wake-up: a frame in a mailbox does not wait for the next frame to come;
\* the viewer's sender takes it, or the viewer closes.
NewestArrives == \A c \in Viewers : mailbox[c] # NoFrame ~> mailbox[c] = NoFrame

\* The decoder is never slowed: whatever its viewers' mailboxes hold, and wherever
\* their senders and closes have stalled, the sink can go on handing out its frame.
DemuxNeverWaits == dpc # "idle" => ENABLED DemuxStep

\* The frame buffers behave as SharedBuffers promises.
Buffers == INSTANCE SharedBuffers
             WITH holders <- [f \in Frames |-> Holders(f)],
                  pool <- {f \in Frames : returned[f] > 0}
BuffersSafe == Buffers!Spec
==============================================================================
