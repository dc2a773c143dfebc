------------------------------ MODULE Screenshot ------------------------------
(***************************************************************************)
(* A screenshot asks the video goroutine, which alone may use the decoder, *)
(* for the picture: app.takeShot and saveShot (input.go), requestShot,     *)
(* cancelShot, answerShots, endShots, shotReader.Read and the part of      *)
(* runVideo they touch (stream.go).                                        *)
(*                                                                         *)
(* Three kinds of goroutine take part: the run loop (a press), the video   *)
(* goroutine (blocked in a read for as long as the device's screen is      *)
(* still) and one saver per shot.  What wakes the read is an expired read  *)
(* deadline.  A step is one critical section of shotMu or one call on the  *)
(* socket.                                                                 *)
(***************************************************************************)
EXTENDS Naturals, FiniteSets

CONSTANTS Shots,   \* the shots a run may take; each has one reply channel
          None     \* no shot
ASSUME NoneIsNoShot == None \notin Shots

VARIABLES
  vpc,       \* video goroutine: see VideoAt
  held,      \* runVideo's lastW > 0: a frame has been scaled
  counted,   \* frameCount > 0
  taken,     \* answerShots' reqs: taken from shotReqs, not answered yet
  reqs,      \* shotReqs
  ended,     \* shotEnded
  deadline,  \* the video socket's read deadline has passed
  reply,     \* each shot's channel: see ReplyState
  rpc,       \* the shot the run loop has registered but set no deadline for
  inflight,  \* the shot whose channel is streamState.shotDone
  saver,     \* each shot's saver: see SaverAt
  canvas,    \* the shots that have a copy of the terminal's canvas
  running    \* tui.running

video == <<vpc, held, counted, taken>>
shared == <<reqs, ended, deadline, reply>>
saverVars == <<saver, canvas>>
shotVars == <<vpc, held, counted, taken, reqs, ended, deadline, reply, rpc, inflight,
              saver, canvas, running>>

\* "read": in conn.Read or about to be; "expired": Read returned at the deadline;
\* "wake": the deadline is cleared; "scaled", "counted": a frame is being delivered;
\* "answer": answerShots has the requests; "ended": runVideo has returned.
VideoAt == {"read", "expired", "wake", "scaled", "counted", "answer", "ended"}
ReplyState == {"none", "open", "picture", "error", "closed"}
\* "wait": saveShot's select; "late": the timer won it; "check": before the look at
\* tui.running; "save": writeShotPNG; "done": the done channel is closed.
SaverAt == {"none", "wait", "late", "check", "save", "done"}

ShotTypeOK ==
  /\ vpc \in VideoAt
  /\ held \in BOOLEAN /\ counted \in BOOLEAN
  /\ taken \subseteq Shots /\ reqs \subseteq Shots
  /\ taken # {} <=> vpc = "answer"
  /\ ended \in BOOLEAN /\ deadline \in BOOLEAN
  /\ reply \in [Shots -> ReplyState]
  /\ rpc \in Shots \cup {None} /\ inflight \in Shots \cup {None}
  /\ saver \in [Shots -> SaverAt]
  /\ canvas \subseteq Shots
  /\ running \in BOOLEAN

ShotInit ==
  /\ vpc = "read" /\ held = FALSE /\ counted = FALSE
  /\ taken = {} /\ reqs = {} /\ ended = FALSE /\ deadline = FALSE
  /\ reply = [s \in Shots |-> "none"]
  /\ rpc = None /\ inflight = None
  /\ saver = [s \in Shots |-> "none"]
  /\ canvas = {}
  /\ running = TRUE

-----------------------------------------------------------------------------
(***************************************************************************)
(* The run loop.                                                           *)
(***************************************************************************)
\* takeShot up to requestShot's unlock: the press of Alt+S that starts a shot.  A press
\* with a shot in flight, before the first frame, or without a terminal takes none.
Register(s) ==
  /\ rpc = None /\ saver[s] = "none"
  /\ inflight # None => saver[inflight] = "done"
  /\ running /\ counted /\ ~ended
  /\ reqs' = reqs \cup {s}
  /\ reply' = [reply EXCEPT ![s] = "open"]
  /\ \E has \in BOOLEAN : canvas' = IF has THEN canvas \cup {s} ELSE canvas
  /\ rpc' = s
  /\ UNCHANGED <<video, ended, deadline, inflight, saver, running>>

\* Mutant: the request does not wake the read: it waits for the next frame.
SetNoDeadline ==
  /\ rpc # None
  /\ inflight' = rpc
  /\ saver' = [saver EXCEPT ![rpc] = "wait"]
  /\ rpc' = None
  /\ UNCHANGED <<video, shared, canvas, running>>

\* The end of requestShot and of takeShot: the wake, then the saver's goroutine.
SetDeadline ==
  /\ rpc # None
  /\ deadline' = (vpc # "ended")  \* runVideo closes the socket as it returns
  /\ inflight' = rpc
  /\ saver' = [saver EXCEPT ![rpc] = "wait"]
  /\ rpc' = None
  /\ UNCHANGED <<video, reqs, ended, reply, canvas, running>>

\* The terminal is given back: the session ends.
TerminalBack ==
  /\ running
  /\ running' = FALSE
  /\ UNCHANGED <<video, shared, rpc, inflight, saverVars>>

(***************************************************************************)
(* The video goroutine.                                                    *)
(***************************************************************************)
\* A packet was read and decoded to a frame, which is scaled.
FrameScaled ==
  /\ vpc = "read"
  /\ held' = TRUE
  /\ vpc' = "scaled"
  /\ UNCHANGED <<counted, taken, shared, rpc, inflight, saverVars, running>>

FrameCounted ==
  /\ vpc = "scaled"
  /\ counted' = TRUE
  /\ vpc' = "counted"
  /\ UNCHANGED <<held, taken, shared, rpc, inflight, saverVars, running>>

\* shotReader: a read that waits, or the next one, returns at the deadline.
ReadExpires ==
  /\ vpc = "read" /\ deadline
  /\ vpc' = "expired"
  /\ UNCHANGED <<held, counted, taken, shared, rpc, inflight, saverVars, running>>

ClearDeadline ==
  /\ vpc = "expired"
  /\ deadline' = FALSE
  /\ vpc' = "wake"
  /\ UNCHANGED <<held, counted, taken, reqs, ended, reply, rpc, inflight, saverVars, running>>

\* The requests that answerShots finds.  A wake asks it only once a frame has
\* been scaled; before that it leaves them where they are.
Found == IF vpc = "wake" /\ ~held THEN {} ELSE reqs

\* answerShots takes the requests, after a frame or on a wake.
Look ==
  /\ vpc \in {"counted", "wake"}
  /\ taken' = Found
  /\ reqs' = reqs \ Found
  /\ vpc' = IF Found = {} THEN "read" ELSE "answer"
  /\ UNCHANGED <<held, counted, ended, deadline, reply, rpc, inflight, saverVars, running>>

\* Mutant: the deadline is cleared (again) once the requests have been answered.
AnswerClears(s) ==
  /\ vpc = "answer" /\ s \in taken
  /\ reply[s] = "open"
  /\ \E r \in {"picture", "error"} : reply' = [reply EXCEPT ![s] = r]
  /\ taken' = taken \ {s}
  /\ vpc' = IF taken = {s} THEN "read" ELSE "answer"
  /\ deadline' = FALSE
  /\ UNCHANGED <<held, counted, reqs, ended, rpc, inflight, saverVars, running>>

\* answerShots' sends; the scale they send may have failed.
Answer(s) ==
  /\ vpc = "answer" /\ s \in taken
  /\ reply[s] = "open"
  /\ \E r \in {"picture", "error"} : reply' = [reply EXCEPT ![s] = r]
  /\ taken' = taken \ {s}
  /\ vpc' = IF taken = {s} THEN "read" ELSE "answer"
  /\ UNCHANGED <<held, counted, reqs, ended, deadline, rpc, inflight, saverVars, running>>

\* The stream ends at a read: runVideo returns, endShots closes what still waits.
EndShots ==
  /\ vpc = "read"
  /\ vpc' = "ended"
  /\ ended' = TRUE
  /\ reply' = [s \in Shots |-> IF s \in reqs THEN "closed" ELSE reply[s]]
  /\ reqs' = {}
  /\ deadline' = FALSE
  /\ UNCHANGED <<held, counted, taken, rpc, inflight, saverVars, running>>

(***************************************************************************)
(* The saver of shot s (saveShot).                                         *)
(***************************************************************************)
GetReply(s) ==
  /\ saver[s] = "wait" /\ reply[s] \in {"picture", "error", "closed"}
  /\ saver' = [saver EXCEPT ![s] = IF reply[s] = "closed" THEN "done" ELSE "check"]
  /\ UNCHANGED <<video, shared, rpc, inflight, canvas, running>>

\* Mutant: the timer's case forgets to withdraw the request.
TimeoutKeeps(s) ==
  /\ saver[s] = "wait"
  /\ saver' = [saver EXCEPT ![s] = "late"]
  /\ UNCHANGED <<video, shared, rpc, inflight, canvas, running>>

\* shotWait is over: cancelShot.
Timeout(s) ==
  /\ saver[s] = "wait"
  /\ reqs' = reqs \ {s}
  /\ saver' = [saver EXCEPT ![s] = "late"]
  /\ UNCHANGED <<video, ended, deadline, reply, rpc, inflight, canvas, running>>

\* Under tui.mu; then what there is to save, or nothing.
CheckRunning(s) ==
  /\ saver[s] \in {"late", "check"}
  /\ LET nothing == \/ ~running
                    \/ saver[s] = "check" /\ reply[s] = "error"
                    \/ saver[s] = "late" /\ s \notin canvas
     IN saver' = [saver EXCEPT ![s] = IF nothing THEN "done" ELSE "save"]
  /\ UNCHANGED <<video, shared, rpc, inflight, canvas, running>>

Save(s) ==
  /\ saver[s] = "save"
  /\ saver' = [saver EXCEPT ![s] = "done"]
  /\ UNCHANGED <<video, shared, rpc, inflight, canvas, running>>

-----------------------------------------------------------------------------
\* The steps the video goroutine takes without the device's help.
VideoGoesOn ==
  \/ FrameCounted \/ ReadExpires \/ ClearDeadline \/ Look
  \/ \E s \in Shots : Answer(s)

SaverGoesOn(s) == GetReply(s) \/ CheckRunning(s) \/ Save(s)

ShotNext ==
  \/ \E s \in Shots : Register(s) \/ Timeout(s) \/ SaverGoesOn(s)
  \/ SetDeadline \/ TerminalBack
  \/ VideoGoesOn \/ FrameScaled \/ EndShots

ShotSpec == ShotInit /\ [][ShotNext]_shotVars

(***************************************************************************)
(* Fairness: the goroutines run when they can.  The device need not send   *)
(* another frame, the stream need not end, and the timer need not fire: a  *)
(* picture must come without any of the three.  Weak fairness suffices     *)
(* for the read, too: a past deadline keeps it enabled until it returns.   *)
(***************************************************************************)
ShotFairSpec ==
  /\ ShotSpec
  /\ WF_shotVars(VideoGoesOn) /\ WF_shotVars(SetDeadline)
  /\ \A s \in Shots : WF_shotVars(SaverGoesOn(s))

-----------------------------------------------------------------------------
\* A request whose press has returned is on the video goroutine's way: it waits in a
\* read only with the deadline past, so that the read returns and finds the request.
\* This is why requestShot registers first and shotReader clears first.
NoStrandedRequest == vpc = "read" /\ reqs \ {rpc} # {} => held /\ deadline

\* A reply channel gets its one answer or is closed, never both: answerShots always
\* has room to send (it would stall the video goroutine) and sends on no closed one.
AnswerHasRoom == \A s \in taken \cup reqs : reply[s] = "open"

\* After endShots nobody can come to wait for an answer that nobody will give.
NothingAfterTheEnd ==
  vpc = "ended" => /\ reqs = {}
                   /\ \A s \in Shots : saver[s] = "wait" => reply[s] # "open"

\* The three together: however the press, the wake, the timer and the end of the
\* stream fall, each request is answered exactly once and nobody waits for more.
EveryRequestAnswered == NoStrandedRequest /\ AnswerHasRoom /\ NothingAfterTheEnd

\* Alt+S held down keeps one shot: one request, and at most one saver at work.
OneShot ==
  /\ Cardinality(reqs) <= 1
  /\ Cardinality({s \in Shots : saver[s] \notin {"none", "done"}} \cup ({rpc} \ {None})) <= 1

\* A shot always finishes: a still screen sends no frame, yet its request is answered,
\* by the video goroutine or by endShots, without the help of shotWait; later presses
\* are not taken for the same shot for ever.
ShotFinishes == \A s \in Shots : saver[s] # "none" ~> saver[s] = "done"
==============================================================================
