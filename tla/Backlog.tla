------------------------------ MODULE Backlog ------------------------------
(***************************************************************************)
(* audioBacklog (src/audiobacklog.go): which packets of a sound that plays *)
(* here are dropped, so that what stays queued behind the one that plays   *)
(* does not trail the picture for the rest of the session.  The queue's    *)
(* low point over the last Windows segments of sound played has stayed     *)
(* queued all that time; all of it goes but Margin and a cushion for the   *)
(* bursts of the last Memory.  A window whose queue rose or fell by more   *)
(* than Burst holds a stall, and is no burst's.                            *)
(*                                                                         *)
(* Stamps and lengths are counted in packets.                              *)
(***************************************************************************)
EXTENDS Integers, Sequences, FiniteSetsExt

CONSTANTS Segment, Windows, Margin, Step, Burst, Memory

ASSUME BacklogAssumption ==
  /\ {Segment, Windows, Margin, Step, Burst, Memory} \subseteq Nat \ {0}

VARIABLES
  window,   \* the low and high points of the last whole segments, oldest first
  seg,      \* those of the segment being filled; NoSpan before it begins
  swings,   \* rise and fall of the whole windows without a stall, and their ends
  stallEnd, \* the end of the last window that held a stall
  drop      \* the stamps, from and to, of a drop in progress, or NoDrop

backlogVars == <<window, seg, swings, stallEnd, drop>>

Span(pts, queued) == [start |-> pts, lo |-> queued, hi |-> queued]
NoSpan == Span(-1, 0)
NoDrop == [from |-> -1, to |-> -1]

BacklogInit ==
  window = <<>> /\ seg = NoSpan /\ swings = {} /\ stallEnd = 0 /\ drop = NoDrop

\* The packet stamped pts belongs to the drop in progress: with the last packet
\* queued the drop ends, whatever it had left to take.
Dropping(pts, queued) == drop # NoDrop /\ pts < drop.to /\ queued > 0

\* The segment being filled, with the queue behind this packet.
Wider(queued) == [seg EXCEPT !.lo = Min({@, queued}), !.hi = Max({@, queued})]

\* The low points and the high points of the segments of a window.
Lows(w) == {w[i].lo : i \in DOMAIN w}
Highs(w) == {w[i].hi : i \in DOMAIN w}
LowLast(w) == w[Len(w)].lo    \* mutant: the low point of the last segment
Low(w) == Min(Lows(w))
Swing(w) == Max(Highs(w)) - Low(w)

\* The windows that are remembered once w has ended at pts, none around a stall.
Remember(w, pts) ==
  LET start == w[1].start IN
  IF Swing(w) > Burst
  THEN swings' = {s \in swings : s.end <= start} /\ stallEnd' = pts
  ELSE /\ swings' = IF start < stallEnd THEN swings
                    ELSE swings \cup {[end |-> pts, swing |-> Swing(w)]}
       /\ UNCHANGED stallEnd

\* Mutant: a burst is remembered for the rest of the session.
EverCushion(pts) == Max({s.swing : s \in swings'} \cup {0})

Cushion(pts) == Max({s.swing : s \in {t \in swings' : pts - t.end < Memory}} \cup {0})

\* What stayed queued over the window, less what is to stay.
Excess(w, pts) == Low(w) - Margin - Max({Cushion(pts) - Swing(w), 0})

\* skip's measurement of a packet that is in no drop: a segment begins, goes on
\* or ends, and with the window whole the rest may be dropped from this packet.
Begins(pts, queued) ==
  /\ seg = NoSpan /\ seg' = Span(pts, queued) /\ drop' = NoDrop
  /\ UNCHANGED <<window, swings, stallEnd>>

GoesOn(pts, queued) ==
  /\ seg # NoSpan /\ pts - seg.start < Segment /\ seg' = Wider(queued) /\ drop' = NoDrop
  /\ UNCHANGED <<window, swings, stallEnd>>

Ends(pts, queued) ==
  /\ seg # NoSpan /\ pts - seg.start >= Segment
  /\ LET all == Append(window, Wider(queued))
         w == IF Len(all) > Windows THEN Tail(all) ELSE all IN
     IF Len(w) < Windows
     THEN /\ window' = w /\ seg' = Span(pts, queued) /\ drop' = NoDrop
          /\ UNCHANGED <<swings, stallEnd>>
     ELSE /\ Remember(w, pts)
          /\ IF Excess(w, pts) < Step
             THEN window' = w /\ seg' = Span(pts, queued) /\ drop' = NoDrop
             ELSE /\ window' = <<>> /\ seg' = NoSpan
                  /\ drop' = [from |-> pts, to |-> pts + Excess(w, pts)]

\* audioBacklog.skip, when it drops the packet and when it does not.
SkipDrops(pts, queued) ==
  \/ Dropping(pts, queued) /\ UNCHANGED backlogVars
  \/ ~Dropping(pts, queued) /\ Ends(pts, queued) /\ drop' # NoDrop

SkipPlays(pts, queued) ==
  /\ ~Dropping(pts, queued)
  /\ Begins(pts, queued) \/ GoesOn(pts, queued) \/ (Ends(pts, queued) /\ drop' = NoDrop)

\* Nothing is measured while sound does not queue.
Restart == window' = <<>> /\ seg' = NoSpan /\ drop' = NoDrop /\ UNCHANGED <<swings, stallEnd>>
=============================================================================
