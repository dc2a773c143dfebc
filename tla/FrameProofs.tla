----------------------------- MODULE FrameProofs -----------------------------
(***************************************************************************)
(* Proofs about what becomes of a decoded frame.                           *)
(*                                                                         *)
(* WebFrames, for any number of viewers and frames: the counter            *)
(* videoFrame.refs counts exactly the holders of a buffer, so a buffer     *)
(* goes back to the pool once and only when nobody can reach it; and a     *)
(* viewer is never shown an older frame after a newer one.                 *)
(*                                                                         *)
(* Screenshot, for any number of shots: no request is left behind in a     *)
(* blocked read, every channel has room for its answer, and one shot is in *)
(* flight at a time.                                                       *)
(***************************************************************************)
EXTENDS WebFrames, Screenshot, FiniteSetTheorems, TLAPS

(***************************************************************************)
(* Facts about cardinalities.                                              *)
(***************************************************************************)
LEMMA CardAdd ==
  ASSUME NEW S, IsFiniteSet(S), NEW x, x \notin S
  PROVE  Cardinality(S \cup {x}) = Cardinality(S) + 1
BY FS_AddElement

LEMMA CardRemove ==
  ASSUME NEW S, IsFiniteSet(S), NEW x, x \in S
  PROVE  /\ Cardinality(S) \in Nat \ {0}
         /\ Cardinality(S \ {x}) = Cardinality(S) - 1
         /\ S \ {x} = {} <=> Cardinality(S) = 1
<1>1. Cardinality(S) \in Nat /\ Cardinality(S) # 0
  BY FS_CardinalityType, FS_EmptySet
<1>2. IsFiniteSet(S \ {x}) /\ Cardinality(S \ {x}) = Cardinality(S) - 1
  BY FS_RemoveElement
<1>3. S \ {x} = {} <=> Cardinality(S \ {x}) = 0
  BY <1>2, FS_EmptySet
<1>. QED BY <1>1, <1>2, <1>3

LEMMA CardMove ==
  ASSUME NEW S, IsFiniteSet(S), NEW x, x \in S, NEW y, y \notin S
  PROVE  Cardinality((S \ {x}) \cup {y}) = Cardinality(S)
<1>1. IsFiniteSet(S \ {x}) /\ Cardinality(S \ {x}) = Cardinality(S) - 1
  BY FS_RemoveElement
<1>2. Cardinality((S \ {x}) \cup {y}) = Cardinality(S \ {x}) + 1
  BY <1>1, CardAdd
<1>. QED BY <1>1, <1>2, FS_CardinalityType

(***************************************************************************)
(* Holders(f), element by element, and its finiteness.                     *)
(***************************************************************************)
LEMMA HoldersDef ==
  ASSUME NEW f, NEW h
  PROVE  h \in Holders(f) <=>
           \/ h = <<"sink", NoFrame>> /\ dpc # "idle" /\ produced = f
           \/ h = <<"evict", NoFrame>> /\ evicted = f
           \/ \E c \in Viewers : h = <<"box", c>> /\ mailbox[c] = f
           \/ \E c \in Viewers : h = <<"send", c>> /\ sending[c] = f
BY DEF Holders

LEMMA HoldersSubset == ASSUME NEW f PROVE Holders(f) \subseteq Holder
BY DEF Holders, Holder

LEMMA HolderFinite == IsFiniteSet(Holder)
<1>1. IsFiniteSet({"box", "send"})
  <2>1. IsFiniteSet({"box"})
    BY FS_Singleton
  <2>2. {"box", "send"} = {"box"} \cup {"send"}
    OBVIOUS
  <2>. QED BY <2>1, <2>2, FS_AddElement
<1>2. IsFiniteSet({"box", "send"} \X Viewers)
  BY <1>1, ViewersFinite, FS_Product
<1>3. IsFiniteSet({<<"sink", NoFrame>>})
  BY FS_Singleton
<1>4. {<<"sink", NoFrame>>, <<"evict", NoFrame>>}
        = {<<"sink", NoFrame>>} \cup {<<"evict", NoFrame>>}
  OBVIOUS
<1>5. IsFiniteSet({<<"sink", NoFrame>>, <<"evict", NoFrame>>})
  BY <1>3, <1>4, FS_AddElement
<1>. QED BY <1>2, <1>5, FS_Union DEF Holder

LEMMA HoldersFinite == ASSUME NEW f PROVE IsFiniteSet(Holders(f))
BY HoldersSubset, HolderFinite, FS_Subset

(***************************************************************************)
(* The inductive invariant.  Control ties the program counters to the      *)
(* frames they stand for; Counted says what the counter of one frame is.   *)
(***************************************************************************)
Control ==
  /\ dpc # "idle" => produced >= 1
  /\ dpc \in {"swapped", "signal"} => target \in Viewers
  /\ evicted # NoFrame => dpc = "swapped"
  /\ evicted <= produced
  /\ \A c \in Viewers :
       /\ mailbox[c] <= produced /\ sending[c] <= produced
       /\ sending[c] # NoFrame <=> spc[c] = "send"
       /\ closed[c] <=> cpc[c] # "open"

Counted(f) ==
  /\ refs[f] = Cardinality(Holders(f))
  /\ returned[f] = IF f <= produced /\ Holders(f) = {} THEN 1 ELSE 0

IInv == TypeOK /\ Control /\ ClosedBoxStaysEmpty /\ \A f \in Frames : Counted(f)

\* One hold is let go of: the counter and the pool follow.
LEMMA ReleaseCounted ==
  ASSUME IInv, NEW f \in Frames, f <= produced, NEW x, x \in Holders(f), Release(f),
         Holders(f)' = Holders(f) \ {x}, produced' = produced,
         \A g \in Frames : g # f => Holders(g)' = Holders(g)
  PROVE  /\ refs' \in [Frames -> Nat] /\ returned' \in [Frames -> Nat]
         /\ \A g \in Frames : Counted(g)'
<1>1. /\ Cardinality(Holders(f)) \in Nat \ {0}
      /\ Cardinality(Holders(f)') = Cardinality(Holders(f)) - 1
      /\ Holders(f)' = {} <=> Cardinality(Holders(f)) = 1
  BY HoldersFinite, CardRemove
<1>2. refs[f] = Cardinality(Holders(f)) /\ returned[f] = 0
  BY DEF IInv, Counted
<1>3. /\ refs' \in [Frames -> Nat] /\ returned' \in [Frames -> Nat]
      /\ refs'[f] = refs[f] - 1
      /\ returned'[f] = IF refs[f] = 1 THEN 1 ELSE 0
      /\ \A g \in Frames : g # f => refs'[g] = refs[g] /\ returned'[g] = returned[g]
  BY <1>1, <1>2 DEF IInv, TypeOK, Release
<1>4. Counted(f)'
  BY <1>1, <1>2, <1>3 DEF Counted
<1>5. ASSUME NEW g \in Frames, g # f PROVE Counted(g)'
  BY <1>3, <1>5 DEF IInv, Counted
<1>. QED BY <1>3, <1>4, <1>5

\* Holds move from hand to hand, or nothing moves: the counters stay.
LEMMA MoveCounted ==
  ASSUME IInv, produced' = produced, UNCHANGED <<refs, returned>>,
         \A g \in Frames : \/ Holders(g)' = Holders(g)
                           \/ \E x, y : /\ x \in Holders(g) /\ y \notin Holders(g)
                                        /\ Holders(g)' = (Holders(g) \ {x}) \cup {y}
  PROVE  \A g \in Frames : Counted(g)'
<1> SUFFICES ASSUME NEW g \in Frames PROVE Counted(g)'
  OBVIOUS
<1>1. CASE Holders(g)' = Holders(g)
  BY <1>1 DEF IInv, Counted
<1>2. CASE \E x, y : /\ x \in Holders(g) /\ y \notin Holders(g)
                     /\ Holders(g)' = (Holders(g) \ {x}) \cup {y}
  <2>1. PICK x, y : /\ x \in Holders(g) /\ y \notin Holders(g)
                    /\ Holders(g)' = (Holders(g) \ {x}) \cup {y}
    BY <1>2
  <2>2. Cardinality(Holders(g)') = Cardinality(Holders(g))
    BY <2>1, HoldersFinite, CardMove
  <2>3. Holders(g)' # {} /\ Holders(g) # {}
    BY <2>1
  <2>. QED BY <2>2, <2>3 DEF IInv, Counted
<1>. QED BY <1>1, <1>2

(***************************************************************************)
(* The initial states and, one by one, the actions.                        *)
(***************************************************************************)
LEMMA InitIInv == Init => IInv
<1> SUFFICES ASSUME Init PROVE IInv
  OBVIOUS
<1>1. TypeOK /\ Control /\ ClosedBoxStaysEmpty
  BY MaxFrameNat DEF Init, TypeOK, Control, ClosedBoxStaysEmpty, Slot, Frames, NoFrame
<1>2. ASSUME NEW f \in Frames PROVE Counted(f)
  <2>1. Holders(f) = {}
    BY HoldersDef, MaxFrameNat DEF Init, Frames, NoFrame
  <2>. QED BY <2>1, FS_EmptySet, MaxFrameNat DEF Init, Counted, Frames
<1>. QED BY <1>1, <1>2 DEF IInv

\* A new frame: its only holder is the sink.
LEMMA FrameBeginIInv == IInv /\ FrameBegin => IInv'
<1> SUFFICES ASSUME TypeOK, Control, ClosedBoxStaysEmpty,
                    \A f \in Frames : Counted(f), FrameBegin
             PROVE  IInv'
  BY DEF IInv
<1>0. PICK n \in Frames : n = produced + 1
  BY MaxFrameNat DEF FrameBegin, TypeOK, Slot, Frames
<1>1. produced \in Nat /\ n \in Nat /\ n = produced + 1 /\ n # NoFrame
  BY <1>0, MaxFrameNat DEF TypeOK, Slot, Frames, NoFrame
<1>2. /\ produced' = n /\ refs' = [refs EXCEPT ![n] = 1] /\ returned' = returned
      /\ dpc = "idle" /\ dpc' = "offer"
      /\ UNCHANGED <<mailbox, sending, evicted, spc, closed, cpc>>
  BY <1>1 DEF FrameBegin
<1>3. TypeOK'
  <2>1. produced' \in Slot
    BY <1>1, <1>2, MaxFrameNat DEF Slot, Frames
  <2>2. refs' \in [Frames -> Nat]
    BY <1>2 DEF TypeOK
  <2>. QED BY <2>1, <2>2 DEF TypeOK, FrameBegin
<1>4. Control'
  BY <1>1, <1>2 DEF Control, TypeOK, Slot
<1>5. ClosedBoxStaysEmpty'
  BY <1>2 DEF ClosedBoxStaysEmpty
<1>6. Holders(n) = {} /\ Holders(n)' = {<<"sink", NoFrame>>}
  <2>1. \A c \in Viewers : mailbox[c] # n /\ sending[c] # n
    BY <1>1 DEF Control, TypeOK, Slot
  <2>2. evicted # n
    BY <1>1 DEF Control, TypeOK, Slot
  <2>. QED BY <1>2, <2>1, <2>2 DEF Holders
<1>7. \A g \in Frames : g # n => Holders(g)' = Holders(g)
  BY <1>2 DEF Holders
<1>8. Counted(n)'
  <2>1. refs'[n] = 1 /\ returned'[n] = returned[n]
    BY <1>2 DEF TypeOK
  <2>2. returned[n] = 0
    BY <1>1 DEF Counted
  <2>3. Cardinality(Holders(n)') = 1
    BY <1>6, FS_Singleton
  <2>. QED BY <1>6, <2>1, <2>2, <2>3 DEF Counted
<1>9. ASSUME NEW g \in Frames, g # n PROVE Counted(g)'
  <2>1. refs'[g] = refs[g] /\ returned'[g] = returned[g] /\ Holders(g)' = Holders(g)
    BY <1>2, <1>7, <1>9 DEF TypeOK
  <2>2. g <= produced' <=> g <= produced
    BY <1>1, <1>2, <1>9 DEF Frames
  <2>3. Counted(g)
    OBVIOUS
  <2>. QED BY <2>1, <2>2, <2>3 DEF Counted
<1>. QED BY <1>3, <1>4, <1>5, <1>8, <1>9 DEF IInv

\* A step that touches neither a frame's holders nor its counter.
LEMMA QuietCounted ==
  ASSUME IInv, UNCHANGED <<produced, evicted, refs, returned, mailbox, sending>>,
         dpc = "idle" <=> dpc' = "idle"
  PROVE  \A g \in Frames : Counted(g)'
<1>1. \A g \in Frames : Holders(g)' = Holders(g)
  BY DEF Holders
<1>. QED BY <1>1, MoveCounted

LEMMA OfferClosedIInv == ASSUME NEW c \in Viewers PROVE IInv /\ OfferClosed(c) => IInv'
<1> SUFFICES ASSUME IInv, OfferClosed(c) PROVE IInv'
  OBVIOUS
<1>1. TypeOK' /\ Control' /\ ClosedBoxStaysEmpty'
  BY DEF IInv, OfferClosed, TypeOK, Control, ClosedBoxStaysEmpty
<1>2. \A g \in Frames : Counted(g)'
  BY QuietCounted DEF OfferClosed
<1>. QED BY <1>1, <1>2 DEF IInv

\* The mailbox takes a hold on the new frame; its old one passes to the offer.
LEMMA OfferSwapIInv == ASSUME NEW c \in Viewers PROVE IInv /\ OfferSwap(c) => IInv'
<1> SUFFICES ASSUME TypeOK, Control, ClosedBoxStaysEmpty,
                    \A f \in Frames : Counted(f), OfferSwap(c)
             PROVE  IInv'
  BY DEF IInv
<1>0. PICK p \in Frames, old \in Slot : p = produced /\ old = mailbox[c]
  <2>1. produced \in Frames
    BY MaxFrameNat DEF OfferSwap, TypeOK, Control, Slot, Frames
  <2>2. mailbox[c] \in Slot
    BY DEF TypeOK
  <2>. QED BY <2>1, <2>2
<1>1. p \in Nat /\ p # NoFrame /\ old \in Nat /\ old <= p /\ p = produced /\ old = mailbox[c]
  BY <1>0, MaxFrameNat DEF TypeOK, Control, Slot, Frames, NoFrame
<1>2. /\ evicted = NoFrame /\ evicted' = old
      /\ mailbox' = [mailbox EXCEPT ![c] = p] /\ mailbox'[c] = p
      /\ \A d \in Viewers : d # c => mailbox'[d] = mailbox[d]
      /\ dpc = "offer" /\ dpc' = "swapped" /\ target' = c /\ ~closed[c]
      /\ refs' = [refs EXCEPT ![p] = @ + 1]
      /\ UNCHANGED <<produced, sending, returned, spc, closed, cpc>>
  BY <1>1 DEF OfferSwap, TypeOK, Control
<1>3. TypeOK'
  <2>1. refs' \in [Frames -> Nat]
    BY <1>2 DEF TypeOK
  <2>2. mailbox' \in [Viewers -> Slot] /\ evicted' \in Slot
    BY <1>0, <1>1, <1>2 DEF TypeOK
  <2>3. /\ target' \in Viewers \cup {NoFrame}
        /\ dpc' \in {"idle", "offer", "swapped", "signal"}
    BY <1>2
  <2>. QED BY <2>1, <2>2, <2>3 DEF TypeOK, OfferSwap
<1>4. Control'
  BY <1>1, <1>2 DEF Control
<1>5. ClosedBoxStaysEmpty'
  BY <1>2 DEF ClosedBoxStaysEmpty, Control
<1>6. Cardinality(Holders(p)') = Cardinality(Holders(p)) + 1 /\ Holders(p) # {}
  <2>1. <<"sink", NoFrame>> \in Holders(p)
    BY <1>1, <1>2, HoldersDef
  <2>2. CASE old = p
    <3>1. Holders(p)' = Holders(p) \cup {<<"evict", NoFrame>>}
      BY <1>1, <1>2, <2>2 DEF Holders
    <3>2. <<"evict", NoFrame>> \notin Holders(p)
      BY <1>1, <1>2, HoldersDef
    <3>. QED BY <2>1, <3>1, <3>2, HoldersFinite, CardAdd
  <2>3. CASE old # p
    <3>1. Holders(p)' = Holders(p) \cup {<<"box", c>>}
      BY <1>1, <1>2, <2>3 DEF Holders
    <3>2. <<"box", c>> \notin Holders(p)
      BY <1>1, <2>3 DEF Holders
    <3>. QED BY <2>1, <3>1, <3>2, HoldersFinite, CardAdd
  <2>. QED BY <2>2, <2>3
<1>7. Counted(p)'
  <2>1. Cardinality(Holders(p)) \in Nat
    BY HoldersFinite, FS_CardinalityType
  <2>2. Holders(p)' # {}
    BY <1>1, <1>2, HoldersDef DEF Holders
  <2>3. refs'[p] = refs[p] + 1 /\ returned'[p] = returned[p]
    BY <1>2 DEF TypeOK
  <2>4. refs[p] = Cardinality(Holders(p)) /\ returned[p] = 0
    BY <1>6 DEF Counted
  <2>. QED BY <1>6, <2>2, <2>3, <2>4 DEF Counted
<1>8. ASSUME NEW g \in Frames, g # p PROVE Counted(g)'
  <2>0. Counted(g)
    OBVIOUS
  <2>1. refs'[g] = refs[g] /\ returned'[g] = returned[g] /\ produced' = produced
    BY <1>2, <1>8 DEF TypeOK
  <2>2. CASE old # g
    <3>0. evicted # g /\ evicted' # g
      BY <1>2, <2>2, MaxFrameNat DEF NoFrame, Frames
    <3>1. Holders(g)' = Holders(g)
      BY <1>1, <1>2, <1>8, <2>2, <3>0 DEF Holders
    <3>. QED BY <2>0, <2>1, <3>1 DEF Counted
  <2>3. CASE old = g
    <3>0. evicted # g
      BY <1>2, MaxFrameNat DEF NoFrame, Frames
    <3>1. Holders(g)' = (Holders(g) \ {<<"box", c>>}) \cup {<<"evict", NoFrame>>}
      BY <1>1, <1>2, <1>8, <2>3, <3>0 DEF Holders
    <3>2. <<"box", c>> \in Holders(g) /\ <<"evict", NoFrame>> \notin Holders(g)
      BY <1>1, <2>3, <3>0 DEF Holders
    <3>3. Cardinality(Holders(g)') = Cardinality(Holders(g))
      BY <3>1, <3>2, HoldersFinite, CardMove
    <3>4. Holders(g) # {} /\ Holders(g)' # {}
      BY <3>1, <3>2
    <3>. QED BY <2>0, <2>1, <3>3, <3>4 DEF Counted
  <2>. QED BY <2>2, <2>3
<1>. QED BY <1>3, <1>4, <1>5, <1>7, <1>8 DEF IInv

\* The frame an offer pushed out is released.
LEMMA OfferEvictIInv == IInv /\ OfferEvict => IInv'
<1> SUFFICES ASSUME IInv, OfferEvict PROVE IInv'
  OBVIOUS
<1>1. TypeOK /\ Control /\ ClosedBoxStaysEmpty
  BY DEF IInv
<1>2. /\ dpc = "swapped" /\ dpc' = "signal" /\ evicted' = NoFrame
      /\ UNCHANGED <<produced, target, mailbox, sending, spc, closed, cpc>>
  BY DEF OfferEvict
<1>4. Control' /\ ClosedBoxStaysEmpty'
  BY <1>1, <1>2 DEF Control, ClosedBoxStaysEmpty, TypeOK, Slot, NoFrame
<1>5. /\ refs' \in [Frames -> Nat] /\ returned' \in [Frames -> Nat]
      /\ \A g \in Frames : Counted(g)'
  <2>1. CASE evicted = NoFrame
    <3>1. UNCHANGED <<refs, returned>>
      BY <2>1 DEF OfferEvict, ReleaseIfAny
    <3>2. \A g \in Frames : Holders(g)' = Holders(g)
      BY <1>2, <2>1 DEF Holders
    <3>. QED BY <1>1, <1>2, <3>1, <3>2, MoveCounted DEF TypeOK
  <2>2. CASE evicted # NoFrame
    <3>1. PICK f \in Frames : f = evicted
      BY <1>1, <2>2, MaxFrameNat DEF TypeOK, Slot, Frames, NoFrame
    <3>2. Release(f) /\ f <= produced
      BY <1>1, <2>2, <3>1 DEF OfferEvict, ReleaseIfAny, Control
    <3>3. <<"evict", NoFrame>> \in Holders(f)
      BY <3>1, HoldersDef
    <3>4. NoFrame \notin Frames
      BY MaxFrameNat DEF NoFrame, Frames
    <3>5. Holders(f)' = Holders(f) \ {<<"evict", NoFrame>>}
      BY <1>2, <3>1, <3>4 DEF Holders
    <3>6. \A g \in Frames : g # f => Holders(g)' = Holders(g)
      BY <1>2, <3>1, <3>4 DEF Holders
    <3>. QED BY <1>2, <3>2, <3>3, <3>5, <3>6, ReleaseCounted
  <2>. QED BY <2>1, <2>2
<1>6. TypeOK'
  <2>1. evicted' \in Slot
    BY <1>2, MaxFrameNat DEF Slot, NoFrame
  <2>2. dpc' \in {"idle", "offer", "swapped", "signal"}
    BY <1>2
  <2>. QED BY <1>1, <1>5, <2>1, <2>2 DEF TypeOK, OfferEvict
<1>. QED BY <1>4, <1>5, <1>6 DEF IInv

LEMMA OfferSignalIInv == IInv /\ OfferSignal => IInv'
<1> SUFFICES ASSUME IInv, OfferSignal PROVE IInv'
  OBVIOUS
<1>1. TypeOK' /\ Control' /\ ClosedBoxStaysEmpty'
  BY DEF IInv, OfferSignal, TypeOK, Control, ClosedBoxStaysEmpty
<1>2. \A g \in Frames : Counted(g)'
  BY QuietCounted DEF OfferSignal
<1>. QED BY <1>1, <1>2 DEF IInv

\* The sink lets go of the frame it has handed out.
LEMMA FrameEndIInv == IInv /\ FrameEnd => IInv'
<1> SUFFICES ASSUME IInv, FrameEnd PROVE IInv'
  OBVIOUS
<1>1. TypeOK /\ Control /\ ClosedBoxStaysEmpty
  BY DEF IInv
<1>2. /\ dpc = "offer" /\ dpc' = "idle"
      /\ UNCHANGED <<produced, target, evicted, mailbox, sending, spc, closed, cpc>>
  BY DEF FrameEnd
<1>3. Control' /\ ClosedBoxStaysEmpty'
  BY <1>1, <1>2 DEF Control, ClosedBoxStaysEmpty
<1>4. /\ refs' \in [Frames -> Nat] /\ returned' \in [Frames -> Nat]
      /\ \A g \in Frames : Counted(g)'
  <2>1. PICK f \in Frames : f = produced
    BY <1>1, <1>2, MaxFrameNat DEF TypeOK, Control, Slot, Frames
  <2>2. Release(f) /\ f <= produced
    BY <1>1, <2>1 DEF FrameEnd, TypeOK, Slot
  <2>3. <<"sink", NoFrame>> \in Holders(f)
    BY <1>2, <2>1, HoldersDef
  <2>4. Holders(f)' = Holders(f) \ {<<"sink", NoFrame>>}
    BY <1>2, <2>1 DEF Holders
  <2>5. \A g \in Frames : g # f => Holders(g)' = Holders(g)
    BY <1>2, <2>1 DEF Holders
  <2>. QED BY <1>2, <2>2, <2>3, <2>4, <2>5, ReleaseCounted
<1>5. TypeOK'
  BY <1>1, <1>4 DEF TypeOK, FrameEnd
<1>. QED BY <1>3, <1>4, <1>5 DEF IInv

LEMMA SenderWakeIInv == ASSUME NEW c \in Viewers PROVE IInv /\ SenderWake(c) => IInv'
<1> SUFFICES ASSUME IInv, SenderWake(c) PROVE IInv'
  OBVIOUS
<1>1. TypeOK' /\ Control' /\ ClosedBoxStaysEmpty'
  BY DEF IInv, SenderWake, TypeOK, Control, ClosedBoxStaysEmpty, demux
<1>2. \A g \in Frames : Counted(g)'
  BY QuietCounted DEF SenderWake, demux
<1>. QED BY <1>1, <1>2 DEF IInv

\* The mailbox's hold passes to the sender.
LEMMA SenderTakeIInv == ASSUME NEW c \in Viewers PROVE IInv /\ SenderTake(c) => IInv'
<1> SUFFICES ASSUME IInv, SenderTake(c) PROVE IInv'
  OBVIOUS
<1>1. TypeOK /\ Control /\ ClosedBoxStaysEmpty
  BY DEF IInv
<1>2. PICK old \in Slot : old = mailbox[c] /\ old <= produced
  BY <1>1 DEF TypeOK, Control
<1>3. /\ mailbox'[c] = NoFrame /\ sending'[c] = old /\ sending[c] = NoFrame
      /\ \A d \in Viewers : d # c => mailbox'[d] = mailbox[d] /\ sending'[d] = sending[d]
      /\ UNCHANGED <<produced, dpc, target, evicted, closed, cpc, refs, returned>>
      /\ spc' = [spc EXCEPT ![c] = IF old = NoFrame THEN "wait" ELSE "send"]
  BY <1>1, <1>2 DEF SenderTake, TypeOK, Control, demux
<1>4. NoFrame \in Slot /\ NoFrame <= produced /\ NoFrame \notin Frames
  BY <1>1, MaxFrameNat DEF NoFrame, Slot, TypeOK, Frames
<1>5. TypeOK'
  <2>1. /\ mailbox' \in [Viewers -> Slot] /\ sending' \in [Viewers -> Slot]
        /\ last' \in [Viewers -> Slot]
    BY <1>1, <1>2, <1>4 DEF SenderTake, TypeOK
  <2>2. spc' \in [Viewers -> {"none", "wait", "take", "send", "exit"}]
    BY <1>1, <1>3 DEF TypeOK
  <2>. QED BY <1>1, <2>1, <2>2 DEF SenderTake, TypeOK, demux
<1>6. Control' /\ ClosedBoxStaysEmpty'
  BY <1>1, <1>2, <1>3, <1>4 DEF Control, ClosedBoxStaysEmpty, TypeOK
<1>7. ASSUME NEW g \in Frames
      PROVE  \/ Holders(g)' = Holders(g)
             \/ \E x, y : /\ x \in Holders(g) /\ y \notin Holders(g)
                          /\ Holders(g)' = (Holders(g) \ {x}) \cup {y}
  <2>1. CASE old # g
    <3>. QED BY <1>2, <1>3, <1>4, <2>1 DEF Holders
  <2>2. CASE old = g
    <3>1. Holders(g)' = (Holders(g) \ {<<"box", c>>}) \cup {<<"send", c>>}
      BY <1>2, <1>3, <1>4, <2>2 DEF Holders
    <3>2. <<"box", c>> \in Holders(g) /\ <<"send", c>> \notin Holders(g)
      BY <1>2, <1>3, <1>4, <2>2 DEF Holders
    <3>. QED BY <3>1, <3>2
  <2>. QED BY <2>1, <2>2
<1>8. \A g \in Frames : Counted(g)'
  BY <1>3, <1>7, MoveCounted
<1>. QED BY <1>5, <1>6, <1>8 DEF IInv

\* The sender is through with the frame it read.
LEMMA SenderDoneIInv ==
  ASSUME NEW c \in Viewers PROVE IInv /\ SenderDone(c) => IInv'
<1> SUFFICES ASSUME IInv, SenderDone(c) PROVE IInv'
  OBVIOUS
<1>1. TypeOK /\ Control /\ ClosedBoxStaysEmpty
  BY DEF IInv
<1>2. /\ spc[c] = "send" /\ sending[c] # NoFrame /\ sending'[c] = NoFrame
      /\ \A d \in Viewers : d # c => sending'[d] = sending[d]
      /\ spc' = [spc EXCEPT ![c] = "wait"]
      /\ UNCHANGED <<produced, dpc, target, evicted, mailbox, closed, cpc>>
  BY <1>1 DEF SenderDone, TypeOK, Control, demux
<1>3. NoFrame \in Slot /\ NoFrame <= produced /\ NoFrame \notin Frames
  BY <1>1, MaxFrameNat DEF NoFrame, Slot, TypeOK, Frames
<1>4. PICK f \in Frames : f = sending[c]
  BY <1>1, <1>2, MaxFrameNat DEF TypeOK, Slot, Frames, NoFrame
<1>5. /\ refs' \in [Frames -> Nat] /\ returned' \in [Frames -> Nat]
      /\ \A g \in Frames : Counted(g)'
  <2>1. Release(f) /\ f <= produced
    BY <1>1, <1>4 DEF SenderDone, Control
  <2>2. <<"send", c>> \in Holders(f)
    BY <1>4, HoldersDef
  <2>3. Holders(f)' = Holders(f) \ {<<"send", c>>}
    BY <1>2, <1>3, <1>4 DEF Holders
  <2>4. \A g \in Frames : g # f => Holders(g)' = Holders(g)
    BY <1>2, <1>3, <1>4 DEF Holders
  <2>. QED BY <1>2, <2>1, <2>2, <2>3, <2>4, ReleaseCounted
<1>6. Control' /\ ClosedBoxStaysEmpty'
  BY <1>1, <1>2, <1>3 DEF Control, ClosedBoxStaysEmpty, TypeOK
<1>7. TypeOK'
  <2>1. sending' \in [Viewers -> Slot]
    BY <1>1, <1>3 DEF SenderDone, TypeOK
  <2>3. spc' \in [Viewers -> {"none", "wait", "take", "send", "exit"}]
    BY <1>1, <1>2 DEF TypeOK
  <2>. QED BY <1>1, <1>5, <2>1, <2>3 DEF SenderDone, TypeOK, demux
<1>. QED BY <1>5, <1>6, <1>7 DEF IInv

\* The steps of a sender, a connection and a close that move no hold.
LEMMA SenderExitIInv == ASSUME NEW c \in Viewers PROVE IInv /\ SenderExit(c) => IInv'
<1> SUFFICES ASSUME IInv, SenderExit(c) PROVE IInv'
  OBVIOUS
<1>1. TypeOK' /\ Control' /\ ClosedBoxStaysEmpty'
  BY DEF IInv, SenderExit, TypeOK, Control, ClosedBoxStaysEmpty, demux
<1>2. \A g \in Frames : Counted(g)'
  BY QuietCounted DEF SenderExit, demux
<1>. QED BY <1>1, <1>2 DEF IInv

LEMMA ConnectIInv == ASSUME NEW c \in Viewers PROVE IInv /\ Connect(c) => IInv'
<1> SUFFICES ASSUME IInv, Connect(c) PROVE IInv'
  OBVIOUS
<1>1. TypeOK' /\ Control' /\ ClosedBoxStaysEmpty'
  BY DEF IInv, Connect, TypeOK, Control, ClosedBoxStaysEmpty, demux
<1>2. \A g \in Frames : Counted(g)'
  BY QuietCounted DEF Connect, demux
<1>. QED BY <1>1, <1>2 DEF IInv

LEMMA CloseBeginIInv == ASSUME NEW c \in Viewers PROVE IInv /\ CloseBegin(c) => IInv'
<1> SUFFICES ASSUME IInv, CloseBegin(c) PROVE IInv'
  OBVIOUS
<1>1. TypeOK' /\ Control' /\ ClosedBoxStaysEmpty'
  BY DEF IInv, CloseBegin, TypeOK, Control, ClosedBoxStaysEmpty, demux
<1>2. \A g \in Frames : Counted(g)'
  BY QuietCounted DEF CloseBegin, demux
<1>. QED BY <1>1, <1>2 DEF IInv

LEMMA CloseLeaveIInv == ASSUME NEW c \in Viewers PROVE IInv /\ CloseLeave(c) => IInv'
<1> SUFFICES ASSUME IInv, CloseLeave(c) PROVE IInv'
  OBVIOUS
<1>1. TypeOK' /\ Control' /\ ClosedBoxStaysEmpty'
  BY DEF IInv, CloseLeave, TypeOK, Control, ClosedBoxStaysEmpty, demux
<1>2. \A g \in Frames : Counted(g)'
  BY QuietCounted DEF CloseLeave, demux
<1>. QED BY <1>1, <1>2 DEF IInv

\* A close lets go of what is in the mailbox.
LEMMA CloseEmptyBoxIInv == ASSUME NEW c \in Viewers PROVE IInv /\ CloseEmptyBox(c) => IInv'
<1> SUFFICES ASSUME IInv, CloseEmptyBox(c) PROVE IInv'
  OBVIOUS
<1>1. TypeOK /\ Control /\ ClosedBoxStaysEmpty
  BY DEF IInv
<1>2. /\ mailbox'[c] = NoFrame /\ cpc[c] = "closing"
      /\ \A d \in Viewers : d # c => mailbox'[d] = mailbox[d]
      /\ cpc' = [cpc EXCEPT ![c] = "emptied"]
      /\ UNCHANGED <<produced, dpc, target, evicted, sending, spc, closed>>
  BY <1>1 DEF CloseEmptyBox, TypeOK, demux
<1>3. NoFrame \in Slot /\ NoFrame <= produced /\ NoFrame \notin Frames
  BY <1>1, MaxFrameNat DEF NoFrame, Slot, TypeOK, Frames
<1>4. /\ refs' \in [Frames -> Nat] /\ returned' \in [Frames -> Nat]
      /\ \A g \in Frames : Counted(g)'
  <2>1. CASE mailbox[c] = NoFrame
    <3>1. UNCHANGED <<refs, returned>>
      BY <2>1 DEF CloseEmptyBox, ReleaseIfAny
    <3>2. \A d \in Viewers : mailbox'[d] = mailbox[d]
      BY <1>2, <2>1
    <3>3. \A g \in Frames : Holders(g)' = Holders(g)
      BY <1>2, <3>2 DEF Holders
    <3>. QED BY <1>1, <1>2, <3>1, <3>3, MoveCounted DEF TypeOK
  <2>2. CASE mailbox[c] # NoFrame
    <3>1. PICK f \in Frames : f = mailbox[c]
      BY <1>1, <2>2, MaxFrameNat DEF TypeOK, Slot, Frames, NoFrame
    <3>2. Release(f) /\ f <= produced
      BY <1>1, <2>2, <3>1 DEF CloseEmptyBox, ReleaseIfAny, Control
    <3>3. <<"box", c>> \in Holders(f)
      BY <3>1, HoldersDef
    <3>4. Holders(f)' = Holders(f) \ {<<"box", c>>}
      BY <1>2, <1>3, <3>1 DEF Holders
    <3>5. \A g \in Frames : g # f => Holders(g)' = Holders(g)
      BY <1>2, <1>3, <3>1 DEF Holders
    <3>. QED BY <1>2, <3>2, <3>3, <3>4, <3>5, ReleaseCounted
  <2>. QED BY <2>1, <2>2
<1>5. Control' /\ ClosedBoxStaysEmpty'
  BY <1>1, <1>2, <1>3 DEF Control, ClosedBoxStaysEmpty, TypeOK
<1>6. TypeOK'
  <2>1. mailbox' \in [Viewers -> Slot]
    BY <1>1, <1>3 DEF CloseEmptyBox, TypeOK
  <2>2. cpc' \in [Viewers -> {"open", "closing", "emptied", "left"}]
    BY <1>1, <1>2 DEF TypeOK
  <2>. QED BY <1>1, <1>4, <2>1, <2>2 DEF CloseEmptyBox, TypeOK, demux
<1>. QED BY <1>4, <1>5, <1>6 DEF IInv

-----------------------------------------------------------------------------
LEMMA NextIInv == IInv /\ [Next]_vars => IInv'
<1> SUFFICES ASSUME IInv, [Next]_vars PROVE IInv'
  OBVIOUS
<1>1. CASE FrameBegin
  BY <1>1, FrameBeginIInv
<1>2. CASE DemuxStep
  BY <1>2, OfferClosedIInv, OfferSwapIInv, OfferEvictIInv, OfferSignalIInv, FrameEndIInv
     DEF DemuxStep
<1>3. ASSUME NEW c \in Viewers, Connect(c) PROVE IInv'
  BY <1>3, ConnectIInv
<1>4. ASSUME NEW c \in Viewers, SenderStep(c) PROVE IInv'
  BY <1>4, SenderWakeIInv, SenderTakeIInv, SenderDoneIInv, SenderExitIInv DEF SenderStep
<1>5. ASSUME NEW c \in Viewers, CloseBegin(c) PROVE IInv'
  BY <1>5, CloseBeginIInv
<1>6. ASSUME NEW c \in Viewers, CloseStep(c) PROVE IInv'
  BY <1>6, CloseEmptyBoxIInv, CloseLeaveIInv DEF CloseStep
<1>7. CASE UNCHANGED vars
  <2>1. TypeOK' /\ Control' /\ ClosedBoxStaysEmpty'
    BY <1>7 DEF IInv, TypeOK, Control, ClosedBoxStaysEmpty, vars
  <2>2. \A g \in Frames : Counted(g)'
    BY <1>7, QuietCounted DEF vars
  <2>. QED BY <2>1, <2>2 DEF IInv
<1>. QED BY <1>1, <1>2, <1>3, <1>4, <1>5, <1>6, <1>7 DEF Next

\* The invariant holds in every state, for any viewers and any number of frames.
THEOREM Inductive == Spec => []IInv
BY InitIInv, NextIInv, PTL DEF Spec

\* Every variable keeps its type; in particular no counter of holders goes below 0,
\* which is what a second releaseFrame of one hold would do.
THEOREM TypeCorrect == Spec => []TypeOK
<1>1. IInv => TypeOK
  BY DEF IInv
<1>. QED BY <1>1, Inductive, PTL

\* videoFrame.refs is the number of goroutines and mailboxes that hold the frame.
THEOREM RefsCorrect == Spec => []RefsCountHolders
<1>1. IInv => RefsCountHolders
  BY DEF IInv, RefsCountHolders, Counted
<1>. QED BY <1>1, Inductive, PTL

\* A buffer in the pool is nobody's: neither a mailbox, a sender that is still
\* encoding it, nor the sink can reach it, so its next user overwrites nothing.
NoUseAfterReturn == \A f \in Frames : returned[f] > 0 => Holders(f) = {}

\* A buffer that releaseFrame has returned to the pool is reachable from nobody.
THEOREM NoUseAfterReturnCorrect == Spec => []NoUseAfterReturn
<1>1. IInv => NoUseAfterReturn
  BY DEF IInv, NoUseAfterReturn, Counted
<1>. QED BY <1>1, Inductive, PTL

\* Every frame's buffer goes back once, when its last holder lets go.
THEOREM ReturnedCorrect == Spec => []ReturnedExactlyOnce
<1>1. IInv => ReturnedExactlyOnce
  BY DEF IInv, ReturnedExactlyOnce, Counted
<1>. QED BY <1>1, Inductive, PTL

\* A close leaves nothing behind in a mailbox that no sender will empty.
THEOREM ClosedBoxCorrect == Spec => []ClosedBoxStaysEmpty
<1>1. IInv => ClosedBoxStaysEmpty
  BY DEF IInv
<1>. QED BY <1>1, Inductive, PTL

-----------------------------------------------------------------------------
(***************************************************************************)
(* The refinement: what a step does to a frame's holders and to the pool.  *)
(***************************************************************************)
LEMMA StepMonotone ==
  ASSUME IInv, [Next]_vars, NEW f \in Frames
  PROVE  /\ returned'[f] >= returned[f]
         /\ f <= produced => f <= produced'
         /\ f <= produced' /\ ~(f <= produced) => Holders(f)' # {}
<1>1. TypeOK /\ produced \in Nat /\ returned[f] \in Nat
  BY DEF IInv, TypeOK, Slot
<1>2. ASSUME NEW g \in Frames, Release(g) PROVE returned'[f] >= returned[f]
  BY <1>1, <1>2 DEF Release, TypeOK
<1>3. CASE FrameBegin
  <2>1. produced' = produced + 1 /\ returned' = returned /\ dpc' = "offer"
    BY <1>3 DEF FrameBegin
  <2>2. f <= produced' /\ ~(f <= produced) => f = produced + 1
    BY <1>1, <2>1 DEF Frames
  <2>3. f = produced + 1 => <<"sink", NoFrame>> \in Holders(f)'
    BY <2>1 DEF Holders
  <2>. QED BY <1>1, <2>1, <2>2, <2>3 DEF Frames
<1>4. ASSUME NEW x \in Slot, ReleaseIfAny(x) PROVE returned'[f] >= returned[f]
  <2>1. x # NoFrame => x \in Frames
    BY MaxFrameNat DEF Slot, Frames, NoFrame
  <2>. QED BY <1>1, <1>2, <1>4, <2>1 DEF ReleaseIfAny
<1>5. ASSUME produced' = produced, returned'[f] >= returned[f] PROVE
         /\ returned'[f] >= returned[f]
         /\ f <= produced => f <= produced'
         /\ f <= produced' /\ ~(f <= produced) => Holders(f)' # {}
  BY <1>5
<1>6. CASE DemuxStep
  <2>1. ASSUME NEW c \in Viewers, OfferClosed(c) \/ OfferSwap(c)
        PROVE  produced' = produced /\ returned'[f] >= returned[f]
    BY <1>1, <2>1 DEF OfferClosed, OfferSwap
  <2>2. CASE OfferEvict
    BY <1>1, <1>4, <1>5, <2>2 DEF OfferEvict, TypeOK
  <2>3. CASE OfferSignal
    BY <1>1, <1>5, <2>3 DEF OfferSignal
  <2>4. CASE FrameEnd
    <3>1. produced \in Frames
      BY <2>4, MaxFrameNat DEF FrameEnd, IInv, TypeOK, Control, Slot, Frames
    <3>. QED BY <1>1, <1>2, <1>5, <2>4, <3>1 DEF FrameEnd
  <2>. QED BY <1>5, <1>6, <2>1, <2>2, <2>3, <2>4 DEF DemuxStep
<1>7. ASSUME NEW c \in Viewers,
             Connect(c) \/ SenderStep(c) \/ CloseBegin(c) \/ CloseStep(c)
      PROVE  produced' = produced /\ returned'[f] >= returned[f]
  <2>1. CASE Connect(c)
    BY <1>1, <2>1 DEF Connect, demux
  <2>2. CASE SenderWake(c) \/ SenderTake(c) \/ SenderExit(c)
    BY <1>1, <2>2 DEF SenderWake, SenderTake, SenderExit, demux
  <2>3. CASE SenderDone(c)
    <3>1. sending[c] \in Frames
      BY <2>3, MaxFrameNat
         DEF SenderDone, IInv, TypeOK, Control, Slot, Frames, NoFrame
    <3>. QED BY <1>1, <1>2, <2>3, <3>1 DEF SenderDone, demux
  <2>4. CASE CloseBegin(c) \/ CloseLeave(c)
    BY <1>1, <2>4 DEF CloseBegin, CloseLeave, demux
  <2>5. CASE CloseEmptyBox(c)
    BY <1>1, <1>4, <2>5 DEF CloseEmptyBox, demux, TypeOK
  <2>. QED BY <1>7, <2>1, <2>2, <2>3, <2>4, <2>5 DEF SenderStep, CloseStep
<1>8. CASE UNCHANGED vars
  BY <1>1, <1>8 DEF vars
<1>. QED BY <1>3, <1>5, <1>6, <1>7, <1>8 DEF Next

LEMMA StepRefines ==
  ASSUME IInv, IInv', [Next]_vars
  PROVE  [Buffers!Next]_<<[f \in Frames |-> Holders(f)], {f \in Frames : returned[f] > 0}>>
<1>1. [f \in Frames |-> Holders(f)'] \in [Frames -> SUBSET Holder]
  BY HoldersSubset DEF Holders, Holder
<1>2. \A f \in Frames : returned[f] > 0 <=> f <= produced /\ Holders(f) = {}
  BY DEF IInv, Counted
<1>3. \A f \in Frames : returned'[f] > 0 <=> f <= produced' /\ Holders(f)' = {}
  BY DEF IInv, Counted
<1>4. \A f \in Frames : returned[f] \in Nat /\ returned'[f] \in Nat
  BY DEF IInv, TypeOK
<1>5. ASSUME NEW f \in Frames, returned[f] > 0 PROVE Holders(f)' = {}
  BY <1>3, <1>4, <1>5, StepMonotone
<1>6. ASSUME NEW f \in Frames
      PROVE  returned'[f] > 0 <=> returned[f] > 0 \/ (Holders(f) # {} /\ Holders(f)' = {})
  <2>1. Holders(f) # {} => f <= produced
    BY DEF IInv, Control, Holders, TypeOK, Slot, Frames
  <2>. QED BY <1>2, <1>3, <1>4, <1>5, <2>1, StepMonotone
<1>. QED BY <1>1, <1>5, <1>6 DEF Buffers!Next

\* The reference-counted frames implement the abstract shared buffers.
THEOREM RefinesSharedBuffers == Spec => BuffersSafe
<1>1. Init => Buffers!Init
  <2> SUFFICES ASSUME Init PROVE Buffers!Init
    OBVIOUS
  <2>1. \A f \in Frames : Holders(f) = {}
    BY HoldersDef, MaxFrameNat DEF Init, Frames, NoFrame
  <2>2. \A f \in Frames : ~(returned[f] > 0)
    BY DEF Init
  <2>. QED BY <2>1, <2>2 DEF Buffers!Init
<1>2. IInv /\ IInv' /\ [Next]_vars
        => [Buffers!Next]_<<[f \in Frames |-> Holders(f)], {f \in Frames : returned[f] > 0}>>
  BY StepRefines
<1>. QED BY <1>1, <1>2, Inductive, PTL DEF Spec, BuffersSafe, Buffers!Spec

(***************************************************************************)
(* The order in which one viewer is shown the frames.                      *)
(***************************************************************************)
\* A mailbox is ahead of its sender, and whoever is yet to be offered the frame
\* being handed out has neither it nor a newer one.
Order ==
  \A c \in Viewers :
    /\ last[c] <= produced
    /\ mailbox[c] # NoFrame => last[c] < mailbox[c]
    /\ \/ dpc = "offer" /\ c \in todo
       \/ dpc \in {"swapped", "signal"} /\ c \in todo \ {target}
       => last[c] < produced /\ mailbox[c] < produced

LEMMA OrderStep == IInv /\ Order /\ [Next]_vars => Order'
<1> SUFFICES ASSUME IInv, Order, [Next]_vars PROVE Order'
  OBVIOUS
<1> USE MaxFrameNat DEF IInv, TypeOK, Control, Order, Slot, NoFrame, demux
<1>1. CASE UNCHANGED vars
  BY <1>1 DEF vars
<1>2. CASE FrameBegin
  BY <1>2 DEF FrameBegin
<1>3. ASSUME NEW d \in Viewers, OfferClosed(d) \/ OfferSwap(d) PROVE Order'
  BY <1>3 DEF OfferClosed, OfferSwap
<1>4. CASE OfferEvict \/ OfferSignal \/ FrameEnd
  BY <1>4 DEF OfferEvict, OfferSignal, FrameEnd
<1>5. ASSUME NEW d \in Viewers, SenderTake(d) PROVE Order'
  BY <1>5 DEF SenderTake
<1>6. ASSUME NEW d \in Viewers, SenderWake(d) \/ SenderDone(d) \/ SenderExit(d) PROVE Order'
  BY <1>6 DEF SenderWake, SenderDone, SenderExit
<1>7. ASSUME NEW d \in Viewers, Connect(d) \/ CloseBegin(d) \/ CloseLeave(d) PROVE Order'
  BY <1>7 DEF Connect, CloseBegin, CloseLeave
<1>8. ASSUME NEW d \in Viewers, CloseEmptyBox(d) PROVE Order'
  BY <1>8 DEF CloseEmptyBox
<1>. QED BY <1>1, <1>2, <1>3, <1>4, <1>5, <1>6, <1>7, <1>8
         DEF Next, DemuxStep, SenderStep, CloseStep

\* What a step hands to a sender is newer than all that sender has had.
LEMMA StepForward ==
  IInv /\ Order /\ [Next]_vars =>
    [\A c \in Viewers : sending'[c] \notin {NoFrame, sending[c]} => sending'[c] > last[c]]_vars
<1> SUFFICES ASSUME IInv, Order, [Next]_vars, NEW c \in Viewers,
                    sending'[c] \notin {NoFrame, sending[c]}
             PROVE  sending'[c] > last[c]
  OBVIOUS
<1>1. PICK d \in Viewers : SenderTake(d)
  BY MaxFrameNat DEF Next, DemuxStep, SenderStep, CloseStep, FrameBegin, OfferClosed,
     OfferSwap, OfferEvict, OfferSignal, FrameEnd, SenderWake, SenderDone, SenderExit,
     Connect, CloseBegin, CloseEmptyBox, CloseLeave, vars, IInv, TypeOK, NoFrame
<1>2. c = d /\ sending'[c] = mailbox[c]
  BY <1>1 DEF SenderTake, IInv, TypeOK
<1>. QED BY <1>1, <1>2, MaxFrameNat DEF Order, IInv, TypeOK, Slot, NoFrame

\* However the mailbox, its token, the sender and a close interleave, a viewer is
\* shown no frame twice and none after a newer one (src/web.go:723-780, 1262-1280).
THEOREM NeverGoesBackCorrect == Spec => NeverGoesBack
<1>1. Init => Order
  BY DEF Init, Order, NoFrame
<1>. QED BY <1>1, Inductive, OrderStep, StepForward, PTL DEF Spec, NeverGoesBack

-----------------------------------------------------------------------------
(***************************************************************************)
(* Screenshot.  The inductive invariant has three parts: the video         *)
(* goroutine's, the requests' and the run loop's.                          *)
(***************************************************************************)
\* A request is made only after a frame was counted, hence scaled; the deadline is
\* past for a request whose press has returned, but for the two steps of a wake.
VideoInv ==
  /\ counted => held
  /\ vpc \in {"scaled", "counted"} => held
  /\ reqs # {} => counted
  /\ ended <=> vpc = "ended"
  /\ ended => reqs = {}
  /\ vpc \notin {"expired", "wake"} /\ reqs \ {rpc} # {} => deadline

ReqInv ==
  /\ reqs \cap taken = {}
  /\ AnswerHasRoom
  /\ \A s \in Shots :
       /\ reply[s] = "open" /\ saver[s] \in {"none", "wait"} => s \in reqs \cup taken
       /\ saver[s] = "none" /\ s # rpc => reply[s] = "none"
       /\ s \in reqs => s = rpc \/ saver[s] = "wait"

LoopInv ==
  /\ \A s \in Shots : saver[s] \notin {"none", "done"} => s = inflight
  /\ rpc # None => /\ saver[rpc] = "none"
                   /\ inflight # None => saver[inflight] = "done"

ShotInv == ShotTypeOK /\ VideoInv /\ ReqInv /\ LoopInv

LEMMA ShotStart == ShotInit => ShotInv
BY DEF ShotInit, ShotInv, ShotTypeOK, VideoInv, ReqInv, LoopInv, AnswerHasRoom, VideoAt,
       ReplyState, SaverAt

LEMMA TypeStep == ShotTypeOK /\ [ShotNext]_shotVars => ShotTypeOK'
<1> SUFFICES ASSUME ShotTypeOK, [ShotNext]_shotVars PROVE ShotTypeOK'
  OBVIOUS
<1> USE NoneIsNoShot DEF ShotTypeOK, VideoAt, ReplyState, SaverAt, video, shared, saverVars
<1>1. ASSUME NEW s \in Shots, Register(s) PROVE ShotTypeOK'
  BY <1>1 DEF Register
<1>2. ASSUME NEW s \in Shots, Timeout(s) PROVE ShotTypeOK'
  BY <1>2 DEF Timeout
<1>3. ASSUME NEW s \in Shots, SaverGoesOn(s) PROVE ShotTypeOK'
  BY <1>3 DEF SaverGoesOn, GetReply, CheckRunning, Save
<1>4. CASE SetDeadline
  BY <1>4 DEF SetDeadline
<1>5. CASE TerminalBack
  BY <1>5 DEF TerminalBack
<1>6. CASE FrameScaled
  BY <1>6 DEF FrameScaled
<1>7. CASE EndShots
  BY <1>7 DEF EndShots
<1>8. CASE FrameCounted \/ ReadExpires \/ ClearDeadline
  BY <1>8 DEF FrameCounted, ReadExpires, ClearDeadline
<1>9. CASE Look
  BY <1>9 DEF Look, Found
<1>10. ASSUME NEW s \in Shots, Answer(s) PROVE ShotTypeOK'
  BY <1>10 DEF Answer
<1>11. CASE UNCHANGED shotVars
  BY <1>11 DEF shotVars
<1>. QED
  BY <1>1, <1>2, <1>3, <1>4, <1>5, <1>6, <1>7, <1>8, <1>9, <1>10, <1>11
     DEF ShotNext, VideoGoesOn

LEMMA VideoStep == ShotInv /\ [ShotNext]_shotVars => VideoInv'
<1> SUFFICES ASSUME ShotInv, [ShotNext]_shotVars PROVE VideoInv'
  OBVIOUS
<1> USE NoneIsNoShot DEF ShotInv, ShotTypeOK, VideoInv, video, shared, saverVars
<1>1. ASSUME NEW s \in Shots, Register(s) PROVE VideoInv'
  BY <1>1 DEF Register
<1>2. ASSUME NEW s \in Shots, Timeout(s) PROVE VideoInv'
  BY <1>2 DEF Timeout
<1>3. ASSUME NEW s \in Shots, SaverGoesOn(s) PROVE VideoInv'
  BY <1>3 DEF SaverGoesOn, GetReply, CheckRunning, Save
<1>4. CASE SetDeadline
  BY <1>4 DEF SetDeadline
<1>5. CASE TerminalBack
  BY <1>5 DEF TerminalBack
<1>6. CASE FrameScaled
  BY <1>6 DEF FrameScaled
<1>7. CASE EndShots
  BY <1>7 DEF EndShots
<1>8. CASE FrameCounted \/ ReadExpires \/ ClearDeadline
  BY <1>8 DEF FrameCounted, ReadExpires, ClearDeadline
<1>9. CASE Look
  BY <1>9 DEF Look, Found
<1>10. ASSUME NEW s \in Shots, Answer(s) PROVE VideoInv'
  BY <1>10 DEF Answer
<1>11. CASE UNCHANGED shotVars
  BY <1>11 DEF shotVars
<1>. QED
  BY <1>1, <1>2, <1>3, <1>4, <1>5, <1>6, <1>7, <1>8, <1>9, <1>10, <1>11
     DEF ShotNext, VideoGoesOn

LEMMA ReqStep == ShotInv /\ [ShotNext]_shotVars => ReqInv'
<1> SUFFICES ASSUME ShotInv, [ShotNext]_shotVars PROVE ReqInv'
  OBVIOUS
<1> USE NoneIsNoShot
    DEF ShotInv, ShotTypeOK, VideoInv, ReqInv, LoopInv, AnswerHasRoom, video, shared, saverVars
<1>1. ASSUME NEW s \in Shots, Register(s) PROVE ReqInv'
  BY <1>1 DEF Register
<1>2. ASSUME NEW s \in Shots, Timeout(s) PROVE ReqInv'
  BY <1>2 DEF Timeout
<1>3. ASSUME NEW s \in Shots, SaverGoesOn(s) PROVE ReqInv'
  <2>1. CASE GetReply(s)
    BY <2>1 DEF GetReply
  <2>2. CASE CheckRunning(s) \/ Save(s)
    BY <2>2 DEF CheckRunning, Save
  <2>. QED BY <1>3, <2>1, <2>2 DEF SaverGoesOn
<1>4. CASE SetDeadline
  BY <1>4 DEF SetDeadline
<1>5. CASE TerminalBack
  BY <1>5 DEF TerminalBack
<1>6. CASE FrameScaled
  BY <1>6 DEF FrameScaled
<1>7. CASE EndShots
  BY <1>7 DEF EndShots
<1>8. CASE FrameCounted \/ ReadExpires \/ ClearDeadline
  BY <1>8 DEF FrameCounted, ReadExpires, ClearDeadline
<1>9. CASE Look
  BY <1>9 DEF Look, Found
<1>10. ASSUME NEW s \in Shots, Answer(s) PROVE ReqInv'
  BY <1>10 DEF Answer
<1>11. CASE UNCHANGED shotVars
  BY <1>11 DEF shotVars
<1>. QED
  BY <1>1, <1>2, <1>3, <1>4, <1>5, <1>6, <1>7, <1>8, <1>9, <1>10, <1>11
     DEF ShotNext, VideoGoesOn

LEMMA LoopStep == ShotInv /\ [ShotNext]_shotVars => LoopInv'
<1> SUFFICES ASSUME ShotInv, [ShotNext]_shotVars PROVE LoopInv'
  OBVIOUS
<1> USE NoneIsNoShot DEF ShotInv, ShotTypeOK, LoopInv, SaverAt, video, shared, saverVars
<1>1. ASSUME NEW s \in Shots, Register(s) PROVE LoopInv'
  BY <1>1 DEF Register
<1>2. ASSUME NEW s \in Shots, Timeout(s) \/ SaverGoesOn(s) PROVE LoopInv'
  BY <1>2 DEF Timeout, SaverGoesOn, GetReply, CheckRunning, Save
<1>3. CASE SetDeadline
  BY <1>3 DEF SetDeadline
<1>4. CASE UNCHANGED <<rpc, inflight, saver>>
  BY <1>4
<1>5. VideoGoesOn \/ FrameScaled \/ EndShots \/ TerminalBack \/ UNCHANGED shotVars
        => UNCHANGED <<rpc, inflight, saver>>
  BY DEF VideoGoesOn, FrameCounted, ReadExpires, ClearDeadline, Look, Found,
         Answer, FrameScaled, EndShots, TerminalBack, shotVars
<1>. QED BY <1>1, <1>2, <1>3, <1>4, <1>5 DEF ShotNext

\* The invariant of the screenshots holds in every state, for any set of shots.
THEOREM ShotInductive == ShotSpec => []ShotInv
<1>1. ShotInv /\ [ShotNext]_shotVars => ShotInv'
  BY TypeStep, VideoStep, ReqStep, LoopStep DEF ShotInv
<1>. QED BY <1>1, ShotStart, PTL DEF ShotSpec

-----------------------------------------------------------------------------
\* Every variable of the screenshots keeps its type.
THEOREM ShotTypeCorrect == ShotSpec => []ShotTypeOK
<1>1. ShotInv => ShotTypeOK
  BY DEF ShotInv
<1>. QED BY <1>1, ShotInductive, PTL

\* A request never waits in a read that only the device's next frame would end.
THEOREM NoStrandedCorrect == ShotSpec => []NoStrandedRequest
<1>1. ShotInv => NoStrandedRequest
  BY DEF ShotInv, VideoInv, NoStrandedRequest
<1>. QED BY <1>1, ShotInductive, PTL

\* The video goroutine never blocks on, or panics in, the send of an answer.
THEOREM AnswerHasRoomCorrect == ShotSpec => []AnswerHasRoom
<1>1. ShotInv => AnswerHasRoom
  BY DEF ShotInv, ReqInv
<1>. QED BY <1>1, ShotInductive, PTL

\* When the stream has ended, nobody waits for a picture of it.
THEOREM EndCorrect == ShotSpec => []NothingAfterTheEnd
<1>1. ShotInv => NothingAfterTheEnd
  BY DEF ShotInv, ShotTypeOK, VideoInv, ReqInv, NothingAfterTheEnd
<1>. QED BY <1>1, ShotInductive, PTL

\* No request is stranded, none is answered twice, none is made in vain.
THEOREM EveryRequestAnsweredCorrect == ShotSpec => []EveryRequestAnswered
BY NoStrandedCorrect, AnswerHasRoomCorrect, EndCorrect, PTL DEF EveryRequestAnswered

LEMMA AtMostOne ==
  ASSUME NEW S, NEW x, S \subseteq {x}
  PROVE  Cardinality(S) <= 1
<1>1. IsFiniteSet({x}) /\ Cardinality({x}) = 1
  BY FS_Singleton
<1>. QED BY <1>1, FS_Subset

\* However fast the key repeats, one shot at a time is in flight.
THEOREM OneShotCorrect == ShotSpec => []OneShot
<1>1. ShotInv => OneShot
  <2> SUFFICES ASSUME ShotInv PROVE OneShot
    OBVIOUS
  <2> DEFINE W == {s \in Shots : saver[s] \notin {"none", "done"}} \cup ({rpc} \ {None})
  <2>1. \E x : reqs \subseteq {x} /\ W \subseteq {x}
    <3>1. CASE rpc # None
      <4>1. reqs \subseteq {rpc} /\ W \subseteq {rpc}
        BY <3>1, NoneIsNoShot DEF ShotInv, ShotTypeOK, ReqInv, LoopInv
      <4>. QED BY <4>1
    <3>2. CASE rpc = None
      <4>1. reqs \subseteq {inflight} /\ W \subseteq {inflight}
        BY <3>2, NoneIsNoShot DEF ShotInv, ShotTypeOK, ReqInv, LoopInv
      <4>. QED BY <4>1
    <3>. QED BY <3>1, <3>2
  <2>. QED BY <2>1, AtMostOne DEF OneShot
<1>. QED BY <1>1, ShotInductive, PTL
==============================================================================
