----------------------------- MODULE SoundProofs -----------------------------
(***************************************************************************)
(* Proofs about Sound: what the backlog algorithm promises of the sound    *)
(* that it drops and leaves, and that a stream is not freed under a write. *)
(*                                                                         *)
(* The spans of the window leave no gap and are as low as every sample     *)
(* (Tiled).  A span that began since something came between saw a queue    *)
(* that only stays as long or, when the device sends no more, falls        *)
(* (Falling), so its low point is no lower than the queue is now, and the  *)
(* bursts that are remembered without such a fall are from before          *)
(* (Remembered).  Hence the first check that sees nothing else drops what  *)
(* is over, and what is left stays bounded until something comes between   *)
(* again (Lags).                                                           *)
(***************************************************************************)
EXTENDS Sound, TLAPS, WellFoundedInduction

Whole == Windows * Segment
SpanType == [start : Nat, lo : Nat, hi : Nat]

\* The parameters are positive; a window lasts Whole packets.
LEMMA Positive ==
  /\ Segment \in Nat /\ Segment > 0 /\ Windows \in Nat /\ Windows > 0
  /\ Margin \in Nat /\ Margin > 0 /\ Step \in Nat /\ Step > 0
  /\ Burst \in Nat /\ Burst > 0 /\ Memory \in Nat /\ Memory > 0
  /\ Whole \in Nat /\ Whole > 0
<1>1. /\ Segment \in Nat /\ Segment > 0 /\ Windows \in Nat /\ Windows > 0
      /\ Margin \in Nat /\ Margin > 0 /\ Step \in Nat /\ Step > 0
      /\ Burst \in Nat /\ Burst > 0 /\ Memory \in Nat /\ Memory > 0
  BY BacklogAssumption
<1>2. \A m, n \in Nat : m > 0 /\ n > 0 => m * n \in Nat /\ m * n > 0
  OBVIOUS
<1> QED BY <1>1, <1>2 DEF Whole

\* One segment more.
LEMMA Distributes ==
  \A m \in Nat : m * Segment \in Nat /\ (m + 1) * Segment = m * Segment + Segment
  BY Positive

\* More segments last longer.
LEMMA Monotone == \A m, n \in Nat : m <= n => m * Segment <= n * Segment
<1> SUFFICES ASSUME NEW m \in Nat, NEW n \in Nat, m <= n PROVE m * Segment <= n * Segment
  OBVIOUS
<1>1. n - m \in Nat /\ (n - m) * Segment \in Nat
  BY Positive
<1>2. n * Segment = m * Segment + (n - m) * Segment
  BY Positive
<1> QED BY <1>1, <1>2, Distributes

\* A set of numbers has a least one.
LEMMA LeastOf ==
  ASSUME NEW S \in SUBSET Nat, S # {}
  PROVE  \E m \in S : \A x \in S : m <= x
<1> DEFINE Less == OpToRel(<, Nat)
<1>1. IsWellFoundedOn(Less, Nat)
  BY NatLessThanWellFounded
<1>2. \A x, y \in Nat : x < y => <<x, y>> \in Less
  BY DEF OpToRel
<1> HIDE DEF Less
<1>3. PICK m \in S : \A y \in S : ~(<<y, m>> \in Less)
  BY <1>1, WFMin
<1>4. ASSUME NEW x \in S PROVE m <= x
  <2>1. ~(x < m)
    <3>1. x \in Nat /\ m \in Nat
      OBVIOUS
    <3> QED BY <1>2, <1>3, <3>1, Zenon
  <2> QED BY <2>1
<1> QED BY <1>4

\* What Min returns.
LEMMA MinOf ==
  ASSUME NEW S \in SUBSET Nat, S # {}
  PROVE  Min(S) \in S /\ \A x \in S : Min(S) <= x
<1>1. \E m \in S : \A x \in S : m <= x
  BY LeastOf
<1> QED BY <1>1 DEF Min

\* What Max returns, of a set that has a bound.
LEMMA MaxOf ==
  ASSUME NEW S \in SUBSET Nat, S # {}, NEW b \in Nat, \A x \in S : x <= b
  PROVE  Max(S) \in S /\ \A x \in S : x <= Max(S)
<1> DEFINE Gaps == {b - x : x \in S}
<1>1. Gaps \in SUBSET Nat /\ Gaps # {}
  OBVIOUS
<1>2. PICK g \in Gaps : \A h \in Gaps : g <= h
  BY <1>1, LeastOf
<1>3. PICK m \in S : g = b - m
  BY <1>2
<1>4. \A x \in S : m >= x
  BY <1>2, <1>3
<1> HIDE DEF Gaps
<1>5. \E y \in S : \A x \in S : y >= x
  BY <1>4
<1>6. Max(S) \in S /\ \A x \in S : Max(S) >= x
  BY <1>5 DEF Max
<1> QED BY <1>6

\* A cushion's part of a sum is not negative.
LEMMA AtLeastNothing ==
  ASSUME NEW a \in Int
  PROVE  Max({a, 0}) = IF a >= 0 THEN a ELSE 0
<1>1. \E y \in {a, 0} : \A x \in {a, 0} : y >= x
  OBVIOUS
<1>2. Max({a, 0}) \in {a, 0} /\ \A x \in {a, 0} : Max({a, 0}) >= x
  BY <1>1 DEF Max
<1> QED BY <1>2
\* The lesser of two.
LEMMA PairMin ==
  ASSUME NEW a \in Nat, NEW b \in Nat
  PROVE  Min({a, b}) = IF a <= b THEN a ELSE b
<1>1. Min({a, b}) \in {a, b} /\ \A x \in {a, b} : Min({a, b}) <= x
  BY MinOf
<1> QED BY <1>1
\* The greater of two.
LEMMA PairMax ==
  ASSUME NEW a \in Nat, NEW b \in Nat
  PROVE  Max({a, b}) = IF a >= b THEN a ELSE b
<1>1. \E y \in {a, b} : \A x \in {a, b} : y >= x
  OBVIOUS
<1>2. Max({a, b}) \in {a, b} /\ \A x \in {a, b} : Max({a, b}) >= x
  BY <1>1 DEF Max
<1> QED BY <1>2

-----------------------------------------------------------------------------
(***************************************************************************)
(* Rows of spans sp.                                                       *)
(***************************************************************************)
\* One segment after another, the last from e.
Chain(sp, e) == \A k \in 1 .. Len(sp) : sp[k].start = e - (Len(sp) - k) * Segment
\* With a low and a high point, no higher than m.
Spanning(sp, m) == \A k \in 1 .. Len(sp) : sp[k].lo <= sp[k].hi /\ sp[k].hi <= m
\* Of the lengths rec, the last one at the packet p, each is in a span as low as it.
Covers(sp, rec, p) ==
  \A i \in 1 .. Len(rec) : p - (Len(rec) - i) >= sp[1].start =>
    \E k \in 1 .. Len(sp) : /\ sp[k].start <= p - (Len(rec) - i)
                            /\ p - (Len(rec) - i) < sp[k].start + Segment
                            /\ sp[k].lo <= rec[i]
\* In the last c packets before n, the spans swung by x above the queue's length q, or by
\* as much as a queue can have fallen since.
Swung(sp, n, q, c, x) ==
  \A k \in 1 .. Len(sp) : n - sp[k].start < c =>
    sp[k].hi - q >= x \/ sp[k].hi - q >= n - sp[k].start
\* In the last c packets before n, the queue has only fallen, to q, and not before the
\* time t is the last packet's, m.
Falls(sp, n, q, c, t, m) ==
  \A k \in 1 .. Len(sp) : n - sp[k].start < c =>
    /\ q <= sp[k].lo /\ q <= sp[k].hi
    /\ t < m => sp[k].hi = q
    /\ sp[k].hi - q <= n - sp[k].start
    /\ Swung(sp, n, q, c, sp[k].hi - q)

\* The members of a longer sequence.
LEMMA AppendAt ==
  ASSUME NEW T, NEW sp \in Seq(T), NEW x \in T
  PROVE  /\ Append(sp, x) \in Seq(T) /\ Len(Append(sp, x)) = Len(sp) + 1 /\ Len(sp) \in Nat
         /\ \A k \in 1 .. Len(sp) : Append(sp, x)[k] = sp[k] /\ sp[k] \in T
         /\ Append(sp, x)[Len(sp) + 1] = x
  OBVIOUS
\* The members of a sequence's tail.
LEMMA TailAt ==
  ASSUME NEW T, NEW sp \in Seq(T), Len(sp) > 0
  PROVE  /\ Tail(sp) \in Seq(T) /\ Len(Tail(sp)) = Len(sp) - 1 /\ Len(sp) \in Nat
         /\ \A k \in 1 .. Len(sp) - 1 : Tail(sp)[k] = sp[k + 1]
<1> sp # <<>>
  OBVIOUS
<1> QED OBVIOUS

\* A row of spans without its oldest still leaves no gap.
LEMMA TailKeeps ==
  ASSUME NEW sp \in Seq(SpanType), Len(sp) > 1, NEW e \in Int, NEW m \in Int, Chain(sp, e),
         Spanning(sp, m)
  PROVE  Chain(Tail(sp), e) /\ Spanning(Tail(sp), m)
<1>1. /\ Tail(sp) \in Seq(SpanType) /\ Len(Tail(sp)) = Len(sp) - 1 /\ Len(sp) \in Nat
      /\ \A k \in 1 .. Len(sp) - 1 : Tail(sp)[k] = sp[k + 1]
  BY TailAt
<1>2. ASSUME NEW k \in 1 .. Len(sp) - 1
      PROVE  /\ k + 1 \in 1 .. Len(sp) /\ (Len(sp) - 1) - k = Len(sp) - (k + 1)
             /\ Tail(sp)[k] = sp[k + 1]
  BY <1>1
<1>3. Chain(Tail(sp), e)
  BY <1>1, <1>2 DEF Chain
<1> QED BY <1>1, <1>2, <1>3 DEF Spanning

\* Nor does one with the next span.
LEMMA AppendKeeps ==
  ASSUME NEW sp \in Seq(SpanType), NEW x \in SpanType, NEW e \in Int, NEW m \in Int,
         Chain(sp, e), Spanning(sp, m), x.start = e + Segment, x.lo <= x.hi, x.hi <= m
  PROVE  Chain(Append(sp, x), e + Segment) /\ Spanning(Append(sp, x), m)
<1>1. /\ Append(sp, x) \in Seq(SpanType) /\ Len(Append(sp, x)) = Len(sp) + 1 /\ Len(sp) \in Nat
      /\ \A k \in 1 .. Len(sp) : Append(sp, x)[k] = sp[k] /\ sp[k] \in SpanType
      /\ Append(sp, x)[Len(sp) + 1] = x
  BY AppendAt
<1>2. ASSUME NEW k \in 1 .. Len(sp) + 1
      PROVE  Append(sp, x)[k].start = (e + Segment) - ((Len(sp) + 1) - k) * Segment
  <2>1. CASE k = Len(sp) + 1
    <3>1. ((Len(sp) + 1) - k) * Segment = 0
      BY <1>1, <2>1, Positive
    <3> QED BY <1>1, <2>1, <3>1, Positive
  <2>2. CASE k \in 1 .. Len(sp)
    <3>1. Append(sp, x)[k].start = e - (Len(sp) - k) * Segment
      BY <1>1, <2>2 DEF Chain
    <3>2. Len(sp) - k \in Nat /\ (Len(sp) + 1) - k = (Len(sp) - k) + 1
      BY <1>1, <2>2
    <3>3. ((Len(sp) + 1) - k) * Segment = (Len(sp) - k) * Segment + Segment
          /\ (Len(sp) - k) * Segment \in Nat
      BY <3>2, Distributes
    <3> QED BY <3>1, <3>3, Positive
  <2> QED BY <1>1, <2>1, <2>2
<1>3. Spanning(Append(sp, x), m)
  BY <1>1 DEF Spanning
<1> QED BY <1>1, <1>2, <1>3 DEF Chain

\* The low and high points of fewer spans.
LEMMA TailFalls ==
  ASSUME NEW sp \in Seq(SpanType), Len(sp) > 1, NEW n \in Int, NEW q \in Int, NEW c \in Int,
         NEW t \in Int, NEW m \in Int, NEW x \in Int
  PROVE  /\ Falls(sp, n, q, c, t, m) => Falls(Tail(sp), n, q, c, t, m)
         /\ Swung(sp, n, q, c, x) => Swung(Tail(sp), n, q, c, x)
<1>1. /\ Len(Tail(sp)) = Len(sp) - 1 /\ Len(sp) \in Nat
      /\ \A k \in 1 .. Len(sp) - 1 : Tail(sp)[k] = sp[k + 1] /\ k + 1 \in 1 .. Len(sp)
  BY TailAt
<1> HIDE DEF SpanType
<1>2. ASSUME NEW y, Swung(sp, n, q, c, y) PROVE Swung(Tail(sp), n, q, c, y)
  BY <1>1, <1>2 DEF Swung
<1>3. ASSUME Falls(sp, n, q, c, t, m) PROVE Falls(Tail(sp), n, q, c, t, m)
  BY <1>1, <1>2, <1>3 DEF Falls
<1> QED BY <1>2, <1>3

\* A span that has only the packet at hand is as low, and as high, as the queue.
LEMMA AppendFalls ==
  ASSUME NEW sp \in Seq(SpanType), NEW n \in Nat, NEW q \in Nat, NEW c \in Int,
         NEW t \in Int, NEW m \in Int, NEW x \in Int
  PROVE  /\ Falls(sp, n, q, c, t, m) => Falls(Append(sp, Span(n, q)), n, q, c, t, m)
         /\ Swung(sp, n, q, c, x) => Swung(Append(sp, Span(n, q)), n, q, c, x)
<1> DEFINE y == Span(n, q)  tp == Append(sp, y)
<1>0. y \in SpanType /\ y.start = n /\ y.lo = q /\ y.hi = q
  BY DEF Span, SpanType
<1> HIDE DEF y
<1>1. /\ Len(tp) = Len(sp) + 1 /\ Len(sp) \in Nat /\ tp[Len(sp) + 1] = y
      /\ \A k \in 1 .. Len(sp) : tp[k] = sp[k] /\ sp[k] \in SpanType
  BY <1>0, AppendAt
<1> HIDE DEF tp
<1>2. ASSUME NEW z, Swung(sp, n, q, c, z) PROVE Swung(tp, n, q, c, z)
  <2>1. ASSUME NEW k \in 1 .. Len(sp), n - tp[k].start < c
        PROVE  tp[k].hi - q >= z \/ tp[k].hi - q >= n - tp[k].start
    BY <1>1, <1>2, <2>1 DEF Swung
  <2>2. y.hi - q >= n - y.start
    BY <1>0
  <2> QED BY <1>1, <2>1, <2>2 DEF Swung
<1>3. ASSUME Falls(sp, n, q, c, t, m) PROVE Falls(tp, n, q, c, t, m)
  <2>1. ASSUME NEW k \in 1 .. Len(sp), n - sp[k].start < c
        PROVE  /\ q <= sp[k].lo /\ q <= sp[k].hi /\ (t < m => sp[k].hi = q)
               /\ sp[k].hi - q <= n - sp[k].start
               /\ Swung(tp, n, q, c, sp[k].hi - q)
    BY <1>2, <1>3, <2>1 DEF Falls
  <2>2. Swung(tp, n, q, c, 0)
    <3>1. ASSUME NEW k \in 1 .. Len(sp), n - tp[k].start < c PROVE tp[k].hi - q >= 0
      <4>1. tp[k] = sp[k] /\ sp[k].hi \in Nat
        BY <1>1 DEF SpanType
      <4>2. q <= sp[k].hi
        BY <2>1, <3>1, <4>1
      <4> QED BY <4>1, <4>2
    <3> QED BY <1>0, <1>1, <3>1 DEF Swung
  <2> QED BY <1>0, <1>1, <2>1, <2>2 DEF Falls
<1> QED BY <1>2, <1>3 DEF tp, y

\* What Wider returns.
LEMMA WiderIs ==
  ASSUME seg \in SpanType, NEW q \in Nat
  PROVE  /\ Wider(q) \in SpanType /\ Wider(q).start = seg.start
         /\ Wider(q).lo = IF seg.lo <= q THEN seg.lo ELSE q
         /\ Wider(q).hi = IF seg.hi >= q THEN seg.hi ELSE q
<1>1. seg.lo \in Nat /\ seg.hi \in Nat
  BY DEF SpanType
<1>2. /\ Min({seg.lo, q}) = IF seg.lo <= q THEN seg.lo ELSE q
      /\ Max({seg.hi, q}) = IF seg.hi >= q THEN seg.hi ELSE q
  BY <1>1, PairMin, PairMax
<1> DEFINE low == Min({seg.lo, q})  high == Max({seg.hi, q})
<1>3. Wider(q) = [seg EXCEPT !.lo = low, !.hi = high]
  BY DEF Wider
<1>4. low \in Nat /\ high \in Nat
  BY <1>1, <1>2
<1> HIDE DEF low, high
<1>5. /\ Wider(q) \in SpanType /\ Wider(q).start = seg.start /\ Wider(q).lo = low
      /\ Wider(q).hi = high
  BY <1>3, <1>4 DEF SpanType
<1> QED BY <1>2, <1>5 DEF low, high

\* The span being filled gets the packet at hand.
LEMMA LastChanges ==
  ASSUME NEW sp \in Seq(SpanType), NEW x \in SpanType, NEW y \in SpanType, y.start = x.start
  PROVE  /\ \A e : Chain(Append(sp, x), e) => Chain(Append(sp, y), e)
         /\ \A m : Spanning(Append(sp, x), m) /\ y.lo <= y.hi /\ y.hi <= m
                     => Spanning(Append(sp, y), m)
         /\ \A rec, p : Covers(Append(sp, x), rec, p) /\ rec \in Seq(Nat) /\ y.lo <= x.lo
                     => Covers(Append(sp, y), rec, p)
         /\ \A n, q, c, z : Swung(Append(sp, x), n, q, c, z) /\ (n - x.start < c => y.hi = x.hi)
                     => Swung(Append(sp, y), n, q, c, z)
         /\ \A n, q, c, t, m :
              Falls(Append(sp, x), n, q, c, t, m)
              /\ (n - x.start < c => y.hi = x.hi /\ q <= y.lo)
                     => Falls(Append(sp, y), n, q, c, t, m)
<1> DEFINE a == Append(sp, x)  b == Append(sp, y)
<1>1. /\ Len(a) = Len(sp) + 1 /\ Len(b) = Len(sp) + 1 /\ Len(sp) \in Nat
      /\ \A k \in 1 .. Len(sp) : b[k] = a[k] /\ a[k] \in SpanType
      /\ a[Len(sp) + 1] = x /\ b[Len(sp) + 1] = y
  BY AppendAt
<1>2. \A k \in 1 .. Len(b) : k \in 1 .. Len(sp) \/ k = Len(sp) + 1
  BY <1>1
<1> HIDE DEF a, b
<1>3. \A k \in 1 .. Len(b) : b[k].start = a[k].start
  BY <1>1, <1>2
<1>4. \A e : Chain(a, e) => Chain(b, e)
  BY <1>1, <1>3 DEF Chain
<1>5. \A m : Spanning(a, m) /\ y.lo <= y.hi /\ y.hi <= m => Spanning(b, m)
  BY <1>1, <1>2 DEF Spanning
<1>6. ASSUME NEW rec \in Seq(Nat), NEW p, Covers(a, rec, p), y.lo <= x.lo PROVE Covers(b, rec, p)
  <2>1. ASSUME NEW k \in 1 .. Len(b), NEW g \in Nat, a[k].lo <= g PROVE b[k].lo <= g
    <3>1. CASE k \in 1 .. Len(sp)
      BY <1>1, <2>1, <3>1
    <3>2. CASE k = Len(sp) + 1
      <4>1. a[k] = x /\ b[k] = y /\ x.lo \in Nat /\ y.lo \in Nat
        BY <1>1, <3>2 DEF SpanType
      <4> QED BY <1>6, <2>1, <4>1
    <3> QED BY <1>2, <3>1, <3>2
  <2>2. \A i \in 1 .. Len(rec) : rec[i] \in Nat
    OBVIOUS
  <2>3. 1 \in 1 .. Len(b)
    BY <1>1
  <2> QED BY <1>1, <1>3, <1>6, <2>1, <2>2, <2>3 DEF Covers
<1>7. ASSUME NEW n, NEW q, NEW c, NEW z, Swung(a, n, q, c, z), n - x.start < c => y.hi = x.hi
      PROVE  Swung(b, n, q, c, z)
  BY <1>1, <1>2, <1>3, <1>7 DEF Swung
<1>8. ASSUME NEW n, NEW q, NEW c, NEW t, NEW m, Falls(a, n, q, c, t, m),
             n - x.start < c => y.hi = x.hi /\ q <= y.lo
      PROVE  Falls(b, n, q, c, t, m)
  <2>1. ASSUME NEW k \in 1 .. Len(b), n - b[k].start < c
        PROVE  /\ q <= b[k].lo /\ q <= b[k].hi /\ (t < m => b[k].hi = q)
               /\ b[k].hi - q <= n - b[k].start /\ Swung(b, n, q, c, b[k].hi - q)
    <3>1. n - a[k].start < c /\ k \in 1 .. Len(a)
      BY <1>1, <1>3, <2>1
    <3>2. b[k].hi = a[k].hi /\ q <= b[k].lo
      BY <1>1, <1>2, <1>8, <3>1 DEF Falls
    <3>3. Swung(b, n, q, c, b[k].hi - q)
      BY <1>7, <1>8, <3>1, <3>2 DEF Falls
    <3> QED BY <1>3, <1>8, <3>1, <3>2, <3>3, <2>1 DEF Falls
  <2> QED BY <2>1 DEF Falls
<1> QED BY <1>4, <1>5, <1>6, <1>7, <1>8 DEF a, b

\* The samples of the spans that are left.
LEMMA TailCovers ==
  ASSUME NEW sp \in Seq(SpanType), Len(sp) > 1, NEW e \in Int, Chain(sp, e),
         NEW rec \in Seq(Nat), NEW p \in Int, Covers(sp, rec, p)
  PROVE  Covers(Tail(sp), rec, p)
<1>1. /\ Len(Tail(sp)) = Len(sp) - 1 /\ Len(sp) \in Nat
      /\ \A k \in 1 .. Len(sp) - 1 : Tail(sp)[k] = sp[k + 1]
  BY TailAt
<1>2. sp[1].start \in Nat /\ sp[2].start = sp[1].start + Segment
  <2>1. Len(sp) - 2 \in Nat /\ (Len(sp) - 2) + 1 = Len(sp) - 1
    BY <1>1
  <2> DEFINE u == (Len(sp) - 2) * Segment  v == (Len(sp) - 1) * Segment
  <2>2. v = u + Segment /\ u \in Nat
    BY <2>1, Distributes
  <2>3. sp[1].start = e - v /\ sp[2].start = e - u
    BY <1>1 DEF Chain
  <2>4. sp[1].start \in Nat
    <3>1. 1 \in 1 .. Len(sp)
      BY <1>1
    <3>2. sp[1] \in SpanType
      BY <3>1
    <3> QED BY <3>2 DEF SpanType
  <2> HIDE DEF u, v
  <2> QED BY <2>2, <2>3, <2>4, Positive
<1>3. ASSUME NEW i \in 1 .. Len(rec), p - (Len(rec) - i) >= sp[2].start
      PROVE  \E k \in 1 .. Len(sp) - 1 :
               /\ sp[k + 1].start <= p - (Len(rec) - i)
               /\ p - (Len(rec) - i) < sp[k + 1].start + Segment
               /\ sp[k + 1].lo <= rec[i]
  <2>1. p - (Len(rec) - i) \in Int /\ p - (Len(rec) - i) >= sp[1].start
    <3> DEFINE d == p - (Len(rec) - i)
    <3>1. d \in Int /\ d >= sp[2].start
      <4>1. Len(rec) \in Nat
        OBVIOUS
      <4>2. i \in Int
        BY <4>1
      <4> QED BY <1>3, <4>1, <4>2
    <3>2. sp[1].start \in Nat /\ sp[2].start = sp[1].start + Segment /\ Segment \in Nat
      BY <1>2, Positive
    <3> HIDE DEF d
    <3>3. d \in Int /\ d >= sp[1].start
      BY <3>1, <3>2
    <3> QED BY <3>3 DEF d
  <2>2. PICK k \in 1 .. Len(sp) : /\ sp[k].start <= p - (Len(rec) - i)
                                  /\ p - (Len(rec) - i) < sp[k].start + Segment
                                  /\ sp[k].lo <= rec[i]
    BY <2>1 DEF Covers
  <2>3. k # 1
    BY <1>2, <1>3, <2>1, <2>2, Positive
  <2>4. k - 1 \in 1 .. Len(sp) - 1 /\ (k - 1) + 1 = k
    BY <1>1, <2>3
  <2> QED BY <2>2, <2>4
<1>4. Tail(sp)[1] = sp[2]
  BY <1>1
<1> QED BY <1>1, <1>3, <1>4 DEF Covers

\* A span more does no harm.
LEMMA AppendCovers ==
  ASSUME NEW sp \in Seq(SpanType), Len(sp) > 0, NEW x \in SpanType,
         NEW rec, NEW p, Covers(sp, rec, p)
  PROVE  Covers(Append(sp, x), rec, p)
<1>1. /\ Len(Append(sp, x)) = Len(sp) + 1 /\ Len(sp) \in Nat
      /\ \A k \in 1 .. Len(sp) : Append(sp, x)[k] = sp[k]
  BY AppendAt
<1>2. Append(sp, x)[1] = sp[1] /\ 1 .. Len(sp) \subseteq 1 .. Len(sp) + 1
  BY <1>1
<1> QED BY <1>1, <1>2 DEF Covers

\* What Sampled returns: the lengths so far and the one at hand, but for the oldest.
LEMMA SampledAt ==
  ASSUME recent \in Seq(Nat), NEW q \in Nat
  PROVE  /\ Sampled(q) \in Seq(Nat)
         /\ Len(Sampled(q)) = IF Len(recent) + 1 > WholeWindow THEN Len(recent) ELSE Len(recent) + 1
         /\ Sampled(q)[Len(Sampled(q))] = q
         /\ \A i \in 1 .. Len(Sampled(q)) - 1 : \E h \in 1 .. Len(recent) :
              Sampled(q)[i] = recent[h] /\ Len(recent) - h = (Len(Sampled(q)) - i) - 1
<1> DEFINE all == Append(recent, q)
<1>1. /\ all \in Seq(Nat) /\ Len(all) = Len(recent) + 1 /\ Len(recent) \in Nat
      /\ \A i \in 1 .. Len(recent) : all[i] = recent[i]
      /\ all[Len(recent) + 1] = q
  BY AppendAt
<1>2. WholeWindow \in Nat /\ WholeWindow > 1
  BY Positive DEF WholeWindow, Whole
<1>3. Sampled(q) = IF Len(all) > WholeWindow THEN Tail(all) ELSE all
  BY DEF Sampled
<1> HIDE DEF all
<1>4. CASE Len(all) > WholeWindow
  <2>1. /\ Tail(all) \in Seq(Nat) /\ Len(Tail(all)) = Len(all) - 1
        /\ \A i \in 1 .. Len(all) - 1 : Tail(all)[i] = all[i + 1]
    BY <1>1, <1>2, <1>4, TailAt
  <2>2. ASSUME NEW i \in 1 .. Len(recent) - 1
        PROVE  \E h \in 1 .. Len(recent) :
                 Tail(all)[i] = recent[h] /\ Len(recent) - h = (Len(recent) - i) - 1
    <3>1. i + 1 \in 1 .. Len(recent) /\ Tail(all)[i] = recent[i + 1]
          /\ Len(recent) - (i + 1) = (Len(recent) - i) - 1
      BY <1>1, <2>1
    <3> QED BY <3>1
  <2>3. Tail(all)[Len(recent)] = q
    <3>1. Len(recent) \in 1 .. Len(all) - 1
      BY <1>1, <1>2, <1>4
    <3> QED BY <1>1, <2>1, <3>1
  <2>4. Sampled(q) = Tail(all) /\ Len(Tail(all)) = Len(recent)
    BY <1>1, <1>3, <1>4, <2>1
  <2> QED BY <1>1, <1>4, <2>1, <2>2, <2>3, <2>4
<1>5. CASE ~(Len(all) > WholeWindow)
  <2>1. Sampled(q) = all
    BY <1>3, <1>5
  <2>2. ASSUME NEW i \in 1 .. Len(recent)
        PROVE  \E h \in 1 .. Len(recent) :
                 all[i] = recent[h] /\ Len(recent) - h = ((Len(recent) + 1) - i) - 1
    <3>1. all[i] = recent[i] /\ Len(recent) - i = ((Len(recent) + 1) - i) - 1
      BY <1>1
    <3> QED BY <3>1
  <2>3. /\ all \in Seq(Nat) /\ Len(all) = Len(recent) + 1 /\ all[Len(all)] = q
        /\ ~(Len(recent) + 1 > WholeWindow) /\ Len(all) - 1 = Len(recent)
    BY <1>1, <1>5
  <2>4. \A i \in 1 .. Len(all) - 1 : \E h \in 1 .. Len(recent) :
          all[i] = recent[h] /\ Len(recent) - h = (Len(all) - i) - 1
    BY <2>2, <2>3
  <2> QED BY <2>1, <2>3, <2>4
<1> QED BY <1>4, <1>5

\* The packet at hand is in a span that is as low.
LEMMA SampleCovers ==
  ASSUME recent \in Seq(Nat), NEW q \in Nat, NEW sp, NEW p \in Nat, Covers(sp, recent, p),
         NEW k \in 1 .. Len(sp), sp[k].start <= p + 1, p + 1 < sp[k].start + Segment,
         sp[k].lo <= q
  PROVE  Covers(sp, Sampled(q), p + 1)
<1> DEFINE s == Sampled(q)
<1>1. /\ s \in Seq(Nat) /\ s[Len(s)] = q
      /\ \A i \in 1 .. Len(s) - 1 : \E h \in 1 .. Len(recent) :
           s[i] = recent[h] /\ Len(recent) - h = (Len(s) - i) - 1
  BY SampledAt
<1> HIDE DEF s
<1>2. ASSUME NEW i \in 1 .. Len(s), (p + 1) - (Len(s) - i) >= sp[1].start
      PROVE  \E j \in 1 .. Len(sp) :
               /\ sp[j].start <= (p + 1) - (Len(s) - i)
               /\ (p + 1) - (Len(s) - i) < sp[j].start + Segment
               /\ sp[j].lo <= s[i]
  <2>1. CASE i = Len(s)
    <3>1. (p + 1) - (Len(s) - i) = p + 1 /\ s[i] = q
      BY <1>1, <2>1
    <3> QED BY <3>1
  <2>2. CASE i # Len(s)
    <3>1. i \in 1 .. Len(s) - 1
      BY <1>1, <2>2
    <3>2. PICK h \in 1 .. Len(recent) : s[i] = recent[h] /\ Len(recent) - h = (Len(s) - i) - 1
      BY <1>1, <3>1
    <3>3. p - (Len(recent) - h) = (p + 1) - (Len(s) - i)
      <4>2. Len(s) \in Int /\ Len(recent) \in Int
        BY <1>1
      <4>3. h \in Int /\ i \in Int
        BY <4>2
      <4>4. Len(recent) - h = (Len(s) - i) - 1
        BY <3>2
      <4> DEFINE a == Len(recent)  b == Len(s)
      <4>5. a \in Int /\ b \in Int /\ a - h = (b - i) - 1
        BY <4>2, <4>4
      <4> HIDE DEF a, b
      <4>6. p - (a - h) = (p + 1) - (b - i)
        BY <4>3, <4>5
      <4> QED BY <4>6 DEF a, b
    <3> QED BY <1>2, <3>2, <3>3 DEF Covers
  <2> QED BY <2>1, <2>2
<1> QED BY <1>2 DEF Covers, s

-----------------------------------------------------------------------------
Places == {"off", "read", "write", "writing", "ended"}
\* A packet is in the demuxer's hands.
Busy == demux \in {"write", "writing"}
\* The packet that is played next, and the queue behind it.
N == IF Busy THEN pts ELSE pts + 1
Q == arrived - N
Spans == Append(window, seg)

\* The types of the numbers, and their order.
Bounds ==
  /\ start \in Starts /\ pts \in Nat /\ now \in Nat /\ arrived \in Nat /\ steady \in Nat
  /\ stalled \in BOOLEAN /\ demux \in Places
  /\ pts <= arrived /\ arrived <= now /\ now <= start.packets
  /\ ~stalled => arrived = now
  /\ Busy => pts > 0
  /\ steady < N

\* A session's packets.
LEMMA PacketsAre ==
  start \in Starts =>
    start.packets \in Nat /\ start.waiting \in Nat /\ start.waiting <= start.packets
  BY SoundAssumption

\* Steps that leave the sound alone, that make it idle, and that write a packet.
Still ==
  /\ UNCHANGED <<start, pts, now, arrived, failed, steady, recent, window, seg, swings, stallEnd,
                 drop>>
  /\ demux' \in Places /\ Busy' = Busy /\ stalled' \in BOOLEAN /\ (stalled => stalled')
Idles ==
  /\ UNCHANGED <<start, pts, recent, window, seg, swings, stallEnd, drop>>
  /\ now' = now \/ Pass
  /\ now' = now => arrived' \in {arrived, now}
  /\ demux' \in Places /\ (Busy' => Busy) /\ stalled' \in {stalled, FALSE}
  /\ (~stalled' /\ stalled) => arrived' = now'
  /\ failed => failed'
  /\ steady' = 0 \/ (failed' /\ steady' = steady)
Writes ==
  /\ UNCHANGED <<start, pts, recent, window, seg, swings, stallEnd, drop, failed>>
  /\ Busy /\ ~Busy' /\ demux' \in Places /\ ~stalled /\ stalled' = FALSE /\ Pass
  /\ steady' = Min({steady + 1, start.packets})

\* Every step leaves the sound alone, makes it idle, writes a packet or reads one.
LEMMA Kinds == ASSUME Bounds, [Next]_vars PROVE Still \/ Idles \/ Writes \/ Read
<1> USE DEF Bounds, Places, Busy
<1>1. CASE UNCHANGED vars
  BY <1>1 DEF Still, vars, demuxVars, netVars, shadowVars, sinkVars, backlogVars
<1>2. CASE NoSink
  BY <1>2 DEF NoSink, Still, demuxVars, netVars, shadowVars, sinkVars, backlogVars
<1>3. CASE Try
  BY <1>3 DEF Try, Still, demuxVars, netVars, shadowVars, backlogVars
<1>4. CASE NextRound
  BY <1>4 DEF NextRound, Still, demuxVars, netVars, shadowVars, sinkVars, backlogVars
<1>5. CASE Begin
  BY <1>5 DEF Begin, Still, netVars, shadowVars, sinkVars, backlogVars
<1>6. CASE WriteNothing
  BY <1>6 DEF WriteNothing, Idles, netVars, sinkVars, backlogVars
<1>7. CASE WriteBegins
  BY <1>7 DEF WriteBegins, Still, netVars, shadowVars, sinkVars, backlogVars
<1>8. CASE Written
  <2>1. CASE stalled
    BY <1>8, <2>1 DEF Written, Idles, Pass, sinkVars, backlogVars
  <2>2. CASE ~stalled
    BY <1>8, <2>2 DEF Written, Writes, sinkVars, backlogVars
  <2> QED BY <2>1, <2>2
<1>9. CASE PlayAudioCloses
  BY <1>9 DEF PlayAudioCloses, Still, demuxVars, netVars, shadowVars, backlogVars
<1>10. CASE Tick
  BY <1>10 DEF Tick, Idles, Pass, demuxVars, sinkVars, backlogVars
<1>11. CASE WriteFails
  BY <1>11 DEF WriteFails, Idles, netVars, shadowVars, backlogVars
<1>12. CASE SoundStops
  BY <1>12 DEF SoundStops, Still, netVars, shadowVars, sinkVars, backlogVars
<1>13. CASE Quit
  BY <1>13 DEF Quit, Still, demuxVars, netVars, shadowVars, sinkVars, backlogVars
<1>14. CASE Shutdown
  BY <1>14 DEF Shutdown, Still, demuxVars, netVars, shadowVars, backlogVars
<1>15. CASE Stall
  BY <1>15 DEF Stall, Still, demuxVars, shadowVars, sinkVars, backlogVars
<1>16. CASE StallEnds
  BY <1>16 DEF StallEnds, Idles, demuxVars, sinkVars, backlogVars
<1>17. CASE Suspend
  BY <1>17 DEF Suspend, Still, demuxVars, shadowVars, sinkVars, backlogVars
<1>18. CASE Resume
  BY <1>18 DEF Resume, Still, demuxVars, shadowVars, sinkVars, backlogVars
<1>19. CASE ToggleMute
  BY <1>19 DEF ToggleMute, Still, demuxVars, netVars, shadowVars, backlogVars
<1>20. CASE SelectSink
  BY <1>20 DEF SelectSink, Still, demuxVars, netVars, shadowVars, sinkVars, backlogVars
<1>21. ASSUME UNCHANGED <<start, openVars, sinkVars, demuxVars, netVars, default, shadowVars,
                          backlogVars, main, surprises>>
       PROVE  Still
  BY <1>21 DEF Still, demuxVars, netVars, shadowVars, sinkVars, backlogVars
<1>22. CASE \/ Asked(FollowerLooks) \/ Asked(FollowerLists) \/ Asked(FollowerMoves)
            \/ Asked(PactlFails)
  BY <1>21, <1>22 DEF Asked
<1> HIDE DEF Bounds, Places, Busy
<1> QED
  BY <1>1, <1>2, <1>3, <1>4, <1>5, <1>6, <1>7, <1>8, <1>9, <1>10, <1>11, <1>12, <1>13, <1>14,
     <1>15, <1>16, <1>17, <1>18, <1>19, <1>20, <1>22 DEF Next, DemuxStep, World

\* What Pass does to the time.
LEMMA PassIs ==
  ASSUME Bounds, Pass
  PROVE  /\ now' = IF now < start.packets THEN now + 1 ELSE now
         /\ arrived' = IF stalled THEN arrived ELSE now'
<1>1. now \in Nat /\ now + 1 \in Nat /\ start.packets \in Nat /\ now <= start.packets
  BY PacketsAre DEF Bounds
<1>2. Min({now + 1, start.packets}) = IF now + 1 <= start.packets THEN now + 1 ELSE start.packets
  BY <1>1, PairMin
<1> QED BY <1>1, <1>2 DEF Pass

\* A packet written: the queue stays as long, or is one shorter at the end.
LEMMA WritesAre ==
  ASSUME Bounds, Writes
  PROVE  /\ N' = N + 1 /\ steady' = steady + 1 /\ Q \in Nat /\ N \in Nat /\ pts = N /\ arrived = now
         /\ IF now < start.packets THEN now' = now + 1 /\ Q' = Q ELSE now' = now /\ Q' = Q - 1
         /\ arrived' = now'
<1>1. /\ pts \in Nat /\ arrived \in Nat /\ steady \in Nat /\ pts <= arrived /\ steady < pts
      /\ arrived = now /\ now \in Nat
      /\ arrived <= start.packets /\ start.packets \in Nat /\ N = pts /\ N' = pts + 1 /\ pts' = pts
  BY PacketsAre DEF Bounds, Writes, N
<1>2. steady + 1 \in Nat /\ steady + 1 <= start.packets
  BY <1>1
<1>3. steady' = steady + 1
  BY <1>1, <1>2, PairMin DEF Writes
<1>4. now' = (IF now < start.packets THEN now + 1 ELSE now) /\ arrived' = now'
  BY PassIs DEF Writes
<1> QED BY <1>1, <1>3, <1>4 DEF Q

\* Every step keeps the numbers in their bounds.
LEMMA BoundsKept == ASSUME Bounds, [Next]_vars PROVE Bounds'
<1>1. CASE Still
  BY <1>1 DEF Bounds, Still, N
<1>2. CASE Idles
  <2>0. /\ pts \in Nat /\ now \in Nat /\ arrived \in Nat /\ steady \in Nat /\ start.packets \in Nat
        /\ pts <= arrived /\ arrived <= now /\ now <= start.packets /\ stalled \in BOOLEAN
        /\ ~stalled => arrived = now
    BY PacketsAre DEF Bounds
  <2> SUFFICES /\ now' \in Nat /\ arrived' \in Nat /\ pts <= arrived' /\ arrived' <= now'
               /\ now' <= start.packets /\ (~stalled' => arrived' = now')
    <3>1. start' \in Starts /\ pts' \in Nat /\ stalled' \in BOOLEAN /\ demux' \in Places
          /\ (Busy' => pts' > 0) /\ start' = start /\ pts' = pts
      BY <1>2 DEF Bounds, Idles
    <3>2. N' \in Nat /\ N \in Nat /\ N' >= N /\ N > 0 /\ N' > 0
      BY <1>2 DEF Bounds, Idles, N
    <3>3. steady' \in Nat /\ steady' < N'
      BY <1>2, <3>2 DEF Bounds, Idles
    <3> QED BY <3>1, <3>3 DEF Bounds
  <2>1. CASE now' = now
    <3>1. arrived' \in {arrived, now} /\ (~stalled' => arrived' = now')
      BY <1>2, <2>0, <2>1 DEF Idles
    <3> QED BY <2>0, <2>1, <3>1
  <2>2. CASE Pass
    <3>1. /\ now' = IF now < start.packets THEN now + 1 ELSE now
          /\ arrived' = IF stalled THEN arrived ELSE now'
      BY <2>2, PassIs
    <3>2. stalled' \in {stalled, FALSE} /\ ((~stalled' /\ stalled) => arrived' = now')
      BY <1>2 DEF Idles
    <3> QED BY <2>0, <3>1, <3>2
  <2> QED BY <1>2, <2>1, <2>2 DEF Idles
<1>3. CASE Writes
  <2>1. /\ pts \in Nat /\ now \in Nat /\ arrived \in Nat /\ steady \in Nat /\ start.packets \in Nat
        /\ pts <= arrived /\ now <= start.packets /\ steady < N /\ arrived = now
    BY <1>3, PacketsAre DEF Bounds, Writes
  <2>2. /\ N' = N + 1 /\ steady' = steady + 1 /\ N = pts /\ arrived' = now'
        /\ now' = (IF now < start.packets THEN now + 1 ELSE now)
    BY <1>3, WritesAre
  <2>3. /\ start' = start /\ pts' = pts /\ ~Busy' /\ stalled' \in BOOLEAN /\ demux' \in Places
    BY <1>3 DEF Writes
  <2>4. /\ arrived' \in Nat /\ now' \in Nat /\ steady' \in Nat /\ pts' <= arrived'
        /\ arrived' <= now' /\ now' <= start.packets /\ steady' < N'
    BY <2>1, <2>2, <2>3
  <2> QED BY <2>1, <2>2, <2>3, <2>4 DEF Bounds
<1>4. CASE Read
  <2>1. /\ pts' = pts + 1 /\ pts < arrived /\ UNCHANGED <<start, now, arrived, stalled>>
        /\ demux = "read" /\ demux' \in {"read", "write"} /\ steady' \in {steady, 0}
    BY <1>4 DEF Read, netVars
  <2> QED BY <2>1 DEF Bounds, N, Busy, Places
<1> QED BY <1>1, <1>2, <1>3, <1>4, Kinds
-----------------------------------------------------------------------------
\* The types of what is measured.
Measured ==
  /\ window \in Seq(SpanType) /\ Len(window) <= Windows
  /\ seg = NoSpan \/ seg \in SpanType
  /\ seg = NoSpan => window = <<>> /\ recent = <<>>
  /\ recent \in Seq(Nat) /\ Len(recent) <= WholeWindow
  /\ drop = NoDrop \/ (drop \in [from : Nat, to : Nat] /\ seg = NoSpan)
  /\ Busy => drop = NoDrop
  /\ stallEnd \in Nat
  /\ swings \subseteq [end : Nat, swing : 0 .. Burst]
  /\ \A s \in swings : s.end <= N
\* The spans are the last packets', and so are the samples.
Tiled ==
  seg # NoSpan =>
    /\ seg.start <= pts /\ pts - seg.start < Segment
    /\ Chain(Spans, seg.start) /\ Spanning(Spans, start.packets)
    /\ Len(recent) >= WholeWindow \/ Len(recent) >= Len(window) * Segment + (pts - seg.start) + 1
    /\ Covers(Spans, recent, pts)
\* Since something came between, the queue has only fallen.
Falling == ~failed /\ seg # NoSpan => Falls(Spans, N, Q, steady, now, start.packets)
\* A window that is remembered ended before that, or saw no more than the fall.
Recalls(s) ==
  \/ steady <= Whole + (N - s.end)
  \/ s.swing = 0
  \/ /\ now = start.packets /\ s.swing <= Whole
     /\ seg # NoSpan => Swung(Spans, N, Q, steady, s.swing)
Remembered == ~failed => \A s \in swings : Recalls(s)
\* A queue that is too long has not been seen by a check yet, or is being dropped.
Lag(bound, t) ==
  ~failed /\ steady > 0 /\ Q >= bound =>
    \/ seg # NoSpan /\ steady <= N - Spans[1].start
    \/ seg # NoSpan /\ Len(window) < Windows /\ steady <= N - Spans[1].start + Whole + t
    \/ seg # NoSpan /\ Len(window) = Windows /\ steady <= N - seg.start + Whole + t
    \/ seg = NoSpan /\ steady <= Whole + t /\ ~Busy
    \/ drop # NoDrop /\ arrived - drop.to < bound
Lags == Lag(Margin + Step + Burst, 0) /\ Lag(Margin + Step, Memory)
IInv == Bounds /\ Measured /\ Tiled /\ Falling /\ Remembered /\ Lags

\* The types of the numbers.
LEMMA NumbersAre ==
  ASSUME Bounds
  PROVE  /\ pts \in Nat /\ now \in Nat /\ arrived \in Nat /\ steady \in Nat /\ N \in Nat
         /\ Q \in Int /\ N >= pts /\ start.packets \in Nat /\ now <= start.packets /\ steady < N
  BY PacketsAre DEF Bounds, N, Q

\* The spans, oldest first, and where they start.
LEMMA SpansAre ==
  ASSUME Bounds, Measured, Tiled, seg # NoSpan
  PROVE  /\ window \in Seq(SpanType) /\ seg \in SpanType /\ seg.start \in Nat
         /\ Spans \in Seq(SpanType) /\ Len(Spans) = Len(window) + 1 /\ Len(window) \in Nat
         /\ \A k \in 1 .. Len(Spans) :
              Spans[k] \in SpanType /\ Spans[k].start \in Nat /\ Spans[k].start <= seg.start
         /\ 1 \in 1 .. Len(Spans)
         /\ Spans[1].start = seg.start - Len(window) * Segment
         /\ Spans[Len(window) + 1] = seg
<1>1. window \in Seq(SpanType) /\ seg \in SpanType
  BY DEF Measured
<1>2. /\ Spans \in Seq(SpanType) /\ Len(Spans) = Len(window) + 1 /\ Len(window) \in Nat
      /\ Spans[Len(window) + 1] = seg
  BY <1>1, AppendAt DEF Spans
<1>3. seg.start \in Nat
  BY <1>1 DEF SpanType
<1>4. Chain(Spans, seg.start)
  BY DEF Tiled
<1>5. ASSUME NEW k \in 1 .. Len(Spans)
      PROVE  Spans[k] \in SpanType /\ Spans[k].start \in Nat /\ Spans[k].start <= seg.start
  <2>1. Spans[k].start = seg.start - (Len(Spans) - k) * Segment
    BY <1>4 DEF Chain
  <2>2. Len(Spans) - k \in Nat
    BY <1>2
  <2>4. (Len(Spans) - k) * Segment \in Nat
    BY <2>2, Distributes
  <2>3. Spans[k] \in SpanType
    BY <1>2
  <2> QED BY <1>3, <2>1, <2>3, <2>4 DEF SpanType
<1>6. 1 \in 1 .. Len(Spans) /\ Len(Spans) - 1 = Len(window)
  BY <1>2
<1>7. Spans[1].start = seg.start - Len(window) * Segment
  BY <1>4, <1>6 DEF Chain
<1> QED BY <1>1, <1>2, <1>3, <1>5, <1>6, <1>7

\* No span started later than the one being filled.
StartsFit ==
  Bounds /\ Measured /\ Tiled /\ seg # NoSpan =>
    /\ seg.start \in Nat
    /\ \A k \in 1 .. Len(Spans) : Spans[k].start \in Nat /\ Spans[k].start <= seg.start
\* No span starts later than the one being filled.
LEMMA StartsFitNow == StartsFit
  BY SpansAre DEF StartsFit
\* No span will have started later than the one being filled.
LEMMA StartsFitNext == StartsFit'
  BY StartsFitNow, PTL

\* A step that leaves the sound alone.
LEMMA StillKeeps == ASSUME IInv, Still PROVE Measured' /\ Tiled' /\ Falling' /\ Remembered' /\ Lags'
<1>1. N' = N /\ Q' = Q /\ Spans' = Spans /\ Busy' = Busy
  BY DEF Still, N, Q, Spans
<1>2. Measured'
  BY <1>1 DEF IInv, Measured, Still
<1>3. Tiled'
  BY <1>1 DEF IInv, Tiled, Still
<1>4. Falling'
  BY <1>1 DEF IInv, Falling, Still
<1>5. Remembered'
  BY <1>1 DEF IInv, Remembered, Recalls, Still
<1>6. Lags'
  BY <1>1 DEF IInv, Lags, Lag, Still
<1> QED BY <1>2, <1>3, <1>4, <1>5, <1>6

\* Neither idling nor a write changes what was measured.
LEMMA OthersKeep ==
  ASSUME IInv, Idles \/ Writes
  PROVE  Measured' /\ Tiled' /\ N' >= N /\ N' \in Nat /\ Spans' = Spans
<1>1. /\ UNCHANGED <<start, pts, recent, window, seg, swings, stallEnd, drop>>
      /\ Busy' => Busy
  BY DEF Idles, Writes
<1>2. N' >= N /\ N' \in Nat /\ N \in Nat
  BY <1>1 DEF N, IInv, Bounds
<1>3. Spans' = Spans
  BY <1>1 DEF Spans
<1>4. \A s \in swings : s.end \in Nat /\ s.end <= N'
  <2> SUFFICES ASSUME NEW s \in swings PROVE s.end \in Nat /\ s.end <= N'
    OBVIOUS
  <2>1. s \in [end : Nat, swing : 0 .. Burst] /\ s.end <= N
    BY DEF IInv, Measured
  <2> QED BY <1>2, <2>1
<1>5. Measured'
  BY <1>1, <1>4 DEF IInv, Measured
<1>6. Tiled'
  BY <1>1, <1>3 DEF IInv, Tiled
<1> QED BY <1>2, <1>3, <1>5, <1>6

\* Once something has come between, nothing is known of the queue.
LEMMA RestKeeps ==
  ASSUME Bounds', Measured', Tiled', steady' = 0 \/ failed'
  PROVE  Falling' /\ Remembered' /\ Lags'
<1>1. CASE failed'
  BY <1>1 DEF Falling, Remembered, Lags, Lag
<1>2. CASE steady' = 0
  <2>1. N' \in Nat /\ N' >= pts' /\ pts' \in Nat
    <3>1. pts' \in Nat
      BY DEF Bounds
    <3>2. N' = pts' \/ N' = pts' + 1
      BY DEF N
    <3> QED BY <3>1, <3>2
  <2>2. Falling'
    <3> SUFFICES ASSUME seg' # NoSpan PROVE Falls(Spans', N', Q', 0, now', start'.packets)
      BY <1>2 DEF Falling
    <3>1. ASSUME NEW k \in 1 .. Len(Spans') PROVE ~(N' - Spans'[k].start < 0)
      <4>1. Spans'[k].start \in Nat /\ Spans'[k].start <= seg'.start /\ seg'.start \in Nat
        BY StartsFitNext DEF StartsFit
      <4>2. seg'.start <= pts'
        BY DEF Tiled
      <4> QED BY <2>1, <4>1, <4>2
    <3> QED BY <3>1 DEF Falls
  <2>3. Remembered'
    <3> SUFFICES ASSUME NEW s \in swings' PROVE steady' <= Whole + (N' - s.end)
      BY DEF Remembered, Recalls
    <3>1. s \in [end : Nat, swing : 0 .. Burst] /\ s.end <= N'
      BY DEF Measured
    <3> QED BY <1>2, <2>1, <3>1, Positive
  <2>4. Lags'
    BY <1>2 DEF Lags, Lag
  <2> QED BY <2>2, <2>3, <2>4
<1> QED BY <1>1, <1>2
-----------------------------------------------------------------------------
\* A packet later, with one packet less in the queue.
LEMMA LaterSwung ==
  ASSUME NEW sp \in Seq(SpanType), NEW n \in Int, NEW q \in Int, NEW c \in Int, NEW x \in Int,
         NEW y \in Int, y <= x + 1, Swung(sp, n, q, c, x)
  PROVE  Swung(sp, n + 1, q - 1, c + 1, y)
<1> SUFFICES ASSUME NEW k \in 1 .. Len(sp), (n + 1) - sp[k].start < c + 1
             PROVE  sp[k].hi - (q - 1) >= y \/ sp[k].hi - (q - 1) >= (n + 1) - sp[k].start
  BY DEF Swung
<1> DEFINE a == sp[k].start  h == sp[k].hi
<1>1. sp[k] \in SpanType
  OBVIOUS
<1>2. a \in Nat /\ h \in Nat
  BY <1>1 DEF SpanType
<1>3. n - a < c
  BY <1>2
<1>4. h - q >= x \/ h - q >= n - a
  BY <1>3 DEF Swung
<1> HIDE DEF a, h
<1>5. h - (q - 1) >= y \/ h - (q - 1) >= (n + 1) - a
  BY <1>2, <1>4
<1> QED BY <1>5 DEF a, h

\* A lesser swing is in the spans as well.
LEMMA LowerSwung ==
  ASSUME NEW sp \in Seq(SpanType), NEW n \in Int, NEW q \in Int, NEW c \in Int, NEW x \in Int,
         NEW y \in Int, y <= x, Swung(sp, n, q, c, x)
  PROVE  Swung(sp, n, q, c, y)
<1> SUFFICES ASSUME NEW k \in 1 .. Len(sp), n - sp[k].start < c
             PROVE  sp[k].hi - q >= y \/ sp[k].hi - q >= n - sp[k].start
  BY DEF Swung
<1> DEFINE a == sp[k].start  h == sp[k].hi
<1>1. sp[k] \in SpanType
  OBVIOUS
<1>2. a \in Nat /\ h \in Nat
  BY <1>1 DEF SpanType
<1>4. h - q >= x \/ h - q >= n - a
  BY DEF Swung
<1> HIDE DEF a, h
<1>5. h - q >= y \/ h - q >= n - a
  BY <1>2, <1>4
<1> QED BY <1>5 DEF a, h

\* A packet later.
LEMMA PacketLater == \A n, x, c \in Int : (n + 1) - x < c + 1 => n - x < c
OBVIOUS

\* A packet later, with as many in the queue or, at the end, one less.
LEMMA LaterFalls ==
  ASSUME NEW sp \in Seq(SpanType), NEW n \in Int, NEW q \in Int, NEW c \in Int, NEW t \in Int,
         NEW m \in Int, NEW t2 \in Int, Falls(sp, n, q, c, t, m), t < m \/ t2 = t
  PROVE  Falls(sp, n + 1, IF t < m THEN q ELSE q - 1, c + 1, t2, m)
<1> DEFINE p == IF t < m THEN q ELSE q - 1
<1>0. p \in Int /\ p <= q /\ (t < m => p = q) /\ (~(t < m) => p = q - 1)
  OBVIOUS
<1> HIDE DEF p
<1> SUFFICES ASSUME NEW k \in 1 .. Len(sp), (n + 1) - sp[k].start < c + 1
             PROVE  /\ p <= sp[k].lo /\ p <= sp[k].hi /\ (t2 < m => sp[k].hi = p)
                    /\ sp[k].hi - p <= (n + 1) - sp[k].start
                    /\ Swung(sp, n + 1, p, c + 1, sp[k].hi - p)
  BY DEF Falls, p
<1> DEFINE a == sp[k].start  h == sp[k].hi  l == sp[k].lo
<1>1. sp[k] \in SpanType
  OBVIOUS
<1>2. a \in Nat /\ h \in Nat /\ l \in Nat
  BY <1>1 DEF SpanType
<1>3. n - a < c
  <2>1. (n + 1) - a < c + 1
    OBVIOUS
  <2> HIDE DEF a
  <2> QED BY <1>2, <2>1, PacketLater
<1>4. /\ q <= l /\ q <= h /\ (t < m => h = q) /\ h - q <= n - a
      /\ Swung(sp, n, q, c, h - q)
  BY <1>3 DEF Falls
<1> HIDE DEF a, h, l
<1>5. p <= l /\ p <= h /\ (t2 < m => h = p) /\ h - p <= (n + 1) - a
  <2>1. q <= l /\ q <= h /\ (t < m => h = q) /\ h - q <= n - a
    BY <1>4
  <2>2. t2 < m => h = p
    BY <1>0, <2>1
  <2> QED BY <1>0, <1>2, <2>1, <2>2
<1>6. Swung(sp, n + 1, p, c + 1, h - p)
  <2>1. CASE t < m
    <3>1. h - p = 0 /\ p = q
      BY <1>0, <1>2, <1>4, <2>1
    <3> SUFFICES ASSUME NEW j \in 1 .. Len(sp), (n + 1) - sp[j].start < c + 1
                 PROVE  sp[j].hi - p >= 0
      BY <3>1 DEF Swung
    <3>2. sp[j] \in SpanType
      OBVIOUS
    <3>3. sp[j].start \in Nat /\ sp[j].hi \in Nat
      BY <3>2 DEF SpanType
    <3>4. n - sp[j].start < c
      <4> DEFINE b == sp[j].start
      <4>1. b \in Nat /\ (n + 1) - b < c + 1
        BY <3>3
      <4> HIDE DEF b
      <4>2. n - b < c
        BY <4>1, PacketLater
      <4> QED BY <4>2 DEF b
    <3>5. sp[j].hi = q
      BY <2>1, <3>4 DEF Falls
    <3> QED BY <3>1, <3>3, <3>5
  <2>2. CASE ~(t < m)
    <3>1. p = q - 1 /\ h - p \in Int /\ h - q \in Int /\ h - p <= (h - q) + 1
      BY <1>0, <1>2, <2>2
    <3>2. Swung(sp, n + 1, q - 1, c + 1, h - p)
      BY <1>4, <3>1, LaterSwung
    <3> QED BY <3>1, <3>2
  <2> QED BY <2>1, <2>2
<1> QED BY <1>5, <1>6 DEF a, h, l

\* A write while the sound comes steadily.
LEMMA WritesKeep == ASSUME IInv, Writes PROVE Falling' /\ Remembered' /\ Lags'
<1>1. /\ N' = N + 1 /\ steady' = steady + 1 /\ Q \in Nat /\ N \in Nat /\ pts = N /\ arrived = now
      /\ IF now < start.packets THEN now' = now + 1 /\ Q' = Q ELSE now' = now /\ Q' = Q - 1
  BY WritesAre DEF IInv
<1>2. /\ UNCHANGED <<start, pts, recent, window, seg, swings, stallEnd, drop, failed>>
      /\ Busy /\ ~Busy'
  BY DEF Writes
<1>3. Spans' = Spans
  BY <1>2 DEF Spans
<1>4. /\ steady \in Nat /\ now \in Nat /\ start.packets \in Nat /\ now <= start.packets
      /\ Q' = (IF now < start.packets THEN Q ELSE Q - 1) /\ now' \in Int /\ Q' \in Int /\ Q' <= Q
      /\ now < start.packets \/ now' = now
  BY <1>1, NumbersAre DEF IInv
<1>5. Falling'
  <2> SUFFICES ASSUME ~failed', seg' # NoSpan
               PROVE  Falls(Spans, N + 1, Q', steady + 1, now', start.packets)
    BY <1>1, <1>2, <1>3 DEF Falling
  <2>1. Spans \in Seq(SpanType) /\ Falls(Spans, N, Q, steady, now, start.packets)
    BY <1>2, SpansAre DEF IInv, Falling
  <2> QED BY <1>1, <1>4, <2>1, LaterFalls
<1>6. Remembered'
  <2> SUFFICES ASSUME ~failed', NEW s \in swings' PROVE Recalls(s)'
    BY DEF Remembered
  <2>1. s \in [end : Nat, swing : 0 .. Burst] /\ Recalls(s)
    BY <1>2 DEF IInv, Measured, Remembered
  <2>2. s.end \in Nat /\ s.swing \in Nat
    BY <2>1, Positive
  <2>3. CASE steady <= Whole + (N - s.end)
    <3>1. steady + 1 <= Whole + ((N + 1) - s.end)
      BY <1>1, <1>4, <2>2, <2>3, Positive
    <3> QED BY <1>1, <3>1 DEF Recalls
  <2>4. CASE s.swing = 0
    BY <2>4 DEF Recalls
  <2>5. CASE /\ now = start.packets /\ s.swing <= Whole
             /\ seg # NoSpan => Swung(Spans, N, Q, steady, s.swing)
    <3>1. now' = now /\ Q' = Q - 1
      BY <1>1, <1>4, <2>5
    <3>2. seg # NoSpan => Swung(Spans, N + 1, Q - 1, steady + 1, s.swing)
      <4> SUFFICES ASSUME seg # NoSpan PROVE Swung(Spans, N + 1, Q - 1, steady + 1, s.swing)
        OBVIOUS
      <4>1. Spans \in Seq(SpanType)
        BY SpansAre DEF IInv
      <4>2. s.swing <= s.swing + 1 /\ s.swing \in Int
        BY <2>2
      <4> QED BY <1>1, <1>4, <2>5, <4>1, <4>2, LaterSwung
    <3> QED BY <1>1, <1>2, <1>3, <2>5, <3>1, <3>2 DEF Recalls
  <2> QED BY <2>1, <2>3, <2>4, <2>5 DEF Recalls
<1>7. ASSUME NEW bound \in Nat, NEW t \in Nat, Lag(bound, t) PROVE Lag(bound, t)'
  <2> SUFFICES ASSUME ~failed, Q' >= bound
               PROVE  \/ seg # NoSpan /\ steady + 1 <= (N + 1) - Spans[1].start
                      \/ /\ seg # NoSpan /\ Len(window) < Windows
                         /\ steady + 1 <= (N + 1) - Spans[1].start + Whole + t
                      \/ /\ seg # NoSpan /\ Len(window) = Windows
                         /\ steady + 1 <= (N + 1) - seg.start + Whole + t
                      \/ seg = NoSpan /\ steady + 1 <= Whole + t
    BY <1>1, <1>2, <1>3 DEF Lag
  <2>1. CASE steady = 0
    <3>1. CASE seg = NoSpan
      BY <2>1, <3>1, Positive
    <3>2. CASE seg # NoSpan
      <4>1. /\ Spans[1].start \in Nat /\ Spans[1].start <= seg.start
            /\ seg.start \in Nat /\ seg.start <= pts
        BY <3>2, SpansAre DEF IInv, Tiled
      <4> QED BY <1>1, <2>1, <3>2, <4>1
    <3> QED BY <3>1, <3>2
  <2>2. CASE steady > 0
    <3>1. Q >= bound /\ drop = NoDrop
      BY <1>1, <1>2, <1>4 DEF IInv, Measured
    <3>2. \/ seg # NoSpan /\ steady <= N - Spans[1].start
          \/ seg # NoSpan /\ Len(window) < Windows /\ steady <= N - Spans[1].start + Whole + t
          \/ seg # NoSpan /\ Len(window) = Windows /\ steady <= N - seg.start + Whole + t
      BY <1>2, <1>7, <2>2, <3>1 DEF Lag
    <3>3. seg # NoSpan /\ Spans[1].start \in Nat /\ seg.start \in Nat
      BY <3>2, SpansAre DEF IInv
    <3> DEFINE a == Spans[1].start  b == seg.start
    <3>4. a \in Nat /\ b \in Nat /\ N \in Nat /\ steady \in Nat /\ Whole \in Nat
      BY <1>1, <1>4, <3>3, Positive
    <3> HIDE DEF a, b
    <3>5. /\ steady <= N - a => steady + 1 <= (N + 1) - a
          /\ steady <= N - a + Whole + t => steady + 1 <= (N + 1) - a + Whole + t
          /\ steady <= N - b + Whole + t => steady + 1 <= (N + 1) - b + Whole + t
      BY <3>4
    <3> QED BY <3>2, <3>5 DEF a, b
  <2> QED BY <1>4, <2>1, <2>2
<1>8. Lags'
  BY <1>7, Positive DEF Lags, IInv
<1> QED BY <1>5, <1>6, <1>8
-----------------------------------------------------------------------------
\* No span is NoSpan, and no drop NoDrop.
LEMMA Nothing ==
  /\ \A n \in Nat : \A q : Span(n, q) # NoSpan
  /\ \A n \in Nat : \A m : [from |-> n, to |-> m] # NoDrop
  /\ NoSpan \notin SpanType
<1>1. \A n \in Nat : \A q : Span(n, q).start = n
  BY DEF Span
<1>2. NoSpan.start = -1
  BY DEF NoSpan, Span
<1>3. \A n \in Nat : \A m : [from |-> n, to |-> m].from = n
  OBVIOUS
<1>4. NoDrop.from = -1
  BY DEF NoDrop
<1>5. \A x \in SpanType : x.start \in Nat
  BY DEF SpanType
<1>6. -1 \notin Nat
  OBVIOUS
<1> HIDE DEF NoSpan, NoDrop, Span, SpanType
<1> QED BY <1>1, <1>2, <1>3, <1>4, <1>5, <1>6

\* What Span returns.
LEMMA SpanIs ==
  ASSUME NEW n \in Nat, NEW q \in Nat
  PROVE  /\ Span(n, q) \in SpanType /\ Span(n, q) # NoSpan
         /\ Span(n, q).start = n /\ Span(n, q).lo = q /\ Span(n, q).hi = q
<1>1. Span(n, q) # NoSpan
  BY Nothing
<1>2. /\ Span(n, q) \in SpanType
      /\ Span(n, q).start = n /\ Span(n, q).lo = q /\ Span(n, q).hi = q
  BY DEF Span, SpanType
<1> QED BY <1>1, <1>2

\* The invariant holds at the start.
LEMMA Start == ASSUME Init PROVE IInv
<1>1. /\ start \in Starts /\ start.packets \in Nat /\ start.waiting \in Nat
      /\ start.waiting <= start.packets /\ now = start.waiting /\ arrived = now
      /\ pts = 0 /\ steady = 0 /\ stalled = FALSE /\ demux = "off" /\ seg = NoSpan
      /\ window = <<>> /\ recent = <<>> /\ drop = NoDrop /\ stallEnd = 0 /\ swings = {}
  BY PacketsAre DEF Init, BacklogInit
<1>2. N = 1 /\ ~Busy
  BY <1>1 DEF N, Busy
<1>3. Bounds
  <2>1. now \in Nat /\ arrived \in Nat /\ arrived <= now /\ now <= start.packets /\ pts <= arrived
    BY <1>1
  <2>2. steady \in Nat /\ pts \in Nat /\ steady < N /\ demux \in Places
    BY <1>1, <1>2 DEF Places
  <2>3. stalled \in BOOLEAN
    BY <1>1
  <2> QED BY <1>1, <1>2, <2>1, <2>2, <2>3 DEF Bounds
<1>4. Measured
  <2>1. <<>> \in Seq(SpanType) /\ <<>> \in Seq(Nat) /\ Len(<<>>) = 0
    OBVIOUS
  <2>2. Len(window) <= Windows /\ Len(recent) <= WholeWindow
    BY <1>1, <2>1, Positive DEF WholeWindow, Whole
  <2> QED BY <1>1, <1>2, <2>1, <2>2 DEF Measured
<1>5. Tiled /\ Falling
  BY <1>1 DEF Tiled, Falling
<1>6. Remembered
  BY <1>1 DEF Remembered
<1>7. Lags
  BY <1>1 DEF Lags, Lag
<1> QED BY <1>3, <1>4, <1>5, <1>6, <1>7 DEF IInv

\* What a packet that is read and played leaves as it is.
PlayedStep ==
  /\ demux = "read" /\ pts < arrived /\ pts' = pts + 1 /\ demux' = "write"
  /\ recent' = Sampled(Q) /\ UNCHANGED <<start, now, arrived, failed, steady>>
  /\ ~Dropping(N, Q)

\* The queue behind a packet that is played does not change when it is read.
LEMMA PlaysAre ==
  ASSUME Bounds, PlayedStep
  PROVE  /\ N = pts + 1 /\ pts' = N /\ N' = N /\ Q \in Nat /\ Q' = Q /\ N \in Nat /\ ~Busy /\ Busy'
         /\ Q <= start.packets
<1>1. /\ pts \in Nat /\ arrived \in Nat /\ pts < arrived /\ pts' = pts + 1 /\ arrived' = arrived
      /\ arrived <= start.packets /\ start.packets \in Nat
  BY NumbersAre DEF PlayedStep, Bounds
<1>2. ~Busy /\ Busy'
  BY DEF PlayedStep, Busy
<1>3. N = pts + 1 /\ N' = pts'
  BY <1>2 DEF N
<1> QED BY <1>1, <1>2, <1>3 DEF Q

\* One sample more, or a whole window of them.
LEMMA SampledOf ==
  ASSUME Bounds, Measured, PlayedStep
  PROVE  /\ recent' \in Seq(Nat) /\ Len(recent') <= WholeWindow /\ Len(recent) \in Nat
         /\ Len(recent') \in Nat
         /\ Len(recent') >= WholeWindow \/ Len(recent') = Len(recent) + 1
<1>1. recent \in Seq(Nat) /\ Q \in Nat /\ recent' = Sampled(Q) /\ Len(recent) <= WholeWindow
  BY PlaysAre DEF Measured, PlayedStep
<1>2. WholeWindow \in Nat
  BY Positive DEF WholeWindow, Whole
<1>3. recent' \in Seq(Nat)
      /\ Len(recent') = IF Len(recent) + 1 > WholeWindow THEN Len(recent) ELSE Len(recent) + 1
  BY <1>1, SampledAt
<1>4. Len(recent) \in Nat /\ Len(recent') \in Nat
  BY <1>1, <1>3
<1> QED BY <1>1, <1>2, <1>3, <1>4

\* The first span begins.
LEMMA BeginsKeep ==
  ASSUME IInv, PlayedStep, Begins(N, Q)
  PROVE  Measured' /\ Tiled' /\ Falling' /\ Remembered' /\ Lags'
<1> DEFINE x == Span(N, Q)
<1>1. /\ N = pts + 1 /\ pts' = N /\ N' = N /\ Q \in Nat /\ Q' = Q /\ N \in Nat /\ ~Busy /\ Busy'
      /\ Q <= start.packets
  BY PlaysAre DEF IInv
<1>2. /\ seg = NoSpan /\ seg' = x /\ drop' = NoDrop /\ UNCHANGED <<window, swings, stallEnd>>
      /\ window = <<>> /\ recent = <<>>
  BY DEF Begins, IInv, Measured
<1>3. x \in SpanType /\ x # NoSpan /\ x.start = N /\ x.lo = Q /\ x.hi = Q
  BY <1>1, SpanIs
<1>4. UNCHANGED <<start, now, arrived, failed, steady>>
  BY DEF PlayedStep
<1> HIDE DEF x
<1>5. /\ <<>> \in Seq(SpanType) /\ Len(<<>>) = 0 /\ window' = <<>> /\ Spans' = Append(<<>>, x)
  BY <1>2 DEF Spans
<1>6. /\ Spans' \in Seq(SpanType) /\ Len(Spans') = 1 /\ Spans'[1] = x
  BY <1>3, <1>5
<1>7. /\ recent' \in Seq(Nat) /\ Len(recent') <= WholeWindow /\ Len(recent') \in Nat
      /\ Len(recent') >= WholeWindow \/ Len(recent') = 1
  BY <1>2, <1>5, SampledOf DEF IInv
<1>8. Measured'
  BY <1>1, <1>2, <1>3, <1>5, <1>7 DEF IInv, Measured
<1>9. Tiled'
  <2>1. Chain(Spans', x.start) /\ Spanning(Spans', start.packets)
    <3>1. (1 - 1) * Segment = 0
      BY Positive
    <3> QED BY <1>1, <1>3, <1>6, <3>1 DEF Chain, Spanning
  <2>2. x.start <= N /\ N - x.start < Segment
    BY <1>1, <1>3, Positive
  <2>3. Len(recent') >= WholeWindow \/ Len(recent') >= 0 * Segment + (N - x.start) + 1
    <3>1. 0 * Segment = 0
      BY Positive
    <3>2. 0 * Segment + (N - x.start) + 1 = 1
      BY <1>1, <1>3, <3>1
    <3> QED BY <1>7, <3>2
  <2>4. Covers(Spans', recent', N)
    <3>1. recent \in Seq(Nat) /\ Covers(Spans', recent, pts) /\ pts \in Nat /\ N = pts + 1
      BY <1>1, <1>2, NumbersAre DEF Covers, IInv, Measured
    <3>2. /\ 1 \in 1 .. Len(Spans') /\ Spans'[1].start <= N
          /\ N < Spans'[1].start + Segment /\ Spans'[1].lo <= Q
      BY <1>1, <1>3, <1>6, Positive
    <3>3. recent' = Sampled(Q)
      BY DEF PlayedStep
    <3> DEFINE sp == Spans'
    <3> HIDE DEF sp
    <3>4. Covers(sp, Sampled(Q), pts + 1)
      BY <1>1, <3>1, <3>2, SampleCovers DEF sp
    <3> QED BY <3>1, <3>3, <3>4 DEF sp
  <2> QED BY <1>1, <1>2, <1>4, <1>5, <2>1, <2>2, <2>3, <2>4 DEF Tiled
<1>10. /\ Falls(Spans', N, Q, steady, now, start.packets)
       /\ \A y \in Int : Swung(Spans', N, Q, steady, y)
  <2>1. Falls(<<>>, N, Q, steady, now, start.packets) /\ \A y \in Int : Swung(<<>>, N, Q, steady, y)
    BY DEF Falls, Swung
  <2>2. steady \in Int /\ now \in Int /\ start.packets \in Int
    BY NumbersAre DEF IInv
  <2> QED BY <1>1, <1>5, <2>1, <2>2, AppendFalls DEF x
<1>11. Falling'
  BY <1>1, <1>4, <1>10 DEF Falling
<1>12. Remembered'
  <2> SUFFICES ASSUME ~failed', NEW s \in swings' PROVE Recalls(s)'
    BY DEF Remembered
  <2>1. s \in [end : Nat, swing : 0 .. Burst] /\ Recalls(s)
    BY <1>2, <1>4 DEF IInv, Measured, Remembered
  <2>2. s.swing \in Int
    BY <2>1, Positive
  <2> QED BY <1>1, <1>4, <1>10, <2>1, <2>2 DEF Recalls
<1>13. ASSUME NEW bound \in Nat, bound > 0, NEW t \in Nat, Lag(bound, t) PROVE Lag(bound, t)'
  <2> SUFFICES ASSUME ~failed, steady > 0, Q >= bound
               PROVE  Len(window') < Windows /\ steady <= N - x.start + Whole + t
    BY <1>1, <1>2, <1>3, <1>4, <1>6 DEF Lag
  <2>1. (steady <= Whole + t) \/ (drop # NoDrop /\ arrived - drop.to < bound)
    BY <1>2, <1>13 DEF Lag
  <2>2. ~(drop # NoDrop /\ arrived - drop.to < bound)
    <3> SUFFICES ASSUME drop # NoDrop, arrived - drop.to < bound PROVE FALSE
      OBVIOUS
    <3>1. drop.to \in Nat /\ arrived \in Nat
      BY NumbersAre DEF IInv, Measured
    <3>2. ~(N < drop.to)
      BY <1>1, <1>13 DEF PlayedStep, Dropping
    <3>3. arrived - N >= bound
      BY DEF Q
    <3> QED BY <1>1, <3>1, <3>2, <3>3
  <2>3. steady <= Whole + t
    BY <2>1, <2>2
  <2>4. N - x.start = 0
    BY <1>1, <1>3
  <2>5. steady <= 0 + Whole + t
    BY <2>3, Positive
  <2> QED BY <1>5, <2>4, <2>5, Positive
<1>14. Lags'
  BY <1>13, Positive DEF Lags, IInv
<1> QED BY <1>8, <1>9, <1>11, <1>12, <1>14
\* A span goes on.
LEMMA GoesOnKeep ==
  ASSUME IInv, PlayedStep, GoesOn(N, Q)
  PROVE  Measured' /\ Tiled' /\ Falling' /\ Remembered' /\ Lags'
<1> DEFINE y == Wider(Q)
<1>1. /\ N = pts + 1 /\ pts' = N /\ N' = N /\ Q \in Nat /\ Q' = Q /\ N \in Nat /\ ~Busy /\ Busy'
      /\ Q <= start.packets
  BY PlaysAre DEF IInv
<1>2. /\ seg # NoSpan /\ N - seg.start < Segment /\ seg' = y /\ drop' = NoDrop
      /\ UNCHANGED <<window, swings, stallEnd>>
  BY DEF GoesOn
<1>3. /\ window \in Seq(SpanType) /\ seg \in SpanType /\ seg.start \in Nat
      /\ Spans \in Seq(SpanType) /\ Len(Spans) = Len(window) + 1 /\ Len(window) \in Nat
      /\ Spans[Len(window) + 1] = seg /\ Spans[1].start \in Nat
  BY <1>2, SpansAre DEF IInv
<1>4. /\ y \in SpanType /\ y.start = seg.start
      /\ y.lo = (IF seg.lo <= Q THEN seg.lo ELSE Q) /\ y.hi = (IF seg.hi >= Q THEN seg.hi ELSE Q)
      /\ seg.lo \in Nat /\ seg.hi \in Nat
  BY <1>1, <1>3, WiderIs DEF SpanType
<1>5. UNCHANGED <<start, now, arrived, failed, steady>>
  BY DEF PlayedStep
<1> HIDE DEF y
<1>6. Spans = Append(window, seg) /\ Spans' = Append(window, y)
  BY <1>2 DEF Spans
<1>7. /\ Spans' \in Seq(SpanType) /\ Len(Spans') = Len(window) + 1
      /\ Spans'[Len(window) + 1] = y /\ Spans'[1].start = Spans[1].start
  <2>1. /\ Spans' \in Seq(SpanType) /\ Len(Spans') = Len(window) + 1
        /\ Spans'[Len(window) + 1] = y /\ \A k \in 1 .. Len(window) : Spans'[k] = window[k]
    BY <1>3, <1>4, <1>6, AppendAt
  <2>2. \A k \in 1 .. Len(window) : Spans[k] = window[k]
    BY <1>3, <1>6, AppendAt
  <2>3. 1 \in 1 .. Len(window) \/ Len(window) + 1 = 1
    BY <1>3
  <2> QED BY <1>3, <1>4, <2>1, <2>2, <2>3
<1>8. y # NoSpan
  BY <1>4, Nothing
<1>9. /\ recent' \in Seq(Nat) /\ Len(recent') <= WholeWindow /\ Len(recent) \in Nat
      /\ Len(recent') \in Nat
      /\ Len(recent') >= WholeWindow \/ Len(recent') = Len(recent) + 1
  BY SampledOf DEF IInv
<1>10. Measured'
  BY <1>1, <1>2, <1>3, <1>4, <1>8, <1>9 DEF IInv, Measured
<1>11. /\ seg.start <= pts /\ pts - seg.start < Segment
       /\ Chain(Spans, seg.start) /\ Spanning(Spans, start.packets)
       /\ Len(recent) >= WholeWindow \/ Len(recent) >= Len(window) * Segment + (pts - seg.start) + 1
       /\ Covers(Spans, recent, pts) /\ recent \in Seq(Nat) /\ pts \in Nat
       /\ start.packets \in Nat
  BY <1>2, NumbersAre DEF IInv, Tiled, Measured
<1>12. y.lo <= y.hi /\ y.hi <= start.packets /\ y.lo <= seg.lo /\ y.lo <= Q
  <2>1. seg.lo <= seg.hi /\ seg.hi <= start.packets
    <3>1. Len(window) + 1 \in 1 .. Len(Spans)
      BY <1>3
    <3> QED BY <1>3, <1>11, <3>1 DEF Spanning
  <2> QED BY <1>1, <1>4, <1>11, <2>1
<1>13. Tiled'
  <2>1. Chain(Spans', seg.start) /\ Spanning(Spans', start.packets) /\ Covers(Spans', recent, pts)
    BY <1>3, <1>4, <1>6, <1>11, <1>12, LastChanges
  <2>2. Covers(Spans', recent', N)
    <3>1. /\ Len(window) + 1 \in 1 .. Len(Spans')
          /\ Spans'[Len(window) + 1].start <= pts + 1
          /\ pts + 1 < Spans'[Len(window) + 1].start + Segment
          /\ Spans'[Len(window) + 1].lo <= Q
      <4>1. /\ Len(window) + 1 \in 1 .. Len(Spans') /\ Spans'[Len(window) + 1] = y
            /\ y.start = seg.start /\ y.lo <= Q
        BY <1>3, <1>4, <1>7, <1>12
      <4>2. seg.start <= pts + 1 /\ pts + 1 < seg.start + Segment
        BY <1>1, <1>2, <1>3, <1>11, Positive
      <4> QED BY <4>1, <4>2
    <3>2. recent' = Sampled(Q)
      BY DEF PlayedStep
    <3> DEFINE sp == Spans'
    <3> HIDE DEF sp
    <3>3. Covers(sp, Sampled(Q), pts + 1)
      BY <1>1, <1>11, <2>1, <3>1, SampleCovers DEF sp
    <3> QED BY <1>1, <3>2, <3>3 DEF sp
  <2> DEFINE u == Len(window) * Segment
  <2>3. u \in Nat
    BY <1>3, Distributes
  <2> HIDE DEF u
  <2>4. Len(recent') >= WholeWindow \/ Len(recent') >= u + (N - seg.start) + 1
    <3>1. WholeWindow \in Nat
      BY Positive DEF WholeWindow, Whole
    <3>2. Len(recent) >= WholeWindow \/ Len(recent) >= u + (pts - seg.start) + 1
      BY <1>11 DEF u
    <3> DEFINE a == Len(recent)  b == Len(recent')  e == seg.start
    <3>3. /\ a \in Nat /\ b \in Nat /\ e \in Nat /\ pts \in Nat /\ N = pts + 1 /\ a <= WholeWindow
          /\ a >= WholeWindow \/ a >= u + (pts - e) + 1
          /\ b >= WholeWindow \/ b = a + 1
      BY <1>1, <1>3, <1>9, <1>11, <3>2 DEF IInv, Measured
    <3> HIDE DEF a, b, e
    <3>4. b >= WholeWindow \/ b >= u + ((pts + 1) - e) + 1
      BY <2>3, <3>1, <3>3
    <3> QED BY <3>3, <3>4 DEF a, b, e
  <2>5. seg.start <= N /\ N - seg.start < Segment
    BY <1>1, <1>2, <1>3, <1>11
  <2> QED BY <1>1, <1>2, <1>4, <1>5, <2>1, <2>2, <2>4, <2>5 DEF Tiled, u
<1>14. ASSUME Falls(Spans, N, Q, steady, now, start.packets), N - seg.start < steady
       PROVE  y.hi = seg.hi /\ Q <= y.lo
  <2>1. Len(window) + 1 \in 1 .. Len(Spans)
    BY <1>3
  <2>2. Q <= seg.lo /\ Q <= seg.hi
    BY <1>3, <1>14, <2>1 DEF Falls
  <2> QED BY <1>1, <1>4, <2>2
<1>15. Falling'
  <2> SUFFICES ASSUME ~failed PROVE Falls(Spans', N, Q, steady, now, start.packets)
    BY <1>1, <1>5 DEF Falling
  <2>1. Falls(Spans, N, Q, steady, now, start.packets)
    BY <1>2 DEF IInv, Falling
  <2> QED BY <1>3, <1>4, <1>6, <1>14, <2>1, LastChanges
<1>16. Remembered'
  <2> SUFFICES ASSUME ~failed', NEW s \in swings' PROVE Recalls(s)'
    BY DEF Remembered
  <2>1. Recalls(s) /\ Falls(Spans, N, Q, steady, now, start.packets)
    BY <1>2, <1>5 DEF IInv, Falling, Remembered
  <2>2. ASSUME Swung(Spans, N, Q, steady, s.swing) PROVE Swung(Spans', N, Q, steady, s.swing)
    BY <1>3, <1>4, <1>6, <1>14, <2>1, <2>2, LastChanges
  <2> QED BY <1>1, <1>2, <1>5, <2>1, <2>2 DEF Recalls
<1>17. ASSUME NEW bound \in Nat, bound > 0, NEW t \in Nat, Lag(bound, t) PROVE Lag(bound, t)'
  <2>1. drop = NoDrop
    BY <1>2 DEF IInv, Measured
  <2> QED BY <1>1, <1>2, <1>4, <1>5, <1>7, <1>8, <1>17, <2>1 DEF Lag
<1>18. Lags'
  BY <1>17, Positive DEF Lags, IInv
<1> QED BY <1>10, <1>13, <1>15, <1>16, <1>18
-----------------------------------------------------------------------------
\* The low point of a window and its swing.
LEMMA LowAndSwing ==
  ASSUME NEW w \in Seq(SpanType), Len(w) > 0, NEW m \in Nat, Spanning(w, m)
  PROVE  /\ Low(w) \in Nat /\ Swing(w) \in Nat
         /\ \A k \in 1 .. Len(w) : Low(w) <= w[k].lo /\ w[k].hi - Low(w) <= Swing(w)
         /\ \E k \in 1 .. Len(w) : Low(w) = w[k].lo
         /\ \E k \in 1 .. Len(w) : Swing(w) = w[k].hi - Low(w)
<1>1. \A k \in 1 .. Len(w) :
        w[k].lo \in Nat /\ w[k].hi \in Nat /\ w[k].lo <= w[k].hi /\ w[k].hi <= m
  <2> SUFFICES ASSUME NEW k \in 1 .. Len(w) PROVE w[k].lo \in Nat /\ w[k].hi \in Nat
    BY DEF Spanning
  <2>1. w[k] \in SpanType
    OBVIOUS
  <2> QED BY <2>1 DEF SpanType
<1>2. DOMAIN w = 1 .. Len(w) /\ 1 \in 1 .. Len(w)
  OBVIOUS
<1>3. Lows(w) \in SUBSET Nat /\ Lows(w) # {} /\ Highs(w) \in SUBSET Nat /\ Highs(w) # {}
      /\ \A x \in Highs(w) : x <= m
  BY <1>1, <1>2 DEF Lows, Highs
<1>4. Low(w) \in Lows(w) /\ \A x \in Lows(w) : Low(w) <= x
  BY <1>3, MinOf DEF Low
<1>5. Max(Highs(w)) \in Highs(w) /\ \A x \in Highs(w) : x <= Max(Highs(w))
  BY <1>3, MaxOf
<1> DEFINE l == Low(w)  h == Max(Highs(w))
<1>6. /\ l \in Nat /\ h \in Nat /\ Swing(w) = h - l
      /\ \A k \in 1 .. Len(w) : l <= w[k].lo /\ w[k].hi <= h
      /\ \E k \in 1 .. Len(w) : l = w[k].lo
      /\ \E k \in 1 .. Len(w) : h = w[k].hi
  BY <1>2, <1>3, <1>4, <1>5 DEF Lows, Highs, Swing
<1> HIDE DEF l, h
<1>7. h >= l
  <2>1. PICK k \in 1 .. Len(w) : h = w[k].hi
    BY <1>6
  <2>2. l <= w[k].lo /\ w[k].lo <= w[k].hi /\ w[k].lo \in Nat /\ w[k].hi \in Nat
    BY <1>1, <1>6
  <2>3. l \in Nat /\ h \in Nat
    BY <1>6
  <2> QED BY <2>1, <2>2, <2>3
<1>8. ASSUME NEW k \in 1 .. Len(w) PROVE w[k].hi - l <= h - l
  <2>1. w[k].hi <= h /\ w[k].hi \in Nat
    BY <1>1, <1>6
  <2>2. l \in Nat /\ h \in Nat
    BY <1>6
  <2> QED BY <2>1, <2>2
<1>9. h - l \in Nat
  BY <1>6, <1>7
<1> QED BY <1>6, <1>8, <1>9 DEF l

\* The cushion is a remembered swing, and no greater than Burst.
LEMMA CushionIs ==
  ASSUME swings' \subseteq [end : Nat, swing : 0 .. Burst], NEW p \in Nat
  PROVE  /\ Cushion(p) \in Nat /\ Cushion(p) <= Burst
         /\ Cushion(p) = 0 \/ \E s \in swings' : p - s.end < Memory /\ Cushion(p) = s.swing
<1> DEFINE S == {s.swing : s \in {t \in swings' : p - t.end < Memory}} \cup {0}
<1>1. S \in SUBSET Nat /\ S # {} /\ \A x \in S : x <= Burst
  <2>1. \A s \in swings' : s.swing \in 0 .. Burst
    OBVIOUS
  <2> QED BY <2>1, Positive
<1>2. \A x \in S : x = 0 \/ \E s \in swings' : p - s.end < Memory /\ x = s.swing
  OBVIOUS
<1>3. Cushion(p) = Max(S)
  BY DEF Cushion
<1> HIDE DEF S
<1>4. Max(S) \in S
  BY <1>1, MaxOf, Positive
<1> QED BY <1>1, <1>2, <1>3, <1>4

\* The packet at hand ends a segment; the spans with that one, and those of the window
\* that is then checked.
Ready ==
  demux = "read" /\ pts < arrived /\ seg # NoSpan /\ N - seg.start >= Segment
Longer == Append(window, Wider(Q))
W == IF Len(Longer) > Windows THEN Tail(Longer) ELSE Longer
\* The spans w tell as much of the queue as those of the invariant.
Surveys(w) ==
  /\ w \in Seq(SpanType) /\ Len(w) \in Nat /\ Len(w) > 0
  /\ Chain(w, seg.start) /\ Spanning(w, start.packets) /\ Covers(w, recent, pts)
  /\ ~failed => /\ Falls(w, N, Q, steady, now, start.packets)
                /\ \A x \in Int : Swung(Spans, N, Q, steady, x) => Swung(w, N, Q, steady, x)

\* The packet at hand ends a segment.
LEMMA ReadyIs ==
  ASSUME IInv, Ready
  PROVE  /\ N = pts + 1 /\ pts \in Nat /\ N \in Nat /\ Q \in Nat /\ Q <= start.packets /\ ~Busy
         /\ N = seg.start + Segment /\ seg.start \in Nat /\ start.packets \in Nat
<1>1. /\ pts \in Nat /\ arrived \in Nat /\ pts < arrived /\ arrived <= start.packets
      /\ start.packets \in Nat
  BY NumbersAre DEF Ready, Bounds, IInv
<1>2. ~Busy
  BY DEF Ready, Busy
<1>3. N = pts + 1
  BY <1>2 DEF N
<1>4. seg # NoSpan /\ seg.start \in Nat /\ pts - seg.start < Segment /\ N - seg.start >= Segment
  BY SpansAre DEF IInv, Tiled, Ready
<1> QED BY <1>1, <1>2, <1>3, <1>4, Positive DEF Q

\* With the segment that ends, the spans still leave no gap.
LEMMA LongerIs ==
  ASSUME IInv, Ready
  PROVE  /\ Surveys(Longer) /\ Len(Longer) = Len(window) + 1
         /\ Longer[Len(Longer)].lo <= Q /\ Longer[1].start = Spans[1].start
<1> DEFINE y == Wider(Q)
<1>1. /\ N = pts + 1 /\ pts \in Nat /\ N \in Nat /\ Q \in Nat /\ Q <= start.packets
      /\ N = seg.start + Segment /\ seg.start \in Nat /\ start.packets \in Nat
  BY ReadyIs
<1>2. seg # NoSpan
  BY DEF Ready
<1>3. /\ window \in Seq(SpanType) /\ seg \in SpanType
      /\ Spans \in Seq(SpanType) /\ Len(Spans) = Len(window) + 1 /\ Len(window) \in Nat
      /\ Spans[Len(window) + 1] = seg
  BY <1>2, SpansAre DEF IInv
<1>4. /\ y \in SpanType /\ y.start = seg.start
      /\ y.lo = (IF seg.lo <= Q THEN seg.lo ELSE Q) /\ y.hi = (IF seg.hi >= Q THEN seg.hi ELSE Q)
      /\ seg.lo \in Nat /\ seg.hi \in Nat
  BY <1>1, <1>3, WiderIs DEF SpanType
<1> HIDE DEF y
<1>6. Spans = Append(window, seg) /\ Longer = Append(window, y)
  BY DEF Spans, Longer, y
<1>7. /\ Longer \in Seq(SpanType) /\ Len(Longer) = Len(window) + 1
      /\ Longer[Len(window) + 1] = y /\ Longer[1].start = Spans[1].start
  <2>1. /\ Longer \in Seq(SpanType) /\ Len(Longer) = Len(window) + 1
        /\ Longer[Len(window) + 1] = y /\ \A k \in 1 .. Len(window) : Longer[k] = window[k]
    BY <1>3, <1>4, <1>6, AppendAt
  <2>2. \A k \in 1 .. Len(window) : Spans[k] = window[k]
    BY <1>3, <1>6, AppendAt
  <2>3. 1 \in 1 .. Len(window) \/ Len(window) + 1 = 1
    BY <1>3
  <2> QED BY <1>3, <1>4, <2>1, <2>2, <2>3
<1>11. /\ Chain(Spans, seg.start) /\ Spanning(Spans, start.packets)
       /\ Covers(Spans, recent, pts) /\ recent \in Seq(Nat)
  BY <1>2 DEF IInv, Tiled, Measured
<1>12. y.lo <= y.hi /\ y.hi <= start.packets /\ y.lo <= seg.lo /\ y.lo <= Q
  <2>1. seg.lo <= seg.hi /\ seg.hi <= start.packets
    <3>1. Len(window) + 1 \in 1 .. Len(Spans)
      BY <1>3
    <3> QED BY <1>3, <1>11, <3>1 DEF Spanning
  <2> QED BY <1>1, <1>4, <2>1
<1>13. Chain(Longer, seg.start) /\ Spanning(Longer, start.packets) /\ Covers(Longer, recent, pts)
  BY <1>3, <1>4, <1>6, <1>11, <1>12, LastChanges
<1>14. ASSUME Falls(Spans, N, Q, steady, now, start.packets), N - seg.start < steady
       PROVE  y.hi = seg.hi /\ Q <= y.lo
  <2>1. Len(window) + 1 \in 1 .. Len(Spans)
    BY <1>3
  <2>2. Q <= seg.lo /\ Q <= seg.hi
    BY <1>3, <1>14, <2>1 DEF Falls
  <2> QED BY <1>1, <1>4, <2>2
<1>15. ASSUME ~failed
       PROVE  /\ Falls(Longer, N, Q, steady, now, start.packets)
              /\ \A x \in Int : Swung(Spans, N, Q, steady, x) => Swung(Longer, N, Q, steady, x)
  <2>1. Falls(Spans, N, Q, steady, now, start.packets)
    BY <1>2, <1>15 DEF IInv, Falling
  <2>2. Falls(Longer, N, Q, steady, now, start.packets)
    BY <1>3, <1>4, <1>6, <1>14, <2>1, LastChanges
  <2>3. ASSUME NEW x \in Int, Swung(Spans, N, Q, steady, x) PROVE Swung(Longer, N, Q, steady, x)
    BY <1>3, <1>4, <1>6, <1>14, <2>1, <2>3, LastChanges
  <2> QED BY <2>2, <2>3
<1>16. Len(Longer) \in Nat /\ Len(Longer) > 0
  BY <1>3, <1>7
<1> QED BY <1>7, <1>12, <1>13, <1>15, <1>16 DEF Surveys

\* Nor without the oldest, when they are more than a window.
LEMMA WIs ==
  ASSUME IInv, Ready
  PROVE  /\ Surveys(W) /\ Len(W) <= Windows /\ W[Len(W)].lo <= Q
         /\ \/ W = Longer /\ Len(W) = Len(window) + 1
            \/ Len(W) = Windows /\ Len(window) = Windows
<1>1. /\ Surveys(Longer) /\ Len(Longer) = Len(window) + 1
      /\ Longer[Len(Longer)].lo <= Q
  BY LongerIs
<1>2. /\ Longer \in Seq(SpanType) /\ Len(Longer) \in Nat
      /\ Len(window) \in Nat /\ Len(window) <= Windows
      /\ Windows \in Nat /\ Windows > 0
  BY <1>1, Positive DEF Surveys, IInv, Measured
<1>3. CASE ~(Len(Longer) > Windows)
  <2>1. W = Longer
    BY <1>3 DEF W
  <2> QED BY <1>1, <1>2, <1>3, <2>1
<1>4. CASE Len(Longer) > Windows
  <2>1. W = Tail(Longer)
    BY <1>4 DEF W
  <2>2. /\ W \in Seq(SpanType) /\ Len(W) = Len(Longer) - 1
        /\ \A k \in 1 .. Len(Longer) - 1 : W[k] = Longer[k + 1]
    BY <1>2, <1>4, <2>1, TailAt
  <2>3. Len(W) = Windows /\ Len(window) = Windows /\ Len(W) > 0 /\ Len(Longer) > 1
    BY <1>1, <1>2, <1>4, <2>2
  <2>4. W[Len(W)] = Longer[Len(Longer)]
    <3>1. Len(W) \in 1 .. Len(Longer) - 1 /\ Len(W) + 1 = Len(Longer)
      BY <1>2, <2>2, <2>3
    <3> QED BY <2>2, <3>1
  <2>5. /\ seg.start \in Int /\ start.packets \in Int /\ pts \in Int /\ N \in Int /\ Q \in Int
        /\ steady \in Int /\ now \in Int /\ recent \in Seq(Nat)
    BY ReadyIs, NumbersAre DEF IInv, Measured
  <2>6. Chain(W, seg.start) /\ Spanning(W, start.packets)
    BY <1>1, <1>2, <2>1, <2>3, <2>5, TailKeeps DEF Surveys
  <2>7. Covers(W, recent, pts)
    BY <1>1, <1>2, <2>1, <2>3, <2>5, TailCovers DEF Surveys
  <2>8. ASSUME ~failed
        PROVE  /\ Falls(W, N, Q, steady, now, start.packets)
               /\ \A x \in Int : Swung(Spans, N, Q, steady, x) => Swung(W, N, Q, steady, x)
    <3>1. /\ Falls(Longer, N, Q, steady, now, start.packets)
          /\ \A x \in Int : Swung(Spans, N, Q, steady, x) => Swung(Longer, N, Q, steady, x)
      BY <1>1, <2>8 DEF Surveys
    <3>2. Falls(W, N, Q, steady, now, start.packets)
      BY <1>2, <2>1, <2>3, <2>5, <3>1, TailFalls
    <3>3. ASSUME NEW x \in Int, Swung(Spans, N, Q, steady, x) PROVE Swung(W, N, Q, steady, x)
      BY <1>2, <2>1, <2>3, <2>5, <3>1, <3>3, TailFalls
    <3> QED BY <3>2, <3>3
  <2>9. Surveys(W)
    BY <1>2, <2>2, <2>3, <2>6, <2>7, <2>8 DEF Surveys
  <2> QED BY <1>1, <2>3, <2>4, <2>9
<1> QED BY <1>3, <1>4
\* A whole window began a whole window ago.
LEMMA FirstIs ==
  ASSUME IInv, Ready, Len(W) = Windows
  PROVE  /\ W[1].start = N - Whole
         /\ \A k \in 1 .. Len(W) : W[k].start \in Nat /\ W[k].start >= N - Whole
<1>1. /\ W \in Seq(SpanType) /\ Chain(W, seg.start) /\ Windows \in Nat /\ Windows > 0
      /\ N = seg.start + Segment /\ seg.start \in Nat /\ Segment \in Nat
  BY WIs, ReadyIs, Positive DEF Surveys
<1> DEFINE u == (Windows - 1) * Segment
<1>2. Whole = u + Segment /\ u \in Nat
  <2>1. Windows - 1 \in Nat /\ (Windows - 1) + 1 = Windows
    BY <1>1
  <2>2. u \in Nat /\ ((Windows - 1) + 1) * Segment = u + Segment
    BY <2>1, Distributes
  <2> QED BY <2>1, <2>2 DEF Whole
<1>3. ASSUME NEW k \in 1 .. Windows PROVE W[k].start \in Nat /\ W[k].start >= seg.start - u
  <2>1. W[k].start = seg.start - (Windows - k) * Segment
    BY <1>1, <1>3 DEF Chain
  <2>2. Windows - k \in Nat /\ Windows - 1 \in Nat /\ Windows - k <= Windows - 1
    BY <1>1
  <2>3. (Windows - k) * Segment \in Nat /\ (Windows - k) * Segment <= u
    BY <2>2, Distributes, Monotone
  <2>4. W[k] \in SpanType
    BY <1>1
  <2>5. W[k].start \in Nat
    BY <2>4 DEF SpanType
  <2> DEFINE v == (Windows - k) * Segment
  <2> HIDE DEF u, v
  <2>6. W[k].start >= seg.start - u
    BY <1>1, <1>2, <2>1, <2>3 DEF v
  <2> QED BY <2>5, <2>6
<1>4. W[1].start = seg.start - u
  BY <1>1 DEF Chain
<1> HIDE DEF u
<1>5. seg.start - u = N - Whole
  BY <1>1, <1>2
<1> QED BY <1>3, <1>4, <1>5

\* With nothing come between for longer than the window, all of it was measured in
\* sound that comes and plays steadily.
LEMMA AllClean ==
  ASSUME IInv, Ready, Len(W) = Windows, ~failed, steady > Whole
  PROVE  \A k \in 1 .. Len(W) :
           /\ W[k].lo \in Nat /\ W[k].hi \in Nat
           /\ Q <= W[k].lo /\ Q <= W[k].hi /\ W[k].hi - Q <= Whole
           /\ now < start.packets => W[k].hi = Q
           /\ W[k].lo <= W[k].hi
           /\ Swung(W, N, Q, steady, W[k].hi - Q)
           /\ W[k].hi - Q >= N - W[k].start => W[k].hi - Q >= 0
           /\ N - W[k].start < steady /\ N - W[k].start <= Whole
<1>1. /\ W \in Seq(SpanType) /\ Spanning(W, start.packets)
      /\ Falls(W, N, Q, steady, now, start.packets)
  BY WIs DEF Surveys
<1>2. steady \in Nat /\ N \in Nat /\ Q \in Nat
  BY ReadyIs, NumbersAre DEF IInv
<1> SUFFICES ASSUME NEW k \in 1 .. Len(W)
             PROVE  /\ W[k].lo \in Nat /\ W[k].hi \in Nat
                    /\ Q <= W[k].lo /\ Q <= W[k].hi /\ W[k].hi - Q <= Whole
                    /\ now < start.packets => W[k].hi = Q
                    /\ W[k].lo <= W[k].hi
                    /\ Swung(W, N, Q, steady, W[k].hi - Q)
                    /\ W[k].hi - Q >= N - W[k].start => W[k].hi - Q >= 0
                    /\ N - W[k].start < steady /\ N - W[k].start <= Whole
  OBVIOUS
<1>3. W[k].start \in Nat /\ W[k].start >= N - Whole
  BY FirstIs
<1>4. N - W[k].start < steady /\ N - W[k].start <= Whole
  BY <1>2, <1>3, Positive
<1>5. /\ Q <= W[k].lo /\ Q <= W[k].hi /\ W[k].hi - Q <= N - W[k].start
      /\ now < start.packets => W[k].hi = Q
      /\ Swung(W, N, Q, steady, W[k].hi - Q)
  BY <1>1, <1>4 DEF Falls
<1>6. W[k] \in SpanType
  BY <1>1
<1>7. W[k].lo \in Nat /\ W[k].hi \in Nat
  BY <1>6 DEF SpanType
<1>8. W[k].lo <= W[k].hi
  BY <1>1 DEF Spanning
<1>9. W[k].hi - Q <= Whole /\ W[k].hi - Q >= 0
  <2>1. W[k].hi - Q <= N - W[k].start /\ Q <= W[k].hi
    BY <1>5
  <2>2. N - W[k].start <= Whole /\ N - W[k].start \in Int
    BY <1>2, <1>3, <1>4
  <2>3. W[k].hi \in Nat /\ Q \in Nat /\ Whole \in Nat
    BY <1>2, <1>7, Positive
  <2> QED BY <2>1, <2>2, <2>3
<1> QED BY <1>4, <1>5, <1>7, <1>8, <1>9

\* Recalls, at the end of a window.
RecallsThen(s) ==
  \/ steady <= Whole + (N - s.end)
  \/ s.swing = 0
  \/ now = start.packets /\ s.swing <= Whole /\ Swung(W, N, Q, steady, s.swing)

\* What is remembered once a window has ended.
LEMMA Remembering ==
  ASSUME IInv, Ready, Len(W) = Windows, Remember(W, N)
  PROVE  /\ stallEnd' \in Nat /\ swings' \subseteq [end : Nat, swing : 0 .. Burst]
         /\ \A s \in swings' : s.end <= N /\ (~failed => RecallsThen(s))
<1> DEFINE new == [end |-> N, swing |-> Swing(W)]
<1>1. /\ W \in Seq(SpanType) /\ Spanning(W, start.packets) /\ Len(W) > 0
      /\ start.packets \in Nat /\ N \in Nat /\ Q \in Nat
  BY WIs, ReadyIs DEF Surveys
<1>2. /\ Low(W) \in Nat /\ Swing(W) \in Nat
      /\ \E k \in 1 .. Len(W) : Low(W) = W[k].lo
      /\ \E k \in 1 .. Len(W) : Swing(W) = W[k].hi - Low(W)
  BY <1>1, LowAndSwing
<1>3. /\ stallEnd' \in {stallEnd, N}
      /\ swings' \subseteq swings \cup {new}
      /\ Swing(W) > Burst => swings' \subseteq swings
  BY DEF Remember
<1>4. /\ stallEnd \in Nat /\ swings \subseteq [end : Nat, swing : 0 .. Burst]
      /\ \A s \in swings : s.end <= N
  BY DEF IInv, Measured
<1>5. new.end = N /\ new.swing = Swing(W)
  OBVIOUS
<1>6. Swing(W) <= Burst => new \in [end : Nat, swing : 0 .. Burst]
  BY <1>1, <1>2, Positive
<1>7. ASSUME ~failed, NEW s \in swings PROVE RecallsThen(s)
  <2>1. Recalls(s) /\ s \in [end : Nat, swing : 0 .. Burst] /\ seg # NoSpan
    BY <1>4, <1>7 DEF IInv, Remembered, Ready
  <2>2. s.swing \in Int
    BY <2>1, Positive
  <2>3. Swung(Spans, N, Q, steady, s.swing) => Swung(W, N, Q, steady, s.swing)
    BY <1>7, <2>2, WIs DEF Surveys
  <2> QED BY <2>1, <2>3 DEF Recalls, RecallsThen
<1>8. ASSUME ~failed PROVE RecallsThen(new)
  <2>1. CASE steady <= Whole
    <3>1. steady <= Whole + (N - N)
      BY <1>1, <2>1, Positive
    <3> QED BY <1>5, <3>1 DEF RecallsThen
  <2>2. CASE steady > Whole
    <3>1. PICK k \in 1 .. Len(W) : Low(W) = W[k].lo
      BY <1>2
    <3>2. PICK j \in 1 .. Len(W) : Swing(W) = W[j].hi - Low(W)
      BY <1>2
    <3>3. /\ Q <= W[k].lo /\ W[k].lo <= W[k].hi /\ W[k].lo \in Nat /\ W[k].hi \in Nat
          /\ now < start.packets => W[k].hi = Q
      BY <1>8, <2>2, AllClean
    <3>4. /\ W[j].hi \in Nat /\ Q <= W[j].hi /\ W[j].hi - Q <= Whole
          /\ now < start.packets => W[j].hi = Q
          /\ Swung(W, N, Q, steady, W[j].hi - Q)
      BY <1>8, <2>2, AllClean
    <3>5. Swing(W) <= W[j].hi - Q
      BY <1>1, <1>2, <3>1, <3>2, <3>3, <3>4
    <3>6. CASE now < start.packets
      BY <1>1, <1>2, <1>5, <3>4, <3>5, <3>6 DEF RecallsThen
    <3>7. CASE ~(now < start.packets)
      <4>1. now = start.packets
        BY <1>1, <3>7, NumbersAre DEF IInv
      <4>2. Swing(W) <= Whole
        BY <1>1, <1>2, <3>4, <3>5, Positive
      <4>3. Swung(W, N, Q, steady, Swing(W))
        <5>1. W[j].hi - Q \in Int /\ steady \in Int
          BY <1>1, <3>4, NumbersAre DEF IInv
        <5> QED BY <1>1, <1>2, <3>4, <3>5, <5>1, LowerSwung
      <4> QED BY <1>5, <4>1, <4>2, <4>3 DEF RecallsThen
    <3> QED BY <3>6, <3>7
  <2>3. steady \in Nat
    BY NumbersAre DEF IInv
  <2> QED BY <2>1, <2>2, <2>3, Positive
<1> HIDE DEF new
<1>9. swings' \subseteq [end : Nat, swing : 0 .. Burst]
  <2>1. CASE Swing(W) <= Burst
    BY <1>3, <1>4, <1>6, <2>1
  <2>2. CASE Swing(W) > Burst
    BY <1>3, <1>4, <2>2
  <2> QED BY <1>2, <2>1, <2>2, Positive
<1>10. \A s \in swings' : s.end <= N /\ (~failed => RecallsThen(s))
  <2> SUFFICES ASSUME NEW s \in swings' PROVE s.end <= N /\ (~failed => RecallsThen(s))
    OBVIOUS
  <2>1. s \in swings \/ s = new
    BY <1>3
  <2> QED BY <1>1, <1>4, <1>5, <1>7, <1>8, <2>1
<1> QED BY <1>1, <1>3, <1>4, <1>9, <1>10

\* The check at a window's end.  What is over is no more than what had stayed, and no
\* less than what a steady sound is behind beyond the margin (and, while there may be
\* bursts to remember, a burst's cushion).
LEMMA Checked ==
  ASSUME IInv, Ready, Len(W) = Windows, Remember(W, N)
  PROVE  /\ Excess(W, N) \in Int /\ Low(W) \in Nat
         /\ Excess(W, N) + Margin <= Low(W)
         /\ ~failed /\ steady > Whole => Excess(W, N) >= Q - Margin - Burst
         /\ ~failed /\ steady > Whole + Memory => Excess(W, N) >= Q - Margin
<1> DEFINE c == Cushion(N)  l == Low(W)  g == Swing(W)  e == Excess(W, N)
<1>1. /\ W \in Seq(SpanType) /\ Spanning(W, start.packets) /\ Len(W) > 0
      /\ start.packets \in Nat /\ N \in Nat /\ Q \in Nat
  BY WIs, ReadyIs DEF Surveys
<1>2. /\ l \in Nat /\ g \in Nat
      /\ \A k \in 1 .. Len(W) : l <= W[k].lo /\ W[k].hi - l <= g
      /\ \E k \in 1 .. Len(W) : l = W[k].lo
  BY <1>1, LowAndSwing
<1>3. /\ swings' \subseteq [end : Nat, swing : 0 .. Burst]
      /\ \A s \in swings' : s.end <= N /\ (~failed => RecallsThen(s))
  BY Remembering
<1>4. /\ c \in Nat /\ c <= Burst
      /\ c = 0 \/ \E s \in swings' : N - s.end < Memory /\ c = s.swing
  BY <1>1, <1>3, CushionIs
<1>5. e = l - Margin - Max({c - g, 0})
  BY DEF Excess
<1> HIDE DEF c, l, g, e
<1>6. e = l - Margin - (IF c - g >= 0 THEN c - g ELSE 0)
  BY <1>2, <1>4, <1>5, AtLeastNothing
<1>7. e \in Int /\ e + Margin <= l /\ e >= l - Margin - Burst
  <2>1. /\ l \in Nat /\ g \in Nat /\ c \in Nat /\ c <= Burst /\ Margin \in Nat /\ Burst \in Nat
    BY <1>2, <1>4, Positive
  <2>2. CASE c - g >= 0
    BY <1>6, <2>1, <2>2
  <2>3. CASE ~(c - g >= 0)
    BY <1>6, <2>1, <2>3
  <2> QED BY <2>2, <2>3
<1>8. ASSUME ~failed, steady > Whole PROVE l >= Q
  <2>1. PICK k \in 1 .. Len(W) : l = W[k].lo
    BY <1>2
  <2> QED BY <1>8, <2>1, AllClean
<1>9. ASSUME ~failed, steady > Whole + Memory PROVE e >= Q - Margin
  <2>1. steady \in Nat /\ steady > Whole /\ l >= Q
    BY <1>8, <1>9, Positive, NumbersAre DEF IInv
  <2>0. c \in Nat /\ g \in Nat /\ l \in Nat /\ Q \in Nat /\ Margin \in Nat
    BY <1>1, <1>2, <1>4, Positive
  <2> SUFFICES c - g <= l - Q
    <3>1. CASE c - g >= 0
      <4>1. e = l - Margin - (c - g)
        BY <1>6, <3>1
      <4> QED BY <2>0, <2>1, <4>1
    <3>2. CASE ~(c - g >= 0)
      <4>1. e = l - Margin - 0
        BY <1>6, <3>2
      <4> QED BY <2>0, <2>1, <4>1
    <3> QED BY <3>1, <3>2
  <2>2. CASE c = 0
    BY <1>1, <1>2, <2>1, <2>2
  <2>3. CASE c # 0
    <3>1. PICK s \in swings' : N - s.end < Memory /\ c = s.swing
      BY <1>4, <2>3
    <3>2. s \in [end : Nat, swing : 0 .. Burst] /\ RecallsThen(s)
      BY <1>3, <1>9, <3>1
    <3>3. ~(steady <= Whole + (N - s.end))
      BY <1>1, <1>9, <2>1, <3>1, <3>2, Positive
    <3>4. c <= Whole /\ Swung(W, N, Q, steady, c)
      BY <2>3, <3>1, <3>2, <3>3 DEF RecallsThen
    <3>5. 1 \in 1 .. Len(W) /\ N - W[1].start = Whole
      <4>1. W[1].start = N - Whole /\ Len(W) \in Nat
        BY <1>1, FirstIs
      <4> QED BY <1>1, <4>1, Positive
    <3>6. /\ W[1].hi \in Nat /\ N - W[1].start < steady
      BY <1>9, <2>1, <3>5, AllClean
    <3>7. W[1].hi - Q >= c
      BY <1>1, <1>4, <3>4, <3>5, <3>6, Positive DEF Swung
    <3>8. W[1].hi - l <= g
      BY <1>2, <3>5
    <3> QED BY <2>0, <3>6, <3>7, <3>8
  <2> QED BY <2>2, <2>3
<1>10. ASSUME ~failed, steady > Whole PROVE e >= Q - Margin - Burst
  <2>1. l >= Q
    BY <1>8, <1>10
  <2>2. e \in Int /\ e >= l - Margin - Burst
    BY <1>7
  <2>3. l \in Nat /\ Q \in Nat /\ Margin \in Nat /\ Burst \in Nat
    BY <1>1, <1>2, Positive
  <2> QED BY <2>1, <2>2, <2>3
<1> QED BY <1>2, <1>7, <1>9, <1>10 DEF e, l
\* Ends, with the names that this module gives to its LET.
LEMMA EndsIs ==
  ASSUME Ends(N, Q)
  PROVE  /\ seg # NoSpan /\ N - seg.start >= Segment
         /\ \/ /\ Len(W) < Windows /\ window' = W /\ seg' = Span(N, Q) /\ drop' = NoDrop
               /\ UNCHANGED <<swings, stallEnd>>
            \/ /\ ~(Len(W) < Windows) /\ Remember(W, N) /\ Excess(W, N) < Step
               /\ window' = W /\ seg' = Span(N, Q) /\ drop' = NoDrop
            \/ /\ ~(Len(W) < Windows) /\ Remember(W, N) /\ ~(Excess(W, N) < Step)
               /\ window' = <<>> /\ seg' = NoSpan
               /\ drop' = [from |-> N, to |-> N + Excess(W, N)]
  BY DEF Ends, W, Longer

\* A segment ends and nothing is dropped.
LEMMA EndsKeep ==
  ASSUME IInv, PlayedStep, Ends(N, Q), drop' = NoDrop
  PROVE  Measured' /\ Tiled' /\ Falling' /\ Remembered' /\ Lags'
<1> DEFINE x == Span(N, Q)
<1>1. /\ N = pts + 1 /\ pts' = N /\ N' = N /\ Q \in Nat /\ Q' = Q /\ N \in Nat /\ ~Busy /\ Busy'
      /\ Q <= start.packets
  BY PlaysAre DEF IInv
<1>2. Ready
  BY EndsIs DEF Ready, PlayedStep
<1>3. /\ window' = W /\ seg' = x
      /\ \/ Len(W) < Windows /\ UNCHANGED <<swings, stallEnd>>
         \/ ~(Len(W) < Windows) /\ Remember(W, N) /\ Excess(W, N) < Step
  <2>1. [from |-> N, to |-> N + Excess(W, N)] # NoDrop
    BY <1>1, Nothing
  <2> QED BY <2>1, EndsIs
<1>4. /\ Surveys(W) /\ Len(W) <= Windows /\ W[Len(W)].lo <= Q
      /\ \/ W = Longer /\ Len(W) = Len(window) + 1
         \/ Len(W) = Windows /\ Len(window) = Windows
  BY <1>2, WIs
<1>5. x \in SpanType /\ x # NoSpan /\ x.start = N /\ x.lo = Q /\ x.hi = Q
  BY <1>1, SpanIs
<1>6. UNCHANGED <<start, now, arrived, failed, steady>>
  BY DEF PlayedStep
<1>7. Spans' = Append(W, Span(N, Q))
  BY <1>3 DEF Spans
<1>8. /\ W \in Seq(SpanType) /\ Len(W) \in Nat /\ Len(W) > 0
      /\ Chain(W, seg.start) /\ Spanning(W, start.packets) /\ Covers(W, recent, pts)
      /\ N = seg.start + Segment /\ seg.start \in Nat /\ pts \in Nat /\ start.packets \in Nat
      /\ steady \in Nat /\ now \in Nat
  BY <1>2, <1>4, ReadyIs, NumbersAre DEF Surveys, IInv
<1>9. /\ Spans' \in Seq(SpanType) /\ Len(Spans') = Len(W) + 1 /\ Spans'[Len(W) + 1] = x
      /\ Spans'[1] = W[1]
  <2>1. 1 \in 1 .. Len(W)
    BY <1>8
  <2> QED BY <1>5, <1>7, <1>8, <2>1, AppendAt
<1>10. /\ recent' \in Seq(Nat) /\ Len(recent') <= WholeWindow /\ Len(recent) \in Nat
       /\ Len(recent') \in Nat
       /\ Len(recent') >= WholeWindow \/ Len(recent') = Len(recent) + 1
  BY SampledOf DEF IInv
<1>11. stallEnd' \in Nat /\ swings' \subseteq [end : Nat, swing : 0 .. Burst]
       /\ \A s \in swings' : s.end <= N /\ (~failed => RecallsThen(s))
  <2>1. CASE Len(W) < Windows
    <3>1. UNCHANGED <<swings, stallEnd>> /\ seg # NoSpan
      BY <1>2, <1>3, <2>1 DEF Ready
    <3>2. /\ stallEnd \in Nat /\ swings \subseteq [end : Nat, swing : 0 .. Burst]
          /\ \A s \in swings : s.end <= N
      BY DEF IInv, Measured
    <3>3. ASSUME ~failed, NEW s \in swings PROVE RecallsThen(s)
      <4>1. s.swing \in Int
        BY <3>2, Positive
      <4>2. Swung(Spans, N, Q, steady, s.swing) => Swung(W, N, Q, steady, s.swing)
        BY <1>4, <3>3, <4>1 DEF Surveys
      <4> QED BY <3>1, <3>3, <4>2 DEF RecallsThen, Recalls, IInv, Remembered
    <3> QED BY <3>1, <3>2, <3>3
  <2>2. CASE ~(Len(W) < Windows)
    <3>1. Len(W) = Windows
      BY <1>4, <1>8, <2>2, Positive
    <3> QED BY <1>2, <1>3, <2>2, <3>1, Remembering
  <2> QED BY <2>1, <2>2
<1> HIDE DEF x
<1>12. Measured'
  BY <1>1, <1>3, <1>4, <1>5, <1>8, <1>10, <1>11 DEF Measured
<1>13. Tiled'
  <2>1. Chain(Spans', N) /\ Spanning(Spans', start.packets)
    <3>1. x.start = seg.start + Segment /\ x.lo <= x.hi /\ x.hi <= start.packets
      BY <1>1, <1>5, <1>8
    <3> QED BY <1>5, <1>7, <1>8, <3>1, AppendKeeps DEF x
  <2>2. Covers(Spans', recent', N)
    <3>1. Covers(Spans', recent, pts)
      BY <1>5, <1>7, <1>8, AppendCovers DEF x
    <3>2. /\ Len(W) + 1 \in 1 .. Len(Spans')
          /\ Spans'[Len(W) + 1].start <= pts + 1
          /\ pts + 1 < Spans'[Len(W) + 1].start + Segment
          /\ Spans'[Len(W) + 1].lo <= Q
      BY <1>1, <1>5, <1>8, <1>9, Positive
    <3>3. recent' = Sampled(Q) /\ recent \in Seq(Nat)
      BY DEF PlayedStep, IInv, Measured
    <3> DEFINE sp == Spans'
    <3> HIDE DEF sp
    <3>4. Covers(sp, Sampled(Q), pts + 1)
      BY <1>1, <1>8, <3>1, <3>2, <3>3, SampleCovers DEF sp
    <3> QED BY <1>1, <3>3, <3>4 DEF sp
  <2>3. Len(recent') >= WholeWindow \/ Len(recent') >= Len(W) * Segment + (N - x.start) + 1
    <3> DEFINE a == Len(recent)  b == Len(recent')
               u == Len(W) * Segment  v == Len(window) * Segment
    <3>1. WholeWindow \in Nat /\ Len(window) \in Nat /\ seg # NoSpan
      BY <1>2, Positive, SpansAre DEF WholeWindow, Whole, Ready, IInv
    <3>2. u \in Nat /\ v \in Nat /\ u <= v + Segment
      <4>1. u \in Nat /\ v \in Nat /\ (Len(window) + 1) * Segment = v + Segment
        BY <1>8, <3>1, Distributes
      <4>2. Len(W) = Len(window) + 1 \/ Len(W) = Len(window)
        BY <1>4
      <4>3. u = v + Segment \/ u = v
        BY <4>1, <4>2
      <4> HIDE DEF u, v
      <4> QED BY <4>1, <4>3, Positive
    <3>3. a >= WholeWindow \/ a >= v + (pts - seg.start) + 1
      BY <3>1 DEF IInv, Tiled
    <3>4. pts - seg.start = Segment - 1 /\ N - x.start = 0
      BY <1>1, <1>5, <1>8, Positive
    <3>5. a \in Nat /\ b \in Nat /\ (b >= WholeWindow \/ b = a + 1)
      BY <1>10
    <3> HIDE DEF a, b, u, v
    <3>6. b >= WholeWindow \/ b >= u + (N - x.start) + 1
      BY <3>1, <3>2, <3>3, <3>4, <3>5, Positive
    <3> QED BY <3>6 DEF b, u
  <2>4. x.start <= N /\ N - x.start < Segment
    BY <1>1, <1>5, Positive
  <2> QED BY <1>1, <1>3, <1>5, <1>6, <2>1, <2>2, <2>3, <2>4 DEF Tiled
<1>14. Falling'
  <2> SUFFICES ASSUME ~failed PROVE Falls(Spans', N, Q, steady, now, start.packets)
    BY <1>1, <1>6 DEF Falling
  <2>1. Falls(W, N, Q, steady, now, start.packets)
    BY <1>4 DEF Surveys
  <2>2. steady \in Int /\ now \in Int /\ start.packets \in Int
    BY <1>8
  <2> QED BY <1>1, <1>7, <1>8, <2>1, <2>2, AppendFalls
<1>15. Remembered'
  <2> SUFFICES ASSUME ~failed', NEW s \in swings' PROVE Recalls(s)'
    BY DEF Remembered
  <2>1. RecallsThen(s) /\ s.swing \in Int
    BY <1>6, <1>11, Positive
  <2>2. Swung(W, N, Q, steady, s.swing) => Swung(Spans', N, Q, steady, s.swing)
    <3>1. steady \in Int /\ now \in Int /\ start.packets \in Int
      BY <1>8
    <3> QED BY <1>1, <1>7, <1>8, <2>1, <3>1, AppendFalls
  <2> QED BY <1>1, <1>6, <2>1, <2>2 DEF Recalls, RecallsThen
<1>16. CASE Len(W) < Windows
  <2>1. Len(window) < Windows /\ W = Longer /\ seg # NoSpan
    BY <1>2, <1>4, <1>8, <1>16, SpansAre, Positive DEF Ready, IInv
  <2>2. Spans'[1].start = Spans[1].start
    BY <1>2, <1>9, <2>1, LongerIs
  <2>3. drop = NoDrop /\ ~(Len(window) = Windows)
    BY <2>1, SpansAre, Positive DEF IInv, Measured
  <2>4. ASSUME NEW bound \in Nat, NEW t \in Nat, Lag(bound, t) PROVE Lag(bound, t)'
    BY <1>1, <1>3, <1>5, <1>6, <1>16, <2>1, <2>2, <2>3, <2>4 DEF Lag
  <2> QED BY <2>4, <1>12, <1>13, <1>14, <1>15, Positive DEF Lags, IInv
<1>17. CASE ~(Len(W) < Windows)
  <2>1. Len(W) = Windows
    BY <1>4, <1>8, <1>17, Positive
  <2>2. /\ Excess(W, N) \in Int /\ Excess(W, N) < Step
        /\ ~failed /\ steady > Whole => Excess(W, N) >= Q - Margin - Burst
        /\ ~failed /\ steady > Whole + Memory => Excess(W, N) >= Q - Margin
    BY <1>2, <1>3, <1>17, <2>1, Checked
  <2>3. ASSUME NEW bound \in Nat, NEW t \in Nat, ~failed /\ steady > Whole + t => ~(Q >= bound)
        PROVE  Lag(bound, t)'
    <3> SUFFICES ASSUME ~failed, Q >= bound
                 PROVE  Len(W) = Windows /\ steady <= N - x.start + Whole + t
      BY <1>1, <1>3, <1>5, <1>6 DEF Lag
    <3>1. N - x.start = 0
      BY <1>1, <1>5
    <3>2. ~(steady > Whole + t)
      BY <2>3
    <3>3. steady <= 0 + Whole + t
      BY <1>8, <3>2, Positive
    <3> QED BY <2>1, <3>1, <3>3
  <2>4. ~failed /\ steady > Whole + 0 => ~(Q >= Margin + Step + Burst)
    BY <1>1, <1>8, <2>2, Positive
  <2>5. ~failed /\ steady > Whole + Memory => ~(Q >= Margin + Step)
    BY <1>1, <1>8, <2>2, Positive
  <2>6. Lags'
    BY <2>3, <2>4, <2>5, Positive DEF Lags
  <2> QED BY <2>6, <1>12, <1>13, <1>14, <1>15
<1> QED BY <1>16, <1>17
\* What a packet that is read and dropped leaves as it is.
DroppedStep ==
  /\ demux = "read" /\ pts < arrived /\ pts' = pts + 1 /\ demux' = "read"
  /\ recent' = <<>> /\ UNCHANGED <<start, now, arrived, failed, steady>>

\* The queue is a packet shorter after one that is dropped.
LEMMA DropsAre ==
  ASSUME Bounds, DroppedStep
  PROVE  /\ N = pts + 1 /\ pts' = N /\ N' = N + 1 /\ Q \in Nat /\ Q' = Q - 1 /\ N \in Nat /\ ~Busy
         /\ ~Busy' /\ Q = arrived - N
<1>1. /\ pts \in Nat /\ arrived \in Nat /\ pts < arrived /\ pts' = pts + 1 /\ arrived' = arrived
  BY NumbersAre DEF DroppedStep, Bounds
<1>2. ~Busy /\ ~Busy'
  BY DEF DroppedStep, Busy
<1>3. N = pts + 1 /\ N' = pts' + 1
  BY <1>2 DEF N
<1> QED BY <1>1, <1>2, <1>3 DEF Q

\* No span is open after a packet that is dropped.
LEMMA DropsLeave ==
  ASSUME IInv, DroppedStep, window' = <<>>, seg' = NoSpan,
         drop' \in [from : Nat, to : Nat], stallEnd' \in Nat,
         swings' \subseteq [end : Nat, swing : 0 .. Burst],
         \A s \in swings' : /\ s.end <= N
                            /\ ~failed => \/ steady <= Whole + (N - s.end) \/ s.swing = 0
                                          \/ now = start.packets /\ s.swing <= Whole
  PROVE  Measured' /\ Tiled' /\ Falling' /\ Remembered'
<1>1. pts' = N /\ N' = N + 1 /\ ~Busy' /\ N \in Nat
  BY DropsAre DEF IInv
<1>2. UNCHANGED <<start, now, arrived, failed, steady>> /\ recent' = <<>>
  BY DEF DroppedStep
<1>3. steady \in Nat
  BY NumbersAre DEF IInv
<1>4. \A s \in swings' : s.end \in Nat
  OBVIOUS
<1>5. Measured'
  <2>1. /\ <<>> \in Seq(SpanType) /\ <<>> \in Seq(Nat) /\ Len(<<>>) = 0
        /\ 0 <= Windows /\ 0 <= WholeWindow
    BY Positive DEF WholeWindow, Whole
  <2>2. \A s \in swings' : s.end <= N'
    BY <1>1, <1>4
  <2> QED BY <1>1, <1>2, <2>1, <2>2 DEF Measured
<1>6. Tiled' /\ Falling'
  BY DEF Tiled, Falling
<1>7. Remembered'
  <2> SUFFICES ASSUME ~failed', NEW s \in swings' PROVE Recalls(s)'
    BY DEF Remembered
  <2>1. \/ steady <= Whole + (N - s.end) \/ s.swing = 0
        \/ now = start.packets /\ s.swing <= Whole
    BY <1>2
  <2>2. steady <= Whole + (N - s.end) => steady <= Whole + ((N + 1) - s.end)
    BY <1>1, <1>3, <1>4, Positive
  <2> QED BY <1>1, <1>2, <2>1, <2>2 DEF Recalls
<1> QED BY <1>5, <1>6, <1>7

\* The drop in progress takes another packet.
LEMMA DropGoesOn ==
  ASSUME IInv, DroppedStep, drop # NoDrop, UNCHANGED backlogVars
  PROVE  Measured' /\ Tiled' /\ Falling' /\ Remembered' /\ Lags'
<1>1. UNCHANGED <<window, seg, swings, stallEnd, drop>>
  BY DEF backlogVars
<1>2. /\ drop \in [from : Nat, to : Nat] /\ seg = NoSpan /\ window = <<>> /\ stallEnd \in Nat
      /\ swings \subseteq [end : Nat, swing : 0 .. Burst] /\ \A s \in swings : s.end <= N
  BY DEF IInv, Measured
<1>3. /\ N' = N + 1 /\ Q \in Nat /\ Q' = Q - 1 /\ N \in Nat /\ ~Busy /\ ~Busy'
  BY DropsAre DEF IInv
<1>4. ASSUME NEW s \in swings, ~failed
      PROVE  \/ steady <= Whole + (N - s.end) \/ s.swing = 0
             \/ now = start.packets /\ s.swing <= Whole
  BY <1>4 DEF IInv, Remembered, Recalls
<1>5. Measured' /\ Tiled' /\ Falling' /\ Remembered'
  BY <1>1, <1>2, <1>4, DropsLeave
<1>6. ASSUME NEW bound \in Nat, NEW t \in Nat, Lag(bound, t) PROVE Lag(bound, t)'
  <2>1. Q' >= bound => Q >= bound
    BY <1>3
  <2>2. UNCHANGED <<start, now, arrived, failed, steady>>
    BY DEF DroppedStep
  <2> QED BY <1>1, <1>2, <1>3, <1>6, <2>1, <2>2 DEF Lag
<1>7. Lags'
  BY <1>6, Positive DEF Lags, IInv
<1> QED BY <1>5, <1>7

\* A segment ends with a drop.
LEMMA DropBegins ==
  ASSUME IInv, DroppedStep, Ends(N, Q), drop' # NoDrop
  PROVE  Measured' /\ Tiled' /\ Falling' /\ Remembered' /\ Lags'
<1>1. Ready
  BY EndsIs DEF Ready, DroppedStep
<1>2. /\ ~(Len(W) < Windows) /\ Remember(W, N) /\ ~(Excess(W, N) < Step)
      /\ window' = <<>> /\ seg' = NoSpan
      /\ drop' = [from |-> N, to |-> N + Excess(W, N)]
  BY EndsIs
<1>3. Len(W) = Windows
  BY <1>1, <1>2, WIs, Positive DEF Surveys
<1>4. /\ N = pts + 1 /\ pts' = N /\ N' = N + 1 /\ Q \in Nat /\ Q' = Q - 1 /\ N \in Nat
      /\ ~Busy' /\ Q = arrived - N
  BY DropsAre DEF IInv
<1>5. /\ Excess(W, N) \in Int
      /\ ~failed /\ steady > Whole => Excess(W, N) >= Q - Margin - Burst
      /\ ~failed /\ steady > Whole + Memory => Excess(W, N) >= Q - Margin
  BY <1>1, <1>2, <1>3, Checked
<1>6. /\ stallEnd' \in Nat /\ swings' \subseteq [end : Nat, swing : 0 .. Burst]
      /\ \A s \in swings' : s.end <= N /\ (~failed => RecallsThen(s))
  BY <1>1, <1>2, <1>3, Remembering
<1>7. drop' \in [from : Nat, to : Nat] /\ drop'.to = N + Excess(W, N)
  <2>1. N + Excess(W, N) \in Nat
    <3>1. Excess(W, N) \in Int /\ ~(Excess(W, N) < Step)
      BY <1>2, <1>5
    <3>2. N \in Nat /\ Step \in Nat
      BY <1>4, Positive
    <3> QED BY <3>1, <3>2
  <2> QED BY <1>2, <1>4, <2>1
<1>8. Measured' /\ Tiled' /\ Falling' /\ Remembered'
  BY <1>2, <1>6, <1>7, DropsLeave DEF RecallsThen
<1>9. UNCHANGED <<start, now, arrived, failed, steady>> /\ steady \in Nat /\ arrived \in Nat
  BY NumbersAre DEF DroppedStep, IInv
<1>10. ASSUME NEW bound \in Nat, NEW t \in Nat,
              ~failed /\ steady > Whole + t => arrived - (N + Excess(W, N)) < bound
       PROVE  Lag(bound, t)'
  <2> SUFFICES ASSUME ~failed PROVE steady <= Whole + t \/ arrived - (N + Excess(W, N)) < bound
    BY <1>2, <1>4, <1>7, <1>9 DEF Lag
  <2>1. steady <= Whole + t \/ steady > Whole + t
    BY <1>9, Positive
  <2> QED BY <1>10, <2>1
<1>11. arrived - (N + Excess(W, N)) = Q - Excess(W, N)
  BY <1>4, <1>5, <1>9
<1>12. ~failed /\ steady > Whole + 0 => Q - Excess(W, N) < Margin + Step + Burst
  BY <1>4, <1>5, <1>9, Positive
<1>13. ~failed /\ steady > Whole + Memory => Q - Excess(W, N) < Margin + Step
  BY <1>4, <1>5, <1>9, Positive
<1>14. Lags'
  BY <1>10, <1>11, <1>12, <1>13, Positive DEF Lags
<1> QED BY <1>8, <1>14

\* Whatever is done with a packet that is read.
LEMMA ReadKeeps ==
  ASSUME IInv, Read, Bounds'
  PROVE  Measured' /\ Tiled' /\ Falling' /\ Remembered' /\ Lags'
<1>1. /\ demux = "read" /\ pts < arrived /\ pts' = pts + 1
      /\ UNCHANGED <<start, now, arrived, failed>>
  BY DEF Read, netVars, sinkVars
<1>2. N = pts + 1 /\ Q = arrived - pts'
  BY <1>1 DEF N, Q, Busy
<1>3. pts' = N /\ arrived - pts' = Q
  BY <1>1, <1>2
<1>4. CASE SkipDrops(N, Q) /\ recent' = <<>> /\ UNCHANGED <<demux, steady>>
  <2>1. DroppedStep
    BY <1>1, <1>4 DEF DroppedStep
  <2>2. CASE Dropping(N, Q) /\ UNCHANGED backlogVars
    BY <2>1, <2>2, DropGoesOn DEF Dropping
  <2>3. CASE Ends(N, Q) /\ drop' # NoDrop
    BY <2>1, <2>3, DropBegins
  <2> QED BY <1>4, <2>2, <2>3 DEF SkipDrops
<1>5. CASE SkipPlays(N, Q) /\ recent' = Sampled(Q) /\ demux' = "write" /\ UNCHANGED steady
  <2>1. PlayedStep
    BY <1>1, <1>5 DEF PlayedStep, SkipPlays
  <2>2. CASE Begins(N, Q)
    BY <2>1, <2>2, BeginsKeep
  <2>3. CASE GoesOn(N, Q)
    BY <2>1, <2>3, GoesOnKeep
  <2>4. CASE Ends(N, Q) /\ drop' = NoDrop
    BY <2>1, <2>4, EndsKeep
  <2> QED BY <1>5, <2>2, <2>3, <2>4 DEF SkipPlays
<1>6. CASE Restart /\ recent' = <<>> /\ demux' = "write" /\ steady' = 0
  <2>1. N' = N
    BY <1>3, <1>6 DEF N, Busy
  <2>2. /\ <<>> \in Seq(SpanType) /\ <<>> \in Seq(Nat) /\ Len(<<>>) = 0
        /\ 0 <= Windows /\ 0 <= WholeWindow
    BY Positive DEF WholeWindow, Whole
  <2>3. Measured'
    BY <1>6, <2>1, <2>2 DEF Measured, Restart, IInv
  <2>4. Tiled'
    BY <1>6 DEF Tiled, Restart
  <2> QED BY <1>6, <2>3, <2>4, RestKeeps
<1>7. \/ SkipDrops(N, Q) /\ recent' = <<>> /\ UNCHANGED <<demux, steady>>
      \/ SkipPlays(N, Q) /\ recent' = Sampled(Q) /\ demux' = "write" /\ UNCHANGED steady
      \/ Restart /\ recent' = <<>> /\ demux' = "write" /\ steady' = 0
  <2>1. \/ SkipDrops(pts', arrived - pts') /\ recent' = <<>> /\ UNCHANGED <<demux, steady>>
        \/ /\ SkipPlays(pts', arrived - pts') /\ recent' = Sampled(arrived - pts')
           /\ demux' = "write" /\ UNCHANGED steady
        \/ Restart /\ recent' = <<>> /\ demux' = "write" /\ steady' = 0
    BY DEF Read
  <2>2. SkipDrops(pts', arrived - pts') => SkipDrops(N, Q)
    BY <1>3
  <2>3. SkipPlays(pts', arrived - pts') => SkipPlays(N, Q)
    BY <1>3
  <2> QED BY <1>3, <2>1, <2>2, <2>3
<1> QED BY <1>4, <1>5, <1>6, <1>7

\* Every step keeps the invariant.
LEMMA Steps == ASSUME IInv, [Next]_vars PROVE IInv'
<1>1. Bounds'
  BY BoundsKept DEF IInv
<1>2. CASE Still
  BY <1>1, <1>2, StillKeeps DEF IInv
<1>3. CASE Idles
  <2>1. Measured' /\ Tiled'
    BY <1>3, OthersKeep
  <2>2. steady' = 0 \/ failed'
    BY <1>3 DEF Idles
  <2> QED BY <1>1, <2>1, <2>2, RestKeeps DEF IInv
<1>4. CASE Writes
  BY <1>1, <1>4, OthersKeep, WritesKeep DEF IInv
<1>5. CASE Read
  BY <1>1, <1>5, ReadKeeps DEF IInv
<1> QED BY <1>2, <1>3, <1>4, <1>5, Kinds DEF IInv

\* The invariant holds in every state, whatever the parameters and the session.
THEOREM Inductive == Spec => []IInv
  BY Start, Steps, PTL DEF Spec
-----------------------------------------------------------------------------
\* Two windows and a segment of steady sound (and, to forget the bursts, Memory): the
\* last check has seen nothing else, and would have dropped what is over.
LEMMA Bounded ==
  ASSUME Bounds, Measured, Tiled, demux = "write", Paces,
         NEW bound \in Nat, NEW t \in Nat, Lag(bound, t),
         steady >= t + (2 * Windows + 1) * Segment
  PROVE  arrived - pts < bound
<1>1. /\ Busy /\ N = pts /\ pts \in Nat /\ arrived \in Nat /\ steady \in Nat /\ ~failed
      /\ drop = NoDrop /\ Q = arrived - pts
  BY NumbersAre DEF Busy, N, Q, Measured, Paces, Plays
<1>2. (2 * Windows + 1) * Segment = Whole + Whole + Segment
  <2>1. \A a, b \in Nat : (2 * a + 1) * b = a * b + a * b + b
    OBVIOUS
  <2> QED BY <2>1, Positive DEF Whole
<1>3. steady > 0 /\ steady >= t + Whole + Whole + Segment
  BY <1>1, <1>2, Positive
<1> SUFFICES ASSUME Q >= bound PROVE FALSE
  BY <1>1
<1>4. /\ seg # NoSpan
      /\ \/ steady <= N - Spans[1].start
         \/ Len(window) < Windows /\ steady <= N - Spans[1].start + Whole + t
         \/ Len(window) = Windows /\ steady <= N - seg.start + Whole + t
  BY <1>1, <1>3 DEF Lag
<1>5. /\ seg.start \in Nat /\ Len(window) \in Nat
      /\ Spans[1].start = seg.start - Len(window) * Segment
      /\ Len(window) <= Windows /\ pts - seg.start < Segment
  BY <1>4, SpansAre DEF Measured, Tiled
<1> DEFINE u == Len(window) * Segment  a == Spans[1].start  e == seg.start
<1>6. u \in Nat /\ u <= Whole /\ (Len(window) < Windows => u + Segment <= Whole)
  <2>1. u \in Nat /\ u <= Whole
    BY <1>5, Distributes, Monotone, Positive DEF Whole
  <2>2. ASSUME Len(window) < Windows PROVE u + Segment <= Whole
    <3>1. Len(window) + 1 \in Nat /\ Len(window) + 1 <= Windows /\ Windows \in Nat
      BY <1>5, <2>2, Positive
    <3>2. (Len(window) + 1) * Segment <= Whole
      BY <3>1, Monotone DEF Whole
    <3> QED BY <1>5, <3>2, Distributes
  <2> QED BY <2>1, <2>2
<1>7. /\ e \in Nat /\ a = e - u /\ pts - e < Segment
  BY <1>5
<1>8. \/ steady <= N - a
      \/ Len(window) < Windows /\ steady <= N - a + Whole + t
      \/ steady <= N - e + Whole + t
  BY <1>4
<1> HIDE DEF u, a, e
<1>9. ~(steady <= N - a)
  BY <1>1, <1>3, <1>6, <1>7, Positive
<1>10. ~(Len(window) < Windows /\ steady <= N - a + Whole + t)
  BY <1>1, <1>3, <1>6, <1>7, Positive
<1>11. ~(steady <= N - e + Whole + t)
  BY <1>1, <1>3, <1>7, Positive
<1> QED BY <1>8, <1>9, <1>10, <1>11

\* Sound that comes and plays steadily trails the device by no more than the margin and
\* a burst's cushion after a window, and by the margin alone once the bursts before are
\* forgotten, whatever happened earlier (src/audiobacklog.go:13-46).
THEOREM LagBoundedCorrect == Spec => []LagBounded
<1>1. IInv => LagBounded
  <2> SUFFICES ASSUME IInv, demux = "write", Paces
               PROVE  /\ steady >= (2 * Windows + 1) * Segment
                           => arrived - pts < Margin + Step + Burst
                      /\ steady >= Memory + (2 * Windows + 1) * Segment
                           => arrived - pts < Margin + Step
    BY DEF LagBounded
  <2>1. /\ Margin + Step + Burst \in Nat /\ Margin + Step \in Nat /\ 0 \in Nat /\ Memory \in Nat
        /\ (2 * Windows + 1) * Segment \in Int
    BY Positive
  <2>2. Bounds /\ Measured /\ Tiled /\ Lag(Margin + Step + Burst, 0) /\ Lag(Margin + Step, Memory)
    BY DEF IInv, Lags
  <2>3. ASSUME steady >= (2 * Windows + 1) * Segment PROVE arrived - pts < Margin + Step + Burst
    <3>1. steady >= 0 + (2 * Windows + 1) * Segment
      BY <2>1, <2>3
    <3> QED BY <2>1, <2>2, <3>1, Bounded
  <2>4. ASSUME steady >= Memory + (2 * Windows + 1) * Segment PROVE arrived - pts < Margin + Step
    BY <2>1, <2>2, <2>4, Bounded
  <2> QED BY <2>3, <2>4
<1> QED BY <1>1, Inductive, PTL

\* How old a sample of a whole window can be.
LEMMA OldEnough ==
  \A p, w, k, i, d \in Int :
    i >= 1 /\ k = w + 1 /\ d = (k - i) - 1 => p - d >= (p + 1) - w
OBVIOUS

\* The step that starts a drop.
LEMMA DropTakesStayed ==
  ASSUME IInv, Ready, Ends(N, Q), drop' # NoDrop
  PROVE  /\ Len(Sampled(Q)) = WholeWindow
         /\ \A i \in DOMAIN Sampled(Q) : drop'.to - drop'.from + Margin <= Sampled(Q)[i]
<1>1. /\ ~(Len(W) < Windows) /\ Remember(W, N)
      /\ drop' = [from |-> N, to |-> N + Excess(W, N)]
  BY EndsIs
<1>2. /\ Surveys(W) /\ Len(W) <= Windows /\ W[Len(W)].lo <= Q
      /\ Len(window) \in Nat /\ (Len(W) = Len(window) + 1 \/ Len(window) = Windows)
  BY WIs, SpansAre DEF IInv, Ready
<1>3. /\ Len(W) = Windows /\ Len(W) > 0 /\ Len(W) \in Nat /\ W \in Seq(SpanType)
      /\ Covers(W, recent, pts) /\ Spanning(W, start.packets)
  BY <1>1, <1>2, Positive DEF Surveys
<1>4. /\ Excess(W, N) \in Int /\ Excess(W, N) + Margin <= Low(W) /\ Low(W) \in Nat
  BY <1>1, <1>3, Checked
<1>5. /\ N = pts + 1 /\ pts \in Nat /\ N \in Nat /\ Q \in Nat
      /\ N = seg.start + Segment /\ seg.start \in Nat /\ start.packets \in Nat
  BY ReadyIs
<1>6. drop'.to - drop'.from + Margin <= Low(W)
  BY <1>1, <1>4, <1>5, Positive
<1>7. \A k \in 1 .. Len(W) : Low(W) <= W[k].lo /\ W[k].lo \in Nat
  <2>1. \A k \in 1 .. Len(W) : Low(W) <= W[k].lo
    BY <1>3, <1>5, LowAndSwing
  <2>2. ASSUME NEW k \in 1 .. Len(W) PROVE W[k].lo \in Nat
    <3>1. W[k] \in SpanType
      BY <1>3
    <3> QED BY <3>1 DEF SpanType
  <2> QED BY <2>1, <2>2
<1> DEFINE s == Sampled(Q)
<1>8. /\ recent \in Seq(Nat) /\ Len(recent) <= WholeWindow /\ Len(recent) \in Nat
      /\ Len(recent) >= WholeWindow \/ Len(recent) >= Len(window) * Segment + (pts - seg.start) + 1
  BY DEF IInv, Measured, Tiled, Ready
<1>9. /\ s \in Seq(Nat) /\ s[Len(s)] = Q
      /\ Len(s) = (IF Len(recent) + 1 > WholeWindow THEN Len(recent) ELSE Len(recent) + 1)
      /\ \A i \in 1 .. Len(s) - 1 : \E h \in 1 .. Len(recent) :
           s[i] = recent[h] /\ Len(recent) - h = (Len(s) - i) - 1
  BY <1>5, <1>8, SampledAt
<1> HIDE DEF s
<1>10. WholeWindow = Whole + 1 /\ Whole \in Nat /\ WholeWindow \in Nat
  BY Positive DEF WholeWindow, Whole
<1>11. Len(s) = WholeWindow
  <2> DEFINE v == Len(window) * Segment  a == Len(recent)
  <2>1. v \in Nat /\ v + Segment >= Whole
    <3>1. v \in Nat /\ (Len(window) + 1) * Segment = v + Segment
      BY <1>2, Distributes
    <3>2. Windows \in Nat /\ Len(window) + 1 \in Nat /\ Windows <= Len(window) + 1
      BY <1>2, <1>3, Positive
    <3> QED BY <3>1, <3>2, Monotone DEF Whole
  <2>2. a >= WholeWindow \/ a >= v + (pts - seg.start) + 1
    BY <1>8
  <2>3. pts - seg.start = Segment - 1
    BY <1>5, Positive
  <2>4. a \in Nat /\ a <= WholeWindow
    BY <1>8
  <2> HIDE DEF v, a
  <2>5. a >= WholeWindow \/ a + 1 >= WholeWindow
    BY <1>10, <2>1, <2>2, <2>3, <2>4, Positive
  <2>6. Len(s) = (IF a + 1 > WholeWindow THEN a ELSE a + 1)
    BY <1>9 DEF a
  <2> QED BY <1>10, <2>4, <2>5, <2>6
<1>12. ASSUME NEW i \in 1 .. Len(s) PROVE Low(W) <= s[i]
  <2>1. CASE i = Len(s)
    <3>1. Len(W) \in 1 .. Len(W)
      BY <1>3
    <3>2. Low(W) <= W[Len(W)].lo /\ W[Len(W)].lo \in Nat
      BY <1>7, <3>1
    <3>3. W[Len(W)].lo <= Q /\ s[i] = Q
      BY <1>2, <1>9, <2>1
    <3>4. Low(W) \in Nat /\ Q \in Nat
      BY <1>4, <1>5
    <3> QED BY <3>2, <3>3, <3>4
  <2>2. CASE i # Len(s)
    <3>1. i \in 1 .. Len(s) - 1
      BY <1>10, <1>11, <2>2
    <3>2. PICK h \in 1 .. Len(recent) : s[i] = recent[h] /\ Len(recent) - h = (Len(s) - i) - 1
      BY <1>9, <3>1
    <3>3. pts - (Len(recent) - h) >= W[1].start
      <4>1. W[1].start = N - Whole
        BY <1>3, FirstIs
      <4> DEFINE d == Len(recent) - h
      <4>2. d = (Len(s) - i) - 1 /\ d \in Int
        BY <1>8, <3>2
      <4> HIDE DEF d
      <4>3. pts - d >= N - Whole
        <5>1. N = pts + 1 /\ pts \in Nat /\ Whole \in Nat
          BY <1>5, <1>10
        <5>2. i \in Nat /\ i >= 1 /\ Len(s) = Whole + 1
          <6>1. Len(s) \in Nat
            BY <1>10, <1>11
          <6>2. i \in Nat /\ i >= 1
            BY <3>1, <6>1
          <6> QED BY <1>10, <1>11, <6>2
        <5> QED BY <4>2, <5>1, <5>2, OldEnough
      <4> QED BY <4>1, <4>3 DEF d
    <3>4. PICK k \in 1 .. Len(W) : W[k].lo <= recent[h]
      BY <1>3, <3>3 DEF Covers
    <3>5. recent[h] \in Nat
      BY <1>8
    <3>6. Low(W) <= W[k].lo /\ W[k].lo \in Nat /\ Low(W) \in Nat
      BY <1>4, <1>7
    <3>7. Low(W) <= recent[h]
      BY <3>4, <3>5, <3>6
    <3> QED BY <3>2, <3>7
  <2> QED BY <2>1, <2>2
<1> DEFINE d == drop'.to - drop'.from + Margin
<1>13. d \in Int /\ d <= Low(W)
  BY <1>1, <1>4, <1>5, <1>6, Positive
<1> HIDE DEF d
<1>14. \A i \in 1 .. Len(s) : d <= s[i]
  <2> SUFFICES ASSUME NEW i \in 1 .. Len(s) PROVE d <= s[i]
    OBVIOUS
  <2>1. s[i] \in Nat
    BY <1>9
  <2> QED BY <1>4, <1>12, <1>13, <2>1
<1>15. DOMAIN s = 1 .. Len(s)
  BY <1>9
<1> QED BY <1>11, <1>14, <1>15 DEF s, d

\* A drop takes only what had stayed queued for a whole window, and leaves the margin of
\* it (src/audiobacklog.go:83-97).
THEOREM DropOnlyStayedCorrect == Spec => DropOnlyStayed
<1>1. ASSUME IInv, [Next]_vars, drop # drop', drop' # NoDrop
      PROVE  LET queues == Sampled(arrived - pts') IN
             /\ Len(queues) = WholeWindow
             /\ \A i \in DOMAIN queues : drop'.to - drop'.from + Margin <= queues[i]
  <2>1. Read
    BY <1>1, Kinds DEF IInv, Still, Idles, Writes
  <2>2. demux = "read" /\ pts < arrived /\ pts' = pts + 1
    BY <2>1 DEF Read
  <2>3. pts' = N /\ arrived - pts' = Q
    BY <2>2 DEF N, Q, Busy
  <2>4. SkipDrops(pts', arrived - pts') \/ SkipPlays(pts', arrived - pts') \/ Restart
    BY <2>1 DEF Read
  <2>5. SkipDrops(N, Q) \/ SkipPlays(N, Q) \/ Restart
    BY <2>3, <2>4
  <2>6. Ends(N, Q)
    BY <1>1, <2>5 DEF SkipDrops, SkipPlays, Begins, GoesOn, Restart, backlogVars
  <2>7. Ready
    BY <2>2, <2>6, EndsIs DEF Ready
  <2> QED BY <1>1, <2>3, <2>6, <2>7, DropTakesStayed
<1>2. IInv /\ [Next]_vars =>
        [drop # drop' /\ drop' # NoDrop =>
           LET queues == Sampled(arrived - pts') IN
           /\ Len(queues) = WholeWindow
           /\ \A i \in DOMAIN queues : drop'.to - drop'.from + Margin <= queues[i]]_vars
  BY <1>1
<1> QED BY <1>2, Inductive, PTL DEF Spec, DropOnlyStayed

\* The stream is open while a write plays on it.
LEMMA OpenWhileWriting == ASSUME StreamSafe, [Next]_vars PROVE StreamSafe'
<1> USE DEF StreamSafe, demuxVars, sinkVars
<1>1. CASE demux' = demux /\ (stream' = stream \/ demux # "writing" \/ stream' = "open")
  BY <1>1
<1>2. CASE demux' # "writing"
  BY <1>2
<1>3. CASE NoSink \/ Try \/ NextRound \/ Tick \/ Quit \/ World
  BY <1>1, <1>3 DEF NoSink, Try, NextRound, Tick, Quit, World, Stall, StallEnds, Suspend, Resume,
                    ToggleMute, SelectSink
<1>4. CASE Begin \/ Written \/ WriteFails \/ SoundStops \/ WriteNothing
  BY <1>2, <1>4 DEF Begin, Written, WriteFails, SoundStops, WriteNothing
<1>5. CASE Read
  BY <1>2, <1>5 DEF Read
<1>6. CASE WriteBegins
  BY <1>6 DEF WriteBegins
<1>7. CASE PlayAudioCloses \/ Shutdown
  BY <1>1, <1>7 DEF PlayAudioCloses, Shutdown, Close, Locked
<1>8. CASE Asked(FollowerLooks) \/ Asked(FollowerLists) \/ Asked(FollowerMoves) \/ Asked(PactlFails)
  BY <1>1, <1>8 DEF Asked
<1>9. CASE UNCHANGED vars
  BY <1>1, <1>9 DEF vars
<1> QED BY <1>3, <1>4, <1>5, <1>6, <1>7, <1>8, <1>9 DEF Next, DemuxStep

\* The stream is not freed while a write plays on it (src/audio.go:614-625).
THEOREM StreamSafeCorrect == Spec => []StreamSafe
<1>1. Init => StreamSafe
  BY DEF Init, StreamSafe
<1> QED BY <1>1, OpenWhileWriting, PTL DEF Spec
=============================================================================
