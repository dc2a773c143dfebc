---------------------------- MODULE TargetProofs ----------------------------
(***************************************************************************)
(* Proofs about the serving device (android/peer).                         *)
(*                                                                         *)
(* TargetSessions, for any number of connections, keys, backends and admin *)
(* tasks: nothing stays held down on the device when its holder loses the  *)
(* lease or the connection, no media connection serves after its session's *)
(* end, and the server's lease, with its threads and its tracker,          *)
(* implements InputLease.                                                  *)
(*                                                                         *)
(* MediaFanout, for any number of viewers, starts and capture sessions and *)
(* any budget: a viewer that is stuck holds no more than its budget, and   *)
(* nothing that a viewer is sent is undecodable when it comes.             *)
(***************************************************************************)
EXTENDS TargetSessions, MediaFanout, FiniteSetTheorems, WellFoundedInduction, NaturalsInduction,
        TLAPS


\* A connection that has not been registered is on no list and its session has not
\* ended; what a thread has in hand is there at the places where it uses it.
InPlace(s) ==
  /\ pc[s] \in {"none", "install", "register"} =>
       s \notin sessions /\ s \notin alist /\ epc[s] = "no"
  /\ pc[s] = "install" => created[s] \in Backends
  /\ pc[s] = "forward" => msg[s] \in Press

\* A backend that takes no input holds nothing down, and what one that does holds
\* down was pressed by a session that has noted it: the holder of the lease.
DeadHoldsNothing == backend \in stopped \cup {NoBackend} => down = {}

\* Once its sockets have been closed a session has no media connection that serves.
MediaClosed == \A s \in Sessions : epc[s] \in {"tell", "done"} => media[s] # "serving"

Typed == TypeOK /\ \A s \in Sessions : InPlace(s)
LeaseInv == NothingStuck /\ DeadHoldsNothing
IInv == Typed /\ LeaseInv /\ MediaClosed

USE NoneIsNoSession, MaxSessionsPositive, MaxHelperPositive, MaxTasksNatural

\* A server that has just started has no connections and holds nothing down.
LEMMA InitIInv == Init => IInv
BY DEF Init, IInv, Typed, TypeOK, InPlace, LeaseInv, NothingStuck, DeadHoldsNothing, MediaClosed,
   ThreadAt, EndAt, MediaAt, Backends, NoBackend

-----------------------------------------------------------------------------
(* Types, and where the threads are. *)

\* A handshake (TargetServer.handleControl, obtainBackend) keeps the types and places.
LEMMA HandshakeTyped ==
  ASSUME Typed, NEW s \in Sessions, Handshake(s) PROVE Typed'
<1> USE DEF Typed, TypeOK, InPlace, ThreadAt, EndAt, Goto, ending, input, helper, adminThread
<1>1. CASE Hello(s)
  BY <1>1 DEF Hello, Backends
<1>2. CASE InstallBackend(s)
  BY <1>2 DEF InstallBackend, NoBackend
<1>3. CASE Register(s)
  BY <1>3 DEF Register
<1>4. CASE TakeFreeLease(s)
  BY <1>4 DEF TakeFreeLease
<1>5. CASE Welcome(s)
  BY <1>5 DEF Welcome, SendLease
<1>6. CASE Announce(s)
  BY <1>6 DEF Announce
<1>7. CASE \E t \in Sessions : TellOther(s, t)
  BY <1>7 DEF TellOther, SendLease
<1> QED BY <1>1, <1>2, <1>3, <1>4, <1>5, <1>6, <1>7 DEF Handshake

\* So does the control loop (runControl, forward, takeover).
LEMMA LoopTyped ==
  ASSUME Typed, NEW s \in Sessions, Loop(s) PROVE Typed'
<1> USE DEF Typed, TypeOK, InPlace, ThreadAt, EndAt, Goto, ending, input, helper, adminThread
<1>1. CASE LoopTop(s) \/ ReadBye(s) \/ ReadEnds(s)
  BY <1>1 DEF LoopTop, ReadBye, ReadEnds
<1>2. CASE \E m \in Press : ReadInput(s, m)
  BY <1>2 DEF ReadInput
<1>3. CASE Forward(s)
  <2>1. msg[s] \in Press /\ msg[s][2] \in Keys
    BY <1>3 DEF Forward, Press
  <2>2. tracker' \in [Sessions -> SUBSET Keys] /\ down' \subseteq Keys
    BY <1>3, <2>1 DEF Forward, Perform
  <2> QED BY <1>3, <2>2 DEF Forward
<1>4. CASE Takeover(s)
  BY <1>4 DEF Takeover, Released
<1>5. CASE TellPrev(s) \/ TellSelf(s)
  BY <1>5 DEF TellPrev, TellSelf, SendLease
<1> QED BY <1>1, <1>2, <1>3, <1>4, <1>5 DEF Loop

\* So does the end of a session (Session.end), by whichever thread.
LEMMA EndTyped ==
  ASSUME Typed, NEW s \in Sessions, End(s) PROVE Typed'
<1> USE DEF Typed, TypeOK, InPlace, ThreadAt, EndAt, MediaAt, Goto, thread, input, helper,
            adminThread
<1>1. CASE EndItself(s)
  BY <1>1 DEF EndItself, Ended
<1>2. CASE EndRelease(s)
  BY <1>2 DEF EndRelease, Released
<1>3. CASE EndRemove(s)
  BY <1>3 DEF EndRemove
<1>4. CASE EndClose(s)
  BY <1>4 DEF EndClose
<1>5. CASE \E t \in Sessions : EndTell(s, t)
  BY <1>5 DEF EndTell, SendLease
<1>6. CASE EndDone(s)
  BY <1>6 DEF EndDone
<1> QED BY <1>1, <1>2, <1>3, <1>4, <1>5, <1>6 DEF End

\* So does the admin thread; it ends no session that is not on the server's list.
LEMMA AdminTyped == ASSUME Typed, Admin PROVE Typed'
<1> USE DEF Typed, TypeOK, InPlace, EndAt, thread, ending, input, helper
<1>1. ASSUME NEW task \in Sessions \cup {"all"}, Submit(task) \/ AdminTask(task) PROVE Typed'
  BY <1>1 DEF Submit, AdminTask
<1>2. ASSUME NEW s \in Sessions, AdminEnds(s) PROVE Typed'
  BY <1>2 DEF AdminEnds, Ended
<1>3. CASE AdminGoesOn
  BY <1>3 DEF AdminGoesOn
<1> QED BY <1>1, <1>2, <1>3 DEF Admin

\* So does a media connection (handleMedia, addSubscription).
LEMMA MediaTyped ==
  ASSUME Typed, NEW s \in Sessions, Media(s) PROVE Typed'
BY DEF Media, ClaimChannel, AddSubscription, Subscribed, Typed, TypeOK, InPlace, MediaAt,
   thread, ending, input, helper, adminThread

\* So does the death of the helper (Sink.stopped, TargetService's provider).
LEMMA HelperTyped == ASSUME Typed, HelperDies PROVE Typed'
BY DEF HelperDies, Typed, TypeOK, InPlace, Backends, NoBackend, thread, ending

\* So does any step.
LEMMA NextTyped == Typed /\ [Next]_vars => Typed'
<1> SUFFICES ASSUME Typed, [Next]_vars PROVE Typed'
  OBVIOUS
<1>1. CASE UNCHANGED vars
  BY <1>1 DEF vars, Typed, TypeOK, InPlace
<1> QED
  BY <1>1, HandshakeTyped, LoopTyped, EndTyped, AdminTyped, MediaTyped, HelperTyped DEF Next

-----------------------------------------------------------------------------
(* The lease, and what is held down. *)

\* What the lease holder has down is all there is, so that releasing it leaves nothing.
LEMMA ReleasedIsAll ==
  ASSUME Typed, LeaseInv, NEW s \in Sessions PROVE
    /\ leaseHolder = s => Released(s) = {}
    /\ leaseHolder # s => tracker[s] = {} /\ Released(s) = down
    /\ leaseHolder = None => down = {}
BY DEF Typed, TypeOK, LeaseInv, NothingStuck, DeadHoldsNothing, Released

\* A step that leaves the lease, the input and the backend alone.
LEMMA InputKept ==
  ASSUME LeaseInv, UNCHANGED <<input, helper>> PROVE LeaseInv' /\ [Lease!Next]_<<leaseHolder, down>>
BY DEF LeaseInv, NothingStuck, DeadHoldsNothing, input, helper

\* Whatever a step does to the lease, to InputTracker and to the device, nothing is stuck
\* after it, and it is a step of InputLease or leaves the lease and the input alone.
LEMMA LeaseStep ==
  ASSUME Typed, LeaseInv, [Next]_vars PROVE LeaseInv' /\ [Lease!Next]_<<leaseHolder, down>>
<1> USE DEF Typed, TypeOK
<1>1. CASE UNCHANGED vars
  BY <1>1, InputKept DEF vars, input, helper
<1>2. ASSUME NEW s \in Sessions, InstallBackend(s)
      PROVE  LeaseInv' /\ [Lease!Next]_<<leaseHolder, down>>
  <2>1. down' \in {down, {}} /\ UNCHANGED <<leaseHolder, tracker>>
    BY <1>2 DEF InstallBackend
  <2>2. NothingStuck'
    BY <2>1 DEF LeaseInv, NothingStuck
  <2>3. DeadHoldsNothing'
    BY <1>2 DEF InstallBackend, LeaseInv, DeadHoldsNothing, NoBackend, InPlace
  <2>4. [Lease!Next]_<<leaseHolder, down>>
    BY <2>1 DEF Lease!Next, Lease!AllUp
  <2> QED BY <2>2, <2>3, <2>4 DEF LeaseInv
<1>3. ASSUME NEW s \in Sessions, TakeFreeLease(s)
      PROVE  LeaseInv' /\ [Lease!Next]_<<leaseHolder, down>>
  <2>1. CASE leaseHolder = None
    <3>1. leaseHolder' = s /\ UNCHANGED <<tracker, down, backend, stopped>> /\ down = {}
          /\ \A t \in Sessions : tracker[t] = {}
      BY <1>3, <2>1, ReleasedIsAll DEF TakeFreeLease, helper
    <3>2. Lease!Pass(s)
      BY <3>1 DEF Lease!Pass
    <3> QED BY <3>1, <3>2 DEF LeaseInv, NothingStuck, DeadHoldsNothing, Lease!Next
  <2>2. CASE leaseHolder # None
    BY <1>3, <2>2, InputKept DEF TakeFreeLease, input
  <2> QED BY <2>1, <2>2
<1>4. ASSUME NEW s \in Sessions, Hello(s) \/ Register(s) \/ Welcome(s) \/ Announce(s)
                                 \/ \E t \in Sessions : TellOther(s, t)
      PROVE  LeaseInv' /\ [Lease!Next]_<<leaseHolder, down>>
  BY <1>4, InputKept DEF Hello, Register, Welcome, Announce, TellOther
<1>5. ASSUME NEW s \in Sessions, \/ LoopTop(s) \/ (\E m \in Press : ReadInput(s, m))
                                 \/ TellPrev(s) \/ TellSelf(s) \/ ReadBye(s) \/ ReadEnds(s)
      PROVE  LeaseInv' /\ [Lease!Next]_<<leaseHolder, down>>
  BY <1>5, InputKept DEF LoopTop, ReadInput, TellPrev, TellSelf, ReadBye, ReadEnds
<1>6. ASSUME NEW s \in Sessions, Forward(s)
      PROVE  LeaseInv' /\ [Lease!Next]_<<leaseHolder, down>>
  <2>1. CASE UNCHANGED <<tracker, down>>
    BY <1>6, <2>1, InputKept DEF Forward, input
  <2>2. CASE leaseHolder = s /\ backend \notin stopped \cup {NoBackend} /\ Perform(s)
    <3> DEFINE key == msg[s][2]
    <3>1. key \in Keys
      BY <1>6 DEF Forward, InPlace, Press
    <3>2. /\ \/ down' = down \cup {key} /\ tracker' = [tracker EXCEPT ![s] = @ \cup {key}]
             \/ down' = down \ {key} /\ tracker' = [tracker EXCEPT ![s] = @ \ {key}]
          /\ UNCHANGED <<leaseHolder, backend, stopped>>
      BY <1>6, <2>2 DEF Forward, Perform, helper
    <3>3. down \subseteq tracker[s] /\ \A t \in Sessions : t # s => tracker[t] = {}
      BY <2>2 DEF LeaseInv, NothingStuck
    <3>4. NothingStuck'
      BY <2>2, <3>2, <3>3 DEF NothingStuck
    <3>5. DeadHoldsNothing'
      BY <2>2, <3>2 DEF DeadHoldsNothing
    <3>6. [Lease!Next]_<<leaseHolder, down>>
      BY <2>2, <3>1, <3>2 DEF Lease!Next, Lease!Press, Lease!LetGo
    <3> QED BY <3>4, <3>5, <3>6 DEF LeaseInv
  <2> QED BY <1>6, <2>1, <2>2 DEF Forward
<1>7. ASSUME NEW s \in Sessions, Takeover(s)
      PROVE  LeaseInv' /\ [Lease!Next]_<<leaseHolder, down>>
  <2>1. leaseHolder' = s /\ UNCHANGED <<backend, stopped>>
    BY <1>7 DEF Takeover, helper
  <2>2. CASE leaseHolder = s
    BY <1>7, <2>2, InputKept DEF Takeover, input
  <2>3. CASE leaseHolder # s
    <3>1. down' = {} /\ \A t \in Sessions : tracker'[t] = {}
      BY <1>7, <2>3, ReleasedIsAll DEF Takeover
    <3>2. Lease!Pass(s)
      BY <2>1, <3>1 DEF Lease!Pass
    <3> QED BY <2>1, <3>1, <3>2 DEF LeaseInv, NothingStuck, DeadHoldsNothing, Lease!Next
  <2> QED BY <2>2, <2>3
<1>8. ASSUME NEW s \in Sessions, EndRelease(s)
      PROVE  LeaseInv' /\ [Lease!Next]_<<leaseHolder, down>>
  <2>1. CASE leaseHolder = s
    <3>1. /\ leaseHolder' = None /\ down' = {} /\ UNCHANGED <<backend, stopped>>
          /\ \A t \in Sessions : tracker'[t] = {}
      BY <1>8, <2>1, ReleasedIsAll DEF EndRelease, helper
    <3>2. Lease!Pass(None)
      BY <3>1 DEF Lease!Pass
    <3> QED BY <3>1, <3>2 DEF LeaseInv, NothingStuck, DeadHoldsNothing, Lease!Next
  <2>2. CASE leaseHolder # s
    <3>1. UNCHANGED <<input, helper>>
      BY <1>8, <2>2, ReleasedIsAll DEF EndRelease, input
    <3> QED BY <3>1, InputKept
  <2> QED BY <2>1, <2>2
<1>9. ASSUME NEW s \in Sessions, \/ EndItself(s) \/ EndRemove(s) \/ EndClose(s) \/ EndDone(s)
                                 \/ (\E t \in Sessions : EndTell(s, t))
      PROVE  LeaseInv' /\ [Lease!Next]_<<leaseHolder, down>>
  BY <1>9, InputKept DEF EndItself, EndRemove, EndClose, EndDone, EndTell
<1>10. ASSUME Admin \/ \E s \in Sessions : Media(s)
      PROVE  LeaseInv' /\ [Lease!Next]_<<leaseHolder, down>>
  BY <1>10, InputKept DEF Admin, Submit, AdminTask, AdminEnds, AdminGoesOn, Media, ClaimChannel,
     AddSubscription, Subscribed
<1>11. CASE HelperDies
  <2>1. down' = {} /\ UNCHANGED <<leaseHolder, tracker>>
    BY <1>11 DEF HelperDies
  <2> QED BY <2>1 DEF LeaseInv, NothingStuck, DeadHoldsNothing, Lease!Next, Lease!AllUp
<1> QED
  BY <1>1, <1>2, <1>3, <1>4, <1>5, <1>6, <1>7, <1>8, <1>9, <1>10, <1>11
     DEF Next, Handshake, Loop, End

-----------------------------------------------------------------------------
(* Media connections. *)

\* Once a session's sockets have been closed (Session.end), addSubscription's second look
\* at Session.ended keeps a late media connection from serving.
LEMMA MediaStep == Typed /\ MediaClosed /\ [Next]_vars => MediaClosed'
<1> SUFFICES ASSUME Typed, MediaClosed, [Next]_vars PROVE MediaClosed'
  OBVIOUS
<1> USE DEF Typed, TypeOK, MediaClosed
<1>1. ASSUME NEW s \in Sessions, Media(s) PROVE MediaClosed'
  BY <1>1 DEF Media, ClaimChannel, AddSubscription, Subscribed, Ended, ending
<1>2. ASSUME NEW s \in Sessions, EndClose(s) PROVE MediaClosed'
  BY <1>2 DEF EndClose
<1>3. ASSUME NEW s \in Sessions, EndItself(s) \/ EndRelease(s) \/ EndRemove(s) PROVE MediaClosed'
  BY <1>3 DEF EndItself, EndRelease, EndRemove
<1>4. ASSUME NEW s \in Sessions, EndDone(s) \/ \E t \in Sessions : EndTell(s, t)
      PROVE  MediaClosed'
  BY <1>4 DEF EndDone, EndTell
<1>5. ASSUME NEW s \in Sessions, AdminEnds(s) PROVE MediaClosed'
  BY <1>5 DEF AdminEnds
<1>6. CASE UNCHANGED <<epc, media>>
  BY <1>6
<1>7. ASSUME NEW s \in Sessions, Handshake(s) \/ Loop(s) PROVE UNCHANGED <<epc, media>>
  BY <1>7 DEF Handshake, Hello, InstallBackend, Register, TakeFreeLease, Welcome, Announce,
     TellOther, Loop, LoopTop, ReadInput, Forward, Takeover, TellPrev, TellSelf, ReadBye,
     ReadEnds, ending
<1>8. CASE HelperDies \/ AdminGoesOn \/ \E task \in Sessions \cup {"all"} :
                                          Submit(task) \/ AdminTask(task)
  BY <1>8 DEF HelperDies, AdminGoesOn, Submit, AdminTask, ending
<1>9. CASE UNCHANGED vars
  BY <1>9 DEF vars
<1> QED BY <1>1, <1>2, <1>3, <1>4, <1>5, <1>6, <1>7, <1>8, <1>9 DEF Next, End, Admin

-----------------------------------------------------------------------------
\* The invariant of TargetServer.kt's threads that the others follow from.
THEOREM Inductive == Spec => []IInv
<1>1. IInv /\ [Next]_vars => IInv'
  BY NextTyped, LeaseStep, MediaStep DEF IInv
<1> QED BY InitIInv, <1>1, PTL DEF Spec

\* The types hold for any number of connections, keys and backends (TargetServer.kt).
THEOREM TypeCorrect == Spec => []TypeOK
<1>1. IInv => TypeOK
  BY DEF IInv, Typed
<1> QED BY <1>1, Inductive, PTL

\* What is down on the device was pressed by the lease holder, who has it noted, so that
\* takeover and Session.end release it; input of others is refused (forward's second look
\* at the lease, under inputLock).
THEOREM NothingStuckCorrect == Spec => []NothingStuck
<1>1. IInv => NothingStuck
  BY DEF IInv, LeaseInv
<1> QED BY <1>1, Inductive, PTL

\* No media connection serves a session whose end is over, also when it was opened while
\* Session.end ran (handleMedia, addSubscription).
THEOREM NoOrphanMediaCorrect == Spec => []NoOrphanMedia
<1>1. IInv => NoOrphanMedia
  BY DEF IInv, MediaClosed, NoOrphanMedia
<1> QED BY <1>1, Inductive, PTL

\* The server implements InputLease: its lease changes hands with nothing held down, and
\* nothing is pressed while nobody has it (takeover, forward, Session.end).
THEOREM RefinesInputLease == Spec => LeaseKept
<1>1. Init => Lease!Init
  BY DEF Init, Lease!Init
<1>2. IInv /\ [Next]_vars => [Lease!Next]_<<leaseHolder, down>>
  BY LeaseStep DEF IInv
<1> QED BY <1>1, <1>2, Inductive, PTL DEF Spec, LeaseKept, Lease!Spec

-----------------------------------------------------------------------------
(***************************************************************************)
(* MediaFanout.                                                            *)
(***************************************************************************)
USE ViewersFinite, BoundsNat, CycleSeesAGap

\* A non-empty set of numbers has a least one.
LEMMA LeastOf ==
  ASSUME NEW S \in SUBSET Nat, S # {}
  PROVE  \E m \in S : \A x \in S : m <= x
<1> DEFINE Less == OpToRel(<, Nat)
<1>1. IsWellFoundedOn(Less, Nat)
  BY NatLessThanWellFounded
<1>2. \A x, y \in Nat : x < y => <<x, y>> \in Less
  BY DEF OpToRel
<1> HIDE DEF Less
<1>3. PICK m \in S : \A y \in S : ~(<<y, m>> \in Less)
  BY <1>1, WFMin
<1>4. ASSUME NEW x \in S PROVE m <= x
  <2>1. ~(x < m)
    <3>1. x \in Nat /\ m \in Nat
      OBVIOUS
    <3> QED BY <1>2, <1>3, <3>1, Zenon
  <2> QED BY <2>1
<1> QED BY <1>4

\* A queue has room for a packet.
LEMMA RoomForOne == MaxQueue \in Nat /\ MaxQueue > 0 /\ MaxSession \in Nat /\ MaxSession > 0
BY BoundsNat

\* The numbers from 1 to n are n.
LEMMA UpTo ==
  ASSUME NEW n \in Nat
  PROVE  IsFiniteSet(1 .. n) /\ Cardinality(1 .. n) = n
<1>1. 1 \in Int /\ n \in Int
  OBVIOUS
<1>2. IsFiniteSet(1 .. n) /\ Cardinality(1 .. n) = IF 1 > n THEN 0 ELSE n - 1 + 1
  BY ONLY <1>1, FS_Interval, Zenon
<1> QED BY <1>2

\* Indices of a queue are finitely many.
LEMMA IndicesFinite ==
  ASSUME NEW q \in Seq(Items), NEW S, S \subseteq DOMAIN q
  PROVE  /\ IsFiniteSet(S) /\ Cardinality(S) \in Nat /\ Cardinality(S) <= Len(q)
         /\ S \subseteq Nat
<1>1. DOMAIN q = 1 .. Len(q) /\ Len(q) \in Nat
  OBVIOUS
<1>2. IsFiniteSet(1 .. Len(q)) /\ Cardinality(1 .. Len(q)) = Len(q)
  BY <1>1, UpTo
<1>3. S \in SUBSET (1 .. Len(q))
  BY <1>1
<1>4. IsFiniteSet(S) /\ Cardinality(S) <= Len(q)
  BY <1>2, <1>3, FS_Subset
<1>5. Cardinality(S) \in Nat
  BY <1>4, FS_CardinalityType
<1> QED BY <1>1, <1>3, <1>4, <1>5

\* Nth counts through the members of a finite set of numbers.
LEMMA NthOf ==
  ASSUME NEW S \in SUBSET Nat, IsFiniteSet(S), NEW j \in 1 .. Cardinality(S)
  PROVE  /\ Nth(S, j) \in S
         /\ Cardinality({k \in S : k <= Nth(S, j)}) = j
<1> DEFINE upTo(i) == {k \in S : k <= i}
           n == Cardinality(S)
           count == [i \in S |-> Cardinality(upTo(i))]
<1>1. n \in Nat
  BY FS_CardinalityType
<1>2. ASSUME NEW i \in S
      PROVE  IsFiniteSet(upTo(i)) /\ Cardinality(upTo(i)) \in 1 .. n
  <2>1. upTo(i) \in SUBSET S /\ upTo(i) # {}
    BY i <= i
  <2>2. IsFiniteSet(upTo(i)) /\ Cardinality(upTo(i)) <= n
    BY <2>1, FS_Subset
  <2>3. Cardinality(upTo(i)) \in Nat /\ Cardinality(upTo(i)) # 0
    BY <2>1, <2>2, FS_EmptySet, FS_CardinalityType
  <2> QED BY <2>2, <2>3, <1>1
<1>3. ASSUME NEW i \in S, NEW k \in S, i < k
      PROVE  Cardinality(upTo(i)) # Cardinality(upTo(k))
  <2>1. upTo(i) \in SUBSET upTo(k)
    <3>1. \A m \in S : m \in Nat
      OBVIOUS
    <3>2. \A m \in S : m <= i => m <= k
      BY <3>1, <1>3
    <3> QED BY <3>2
  <2>2. k \in upTo(k) /\ k \notin upTo(i)
    BY <1>3
  <2>3. Cardinality(upTo(k)) = Cardinality(upTo(i)) => upTo(k) = upTo(i)
    BY <2>1, <1>2, FS_Subset
  <2> QED BY <2>2, <2>3
<1>4. count \in Injection(S, 1 .. n)
  <2>1. count \in [S -> 1 .. n]
    BY <1>2
  <2>2. ASSUME NEW i \in S, NEW k \in S, count[i] = count[k] PROVE i = k
    <3>1. i \in Nat /\ k \in Nat
      OBVIOUS
    <3>2. CASE i < k
      BY <3>2, <2>2, <1>3
    <3>3. CASE k < i
      BY <3>3, <2>2, <1>3
    <3> QED BY <3>1, <3>2, <3>3
  <2> QED BY <2>1, <2>2 DEF Injection, IsInjective
<1>5. IsFiniteSet(1 .. n) /\ Cardinality(1 .. n) = n
  BY <1>1, UpTo
<1>6. count \in Surjection(S, 1 .. n)
  BY <1>4, <1>5, FS_Injection
<1>7. \E i \in S : count[i] = j
  BY <1>6 DEF Surjection
<1>8. \E i \in S : Cardinality({k \in S : k <= i}) = j
  BY <1>7
<1> HIDE DEF upTo, n, count
<1> QED BY <1>8 DEF Nth

\* The loop of offerMedia for sound comes to an end: with everything dropped it has enough.
LEMMA ShedEnds ==
  ASSUME NEW q \in Seq(Items), NEW old \in Nat
  PROVE  \E e \in 0 .. Len(q) : Enough(q, e, old) /\ \A f \in 0 .. e - 1 : ~Enough(q, f, old)
<1> DEFINE S == {e \in 0 .. Len(q) : Enough(q, e, old)}
<1>1. Enough(q, Len(q), old)
  <2> SUFFICES ASSUME NEW i \in LeftOf(q, Len(q)), i \in PacketsOf(q) PROVE FALSE
    BY DEF Enough
  <2> DEFINE upTo == {j \in PacketsOf(q) : j <= i}
  <2>1. Cardinality(upTo) > Len(q)
    BY DEF LeftOf
  <2>2. upTo \subseteq DOMAIN q
    BY DEF PacketsOf
  <2>3. Cardinality(upTo) \in Nat /\ Cardinality(upTo) <= Len(q)
    BY <2>2, IndicesFinite
  <2> HIDE DEF upTo
  <2> QED BY <2>1, <2>3
<1>2. S \in SUBSET Nat /\ S # {}
  BY <1>1
<1>3. PICK e \in S : \A f \in S : e <= f
  BY <1>2, LeastOf
<1>4. e \in 0 .. Len(q) /\ Enough(q, e, old)
  BY <1>3
<1>5. ASSUME NEW f \in 0 .. e - 1 PROVE ~Enough(q, f, old)
  <2>1. f \in 0 .. Len(q) /\ ~(e <= f)
    BY <1>4
  <2> QED BY <2>1, <1>3
<1> QED BY <1>4, <1>5

\* What is left of a sound viewer's queue is a queue, with room for a packet.
LEMMA ShedLeaves ==
  ASSUME NEW q \in Seq(Items), NEW old \in Nat
  PROVE  /\ Shed(q, old) \in Seq(Items)
         /\ Cardinality(PacketsOf(Shed(q, old))) < MaxQueue
<1> DEFINE d == CHOOSE e \in 0 .. Len(q) :
                  Enough(q, e, old) /\ \A f \in 0 .. e - 1 : ~Enough(q, f, old)
           left == LeftOf(q, d)
           n == Cardinality(left)
           rest == [j \in 1 .. n |-> q[Nth(left, j)]]
           kept == left \cap PacketsOf(q)
<1>1. Shed(q, old) = rest
  BY DEF Shed
<1>2. Enough(q, d, old)
  BY ShedEnds
<1>3. left \subseteq DOMAIN q /\ kept \subseteq DOMAIN q
  BY DEF LeftOf
<1>4. IsFiniteSet(left) /\ n \in Nat /\ left \in SUBSET Nat
  BY <1>3, IndicesFinite
<1>5. IsFiniteSet(kept) /\ Cardinality(kept) \in Nat
  BY <1>3, IndicesFinite
<1>6. Cardinality(kept) < MaxQueue
  <2>1. CASE kept = {}
    <3>1. Cardinality(kept) = 0
      BY <2>1, FS_EmptySet
    <3> HIDE DEF kept
    <3> QED BY <3>1, RoomForOne
  <2>2. CASE Cardinality(kept) < MaxQueue
    BY <2>2
  <2> HIDE DEF d
  <2> QED BY <1>2, <2>1, <2>2 DEF Enough
<1> HIDE DEF d, left, n
<1>7. \A j \in 1 .. n : /\ Nth(left, j) \in left
                        /\ Cardinality({k \in left : k <= Nth(left, j)}) = j
  BY <1>4, NthOf DEF n
<1>8. rest \in Seq(Items)
  <2>1. \A j \in 1 .. n : q[Nth(left, j)] \in Items
    <3>1. \A i \in DOMAIN q : q[i] \in Items
      OBVIOUS
    <3>2. \A j \in 1 .. n : Nth(left, j) \in DOMAIN q
      BY <1>3, <1>7
    <3> QED BY <3>1, <3>2
  <2> QED BY <2>1, <1>4
<1>9. PacketsOf(rest) = {j \in 1 .. n : Nth(left, j) \in PacketsOf(q)}
  BY <1>3, <1>7 DEF PacketsOf
<1>10. Cardinality(PacketsOf(rest)) <= Cardinality(kept)
  <2> DEFINE f == [j \in PacketsOf(rest) |-> Nth(left, j)]
  <2>1. f \in [PacketsOf(rest) -> kept]
    BY <1>7, <1>9
  <2>2. ASSUME NEW j \in PacketsOf(rest), NEW k \in PacketsOf(rest), f[j] = f[k] PROVE j = k
    BY <2>2, <1>7, <1>9
  <2>3. f \in Injection(PacketsOf(rest), kept)
    BY <2>1, <2>2 DEF Injection, IsInjective
  <2> QED BY <2>3, <1>5, FS_Injection
<1>11. Cardinality(PacketsOf(rest)) \in Nat
  <2>1. PacketsOf(rest) \subseteq DOMAIN rest
    BY DEF PacketsOf
  <2> QED BY <2>1, <1>8, IndicesFinite
<1>12. Cardinality(PacketsOf(rest)) < MaxQueue
  <2> HIDE DEF kept, rest
  <2> QED BY <1>5, <1>6, <1>10, <1>11
<1> QED BY <1>1, <1>8, <1>12

-----------------------------------------------------------------------------
(* Types. *)

\* What a decoder has seen stays within the stream's numbers.
LEMMA DecodeTyped ==
  ASSUME NEW x \in Decoders, NEW m \in Items
  PROVE  Decode(x, m) \in Decoders
<1> USE DEF Decoders, Items
<1> DEFINE y == [x EXCEPT !.ok = x.ok /\ Fits(x, m)]
<1>1. y \in Decoders
  <2>1. (x.ok /\ Fits(x, m)) \in BOOLEAN
    BY Zenon
  <2> QED BY <2>1
<1>2. m.n \in 0 .. MaxSession /\ m.i \in 0 .. Cycle /\ NoPacket \in 0 .. Cycle
  BY CycleSeesAGap DEF NoPacket
<1>3. Decode(x, m) \in {[y EXCEPT !.session = m.n, !.config = 0, !.packet = NoPacket],
                        [y EXCEPT !.config = m.n], [y EXCEPT !.packet = m.i]}
  BY ZenonT(30) DEF Decode
<1> HIDE DEF y
<1>4. 0 \in 0 .. MaxSession
  BY RoomForOne
<1> QED BY <1>1, <1>2, <1>3, <1>4

\* So has a decoder that has been sent nothing.
LEMMA BlankTyped == Blank \in Decoders
BY BoundsNat, CycleSeesAGap DEF Blank, Decoders, NoPacket

\* The setup is a short queue.
LEMMA SetupTyped ==
  ASSUME FanoutTypeOK
  PROVE  /\ session \o config \in Seq(Items)
         /\ \A x \in Decoders : AfterSetup(x) \in Decoders
<1>1. session \in Seq(Items) /\ config \in Seq(Items)
  <2>1. \A item \in Items : <<item>> \in Seq(Items)
    OBVIOUS
  <2>2. {session, config} \subseteq {<<>>} \cup {<<item>> : item \in Items}
    BY DEF FanoutTypeOK
  <2> HIDE DEF FanoutTypeOK
  <2>3. ASSUME NEW setup \in {<<>>} \cup {<<item>> : item \in Items} PROVE setup \in Seq(Items)
    <3>1. CASE setup = <<>>
      BY <3>1
    <3>2. CASE \E item \in Items : setup = <<item>>
      BY <3>2, <2>1
    <3> QED BY <3>1, <3>2
  <2> QED BY <2>2, <2>3
<1>2. session # <<>> => session[1] \in Items
  BY DEF FanoutTypeOK
<1>3. config # <<>> => config[1] \in Items
  BY DEF FanoutTypeOK
<1> QED BY <1>1, <1>2, <1>3, DecodeTyped DEF AfterSetup

\* A field that is given a decoder, a queue or a flag is a subscriber's still.
LEMMA FieldTyped ==
  ASSUME NEW r \in Subscribers
  PROVE  /\ \A x \in Decoders : [r EXCEPT !.ahead = x] \in Subscribers
         /\ \A q \in Seq(Items) : [r EXCEPT !.queue = q] \in Subscribers
         /\ \A w \in BOOLEAN : [r EXCEPT !.waiting = w] \in Subscribers
         /\ r.ahead \in Decoders /\ r.seen \in Decoders /\ r.queue \in Seq(Items)
         /\ r.header \in 0 .. MaxStart
BY DEF Subscribers

\* A subscriber given an item is one still, and as open as before.
LEMMA PutTyped ==
  ASSUME NEW r \in Subscribers, NEW item \in Items
  PROVE  Put(r, item) \in Subscribers /\ Put(r, item).state = r.state
<1>1. Decode(r.ahead, item) \in Decoders
  BY FieldTyped, DecodeTyped
<1>2. Append(r.queue, item) \in Seq(Items)
  BY FieldTyped
<1> QED BY <1>1, <1>2 DEF Put, Subscribers

\* So is one that is cut back.
LEMMA CutBackTyped ==
  ASSUME FanoutTypeOK, NEW r \in Subscribers
  PROVE  CutBack(r) \in Subscribers /\ CutBack(r).state = r.state
<1>1. [r.seen EXCEPT !.start = r.header] \in Decoders
  <2>1. r.seen \in Decoders /\ r.header \in 0 .. MaxStart
    BY FieldTyped
  <2> HIDE DEF FanoutTypeOK
  <2> QED BY <2>1 DEF Decoders
<1>2. AfterSetup([r.seen EXCEPT !.start = r.header]) \in Decoders
  BY <1>1, SetupTyped
<1>3. session \o config \in Seq(Items)
  BY SetupTyped
<1> HIDE DEF FanoutTypeOK
<1> QED BY <1>2, <1>3 DEF CutBack, Subscribers

\* What a subscriber may have become of r when it was offered a packet.
Offered(r, x) ==
  x \in Subscribers /\ x.state = r.state /\ (r.state # "open" => x = r)

\* A packet reaches open subscribers only, and leaves them open.
LEMMA OfferTyped ==
  ASSUME FanoutTypeOK, NEW r \in Subscribers, NEW item \in Items, NEW old \in Nat
  PROVE  Offered(r, OfferVideo(r, item, old)) /\ Offered(r, OfferAudio(r, item, old))
<1> DEFINE x == IF OverBudget(r.queue, old) THEN CutBack(r) ELSE r
           y == [x EXCEPT !.waiting = FALSE]
           z == [r EXCEPT !.queue = Shed(r.queue, old)]
<1>1. x \in Subscribers /\ x.state = r.state
  BY CutBackTyped
<1>2. y \in Subscribers /\ y.state = r.state
  <2> HIDE DEF x
  <2> QED BY <1>1 DEF Subscribers
<1>3. z \in Subscribers /\ z.state = r.state
  <2>1. r.queue \in Seq(Items)
    BY FieldTyped
  <2>2. Shed(r.queue, old) \in Seq(Items)
    BY <2>1, ShedLeaves
  <2> QED BY <2>2 DEF Subscribers
<1>4. OfferVideo(r, item, old) \in {r, x, Put(y, item)}
  BY DEF OfferVideo
<1>5. OfferAudio(r, item, old) \in {r, Put(z, item)}
  BY DEF OfferAudio
<1>6. r.state # "open" => OfferVideo(r, item, old) = r /\ OfferAudio(r, item, old) = r
  BY DEF OfferVideo, OfferAudio
<1> HIDE DEF x, y, z
<1>7. /\ Put(y, item) \in Subscribers /\ Put(y, item).state = y.state
      /\ Put(z, item) \in Subscribers /\ Put(z, item).state = z.state
  BY <1>2, <1>3, PutTyped
<1> QED BY <1>1, <1>2, <1>3, <1>4, <1>5, <1>6, <1>7 DEF Offered

\* A connection that is not open, or is closed, is a subscriber's record, too.
LEMMA ClosedTyped ==
  ASSUME NEW r \in Subscribers
  PROVE  /\ Out \in Subscribers /\ Out.state = "out" /\ CloseSub(r) \in Subscribers
         /\ CloseSub(r).state # "open"
         /\ CloseSub(r).state = "closed" => CloseSub(r).queue = <<>> \/ CloseSub(r) = r
<1>1. Blank \in Decoders
  BY BlankTyped
<1>2. <<>> \in Seq(Items) /\ 0 \in 0 .. MaxStart
  BY BoundsNat
<1>3. Out \in Subscribers
  BY <1>1, <1>2 DEF Out, Subscribers
<1> QED BY <1>3 DEF CloseSub, Out, Subscribers

\* The types of one subscriber, and of all.
SubTyped(r) == r \in Subscribers /\ (r.state = "closed" => r.queue = <<>>)
SubsTyped(s) == s \in [Viewers -> Subscribers] /\ \A v \in Viewers : SubTyped(s[v])

\* A stream that starts with no setup, or with what was just sent, keeps the types.
LEMMA TypesOf ==
  FanoutTypeOK <=>
    /\ video \in BOOLEAN
    /\ src \in {"off", "on", "stopping"}
    /\ next \in {"session", "config", "key", "replay", "reconfig", "media", "none"}
    /\ starts \in 0 .. MaxStart /\ captures \in 0 .. MaxSession /\ packet \in 0 .. Cycle - 1
    /\ late \in BOOLEAN /\ asked \in BOOLEAN /\ recent \in BOOLEAN
    /\ header \in 0 .. MaxStart /\ ended \in BOOLEAN
    /\ session \in {<<>>} \cup {<<item>> : item \in Items}
    /\ config \in {<<>>} \cup {<<item>> : item \in Items}
    /\ closing \subseteq Viewers
    /\ SubsTyped(sub)
BY DEF FanoutTypeOK, SubsTyped, SubTyped

\* An item of the source (HelperBackend, ProjectionBackend) is one.
LEMMA ItemTyped ==
  ASSUME FanoutTypeOK, NEW kind \in Kinds, NEW n \in 0 .. MaxSession, NEW i \in 0 .. Cycle - 1
  PROVE  Item(kind, n, i) \in Items
BY DEF Item, Items, FanoutTypeOK

\* onItem of a packet keeps the types.
LEMMA OnMediaTyped ==
  ASSUME FanoutTypeOK, NEW item \in Items, OnMedia(item)
  PROVE  SubsTyped(sub') /\ {asked', recent'} \subseteq BOOLEAN /\ UNCHANGED <<session, config>>
<1>1. PICK old \in [Viewers -> 0 .. MaxQueue + 1] :
        sub' = [v \in Viewers |-> IF video THEN OfferVideo(sub[v], item, old[v])
                                  ELSE OfferAudio(sub[v], item, old[v])]
  BY DEF OnMedia
<1>2. ASSUME NEW v \in Viewers PROVE SubTyped(sub'[v])
  <2>1. SubTyped(sub[v])
    BY TypesOf DEF SubsTyped
  <2>2. old[v] \in Nat
    BY RoomForOne
  <2>3. sub'[v] \in {OfferVideo(sub[v], item, old[v]), OfferAudio(sub[v], item, old[v])}
    BY <1>1
  <2>4. sub[v] \in Subscribers /\ (sub[v].state = "closed" => sub[v].queue = <<>>)
    BY <2>1 DEF SubTyped
  <2>5. Offered(sub[v], sub'[v])
    BY <2>2, <2>3, <2>4, OfferTyped
  <2> QED BY <2>4, <2>5 DEF SubTyped, Offered
<1>3. sub' \in [Viewers -> Subscribers]
  BY <1>1, <1>2 DEF SubTyped
<1>4. asked \in BOOLEAN /\ recent \in BOOLEAN
  BY TypesOf
<1>5. {asked', recent'} \subseteq BOOLEAN
  BY <1>4 DEF OnMedia
<1> QED BY <1>2, <1>3, <1>5 DEF SubsTyped, OnMedia

\* So does onItem of a session or a codec config.
LEMMA OnSetupTyped ==
  ASSUME FanoutTypeOK, NEW item \in Items, OnSetup(item)
  PROVE  /\ SubsTyped(sub') /\ UNCHANGED <<asked, recent>>
         /\ session' \in {<<>>} \cup {<<m>> : m \in Items}
         /\ config' \in {<<>>} \cup {<<m>> : m \in Items}
<1>1. ASSUME NEW v \in Viewers
      PROVE  Enqueue(sub[v], item) \in Subscribers /\ SubTyped(Enqueue(sub[v], item))
  <2>1. SubTyped(sub[v])
    BY TypesOf DEF SubsTyped
  <2>2. Enqueue(sub[v], item) = IF sub[v].state = "open" THEN Put(sub[v], item) ELSE sub[v]
    BY DEF Enqueue
  <2> QED BY <2>1, <2>2, PutTyped DEF SubTyped
<1>2. sub' = [v \in Viewers |-> Enqueue(sub[v], item)]
  BY DEF OnSetup
<1>3. SubsTyped(sub')
  BY <1>1, <1>2 DEF SubsTyped
<1>4. /\ session \in {<<>>} \cup {<<m>> : m \in Items}
      /\ config \in {<<>>} \cup {<<m>> : m \in Items}
  BY TypesOf
<1>5. session' \in {<<>>, <<item>>, session} /\ config' \in {<<>>, <<item>>, config}
  BY DEF OnSetup
<1> QED BY <1>3, <1>4, <1>5 DEF OnSetup

\* Whatever the source sends keeps the types.
LEMMA SendsTyped ==
  ASSUME FanoutTypeOK, Sends, UNCHANGED <<video, src, starts, header, ended, closing>>,
         late' \in BOOLEAN
  PROVE  FanoutTypeOK'
<1> DEFINE rest ==
      /\ next' \in {"session", "config", "key", "replay", "reconfig", "media", "none"}
      /\ captures' \in 0 .. MaxSession /\ packet' \in 0 .. Cycle - 1
<1>1. captures \in 0 .. MaxSession /\ packet \in 0 .. Cycle - 1 /\ 0 \in 0 .. Cycle - 1
  BY TypesOf, CycleSeesAGap
<1>2. (packet + 1) % Cycle \in 0 .. Cycle - 1
  BY <1>1, CycleSeesAGap
<1>3. {asked, recent} \subseteq BOOLEAN /\ session \in {<<>>} \cup {<<m>> : m \in Items}
      /\ config \in {<<>>} \cup {<<m>> : m \in Items}
  BY TypesOf
<1>4. ASSUME SendSession \/ SendConfig
      PROVE  /\ rest /\ SubsTyped(sub') /\ {asked', recent'} \subseteq BOOLEAN
             /\ session' \in {<<>>} \cup {<<m>> : m \in Items}
             /\ config' \in {<<>>} \cup {<<m>> : m \in Items}
  <2>1. CASE SendSession
    <3>1. PICK n \in 1 .. MaxSession : OnSetup(Item("session", n, 0)) /\ captures' = n
      BY <2>1 DEF SendSession
    <3>2. Item("session", n, 0) \in Items /\ n \in 0 .. MaxSession
      BY <1>1, ItemTyped DEF Kinds
    <3>3. rest
      BY <2>1, <3>1, <3>2, <1>1 DEF SendSession
    <3> QED BY <3>1, <3>2, <3>3, <1>3, OnSetupTyped
  <2>2. CASE SendConfig
    <3>1. Item("config", captures, 0) \in Items
      BY <1>1, ItemTyped DEF Kinds
    <3>2. rest
      BY <2>2, <1>1 DEF SendConfig
    <3> QED BY <2>2, <3>1, <3>2, <1>3, OnSetupTyped DEF SendConfig
  <2> QED BY <1>4, <2>1, <2>2
<1>5. ASSUME SendKey \/ SendOther
      PROVE  /\ rest /\ SubsTyped(sub') /\ {asked', recent'} \subseteq BOOLEAN
             /\ session' \in {<<>>} \cup {<<m>> : m \in Items}
             /\ config' \in {<<>>} \cup {<<m>> : m \in Items}
  <2>1. rest
    BY <1>5, <1>1, <1>2, TypesOf DEF SendKey, SendOther
  <2>2. \E kind \in Kinds : OnMedia(Item(kind, captures, packet'))
    BY <1>5 DEF SendKey, SendOther, Kinds
  <2>3. \A kind \in Kinds : Item(kind, captures, packet') \in Items
    BY <2>1, <1>1, ItemTyped
  <2> QED BY <2>1, <2>2, <2>3, <1>3, OnMediaTyped
<1>6. /\ rest /\ SubsTyped(sub') /\ {asked', recent'} \subseteq BOOLEAN
      /\ session' \in {<<>>} \cup {<<m>> : m \in Items}
      /\ config' \in {<<>>} \cup {<<m>> : m \in Items}
  BY <1>4, <1>5 DEF Sends
<1> QED
  <2>1. /\ video \in BOOLEAN /\ src \in {"off", "on", "stopping"} /\ starts \in 0 .. MaxStart
        /\ header \in 0 .. MaxStart /\ ended \in BOOLEAN /\ closing \subseteq Viewers
    BY TypesOf
  <2>2. sub' \in [Viewers -> Subscribers]
        /\ \A v \in Viewers : sub'[v].state = "closed" => sub'[v].queue = <<>>
    BY <1>6 DEF SubsTyped, SubTyped
  <2>3. {session', config'} \subseteq {<<>>} \cup {<<item>> : item \in Items}
    BY <1>6
  <2> QED BY <1>6, <2>1, <2>2, <2>3 DEF FanoutTypeOK

\* A stream that has not started has the types.
LEMMA FanoutInitTyped == FanoutInit => FanoutTypeOK
<1> SUFFICES ASSUME FanoutInit PROVE FanoutTypeOK
  OBVIOUS
<1>1. Out \in Subscribers
  BY DEF Out, Blank, Subscribers, Decoders, NoPacket
<1>2. 0 \in 0 .. MaxStart /\ 0 \in 0 .. MaxSession /\ 1 \in 0 .. MaxSession
      /\ 0 \in 0 .. Cycle - 1
  BY BoundsNat, CycleSeesAGap
<1> QED BY <1>1, <1>2 DEF FanoutInit, FanoutTypeOK, Out

\* A start or a reset keeps the types (onStart, onPause, reset, Sink.stopped).
LEMMA SourceTyped ==
  ASSUME FanoutTypeOK, Starts \/ Recapture \/ Pause \/ Reset \/ Stopped
  PROVE  FanoutTypeOK'
<1>1. CASE Starts
  <2>1. PICK enabled \in BOOLEAN, then \in {"none", "session", "replay", "config"} :
          Start(enabled, then) /\ starts < MaxStart
    BY <1>1 DEF Starts
  <2>2. starts + 1 \in 0 .. MaxStart
    BY <2>1, TypesOf, BoundsNat
  <2>3. ASSUME NEW v \in Viewers
        PROVE  Begin(sub[v], starts + 1, ~enabled) \in Subscribers
    <3>1. sub[v] \in Subscribers /\ (~enabled) \in BOOLEAN
      BY TypesOf DEF SubsTyped, SubTyped
    <3> HIDE DEF FanoutTypeOK
    <3> QED BY <2>2, <3>1 DEF Begin, Subscribers, Decoders
  <2>4. ASSUME NEW v \in Viewers
        PROVE  /\ sub'[v] \in Subscribers
               /\ sub'[v].state = "closed" => sub'[v].queue = <<>>
    <3>1. sub[v] \in Subscribers /\ (sub[v].state = "closed" => sub[v].queue = <<>>)
      BY TypesOf DEF SubsTyped, SubTyped
    <3>2. sub'[v] = sub[v] \/ sub'[v] = Begin(sub[v], starts + 1, ~enabled)
      BY <2>1 DEF Start
    <3>3. LET b == Begin(sub[v], starts + 1, ~enabled)
          IN  b.state = sub[v].state /\ b.queue = sub[v].queue
      BY <3>1 DEF Begin, Subscribers
    <3> QED BY <2>3, <3>1, <3>2, <3>3
  <2>5. sub' \in [Viewers -> Subscribers]
    BY <2>1, <2>4 DEF Start
  <2>6. closing' \subseteq Viewers
    BY <2>1 DEF Start
  <2>7. (~enabled) \in BOOLEAN
    OBVIOUS
  <2> QED BY <2>1, <2>2, <2>4, <2>5, <2>6, <2>7 DEF Start, FanoutTypeOK
<1>2. CASE Recapture
  BY <1>2 DEF Recapture, FanoutTypeOK, stream
<1>3. CASE Pause
  BY <1>3 DEF Pause, FanoutTypeOK
<1>4. CASE Reset
  <2>1. late' \in BOOLEAN /\ 0 \in 0 .. MaxStart
    <3>1. (closing = {} /\ next # "none") \in BOOLEAN
      OBVIOUS
    <3>2. late' \in BOOLEAN
      BY <1>4, <3>1, Zenon DEF Reset
    <3> QED BY <3>2, BoundsNat
  <2> QED BY <1>4, <2>1 DEF Reset, FanoutTypeOK
<1>5. CASE Stopped
  BY <1>5 DEF Stopped, FanoutTypeOK, stream
<1> QED BY <1>1, <1>2, <1>3, <1>4, <1>5

\* Viewers that join, take, close and leave keep the types (serve, pump, close).
LEMMA ViewerTyped ==
  ASSUME FanoutTypeOK, NEW v \in Viewers,
         Subscribe(v) \/ Take(v) \/ Close(v) \/ CloseNext(v) \/ Leave(v)
  PROVE  FanoutTypeOK'
<1>1. sub[v] \in Subscribers /\ (sub[v].state = "closed" => sub[v].queue = <<>>)
      /\ sub \in [Viewers -> Subscribers]
  BY TypesOf DEF SubsTyped, SubTyped
<1>2. ASSUME NEW r \in Subscribers, sub' = [sub EXCEPT ![v] = r],
             r.state = "closed" => r.queue = <<>>,
             UNCHANGED <<video, source, stream>>,
             {asked', recent'} \subseteq BOOLEAN, closing' \subseteq Viewers
      PROVE  FanoutTypeOK'
  <2>1. sub' \in [Viewers -> Subscribers]
    BY <1>1, <1>2
  <2>2. \A w \in Viewers : sub'[w].state = "closed" => sub'[w].queue = <<>>
    BY <1>1, <1>2, TypesOf DEF SubsTyped, SubTyped
  <2> QED BY <1>2, <2>1, <2>2 DEF FanoutTypeOK, source, stream
<1>3. {asked, recent} \subseteq BOOLEAN /\ closing \subseteq Viewers
  BY TypesOf
<1>4. CloseSub(sub[v]) \in Subscribers
      /\ (CloseSub(sub[v]).state = "closed" => CloseSub(sub[v]).queue = <<>>)
  BY <1>1, ClosedTyped
<1>5. CASE Subscribe(v)
  <2> DEFINE r == [Out EXCEPT !.state = "open", !.waiting = video,
                    !.header = header, !.finish = ended, !.queue = session \o config,
                    !.ahead = AfterSetup([Blank EXCEPT !.start = header])]
  <2>1. header \in 0 .. MaxStart /\ ended \in BOOLEAN /\ video \in BOOLEAN
    BY TypesOf
  <2>2. [Blank EXCEPT !.start = header] \in Decoders /\ Blank \in Decoders
    <3>1. Blank \in Decoders
      BY BlankTyped
    <3> HIDE DEF FanoutTypeOK
    <3> QED BY <2>1, <3>1 DEF Decoders
  <2>3. AfterSetup([Blank EXCEPT !.start = header]) \in Decoders
        /\ session \o config \in Seq(Items)
    BY <2>2, SetupTyped
  <2>4. r \in Subscribers /\ r.state = "open"
    <3> HIDE DEF FanoutTypeOK
    <3> QED BY <2>1, <2>2, <2>3 DEF Out, Subscribers
  <2>5. {asked', recent'} \subseteq BOOLEAN
    BY <1>5, <1>3 DEF Subscribe, AskIf
  <2>6. sub' = [sub EXCEPT ![v] = r]
    BY <1>5 DEF Subscribe
  <2>7. UNCHANGED <<video, source, stream>> /\ closing' \subseteq Viewers
    BY <1>5, <1>3 DEF Subscribe
  <2> HIDE DEF r
  <2> QED BY <1>2, <2>4, <2>5, <2>6, <2>7
<1>6. CASE Take(v)
  <2> DEFINE r == IF sub[v].finish THEN CloseSub(sub[v])
                  ELSE [sub[v] EXCEPT !.seen = sub[v].ahead, !.queue = <<>>]
  <2>1. [sub[v] EXCEPT !.seen = sub[v].ahead, !.queue = <<>>] \in Subscribers
    <3>1. <<>> \in Seq(Items)
      OBVIOUS
    <3> QED BY <1>1, <3>1 DEF Subscribers
  <2>2. r \in Subscribers /\ (r.state = "closed" => r.queue = <<>>)
    BY <2>1, <1>1, <1>4 DEF Subscribers
  <2>3. sub' = [sub EXCEPT ![v] = r]
    BY <1>6 DEF Take
  <2>4. {asked', recent'} \subseteq BOOLEAN /\ UNCHANGED <<video, source, stream>>
        /\ closing' \subseteq Viewers
    BY <1>6, <1>3 DEF Take
  <2> HIDE DEF r
  <2> QED BY <1>2, <2>2, <2>3, <2>4
<1>7. CASE Close(v) \/ CloseNext(v)
  <2>1. sub' = [sub EXCEPT ![v] = CloseSub(sub[v])]
    BY <1>7 DEF Close, CloseNext
  <2>2. {asked', recent'} \subseteq BOOLEAN /\ UNCHANGED <<video, source, stream>>
        /\ closing' \subseteq Viewers
    BY <1>7, <1>3 DEF Close, CloseNext
  <2> QED BY <1>2, <1>4, <2>1, <2>2
<1>8. CASE Leave(v)
  <2>1. Out \in Subscribers /\ Out.state = "out"
    BY <1>1, ClosedTyped
  <2>2. sub' = [sub EXCEPT ![v] = Out] /\ UNCHANGED <<video, source, stream>>
        /\ {asked', recent'} \subseteq BOOLEAN /\ closing' \subseteq Viewers
    BY <1>8, <1>3 DEF Leave
  <2> QED BY <1>2, <2>1, <2>2
<1> QED BY <1>5, <1>6, <1>7, <1>8

\* Every step of MediaFanout and of its source keeps the types.
LEMMA FanoutTyped == FanoutTypeOK /\ [FanoutNext]_fanoutVars => FanoutTypeOK'
<1> SUFFICES ASSUME FanoutTypeOK, [FanoutNext]_fanoutVars PROVE FanoutTypeOK'
  OBVIOUS
<1>1. CASE Produce \/ ProduceLate
  <2>1. late' \in BOOLEAN
    BY <1>1, TypesOf DEF Produce, ProduceLate
  <2>2. Sends /\ UNCHANGED <<video, src, starts, header, ended, closing>>
    BY <1>1 DEF Produce, ProduceLate
  <2> QED BY <2>1, <2>2, SendsTyped
<1>2. CASE RequestKeyFrameNow \/ IntervalOver
  <2>1. {asked', recent'} \subseteq BOOLEAN
    BY <1>2, TypesOf DEF RequestKeyFrameNow, IntervalOver, AskIf
  <2>2. UNCHANGED <<video, source, stream, closing, sub>>
    BY <1>2 DEF RequestKeyFrameNow, IntervalOver
  <2> QED BY <2>1, <2>2 DEF FanoutTypeOK, source, stream
<1>3. CASE UNCHANGED fanoutVars
  BY <1>3 DEF fanoutVars, FanoutTypeOK, source, stream
<1> QED BY <1>1, <1>2, <1>3, SourceTyped, ViewerTyped DEF FanoutNext

-----------------------------------------------------------------------------
(* The budget of a stuck viewer. *)

\* What is kept to start a viewer from is a session and a codec config.
SetupOnly ==
  /\ session # <<>> => session[1].kind = "session"
  /\ config # <<>> => config[1].kind = "config"

BudgetInv == WithinBudget /\ SetupOnly

FewPackets(r) == Cardinality(PacketsOf(r.queue)) <= MaxQueue

\* An item more in a queue is at most a packet more (Subscriber.enqueue).
LEMMA AppendPackets ==
  ASSUME NEW q \in Seq(Items), NEW item \in Items
  PROVE  LET c == Cardinality(PacketsOf(q))
             d == Cardinality(PacketsOf(Append(q, item)))
         IN  /\ c \in Nat /\ d \in Nat /\ d <= c + 1
             /\ item.kind \notin {"key", "delta", "audio"} => d = c
<1> DEFINE P == PacketsOf(q)
           Q == PacketsOf(Append(q, item))
           l == Len(q) + 1
<1>1. DOMAIN q = 1 .. Len(q) /\ DOMAIN Append(q, item) = 1 .. l /\ Len(q) \in Nat
      /\ Append(q, item) \in Seq(Items)
  OBVIOUS
<1>2. \A j \in 1 .. Len(q) : Append(q, item)[j] = q[j]
  OBVIOUS
<1>3. Append(q, item)[l] = item
  OBVIOUS
<1>4. Q = P \/ (Q = P \cup {l} /\ item.kind \in {"key", "delta", "audio"})
  <2>1. \A j \in 1 .. l : j = l \/ j \in 1 .. Len(q)
    BY <1>1
  <2>2. \A j \in 1 .. Len(q) : j \in Q <=> j \in P
    BY <1>1, <1>2 DEF PacketsOf
  <2>3. l \in Q <=> item.kind \in {"key", "delta", "audio"}
    BY <1>1, <1>3 DEF PacketsOf
  <2>4. Q \subseteq 1 .. l /\ P \subseteq 1 .. Len(q)
    BY <1>1 DEF PacketsOf
  <2>5. l \notin P
    BY <1>1, <2>4
  <2> HIDE DEF P, Q
  <2> QED BY <2>1, <2>2, <2>3, <2>4, <2>5
<1>5. IsFiniteSet(P) /\ Cardinality(P) \in Nat
  <2>1. P \subseteq DOMAIN q
    BY DEF PacketsOf
  <2> QED BY <2>1, IndicesFinite
<1>6. l \notin P
  BY <1>1 DEF PacketsOf
<1>7. Cardinality(P \cup {l}) = Cardinality(P) + 1
  <2> HIDE DEF P, l
  <2> QED BY <1>5, <1>6, FS_AddElement
<1> HIDE DEF P, Q, l
<1>8. Cardinality(P) \in Nat /\ Cardinality(Q) \in Nat /\ Cardinality(Q) <= Cardinality(P) + 1
      /\ (item.kind \notin {"key", "delta", "audio"} => Cardinality(Q) = Cardinality(P))
  <2>1. CASE Q = P
    BY <2>1, <1>5
  <2>2. CASE Q = P \cup {l} /\ item.kind \in {"key", "delta", "audio"}
    <3>1. Cardinality(Q) = Cardinality(P) + 1
      BY <2>2, <1>7
    <3> QED BY <3>1, <2>2, <1>5
  <2> QED BY <1>4, <2>1, <2>2
<1> QED BY <1>8 DEF P, Q

\* What a viewer is started from holds no packets (resync, serve).
LEMMA SetupHasNoPackets ==
  ASSUME FanoutTypeOK, SetupOnly
  PROVE  Cardinality(PacketsOf(session \o config)) = 0
<1>1. session \in {<<>>} \cup {<<m>> : m \in Items}
      /\ config \in {<<>>} \cup {<<m>> : m \in Items}
  BY TypesOf
<1>2. ASSUME NEW j \in DOMAIN (session \o config)
      PROVE  (session \o config)[j].kind \in {"session", "config"}
  <2>1. CASE session = <<>> /\ config = <<>>
    BY <2>1
  <2>2. CASE session = <<>> /\ config # <<>>
    <3>1. PICK m \in Items : config = <<m>>
      BY <1>1, <2>2
    <3>2. m.kind = "config"
      BY <3>1 DEF SetupOnly
    <3>3. session \o config = <<m>>
      BY <3>1, <2>2
    <3> QED BY <3>2, <3>3
  <2>3. CASE session # <<>> /\ config = <<>>
    <3>1. PICK m \in Items : session = <<m>>
      BY <1>1, <2>3
    <3>2. m.kind = "session"
      BY <3>1 DEF SetupOnly
    <3>3. session \o config = <<m>>
      BY <3>1, <2>3
    <3> QED BY <3>2, <3>3
  <2>4. CASE session # <<>> /\ config # <<>>
    <3>1. PICK m \in Items : session = <<m>>
      BY <1>1, <2>4
    <3>2. PICK n \in Items : config = <<n>>
      BY <1>1, <2>4
    <3>3. m.kind = "session" /\ n.kind = "config"
      BY <3>1, <3>2 DEF SetupOnly
    <3>4. /\ DOMAIN (<<m>> \o <<n>>) = 1 .. 2
          /\ (<<m>> \o <<n>>)[1] = m /\ (<<m>> \o <<n>>)[2] = n
      OBVIOUS
    <3>5. j \in DOMAIN (<<m>> \o <<n>>)
      BY <3>1, <3>2
    <3>6. j = 1 \/ j = 2
      BY <3>4, <3>5
    <3>7. (<<m>> \o <<n>>)[j].kind \in {"session", "config"}
      BY <3>3, <3>4, <3>6
    <3> QED BY <3>1, <3>2, <3>7
  <2> QED BY <2>1, <2>2, <2>3, <2>4
<1>3. PacketsOf(session \o config) = {}
  BY <1>2 DEF PacketsOf
<1> QED BY <1>3, FS_EmptySet

\* A viewer that is given a packet drops what its budget asks for (offerMedia).
LEMMA OfferWithinBudget ==
  ASSUME FanoutTypeOK, SetupOnly, NEW r \in Subscribers, FewPackets(r),
         NEW item \in Items, NEW old \in Nat
  PROVE  FewPackets(OfferVideo(r, item, old)) /\ FewPackets(OfferAudio(r, item, old))
<1> DEFINE over == OverBudget(r.queue, old)
           c == CutBack(r)
           s == [r EXCEPT !.queue = Shed(r.queue, old)]
<1>1. r.queue \in Seq(Items)
  BY FieldTyped
<1>2. c.queue = session \o config
  BY DEF CutBack, Subscribers
<1>3. c.queue \in Seq(Items) /\ Cardinality(PacketsOf(c.queue)) = 0
  BY <1>2, SetupTyped, SetupHasNoPackets
<1>4. s.queue = Shed(r.queue, old)
  BY DEF Subscribers
<1>5. s.queue \in Seq(Items) /\ Cardinality(PacketsOf(s.queue)) < MaxQueue
  BY <1>1, <1>4, ShedLeaves
<1>6. ~over => Cardinality(PacketsOf(r.queue)) < MaxQueue
  <2>1. CASE r.queue = <<>>
    <3>1. PacketsOf(r.queue) = {}
      BY <2>1 DEF PacketsOf
    <3> QED BY <3>1, FS_EmptySet, RoomForOne
  <2>2. Cardinality(PacketsOf(r.queue)) \in Nat
    <3>1. PacketsOf(r.queue) \subseteq DOMAIN r.queue
      BY DEF PacketsOf
    <3> QED BY <3>1, <1>1, IndicesFinite
  <2> QED BY <2>1, <2>2, RoomForOne DEF OverBudget
<1>7. ASSUME NEW x, x.queue \in Seq(Items), Cardinality(PacketsOf(x.queue)) < MaxQueue,
             NEW y, y.queue = Append(x.queue, item)
      PROVE  FewPackets(y)
  <2>1. /\ Cardinality(PacketsOf(x.queue)) \in Nat
        /\ Cardinality(PacketsOf(y.queue)) \in Nat
        /\ Cardinality(PacketsOf(y.queue)) <= Cardinality(PacketsOf(x.queue)) + 1
    BY <1>7, AppendPackets
  <2> QED BY <2>1, <1>7, RoomForOne DEF FewPackets
<1> HIDE DEF over, c, s
<1>8. FewPackets(OfferVideo(r, item, old))
  <2> DEFINE x == IF over THEN c ELSE r
             y == [x EXCEPT !.waiting = FALSE]
  <2>1. OfferVideo(r, item, old) \in {r, x, Put(y, item)}
    BY DEF OfferVideo, over, c
  <2>2. x.queue \in Seq(Items) /\ Cardinality(PacketsOf(x.queue)) < MaxQueue
        /\ x \in Subscribers
    <3>1. c \in Subscribers
      BY CutBackTyped DEF c
    <3> QED BY <1>1, <1>3, <1>6, <3>1, RoomForOne
  <2>3. y.queue = x.queue /\ y \in Subscribers
    <3> HIDE DEF x
    <3> QED BY <2>2 DEF Subscribers
  <2> HIDE DEF x, y
  <2>4. FewPackets(x)
    <3>1. Cardinality(PacketsOf(x.queue)) \in Nat
      BY <2>2, AppendPackets
    <3> QED BY <3>1, <2>2, RoomForOne DEF FewPackets
  <2>5. Put(y, item).queue = Append(y.queue, item)
    BY <2>3 DEF Put, Subscribers
  <2>6. FewPackets(Put(y, item))
    BY <2>2, <2>3, <2>5, <1>7
  <2> QED BY <2>1, <2>4, <2>6
<1>9. FewPackets(OfferAudio(r, item, old))
  <2>1. OfferAudio(r, item, old) \in {r, Put(s, item)}
    BY DEF OfferAudio, s
  <2>2. Put(s, item).queue = Append(s.queue, item)
    <3>1. s \in Subscribers
      BY <1>1, ShedLeaves, FieldTyped DEF s
    <3> QED BY <3>1 DEF Put, Subscribers
  <2>3. FewPackets(Put(s, item))
    BY <1>5, <2>2, <1>7
  <2> QED BY <2>1, <2>3
<1> QED BY <1>8, <1>9

\* An empty queue is within the budget.
LEMMA EmptyIsFew == ASSUME NEW r, r.queue = <<>> PROVE FewPackets(r)
<1>1. PacketsOf(r.queue) = {}
  BY DEF PacketsOf
<1>2. Cardinality(PacketsOf(r.queue)) = 0
  BY <1>1, FS_EmptySet
<1> QED BY <1>2, RoomForOne DEF FewPackets

\* Whatever the source sends, every viewer stays within its budget (onItem).
LEMMA SendsWithinBudget ==
  ASSUME FanoutTypeOK, BudgetInv, Sends
  PROVE  BudgetInv'
<1>1. captures \in 0 .. MaxSession /\ packet \in 0 .. Cycle - 1 /\ 0 \in 0 .. Cycle - 1
      /\ (packet + 1) % Cycle \in 0 .. Cycle - 1
  BY TypesOf, CycleSeesAGap
<1>2. \A v \in Viewers : sub[v] \in Subscribers /\ FewPackets(sub[v])
  BY TypesOf DEF SubsTyped, SubTyped, BudgetInv, WithinBudget, FewPackets
<1>3. ASSUME NEW item \in Items, OnMedia(item) PROVE BudgetInv'
  <2>1. PICK old \in [Viewers -> 0 .. MaxQueue + 1] :
          sub' = [v \in Viewers |-> IF video THEN OfferVideo(sub[v], item, old[v])
                                    ELSE OfferAudio(sub[v], item, old[v])]
    BY <1>3 DEF OnMedia
  <2>2. ASSUME NEW v \in Viewers PROVE FewPackets(sub'[v])
    <3>1. old[v] \in Nat
      BY RoomForOne
    <3>2. sub'[v] = OfferVideo(sub[v], item, old[v]) \/ sub'[v] = OfferAudio(sub[v], item, old[v])
      BY <2>1
    <3>3. /\ FewPackets(OfferVideo(sub[v], item, old[v]))
          /\ FewPackets(OfferAudio(sub[v], item, old[v]))
      BY <1>2, <3>1, OfferWithinBudget DEF BudgetInv
    <3> QED BY <3>2, <3>3
  <2>3. UNCHANGED <<session, config>>
    BY <1>3 DEF OnMedia
  <2>4. SetupOnly'
    BY <2>3 DEF BudgetInv, SetupOnly
  <2>5. WithinBudget'
    BY <2>2 DEF WithinBudget, FewPackets
  <2> QED BY <2>4, <2>5 DEF BudgetInv
<1>4. ASSUME NEW item \in Items, item.kind \in {"session", "config"}, OnSetup(item)
      PROVE  BudgetInv'
  <2>1. ASSUME NEW v \in Viewers PROVE FewPackets(sub'[v])
    <3>1. sub'[v] = Enqueue(sub[v], item)
      BY <1>4 DEF OnSetup
    <3>2. sub[v].queue \in Seq(Items)
      BY <1>2, FieldTyped
    <3>3. Put(sub[v], item).queue = Append(sub[v].queue, item)
      BY <1>2 DEF Put, Subscribers
    <3>4. Cardinality(PacketsOf(Append(sub[v].queue, item))) = Cardinality(PacketsOf(sub[v].queue))
      BY <1>4, <3>2, AppendPackets
    <3>5. FewPackets(Put(sub[v], item))
      BY <1>2, <3>3, <3>4 DEF FewPackets
    <3> QED BY <1>2, <3>1, <3>5 DEF Enqueue
  <2>2. SetupOnly'
    BY <1>4 DEF OnSetup, BudgetInv, SetupOnly
  <2>3. WithinBudget'
    BY <2>1 DEF WithinBudget, FewPackets
  <2> QED BY <2>2, <2>3 DEF BudgetInv
<1>5. CASE SendSession
  <2>1. PICK n \in 1 .. MaxSession : OnSetup(Item("session", n, 0))
    BY <1>5 DEF SendSession
  <2>2. Item("session", n, 0) \in Items
    BY <1>1, ItemTyped DEF Kinds
  <2>3. Item("session", n, 0).kind = "session"
    BY DEF Item
  <2> QED BY <1>4, <2>1, <2>2, <2>3
<1>6. CASE SendConfig
  <2>1. Item("config", captures, 0) \in Items
    BY <1>1, ItemTyped DEF Kinds
  <2>2. Item("config", captures, 0).kind = "config"
    BY DEF Item
  <2> QED BY <1>4, <1>6, <2>1, <2>2 DEF SendConfig
<1>7. CASE SendKey \/ SendOther
  <2>1. packet' \in 0 .. Cycle - 1
    BY <1>7, <1>1 DEF SendKey, SendOther
  <2>2. PICK kind \in Kinds : OnMedia(Item(kind, captures, packet'))
    BY <1>7 DEF SendKey, SendOther, Kinds
  <2>3. Item(kind, captures, packet') \in Items
    BY <2>1, <1>1, ItemTyped
  <2> QED BY <1>3, <2>2, <2>3
<1> QED BY <1>5, <1>6, <1>7 DEF Sends

\* So it does whatever else happens.
LEMMA BudgetStep == FanoutTypeOK /\ BudgetInv /\ [FanoutNext]_fanoutVars => BudgetInv'
<1> SUFFICES ASSUME FanoutTypeOK, BudgetInv, [FanoutNext]_fanoutVars PROVE BudgetInv'
  OBVIOUS
<1>1. /\ \A v \in Viewers : sub[v] \in Subscribers /\ FewPackets(sub[v])
      /\ sub \in [Viewers -> Subscribers]
  BY TypesOf DEF SubsTyped, SubTyped, BudgetInv, WithinBudget, FewPackets
<1>2. ASSUME UNCHANGED <<session, config, sub>> PROVE BudgetInv'
  BY <1>2 DEF BudgetInv, WithinBudget, SetupOnly
<1>3. ASSUME NEW v \in Viewers, NEW r, FewPackets(r), sub' = [sub EXCEPT ![v] = r],
             UNCHANGED <<session, config>>
      PROVE  BudgetInv'
  <2>1. \A w \in Viewers : sub'[w] = r \/ sub'[w] = sub[w]
    BY <1>1, <1>3
  <2> QED BY <1>1, <1>3, <2>1 DEF BudgetInv, WithinBudget, SetupOnly, FewPackets
<1>4. \A v \in Viewers : FewPackets(CloseSub(sub[v])) /\ FewPackets(Out)
  <2>1. \A v \in Viewers : CloseSub(sub[v]) = sub[v] \/ CloseSub(sub[v]).queue = <<>>
    BY DEF CloseSub, Out
  <2>2. Out.queue = <<>>
    BY DEF Out
  <2> QED BY <1>1, <2>1, <2>2, EmptyIsFew
<1>5. CASE Starts
  <2>1. PICK enabled \in BOOLEAN, then \in {"none", "session", "replay", "config"} :
          Start(enabled, then)
    BY <1>5 DEF Starts
  <2>2. ASSUME NEW v \in Viewers PROVE FewPackets(sub'[v])
    <3>1. sub'[v] = sub[v] \/ sub'[v] = Begin(sub[v], starts + 1, ~enabled)
      BY <2>1 DEF Start
    <3>2. Begin(sub[v], starts + 1, ~enabled).queue = sub[v].queue
      BY <1>1 DEF Begin, Subscribers
    <3> QED BY <1>1, <3>1, <3>2 DEF FewPackets
  <2>3. SetupOnly'
    BY <2>1 DEF Start, SetupOnly
  <2> QED BY <2>2, <2>3 DEF BudgetInv, WithinBudget, FewPackets
<1>6. CASE Produce \/ ProduceLate
  <2>1. Sends
    BY <1>6 DEF Produce, ProduceLate
  <2> QED BY <2>1, SendsWithinBudget
<1>7. CASE Pause \/ Reset
  BY <1>7 DEF Pause, Reset, BudgetInv, WithinBudget, SetupOnly
<1>8. CASE Recapture \/ Stopped \/ RequestKeyFrameNow \/ IntervalOver
  BY <1>8, <1>2 DEF Recapture, Stopped, RequestKeyFrameNow, IntervalOver, stream
<1>9. ASSUME NEW v \in Viewers, Subscribe(v) PROVE BudgetInv'
  <2> DEFINE r == [Out EXCEPT !.state = "open", !.waiting = video,
                    !.header = header, !.finish = ended, !.queue = session \o config,
                    !.ahead = AfterSetup([Blank EXCEPT !.start = header])]
  <2>1. r.queue = session \o config
    BY DEF Out
  <2>2. FewPackets(r)
    <3>1. Cardinality(PacketsOf(session \o config)) = 0
      BY SetupHasNoPackets DEF BudgetInv
    <3> HIDE DEF r
    <3> QED BY <2>1, <3>1, RoomForOne DEF FewPackets
  <2>3. sub' = [sub EXCEPT ![v] = r] /\ UNCHANGED <<session, config>>
    BY <1>9 DEF Subscribe, stream
  <2> HIDE DEF r
  <2> QED BY <1>3, <2>2, <2>3
<1>10. ASSUME NEW v \in Viewers, Take(v) PROVE BudgetInv'
  <2> DEFINE r == [sub[v] EXCEPT !.seen = sub[v].ahead, !.queue = <<>>]
  <2>1. r.queue = <<>>
    BY <1>1 DEF Subscribers
  <2>2. FewPackets(r)
    <3> HIDE DEF r
    <3> QED BY <2>1, EmptyIsFew
  <2>3. sub' = [sub EXCEPT ![v] = CloseSub(sub[v])] \/ sub' = [sub EXCEPT ![v] = r]
    BY <1>10 DEF Take
  <2>4. UNCHANGED <<session, config>>
    BY <1>10 DEF Take, stream
  <2> HIDE DEF r
  <2> QED BY <1>3, <1>4, <2>2, <2>3, <2>4
<1>11. ASSUME NEW v \in Viewers, Close(v) \/ CloseNext(v) \/ Leave(v) PROVE BudgetInv'
  <2>1. sub' = [sub EXCEPT ![v] = CloseSub(sub[v])] \/ sub' = [sub EXCEPT ![v] = Out]
    BY <1>11 DEF Close, CloseNext, Leave
  <2>2. UNCHANGED <<session, config>>
    BY <1>11 DEF Close, CloseNext, Leave, stream
  <2> QED BY <1>3, <1>4, <2>1, <2>2
<1>12. CASE UNCHANGED fanoutVars
  BY <1>12, <1>2 DEF fanoutVars, stream
<1> QED BY <1>5, <1>6, <1>7, <1>8, <1>9, <1>10, <1>11, <1>12 DEF FanoutNext

-----------------------------------------------------------------------------
(* What the viewers' decoders are sent. *)

\* A viewer that has been sent nothing undecodable, and waits for a keyframe.
Fresh(r) == r.seen.ok /\ r.ahead.ok /\ r.waiting = video

\* The source and the fanout: it has the header of the source that runs, and is
\* started afresh only with viewers that have been sent nothing.
SourceTidy ==
  /\ src # "on" => header = 0
  /\ src = "on" => header = starts /\ starts # 0 /\ ~late
  /\ src = "off" => ~late /\ (starts = 0 => session = <<>> /\ config = <<>>)
  /\ src = "stopping" => starts # 0
  /\ \A v \in Viewers : src = "off" /\ IsOpen(v) =>
        starts = 0 /\ Fresh(sub[v])
  /\ header = 0 => \A v \in Viewers \ closing : IsOpen(v) => sub[v].header = 0

\* The setup that is kept is that of the capture that runs, and is there before its packets.
StreamTidy ==
  /\ SetupOnly
  /\ ~video => session = <<>> /\ next \in {"none", "config", "media"}
  /\ src = "on" =>
       /\ session # <<>> => session[1].start = starts /\ session[1].n = captures
       /\ config # <<>> => config[1].start = starts /\ config[1].n = captures
       /\ video /\ (config # <<>> \/ next \in {"config", "reconfig"}) => session # <<>>
       /\ next \in {"key", "media"} => config # <<>>

\* The decoder x has been sent all of the setup, under the right header.
SetUp(x) ==
  /\ x.start = starts /\ x.ok
  /\ session # <<>> => x.session = captures
  /\ config # <<>> => x.config = captures

\* A viewer's decoder follows the source's: it has all of the setup, and unless it
\* waits for a keyframe has the packet before the next.
Follows(v) ==
  /\ sub[v].header = starts /\ sub[v].seen.ok /\ SetUp(sub[v].ahead)
  /\ video /\ next \in {"replay", "reconfig"} => sub[v].waiting
  /\ video /\ next = "media" /\ ~sub[v].waiting => sub[v].ahead.packet = packet

AllFollow == src = "on" => \A v \in Viewers \ closing : IsOpen(v) => Follows(v)

DecodeInv == SourceTidy /\ StreamTidy /\ AllFollow

\* What fits a decoder that has been sent nothing undecodable leaves it so.
LEMMA DecodeFits ==
  ASSUME NEW x \in Decoders, x.ok, NEW m \in Items, Fits(x, m)
  PROVE  LET y == Decode(x, m) IN
         /\ y.ok /\ y.start = x.start
         /\ m.kind = "session" => y.session = m.n
         /\ m.kind # "session" => y.session = x.session
         /\ m.kind = "config" => y.config = m.n
         /\ m.kind \in {"key", "delta", "audio"} => y.config = x.config /\ y.packet = m.i
<1> DEFINE z == [x EXCEPT !.ok = x.ok /\ Fits(x, m)]
<1>1. z = x
  <2>1. (x.ok /\ Fits(x, m)) = TRUE
    BY Zenon
  <2>2. x.ok = TRUE
    BY Zenon
  <2>3. z = [x EXCEPT !.ok = TRUE]
    BY <2>1
  <2> HIDE DEF z
  <2> QED BY <2>2, <2>3 DEF Decoders
<1>2. Decode(x, m) = CASE m.kind = "session" ->
                            [z EXCEPT !.session = m.n, !.config = 0, !.packet = NoPacket]
                       [] m.kind = "config" -> [z EXCEPT !.config = m.n]
                       [] OTHER -> [z EXCEPT !.packet = m.i]
  BY DEF Decode
<1> HIDE DEF z
<1>3. Decode(x, m) = CASE m.kind = "session" ->
                            [x EXCEPT !.session = m.n, !.config = 0, !.packet = NoPacket]
                       [] m.kind = "config" -> [x EXCEPT !.config = m.n]
                       [] OTHER -> [x EXCEPT !.packet = m.i]
  BY <1>1, <1>2
<1>4. CASE m.kind = "session"
  <2>1. Decode(x, m) = [x EXCEPT !.session = m.n, !.config = 0, !.packet = NoPacket]
    BY <1>3, <1>4
  <2> QED BY <1>4, <2>1 DEF Decoders
<1>5. CASE m.kind = "config"
  <2>1. Decode(x, m) = [x EXCEPT !.config = m.n]
    BY <1>3, <1>5
  <2> QED BY <1>5, <2>1 DEF Decoders
<1>6. CASE m.kind \notin {"session", "config"}
  <2>1. Decode(x, m) = [x EXCEPT !.packet = m.i]
    BY <1>3, <1>6
  <2> QED BY <1>6, <2>1 DEF Decoders
<1> QED BY <1>4, <1>5, <1>6

\* A decoder with the source's header can make use of the setup (resync, serve).
LEMMA SetupFits ==
  ASSUME FanoutTypeOK, StreamTidy, src = "on", NEW x \in Decoders, x.ok, x.start = starts
  PROVE  SetUp(AfterSetup(x))
<1> DEFINE y == IF session = <<>> THEN x ELSE Decode(x, session[1])
<1>1. session # <<>> =>
        session[1] \in Items /\ session[1].kind = "session" /\ session[1].start = starts
        /\ session[1].n = captures
  BY TypesOf DEF StreamTidy, SetupOnly
<1>2. config # <<>> =>
        config[1] \in Items /\ config[1].kind = "config" /\ config[1].start = starts
        /\ config[1].n = captures /\ (video => session # <<>>)
  BY TypesOf DEF StreamTidy, SetupOnly
<1>3. y \in Decoders /\ y.ok /\ y.start = starts /\ (session # <<>> => y.session = captures)
  <2>1. CASE session = <<>>
    BY <2>1
  <2>2. CASE session # <<>>
    <3>1. Fits(x, session[1])
      BY <1>1, <2>2 DEF Fits
    <3> QED BY <1>1, <2>2, <3>1, DecodeFits, DecodeTyped
  <2> QED BY <2>1, <2>2
<1>4. AfterSetup(x) = IF config = <<>> THEN y ELSE Decode(y, config[1])
  BY DEF AfterSetup
<1> HIDE DEF y
<1>5. CASE config = <<>>
  BY <1>3, <1>4, <1>5 DEF SetUp
<1>6. CASE config # <<>>
  <2>1. Fits(y, config[1])
    BY <1>2, <1>3, <1>6 DEF Fits
  <2> QED BY <1>2, <1>3, <1>4, <1>6, <2>1, DecodeFits DEF SetUp
<1> QED BY <1>5, <1>6

\* So a video viewer that is cut back has a decoder that is set up, and waits.
LEMMA CutBackSetUp ==
  ASSUME FanoutTypeOK, StreamTidy, src = "on", NEW r \in Subscribers, r.header = starts, r.seen.ok
  PROVE  LET c == CutBack(r) IN
         c.header = starts /\ c.seen.ok /\ SetUp(c.ahead) /\ c.waiting
<1> DEFINE x == [r.seen EXCEPT !.start = r.header]
<1>1. r.seen \in Decoders /\ r.header \in 0 .. MaxStart
  BY FieldTyped
<1>2. x \in Decoders /\ x.ok /\ x.start = starts
  <2> HIDE DEF FanoutTypeOK
  <2> QED BY <1>1 DEF Decoders
<1>3. SetUp(AfterSetup(x))
  <2> HIDE DEF x
  <2> QED BY <1>2, SetupFits
<1>4. CutBack(r).ahead = AfterSetup(x) /\ CutBack(r).waiting
      /\ CutBack(r).header = r.header /\ CutBack(r).seen = r.seen
  BY DEF CutBack, Subscribers
<1> HIDE DEF x
<1> QED BY <1>3, <1>4

\* A video viewer that is given a packet follows it, or waits (offerMedia).
LEMMA VideoFollows ==
  ASSUME FanoutTypeOK, StreamTidy, src = "on", video, session # <<>>, config # <<>>,
         NEW v \in Viewers, Follows(v), sub[v].state = "open",
         NEW kind \in {"key", "delta"}, kind = "delta" => next = "media",
         NEW i \in 0 .. Cycle - 1, i = (packet + 1) % Cycle, NEW old \in Nat
  PROVE  LET r == OfferVideo(sub[v], Item(kind, captures, i), old) IN
         /\ r.header = starts /\ r.seen.ok /\ SetUp(r.ahead)
         /\ ~r.waiting => r.ahead.packet = i
<1> DEFINE x == IF OverBudget(sub[v].queue, old) THEN CutBack(sub[v]) ELSE sub[v]
           y == [x EXCEPT !.waiting = FALSE]
           item == Item(kind, captures, i)
<1>1. sub[v] \in Subscribers /\ captures \in 0 .. MaxSession /\ packet \in 0 .. Cycle - 1
  BY TypesOf DEF SubsTyped, SubTyped
<1>2. CutBack(sub[v]) \in Subscribers /\ CutBack(sub[v]).header = starts /\ CutBack(sub[v]).seen.ok
      /\ SetUp(CutBack(sub[v]).ahead) /\ CutBack(sub[v]).waiting
  BY <1>1, CutBackTyped, CutBackSetUp DEF Follows
<1>3. /\ x \in Subscribers /\ x.header = starts /\ x.seen.ok /\ SetUp(x.ahead)
      /\ ~x.waiting /\ next = "media" => x.ahead.packet = packet
  BY <1>1, <1>2 DEF Follows
<1>4. item \in Items
  BY <1>1, ItemTyped DEF Kinds
<1>5. item.kind = kind /\ item.start = starts /\ item.n = captures /\ item.i = i
  BY DEF Item
<1>6. OfferVideo(sub[v], item, old) = IF x.waiting /\ kind # "key" THEN x ELSE Put(y, item)
  BY <1>5 DEF OfferVideo
<1> HIDE DEF x, item
<1>7. y.ahead = x.ahead /\ y.header = x.header /\ y.seen = x.seen /\ y \in Subscribers /\ ~y.waiting
  BY <1>3 DEF Subscribers
<1> HIDE DEF y
<1>8. CASE x.waiting /\ kind # "key"
  <2>1. OfferVideo(sub[v], item, old) = x
    BY <1>6, <1>8
  <2> QED BY <1>3, <1>8, <2>1 DEF item
<1>9. CASE ~(x.waiting /\ kind # "key")
  <2>1. OfferVideo(sub[v], item, old) = Put(y, item)
    BY <1>6, <1>9
  <2>2. Fits(x.ahead, item)
    <3>1. packet # NoPacket
      BY <1>1, CycleSeesAGap DEF NoPacket
    <3>2. kind = "delta" => x.ahead.packet = packet
      BY <1>3, <1>9
    <3> QED BY <1>3, <1>5, <3>1, <3>2 DEF Fits, SetUp
  <2>3. x.ahead \in Decoders
    BY <1>3, FieldTyped
  <2>4. LET a == Decode(x.ahead, item) IN
        /\ a.ok /\ a.start = starts /\ a.session = x.ahead.session
        /\ a.config = x.ahead.config /\ a.packet = i
    BY <1>3, <1>4, <1>5, <2>2, <2>3, DecodeFits DEF SetUp
  <2>5. /\ Put(y, item).ahead = Decode(x.ahead, item) /\ Put(y, item).header = starts
        /\ Put(y, item).seen = x.seen
    BY <1>3, <1>7 DEF Put, Subscribers
  <2>6. SetUp(Decode(x.ahead, item))
    BY <1>3, <2>4 DEF SetUp
  <2> QED BY <1>3, <2>1, <2>4, <2>5, <2>6 DEF item
<1> QED BY <1>8, <1>9

\* A sound viewer can use every packet, however many before it were shed (offerMedia).
LEMMA AudioFollows ==
  ASSUME FanoutTypeOK, StreamTidy, src = "on", ~video, config # <<>>,
         NEW v \in Viewers, Follows(v), sub[v].state = "open", NEW old \in Nat
  PROVE  LET r == OfferAudio(sub[v], Item("audio", captures, packet), old) IN
         r.header = starts /\ r.seen.ok /\ SetUp(r.ahead)
<1> DEFINE y == [sub[v] EXCEPT !.queue = Shed(sub[v].queue, old)]
           item == Item("audio", captures, packet)
<1>1. sub[v] \in Subscribers /\ captures \in 0 .. MaxSession /\ packet \in 0 .. Cycle - 1
  BY TypesOf DEF SubsTyped, SubTyped
<1>2. item \in Items
  BY <1>1, ItemTyped DEF Kinds
<1>3. item.kind = "audio" /\ item.start = starts /\ item.n = captures
  BY DEF Item
<1>4. OfferAudio(sub[v], item, old) = Put(y, item)
  BY DEF OfferAudio
<1> HIDE DEF item
<1>5. y.ahead = sub[v].ahead /\ y.header = starts /\ y.seen = sub[v].seen /\ y \in Subscribers
  <2>1. Shed(sub[v].queue, old) \in Seq(Items)
    BY <1>1, FieldTyped, ShedLeaves
  <2>2. sub[v].header = starts
    BY DEF Follows
  <2> HIDE DEF FanoutTypeOK
  <2> QED BY <1>1, <2>1, <2>2 DEF Subscribers
<1> HIDE DEF y
<1>6. sub[v].ahead \in Decoders
  BY <1>1, FieldTyped
<1>7. Fits(sub[v].ahead, item)
  BY <1>3 DEF Fits, Follows, SetUp
<1>8. LET a == Decode(sub[v].ahead, item) IN
      /\ a.ok /\ a.start = starts /\ a.session = sub[v].ahead.session
      /\ a.config = sub[v].ahead.config
  BY <1>2, <1>3, <1>6, <1>7, DecodeFits DEF Follows, SetUp
<1>9. SetUp(Decode(sub[v].ahead, item))
  BY <1>8 DEF Follows, SetUp
<1>10. /\ Put(y, item).ahead = Decode(sub[v].ahead, item) /\ Put(y, item).header = starts
       /\ Put(y, item).seen = sub[v].seen
  BY <1>5 DEF Put, Subscribers
<1> QED BY <1>4, <1>9, <1>10 DEF Follows, item

\* Setup that is sent on follows whatever the viewer had (offerSetup).
LEMMA SetupFollows ==
  ASSUME FanoutTypeOK, NEW r \in Subscribers, r.state = "open", NEW item \in Items,
         r.ahead.ok, Fits(r.ahead, item)
  PROVE  LET p == Enqueue(r, item) IN
         /\ p.header = r.header /\ p.seen = r.seen /\ p.waiting = r.waiting
         /\ p.ahead = Decode(r.ahead, item)
         /\ p.ahead.ok /\ p.ahead.start = r.ahead.start
         /\ item.kind = "session" => p.ahead.session = item.n
         /\ item.kind = "config" => p.ahead.config = item.n /\ p.ahead.session = r.ahead.session
<1>1. Enqueue(r, item) = Put(r, item)
  BY DEF Enqueue
<1>2. r.ahead \in Decoders
  BY FieldTyped
<1>3. LET p == Put(r, item) IN
         /\ p.header = r.header /\ p.seen = r.seen /\ p.waiting = r.waiting
         /\ p.ahead = Decode(r.ahead, item)
  BY DEF Put, Subscribers
<1> QED BY <1>1, <1>2, <1>3, DecodeFits

\* Sending changes nothing of a viewer but what it is sent (offerSetup, offerMedia).
LEMMA SendsKeep ==
  ASSUME FanoutTypeOK, Sends, NEW v \in Viewers
  PROVE  sub'[v].state = sub[v].state /\ sub'[v].header = sub[v].header
<1>1. sub[v] \in Subscribers
  BY TypesOf DEF SubsTyped, SubTyped
<1>2. ASSUME NEW item, OnSetup(item) PROVE sub'[v].state = sub[v].state
                                           /\ sub'[v].header = sub[v].header
  <2>1. sub'[v] = Enqueue(sub[v], item)
    BY <1>2 DEF OnSetup
  <2> QED BY <1>1, <2>1 DEF Enqueue, Put, Subscribers
<1>3. ASSUME NEW item, OnMedia(item) PROVE sub'[v].state = sub[v].state
                                           /\ sub'[v].header = sub[v].header
  <2>1. PICK old \in [Viewers -> 0 .. MaxQueue + 1] :
          sub'[v] = IF video THEN OfferVideo(sub[v], item, old[v])
                    ELSE OfferAudio(sub[v], item, old[v])
    BY <1>3 DEF OnMedia
  <2> DEFINE x == IF OverBudget(sub[v].queue, old[v]) THEN CutBack(sub[v]) ELSE sub[v]
             y == [x EXCEPT !.waiting = FALSE]
             z == [sub[v] EXCEPT !.queue = Shed(sub[v].queue, old[v])]
  <2>2. sub'[v] \in {sub[v], x, Put(y, item), Put(z, item)}
    BY <2>1 DEF OfferVideo, OfferAudio
  <2>3. x.state = sub[v].state /\ x.header = sub[v].header
    BY <1>1 DEF CutBack, Subscribers
  <2>4. z.state = sub[v].state /\ z.header = sub[v].header
    BY <1>1 DEF Subscribers
  <2>5. Put(z, item).state = z.state /\ Put(z, item).header = z.header
    BY <1>1 DEF Put, Subscribers
  <2>6. Put(y, item).state = x.state /\ Put(y, item).header = x.header
    <3>1. x \in Subscribers
      BY <1>1, CutBackTyped
    <3> HIDE DEF x
    <3> QED BY <3>1 DEF Put, Subscribers
  <2> HIDE DEF x, y, z
  <2> QED BY <2>2, <2>3, <2>4, <2>5, <2>6
<1> QED BY <1>2, <1>3 DEF Sends, SendSession, SendConfig, SendKey, SendOther

\* What a source that runs sends can be decoded by every viewer it reaches.
LEMMA SendsFollow ==
  ASSUME FanoutTypeOK, DecodeInv, src = "on", closing = {}, Sends,
         UNCHANGED <<video, src, starts, late, header, closing>>
  PROVE  DecodeInv'
<1>1. header = starts /\ starts # 0 /\ ~late
  BY DEF DecodeInv, SourceTidy
<1>2. SourceTidy'
  BY <1>1 DEF SourceTidy
<1>3. captures \in 0 .. MaxSession /\ packet \in 0 .. Cycle - 1 /\ 0 \in 0 .. Cycle - 1
      /\ (packet + 1) % Cycle \in 0 .. Cycle - 1
  BY TypesOf, CycleSeesAGap
<1>4. \A v \in Viewers : IsOpen(v) => Follows(v)
  BY DEF DecodeInv, AllFollow
<1>5. \A v \in Viewers : IsOpen(v)' <=> IsOpen(v)
  BY SendsKeep DEF IsOpen
<1>6. \A v \in Viewers : sub[v] \in Subscribers
  BY TypesOf DEF SubsTyped, SubTyped
<1>7. StreamTidy
  BY DEF DecodeInv
<1>8. CASE SendSession
  <2>1. PICK n \in 1 .. MaxSession : OnSetup(Item("session", n, 0)) /\ captures' = n
    BY <1>8 DEF SendSession
  <2> DEFINE item == Item("session", n, 0)
  <2>2. item \in Items /\ item.kind = "session" /\ item.start = starts /\ item.n = n
    BY <1>3, ItemTyped DEF Kinds, Item
  <2>3. sub' = [v \in Viewers |-> Enqueue(sub[v], item)]
        /\ session' = <<item>> /\ config' = <<>>
    BY <2>1, <2>2 DEF OnSetup
  <2> HIDE DEF item
  <2>4. video /\ next' \in {"config", "reconfig"} /\ (next' = "reconfig" => next = "replay")
    BY <1>7, <1>8 DEF SendSession, StreamTidy
  <2>5. StreamTidy'
    BY <2>1, <2>2, <2>3, <2>4 DEF StreamTidy, SetupOnly
  <2>6. ASSUME NEW v \in Viewers, IsOpen(v) PROVE Follows(v)'
    <3>1. Follows(v) /\ sub[v].state = "open"
      BY <1>4, <2>6 DEF IsOpen
    <3>2. Fits(sub[v].ahead, item) /\ sub[v].ahead.ok
      BY <2>2, <3>1 DEF Fits, Follows, SetUp
    <3>3. sub'[v] = Enqueue(sub[v], item)
      BY <2>3
    <3>4. /\ sub'[v].header = sub[v].header /\ sub'[v].seen = sub[v].seen
          /\ sub'[v].waiting = sub[v].waiting /\ sub'[v].ahead.ok
          /\ sub'[v].ahead.start = sub[v].ahead.start /\ sub'[v].ahead.session = n
      BY <1>6, <2>2, <3>1, <3>2, <3>3, SetupFollows
    <3> QED BY <2>1, <2>3, <2>4, <3>1, <3>4 DEF Follows, SetUp
  <2> QED BY <1>2, <1>5, <2>5, <2>6 DEF DecodeInv, AllFollow
<1>9. CASE SendConfig
  <2> DEFINE item == Item("config", captures, 0)
  <2>1. item \in Items /\ item.kind = "config" /\ item.start = starts /\ item.n = captures
    BY <1>3, ItemTyped DEF Kinds, Item
  <2>2. sub' = [v \in Viewers |-> Enqueue(sub[v], item)]
        /\ session' = session /\ config' = <<item>> /\ UNCHANGED <<captures, packet>>
    BY <1>9, <2>1 DEF SendConfig, OnSetup
  <2> HIDE DEF item
  <2>3. /\ next \in {"config", "reconfig"} /\ next' \in {"key", "media"}
        /\ ~video => next' = "media"
        /\ video /\ next' = "media" => next = "reconfig"
        /\ video => session # <<>>
    BY <1>7, <1>9 DEF SendConfig, StreamTidy
  <2>4. StreamTidy'
    BY <1>7, <2>1, <2>2, <2>3 DEF StreamTidy, SetupOnly
  <2>5. ASSUME NEW v \in Viewers, IsOpen(v) PROVE Follows(v)'
    <3>1. Follows(v) /\ sub[v].state = "open"
      BY <1>4, <2>5 DEF IsOpen
    <3>2. Fits(sub[v].ahead, item) /\ sub[v].ahead.ok
      BY <2>1, <2>3, <3>1 DEF Fits, Follows, SetUp
    <3>3. sub'[v] = Enqueue(sub[v], item)
      BY <2>2
    <3>4. /\ sub'[v].header = sub[v].header /\ sub'[v].seen = sub[v].seen
          /\ sub'[v].waiting = sub[v].waiting /\ sub'[v].ahead.ok
          /\ sub'[v].ahead.start = sub[v].ahead.start
          /\ sub'[v].ahead.config = captures /\ sub'[v].ahead.session = sub[v].ahead.session
      BY <1>6, <2>1, <3>1, <3>2, <3>3, SetupFollows
    <3> QED BY <2>2, <2>3, <3>1, <3>4 DEF Follows, SetUp
  <2> QED BY <1>2, <1>5, <2>4, <2>5 DEF DecodeInv, AllFollow
<1>10. CASE SendKey \/ SendOther
  <2>1. PICK kind \in {"key", "delta", "audio"} :
          /\ OnMedia(Item(kind, captures, packet'))
          /\ IF video THEN kind \in {"key", "delta"} /\ packet' = (packet + 1) % Cycle
             ELSE kind = "audio" /\ packet' = packet
          /\ kind # "key" => next = "media"
    BY <1>10 DEF SendKey, SendOther
  <2>2. next \in {"key", "media"} /\ next' = "media" /\ UNCHANGED captures
    BY <1>10 DEF SendKey, SendOther
  <2>3. UNCHANGED <<session, config>>
    BY <2>1 DEF OnMedia
  <2>4. config # <<>> /\ (video => session # <<>>)
    BY <1>7, <2>2 DEF StreamTidy
  <2>5. StreamTidy'
    BY <1>7, <2>2, <2>3, <2>4 DEF StreamTidy, SetupOnly
  <2>6. PICK old \in [Viewers -> 0 .. MaxQueue + 1] :
          sub' = [v \in Viewers |->
                    IF video THEN OfferVideo(sub[v], Item(kind, captures, packet'), old[v])
                    ELSE OfferAudio(sub[v], Item(kind, captures, packet'), old[v])]
    BY <2>1 DEF OnMedia
  <2>7. ASSUME NEW v \in Viewers, IsOpen(v) PROVE Follows(v)'
    <3>1. Follows(v) /\ sub[v].state = "open" /\ old[v] \in Nat
      BY <1>4, <2>7, RoomForOne DEF IsOpen
    <3>2. CASE video
      <4>1. sub'[v] = OfferVideo(sub[v], Item(kind, captures, packet'), old[v])
        BY <2>6, <3>2
      <4>2. packet' \in 0 .. Cycle - 1 /\ packet' = (packet + 1) % Cycle
            /\ kind \in {"key", "delta"} /\ (kind = "delta" => next = "media")
        BY <1>3, <2>1, <3>2
      <4>3. /\ sub'[v].header = starts /\ sub'[v].seen.ok /\ SetUp(sub'[v].ahead)
            /\ ~sub'[v].waiting => sub'[v].ahead.packet = packet'
        BY <1>7, <2>4, <3>1, <3>2, <4>1, <4>2, VideoFollows
      <4> QED BY <2>2, <2>3, <4>3 DEF Follows, SetUp
    <3>3. CASE ~video
      <4>1. sub'[v] = OfferAudio(sub[v], Item("audio", captures, packet), old[v])
        BY <2>1, <2>6, <3>3
      <4>2. sub'[v].header = starts /\ sub'[v].seen.ok /\ SetUp(sub'[v].ahead)
        BY <1>7, <2>4, <3>1, <3>3, <4>1, AudioFollows
      <4> QED BY <2>2, <2>3, <3>3, <4>2 DEF Follows, SetUp
    <3> QED BY <3>2, <3>3
  <2> QED BY <1>2, <1>5, <2>5, <2>7 DEF DecodeInv, AllFollow
<1> QED BY <1>8, <1>9, <1>10 DEF Sends

\* Starts, pauses and ends of the source leave no viewer that cannot follow (onStart,
\* onPause, reset, Sink.stopped).
LEMMA SourceFollows ==
  ASSUME FanoutTypeOK, DecodeInv, Starts \/ Recapture \/ Pause \/ Reset \/ Stopped
  PROVE  DecodeInv'
<1> USE DEF DecodeInv
<1>1. CASE Starts
  <2>1. PICK enabled \in BOOLEAN, then \in {"none", "session", "replay", "config"} :
          /\ Start(enabled, then)
          /\ ~video => then \in {"none", "config"}
          /\ video => then # "config"
    BY <1>1 DEF Starts
  <2>2. src \in {"off", "on"} /\ starts \in Nat
    BY <1>1, TypesOf, BoundsNat DEF Starts
  <2>3. /\ starts' = starts + 1 /\ header' = starts + 1 /\ session' = <<>> /\ config' = <<>>
        /\ src' = "on" /\ next' = then /\ UNCHANGED <<video, late>>
    BY <2>1 DEF Start
  <2>4. ~late
    BY <2>2 DEF SourceTidy
  <2>5. SourceTidy'
    BY <2>2, <2>3, <2>4 DEF SourceTidy
  <2>6. StreamTidy'
    BY <2>1, <2>3 DEF StreamTidy, SetupOnly
  <2>7. ASSUME NEW v \in Viewers, v \notin closing', IsOpen(v)' PROVE Follows(v)'
    <3>1. sub'[v] = IF v \in Listed /\ header = 0 THEN Begin(sub[v], starts + 1, ~enabled)
                    ELSE sub[v]
      BY <2>1 DEF Start
    <3>2. sub[v] \in Subscribers
      BY TypesOf DEF SubsTyped, SubTyped
    <3>3. IsOpen(v)
      BY <2>7, <3>1, <3>2 DEF IsOpen, Begin, Subscribers
    <3>4. header = 0
      BY <2>1, <2>7, <3>3 DEF Start
    <3>5. src = "off"
      BY <2>2, <3>4 DEF SourceTidy
    <3>6. Fresh(sub[v])
      BY <3>3, <3>5 DEF SourceTidy
    <3>7. sub'[v] = Begin(sub[v], starts + 1, ~enabled)
      BY <3>1, <3>3, <3>4 DEF Listed, IsOpen
    <3>8. /\ sub'[v].header = starts + 1 /\ sub'[v].seen.ok /\ sub'[v].waiting = video
          /\ sub'[v].ahead.start = starts + 1 /\ sub'[v].ahead.ok
      <4>1. sub[v].ahead \in Decoders
        BY <3>2, FieldTyped
      <4>2. /\ sub'[v].header = starts + 1 /\ sub'[v].seen = sub[v].seen
            /\ sub'[v].waiting = sub[v].waiting
            /\ sub'[v].ahead = [sub[v].ahead EXCEPT !.start = starts + 1]
        BY <3>2, <3>7 DEF Begin, Subscribers
      <4> QED BY <3>6, <4>1, <4>2 DEF Fresh, Decoders
    <3> QED BY <2>1, <2>3, <3>8 DEF Follows, SetUp
  <2> QED BY <2>5, <2>6, <2>7 DEF AllFollow
<1>2. CASE Recapture
  BY <1>2 DEF Recapture, stream, SourceTidy, Fresh, StreamTidy, SetupOnly, AllFollow, Follows,
              SetUp, IsOpen
<1>3. CASE Pause
  BY <1>3 DEF Pause, SourceTidy, Fresh, StreamTidy, SetupOnly, AllFollow, Follows, SetUp,
           IsOpen
<1>4. CASE Reset
  <2>1. /\ src = "on" /\ src' = "stopping" /\ header' = 0 /\ session' = <<>> /\ config' = <<>>
        /\ closing' = closing \cup {v \in Viewers : IsOpen(v)}
        /\ UNCHANGED <<video, next, starts, sub>>
    BY <1>4 DEF Reset
  <2>2. \A v \in Viewers \ closing' : ~IsOpen(v)'
    BY <2>1 DEF IsOpen
  <2>3. starts # 0
    BY <2>1 DEF SourceTidy
  <2>4. SourceTidy'
    BY <2>1, <2>2, <2>3 DEF SourceTidy
  <2>5. StreamTidy'
    BY <2>1 DEF StreamTidy, SetupOnly
  <2> QED BY <2>1, <2>4, <2>5 DEF AllFollow
<1>5. CASE Stopped
  <2>1. /\ src = "stopping" /\ src' = "off" /\ next' = "none" /\ ~late
        /\ \A v \in Viewers : ~IsOpen(v)
        /\ UNCHANGED <<video, starts, late, header, session, config, closing, sub>>
    BY <1>5 DEF Stopped, stream
  <2>2. starts # 0 /\ header = 0
    BY <2>1 DEF SourceTidy
  <2>3. SourceTidy'
    BY <2>1, <2>2 DEF SourceTidy, IsOpen
  <2>4. StreamTidy'
    BY <2>1 DEF StreamTidy, SetupOnly
  <2> QED BY <2>1, <2>3, <2>4 DEF AllFollow
<1> QED BY <1>1, <1>2, <1>3, <1>4, <1>5

\* A viewer that joins is set up; one that takes what it was sent, closes or leaves changes
\* nothing for the others (serve, pump, close).
LEMMA ViewerFollows ==
  ASSUME FanoutTypeOK, DecodeInv, NEW v \in Viewers,
         Subscribe(v) \/ Take(v) \/ Close(v) \/ CloseNext(v) \/ Leave(v)
  PROVE  DecodeInv'
<1>1. sub[v] \in Subscribers /\ sub \in [Viewers -> Subscribers]
  BY TypesOf DEF SubsTyped, SubTyped
<1>2. UNCHANGED <<video, src, next, starts, captures, packet, late, header, session, config>>
  BY DEF Subscribe, Take, Close, CloseNext, Leave, source, stream
<1>3. StreamTidy'
  BY <1>2 DEF DecodeInv, StreamTidy, SetupOnly
<1>4. ASSUME NEW r, sub' = [sub EXCEPT ![v] = r], closing' \subseteq closing,
             \A w \in closing \ closing' : w = v,
             r.state = "open" /\ v \notin closing' =>
               /\ header = 0 => r.header = 0
               /\ src = "on" => Follows(v)',
             r.state = "open" /\ src = "off" =>
               starts = 0 /\ Fresh(r)
      PROVE  DecodeInv'
  <2>1. sub'[v] = r /\ \A w \in Viewers : w # v => sub'[w] = sub[w]
    BY <1>1, <1>4
  <2>2. ASSUME NEW w \in Viewers, w # v PROVE w \in closing' <=> w \in closing
    BY <1>4, <2>2
  <2>3. SourceTidy'
    <3>1. ASSUME NEW w \in Viewers, src = "off", IsOpen(w)'
          PROVE  starts = 0 /\ Fresh(sub'[w])
      BY <1>4, <2>1, <3>1 DEF IsOpen, DecodeInv, SourceTidy
    <3>2. ASSUME NEW w \in Viewers, w \notin closing', header = 0, IsOpen(w)'
          PROVE  sub'[w].header = 0
      BY <1>4, <2>1, <2>2, <3>2 DEF IsOpen, DecodeInv, SourceTidy
    <3> QED BY <1>2, <3>1, <3>2 DEF DecodeInv, SourceTidy, Fresh
  <2>4. AllFollow'
    <3>1. ASSUME NEW w \in Viewers, w \notin closing', src = "on", IsOpen(w)' PROVE Follows(w)'
      <4>1. CASE w = v
        BY <1>4, <2>1, <3>1, <4>1 DEF IsOpen
      <4>2. CASE w # v
        <5>1. IsOpen(w) /\ w \notin closing /\ sub'[w] = sub[w]
          BY <2>1, <2>2, <3>1, <4>2 DEF IsOpen
        <5>2. Follows(w)
          BY <3>1, <5>1 DEF DecodeInv, AllFollow
        <5> QED BY <1>2, <5>1, <5>2 DEF Follows, SetUp
      <4> QED BY <4>1, <4>2
    <3> QED BY <1>2, <3>1 DEF AllFollow
  <2> QED BY <1>3, <2>3, <2>4 DEF DecodeInv
<1>5. CASE Subscribe(v)
  <2> DEFINE x == [Blank EXCEPT !.start = header]
             r == [Out EXCEPT !.state = "open", !.waiting = video,
                    !.header = header, !.finish = ended, !.queue = session \o config,
                    !.ahead = AfterSetup(x)]
  <2>1. sub' = [sub EXCEPT ![v] = r] /\ closing' = closing
    BY <1>5 DEF Subscribe
  <2>2. /\ r.state = "open" /\ r.waiting = video /\ r.header = header /\ r.seen = Blank
        /\ r.ahead = AfterSetup(x)
    BY DEF Out
  <2>3. ASSUME src = "off" PROVE starts = 0 /\ Fresh(r)
    <3>1. starts = 0
      BY <1>5, <2>3 DEF Subscribe
    <3>2. session = <<>> /\ config = <<>>
      BY <2>3, <3>1 DEF DecodeInv, SourceTidy
    <3>3. x.ok /\ Blank.ok
      BY DEF Blank
    <3>4. AfterSetup(x) = x
      BY <3>2 DEF AfterSetup
    <3> HIDE DEF r, x
    <3> QED BY <2>2, <3>1, <3>3, <3>4 DEF Fresh
  <2>4. ASSUME src = "on" PROVE Follows(v)'
    <3>1. header = starts /\ header \in 0 .. MaxStart
      BY <2>4, TypesOf DEF DecodeInv, SourceTidy
    <3>2. x \in Decoders /\ x.ok /\ x.start = starts
      <4>1. Blank \in Decoders /\ Blank.ok
        BY BlankTyped DEF Blank
      <4> HIDE DEF FanoutTypeOK
      <4> QED BY <3>1, <4>1 DEF Decoders
    <3> HIDE DEF x
    <3>3. SetUp(AfterSetup(x))
      BY <2>4, <3>2, SetupFits DEF DecodeInv
    <3>4. sub'[v] = r
      BY <1>1, <2>1
    <3>5. Blank.ok
      BY DEF Blank
    <3>6. /\ sub'[v].header = starts /\ sub'[v].seen.ok /\ sub'[v].ahead = AfterSetup(x)
          /\ sub'[v].waiting = video
      BY <2>2, <3>1, <3>4, <3>5
    <3> QED BY <1>2, <3>3, <3>6 DEF Follows, SetUp
  <2> HIDE DEF r, x
  <2> QED BY <1>4, <2>1, <2>2, <2>3, <2>4
<1>6. CASE Take(v) /\ ~sub[v].finish
  <2> DEFINE r == [sub[v] EXCEPT !.seen = sub[v].ahead, !.queue = <<>>]
  <2>1. sub' = [sub EXCEPT ![v] = r] /\ closing' = closing
    BY <1>6 DEF Take
  <2>2. /\ r.header = sub[v].header /\ r.seen = sub[v].ahead /\ r.ahead = sub[v].ahead
        /\ r.waiting = sub[v].waiting
    BY <1>1 DEF Subscribers
  <2>3. IsOpen(v) /\ sub[v].header # 0
    BY <1>6 DEF Take
  <2>4. src = "off" => starts = 0 /\ Fresh(r)
    <3>1. src = "off" => starts = 0 /\ Fresh(sub[v])
      BY <2>3 DEF DecodeInv, SourceTidy
    <3> HIDE DEF r
    <3> QED BY <2>2, <3>1 DEF Fresh
  <2>5. header = 0 /\ v \notin closing => r.header = 0
    BY <2>2, <2>3 DEF DecodeInv, SourceTidy
  <2>6. src = "on" /\ v \notin closing => Follows(v)'
    <3>1. sub'[v] = r
      BY <1>1, <2>1
    <3>2. src = "on" /\ v \notin closing => Follows(v)
      BY <2>3 DEF DecodeInv, AllFollow
    <3> HIDE DEF r
    <3> QED BY <1>2, <2>2, <3>1, <3>2 DEF Follows, SetUp
  <2> HIDE DEF r
  <2> QED BY <1>4, <2>1, <2>4, <2>5, <2>6
<1>7. CASE (Take(v) /\ sub[v].finish) \/ Close(v) \/ CloseNext(v) \/ Leave(v)
  <2>1. /\ closing' \subseteq closing /\ \A w \in closing \ closing' : w = v
        /\ \/ sub' = [sub EXCEPT ![v] = CloseSub(sub[v])]
           \/ sub' = [sub EXCEPT ![v] = Out]
    BY <1>7 DEF Take, Close, CloseNext, Leave
  <2>2. CloseSub(sub[v]).state # "open" /\ Out.state # "open"
    BY <1>1, ClosedTyped
  <2> QED BY <1>4, <2>1, <2>2
<1> QED BY <1>5, <1>6, <1>7

\* Whatever happens, the viewers follow.
LEMMA DecodeStep == FanoutTypeOK /\ DecodeInv /\ [FanoutNext]_fanoutVars => DecodeInv'
<1> SUFFICES ASSUME FanoutTypeOK, DecodeInv, [FanoutNext]_fanoutVars PROVE DecodeInv'
  OBVIOUS
<1>1. CASE Produce
  <2>1. Sends /\ src = "on" /\ closing = {}
        /\ UNCHANGED <<video, src, starts, late, header, closing>>
    BY <1>1 DEF Produce
  <2> QED BY <2>1, SendsFollow
<1>2. CASE ProduceLate
  <2>1. Sends /\ late /\ ~late' /\ UNCHANGED <<video, src, starts, header, closing>>
    BY <1>2 DEF ProduceLate
  <2>2. src = "stopping" /\ header = 0
    BY <2>1, TypesOf DEF DecodeInv, SourceTidy
  <2>3. SourceTidy'
    <3>1. \A v \in Viewers : sub'[v].state = sub[v].state /\ sub'[v].header = sub[v].header
      BY <2>1, SendsKeep
    <3> QED BY <2>1, <2>2, <3>1 DEF DecodeInv, SourceTidy, IsOpen
  <2>4. SetupOnly' /\ (~video => session' = <<>> /\ next' \in {"none", "config", "media"})
    <3>1. StreamTidy
      BY DEF DecodeInv
    <3>2. CASE SendSession \/ SendConfig
      <4>1. PICK n : /\ \/ OnSetup(Item("session", n, 0)) /\ video
                        \/ OnSetup(Item("config", n, 0))
        BY <3>1, <3>2 DEF SendSession, SendConfig, StreamTidy
      <4>2. ~video => next' = "media"
        BY <3>1, <3>2 DEF SendSession, SendConfig, StreamTidy
      <4>3. \/ session' = <<Item("session", n, 0)>> /\ config' = <<>> /\ video
            \/ session' = session /\ config' = <<Item("config", n, 0)>>
        BY <4>1 DEF OnSetup, Item
      <4>4. Item("session", n, 0).kind = "session" /\ Item("config", n, 0).kind = "config"
        BY DEF Item
      <4> QED BY <2>1, <3>1, <4>2, <4>3, <4>4 DEF StreamTidy, SetupOnly
    <3>3. CASE SendKey \/ SendOther
      <4>1. UNCHANGED <<session, config>> /\ next' = "media"
        BY <3>3 DEF SendKey, SendOther, OnMedia
      <4> QED BY <2>1, <3>1, <4>1 DEF StreamTidy, SetupOnly
    <3> QED BY <2>1, <3>2, <3>3 DEF Sends
  <2>5. StreamTidy' /\ AllFollow'
    BY <2>1, <2>2, <2>4 DEF StreamTidy, AllFollow
  <2> QED BY <2>3, <2>5 DEF DecodeInv
<1>3. CASE RequestKeyFrameNow \/ IntervalOver \/ UNCHANGED fanoutVars
  <2>1. UNCHANGED <<video, src, next, starts, captures, packet, late, header, session, config,
                    closing, sub>>
    BY <1>3 DEF RequestKeyFrameNow, IntervalOver, fanoutVars, source, stream
  <2> QED BY <2>1 DEF DecodeInv, SourceTidy, Fresh, StreamTidy, SetupOnly, AllFollow, Follows,
                  SetUp, IsOpen
<1> QED BY <1>1, <1>2, <1>3, SourceFollows, ViewerFollows DEF FanoutNext

-----------------------------------------------------------------------------
\* The invariant of MediaFanout.kt that the others follow from.
THEOREM FanoutInductive == FanoutSpec => [](FanoutTypeOK /\ BudgetInv /\ DecodeInv)
<1>1. FanoutInit => BudgetInv /\ DecodeInv
  <2> SUFFICES ASSUME FanoutInit PROVE BudgetInv /\ DecodeInv
    OBVIOUS
  <2>1. \A v \in Viewers : sub[v].queue = <<>> /\ sub[v].state = "out"
    BY DEF FanoutInit, Out
  <2>2. WithinBudget
    BY <2>1, EmptyIsFew DEF WithinBudget, FewPackets
  <2> QED BY <2>1, <2>2 DEF FanoutInit, BudgetInv, SetupOnly, DecodeInv, SourceTidy, StreamTidy,
             AllFollow, IsOpen
<1>2. (FanoutTypeOK /\ BudgetInv /\ DecodeInv) /\ [FanoutNext]_fanoutVars
        => (FanoutTypeOK /\ BudgetInv /\ DecodeInv)'
  BY FanoutTyped, BudgetStep, DecodeStep
<1> QED BY <1>1, <1>2, FanoutInitTyped, PTL DEF FanoutSpec

\* The types hold for any number of viewers and any budget (MediaFanout.kt).
THEOREM FanoutTypeCorrect == FanoutSpec => []FanoutTypeOK
BY FanoutInductive, PTL

\* However long a viewer is stuck in a write, and whatever the source sends, it holds no
\* more packets than its budget (Subscriber.offerMedia, overBudget).
THEOREM WithinBudgetCorrect == FanoutSpec => []WithinBudget
<1>1. BudgetInv => WithinBudget
  BY DEF BudgetInv
<1> QED BY <1>1, FanoutInductive, PTL

\* However viewers join, lag, are cut back and leave, and the source starts, pauses, captures
\* anew and stops, a viewer is sent nothing that its decoder can make nothing of.
THEOREM DecodableCorrect == FanoutSpec => []Decodable
<1>1. FanoutTypeOK /\ DecodeInv => Decodable
  <2> SUFFICES ASSUME FanoutTypeOK, DecodeInv, NEW v \in Viewers, v \notin closing,
                      IsOpen(v), sub[v].header # 0
               PROVE  sub[v].ahead.ok
    BY DEF Decodable
  <2>1. src = "on"
    BY DEF DecodeInv, SourceTidy
  <2> QED BY <2>1 DEF DecodeInv, AllFollow, Follows, SetUp
<1> QED BY <1>1, FanoutInductive, PTL
=============================================================================
