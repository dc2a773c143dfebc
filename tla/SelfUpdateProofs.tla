------------------------- MODULE SelfUpdateProofs -------------------------
(***************************************************************************)
(* However many updates of a release run, and wherever any of them fails   *)
(* or is killed, the program is a whole, checked binary (Runnable); so it  *)
(* is for updates of a checkout, unless one wrote exe.new under another.   *)
(* In both an update that was not killed leaves nothing it has not named   *)
(* (Tidy), and the version replaced can be gone back to (WayBack).  All    *)
(* for every set of updates and every number of releases.                  *)
(*                                                                         *)
(* None of the three is inductive.  The swap installs `next' and the keep  *)
(* installs `saved': Whole says what these hold at each place.  A checkout *)
(* installs exe.new: Alone says that, but for a clash, one update at most  *)
(* has to do with that file, and that it is whole or gone when its turn    *)
(* comes.  Tidied says at which places an update has no file, and WayInv   *)
(* who has the way back: exe.old, or the one update that may be about to   *)
(* rename its copy.                                                        *)
(***************************************************************************)
EXTENDS SelfUpdate, TLAPS

Places == Over \cup Catching \cup {"off", "ask", "confirm", "build", "building"}
Contents == Versions \cup {None, Part, Bad}

UpdaterTypeOK ==
  /\ mode \in {"release", "checkout"} /\ latest \in Versions
  /\ exe \in Contents /\ old \in Contents /\ exeNew \in Contents
  /\ output \in [Updaters -> {"none", "new", "exe"}]
  /\ orphans \subseteq Updaters /\ clash \in BOOLEAN
  /\ next \in [Updaters -> Contents] /\ saved \in [Updaters -> Contents]
  /\ place \in [Updaters -> Places]
  /\ wanted \in [Updaters -> Versions \cup {None}]
  /\ took \in [Updaters -> Contents]
  /\ staged \in [Updaters -> BOOLEAN]

\* The binary that the update is going to install has been checked; until then
\* it knows which version that has to be.
NextWhole(u) ==
  /\ place[u] \in {"confirm", "create", "receive", "build", "building", "check"} =>
       wanted[u] \in Versions
  /\ mode = "release" /\ place[u] \in {"copy", "copying", "gate", "swap"} =>
       next[u] \in Versions

\* The copy that it is going to keep is whole.
SavedWhole(u) ==
  /\ place[u] = "copying" => took[u] \in Versions
  /\ place[u] \in {"gate", "keep"} => saved[u] \in Versions
  /\ place[u] = "swap" /\ mode = "release" => saved[u] \in Versions

Whole == \A u \in Updaters : NextWhole(u) /\ SavedWhole(u)

\* Which places are of which kind of update, and where a build's output is open.
ReleasePlaces == {"confirm", "create", "receive", "copy", "copying", "gate", "keep", "print",
                  "finish"}
Modes ==
  /\ clash => mode = "checkout"
  /\ \A u \in Updaters :
       /\ place[u] \in ReleasePlaces => mode = "release"
       /\ place[u] \in {"build", "building"} => mode = "checkout"
       /\ output[u] # "none" => place[u] = "building"

\* Without a clash one update of a checkout has to do with exe.new, and installs what it
\* has checked, or finds that gone.
Using == {"building", "check", "swap"}
Alone ==
  mode = "checkout" /\ ~clash =>
    /\ \A u, v \in Updaters : place[u] \in Using /\ place[v] \in Using => u = v
    /\ \A u \in Updaters : output[u] # "exe"
    /\ \A u \in Updaters : place[u] = "swap" => exeNew \in Versions \cup {None}

RunnableInv == UpdaterTypeOK /\ Runnable /\ Modes /\ Alone /\ Whole

\* The steps of an update: those that change no file, those that change files of its own
\* or the release's program, the removals of its own files, those about exe.new, a kill.
Looks(u) ==
  \/ Start(u) \/ Latest(u) \/ NoneWanted(u) \/ Confirmed(u) \/ Declined(u)
  \/ Pulled(u) \/ UpToDate(u) \/ NotPulled(u) \/ NotCreated(u) \/ Checks(u)
  \/ Gate(u) \/ Report(u) \/ Signal(u)
Writes(u) ==
  \/ Create(u) \/ Receive(u) \/ CopyOpens(u) \/ Copied(u) \/ Swap(u) \/ Keep(u)
  \/ NotKept(u) \/ Finish(u)
CleansUp(u) ==
  /\ CleanUp(u) /\ Go(u, place[u], "finish") /\ mode = "release"
  /\ place[u] \in {"receive", "check", "copy", "copying", "gate", "swap"}
Removes(u) ==
  /\ RemoveNew(u) /\ Go(u, place[u], "ended") /\ mode = "checkout"
  /\ place[u] \in {"build", "building", "check", "swap"}

\* Every step of an update is of one of these kinds.
LEMMA Kinds ==
  ASSUME Modes, NEW u \in Updaters,
         \/ Looks(u) \/ Writes(u) \/ NotReceived(u) \/ ChecksNot(u) \/ NotCopied(u)
         \/ Interrupted(u) \/ NotBuilt(u) \/ NotSwapped(u) \/ Build(u) \/ Built(u)
         \/ SwapNew(u) \/ Kill(u)
  PROVE  \/ Looks(u) \/ Writes(u) \/ CleansUp(u) \/ Removes(u)
         \/ Build(u) \/ Built(u) \/ SwapNew(u) \/ Kill(u)
<1>1. CASE NotReceived(u) \/ NotCopied(u) \/ Interrupted(u)
    BY <1>1 DEF NotReceived, NotCopied, Interrupted, CleansUp, Go, Modes, ReleasePlaces
<1>2. CASE ChecksNot(u) \/ NotSwapped(u)
    BY <1>2 DEF ChecksNot, NotSwapped, CleansUp, Removes, Go
<1>3. CASE NotBuilt(u)
    BY <1>3 DEF NotBuilt, Removes, Go, Modes
<1> QED BY <1>1, <1>2, <1>3

\* And every step is one of an update, or of the world around.
LEMMA Steps ==
  ASSUME Modes, [Next]_vars
  PROVE  \/ UNCHANGED vars \/ NewRelease \/ GoBack
         \/ \E u \in Updaters : \/ Looks(u) \/ Writes(u) \/ CleansUp(u) \/ Removes(u)
                                \/ Build(u) \/ Built(u) \/ SwapNew(u) \/ Kill(u)
BY Kinds DEF Next, Looks, Writes

USE DEF Versions, Contents, Places, Over, Catching, ReleasePlaces, Using

\* Before the first update there is the program alone.
LEMMA RunnableInit == Init => RunnableInv
<1> SUFFICES ASSUME Init PROVE RunnableInv
    OBVIOUS
<1>1. UpdaterTypeOK
  <2>1. 1 \in Versions
      BY SelfUpdateAssumption DEF SelfUpdateAssumption
  <2>2. output \in [Updaters -> {"none", "new", "exe"}]
      BY DEF Init
  <2>3. place \in [Updaters -> Places]
      BY DEF Init
  <2>4. next \in [Updaters -> Contents] /\ saved \in [Updaters -> Contents]
        /\ took \in [Updaters -> Contents] /\ wanted \in [Updaters -> Versions \cup {None}]
      BY DEF Init
  <2> QED BY <2>1, <2>2, <2>3, <2>4 DEF Init, UpdaterTypeOK
<1>2. Runnable
    BY SelfUpdateAssumption DEF SelfUpdateAssumption, Init, Runnable
<1>3. Whole /\ Modes /\ Alone
    BY DEF Init, Whole, NextWhole, SavedWhole, Modes, Alone
<1> QED BY <1>1, <1>2, <1>3 DEF RunnableInv

\* Every file's content is a version, or something that can be there instead.
LEMMA TypesKept == RunnableInv /\ [Next]_vars => UpdaterTypeOK'
<1> SUFFICES ASSUME RunnableInv, [Next]_vars PROVE UpdaterTypeOK'
    OBVIOUS
<1> USE SelfUpdateAssumption DEF SelfUpdateAssumption, RunnableInv, UpdaterTypeOK,
         Runnable, Whole, NextWhole, SavedWhole, Modes, Go, Use, shared, files, facts
<1>1. CASE UNCHANGED vars \/ NewRelease \/ GoBack
    BY <1>1 DEF NewRelease, GoBack, vars
<1>2. ASSUME NEW u \in Updaters, Looks(u) PROVE UpdaterTypeOK'
    BY <1>2 DEF Looks, Start, Latest, NoneWanted, Confirmed, Declined, Pulled, UpToDate,
         NotPulled, NotCreated, Checks, Gate, Report, Signal
<1>3. ASSUME NEW u \in Updaters, Writes(u) PROVE UpdaterTypeOK'
    BY <1>3 DEF Writes, Create, Receive, CopyOpens, Copied, Swap, Keep, NotKept, Finish
<1>4. ASSUME NEW u \in Updaters, CleansUp(u) PROVE UpdaterTypeOK'
    BY <1>4 DEF CleansUp, CleanUp
<1>5. ASSUME NEW u \in Updaters, Removes(u) \/ Build(u) PROVE UpdaterTypeOK'
  <2>1. /\ place' \in [Updaters -> Places] /\ exeNew' \in Contents /\ clash' \in BOOLEAN
        /\ UNCHANGED <<mode, latest, orphans, files, facts>>
      BY <1>5 DEF Removes, RemoveNew, Build
  <2>2. output' \in [Updaters -> {"none", "new", "exe"}]
    <3>1. CASE Removes(u)
        BY <3>1 DEF Removes, RemoveNew
    <3>2. CASE Build(u)
        BY <3>2 DEF Build
    <3> QED BY <1>5, <3>1, <3>2
  <2> QED BY <2>1, <2>2
<1>6. ASSUME NEW u \in Updaters, Built(u) PROVE UpdaterTypeOK'
    BY <1>6 DEF Built
<1>7. ASSUME NEW u \in Updaters, SwapNew(u) PROVE UpdaterTypeOK'
    BY <1>7 DEF SwapNew
<1>8. ASSUME NEW u \in Updaters, Kill(u) PROVE UpdaterTypeOK'
    BY <1>8 DEF Kill
<1> QED BY <1>1, <1>2, <1>3, <1>4, <1>5, <1>6, <1>7, <1>8, Steps

\* A release's update and a checkout's go different ways.
LEMMA ModesKept == RunnableInv /\ [Next]_vars => Modes'
<1> SUFFICES ASSUME RunnableInv, [Next]_vars PROVE Modes'
    OBVIOUS
<1> USE SelfUpdateAssumption DEF SelfUpdateAssumption, RunnableInv, UpdaterTypeOK, Modes,
         Go, Use, shared, files, facts
<1>1. CASE UNCHANGED vars \/ NewRelease \/ GoBack
    BY <1>1 DEF NewRelease, GoBack, vars
<1>2. ASSUME NEW u \in Updaters, Looks(u) PROVE Modes'
    BY <1>2 DEF Looks, Start, Latest, NoneWanted, Confirmed, Declined, Pulled, UpToDate,
         NotPulled, NotCreated, Checks, Gate, Report, Signal
<1>3. ASSUME NEW u \in Updaters, Writes(u) PROVE Modes'
    BY <1>3 DEF Writes, Create, Receive, CopyOpens, Copied, Swap, Keep, NotKept, Finish
<1>4. ASSUME NEW u \in Updaters, CleansUp(u) PROVE Modes'
    BY <1>4 DEF CleansUp, CleanUp
<1>5. ASSUME NEW u \in Updaters, Removes(u) \/ Build(u) PROVE Modes'
    BY <1>5 DEF Removes, RemoveNew, Build
<1>6. ASSUME NEW u \in Updaters, Built(u) PROVE Modes'
    BY <1>6 DEF Built
<1>7. ASSUME NEW u \in Updaters, SwapNew(u) PROVE Modes'
    BY <1>7 DEF SwapNew
<1>8. ASSUME NEW u \in Updaters, Kill(u) PROVE Modes'
    BY <1>8 DEF Kill
<1> QED BY <1>1, <1>2, <1>3, <1>4, <1>5, <1>6, <1>7, <1>8, Steps

\* Only a build opens exe.new, and then nobody else is at it, or that is a clash.
LEMMA AloneKept == RunnableInv /\ [Next]_vars => Alone'
<1> SUFFICES ASSUME RunnableInv, [Next]_vars PROVE Alone'
    OBVIOUS
<1> USE SelfUpdateAssumption DEF SelfUpdateAssumption, RunnableInv, UpdaterTypeOK, Modes, Alone,
         Go, Use, shared, files, facts
<1>1. CASE UNCHANGED vars \/ NewRelease \/ GoBack
    BY <1>1 DEF NewRelease, GoBack, vars
<1>2. ASSUME NEW u \in Updaters, Looks(u) PROVE Alone'
    BY <1>2 DEF Looks, Start, Latest, NoneWanted, Confirmed, Declined, Pulled, UpToDate,
         NotPulled, NotCreated, Checks, Gate, Report, Signal
<1>3. ASSUME NEW u \in Updaters, Writes(u) PROVE Alone'
    BY <1>3 DEF Writes, Create, Receive, CopyOpens, Copied, Swap, Keep, NotKept, Finish
<1>4. ASSUME NEW u \in Updaters, CleansUp(u) PROVE Alone'
    BY <1>4 DEF CleansUp, CleanUp
<1>5. ASSUME NEW u \in Updaters, Removes(u) PROVE Alone'
  <2>1. \A v \in Updaters : output'[v] = "exe" => output[v] = "exe"
      BY <1>5 DEF Removes, RemoveNew
  <2>2. \A v \in Updaters : place'[v] \in Using => place'[v] = place[v]
      BY <1>5 DEF Removes
  <2> QED BY <1>5, <2>1, <2>2 DEF Removes, RemoveNew
<1>6. ASSUME NEW u \in Updaters, Build(u) PROVE Alone'
  <2>1. \A v \in Updaters : output'[v] = "exe" => output[v] = "exe"
      BY <1>6 DEF Build
  <2>2. \A v \in Updaters : v # u => place'[v] = place[v]
      BY <1>6 DEF Build
  <2>3. place'[u] = "building"
      BY <1>6 DEF Build
  <2>4. ~clash' => ~clash /\ \A v \in Updaters \ {u} : place[v] \notin Using
      BY <1>6 DEF Build
  <2> QED BY <1>6, <2>1, <2>2, <2>3, <2>4 DEF Build
<1>7. ASSUME NEW u \in Updaters, Built(u) PROVE Alone'
    BY <1>7 DEF Built
<1>8. ASSUME NEW u \in Updaters, SwapNew(u) PROVE Alone'
    BY <1>8 DEF SwapNew
<1>9. ASSUME NEW u \in Updaters, Kill(u) PROVE Alone'
    BY <1>9 DEF Kill
<1> QED BY <1>1, <1>2, <1>3, <1>4, <1>5, <1>6, <1>7, <1>8, <1>9, Steps

\* What is going to be installed or kept stays whole.
LEMMA WholeKept == RunnableInv /\ [Next]_vars => Whole'
<1> SUFFICES ASSUME RunnableInv, [Next]_vars PROVE Whole'
    OBVIOUS
<1> USE SelfUpdateAssumption DEF SelfUpdateAssumption, RunnableInv, UpdaterTypeOK,
         Modes, Runnable, Whole, NextWhole, SavedWhole, Go, Use, shared, files, facts
<1>1. CASE UNCHANGED vars \/ NewRelease \/ GoBack
    BY <1>1 DEF NewRelease, GoBack, vars
<1>2. ASSUME NEW u \in Updaters, Looks(u) PROVE Whole'
    BY <1>2 DEF Looks, Start, Latest, NoneWanted, Confirmed, Declined, Pulled, UpToDate,
         NotPulled, NotCreated, Checks, Gate, Report, Signal
<1>3. ASSUME NEW u \in Updaters, Writes(u) PROVE Whole'
    BY <1>3 DEF Writes, Create, Receive, CopyOpens, Copied, Swap, Keep, NotKept, Finish
<1>4. ASSUME NEW u \in Updaters, CleansUp(u) PROVE Whole'
    BY <1>4 DEF CleansUp, CleanUp
<1>5. ASSUME NEW u \in Updaters, Removes(u) \/ Build(u) PROVE Whole'
    BY <1>5 DEF Removes, RemoveNew, Build
<1>6. ASSUME NEW u \in Updaters, Built(u) PROVE Whole'
    BY <1>6 DEF Built
<1>7. ASSUME NEW u \in Updaters, SwapNew(u) PROVE Whole'
    BY <1>7 DEF SwapNew
<1>8. ASSUME NEW u \in Updaters, Kill(u) PROVE Whole'
    BY <1>8 DEF Kill
<1> QED BY <1>1, <1>2, <1>3, <1>4, <1>5, <1>6, <1>7, <1>8, Steps

\* So the program stays whole: a swap installs a checked binary, and no build writes the
\* program's own file, but for a clash.
LEMMA RunnableKept == RunnableInv /\ [Next]_vars => Runnable'
<1> SUFFICES ASSUME RunnableInv, [Next]_vars PROVE Runnable'
    OBVIOUS
<1> USE SelfUpdateAssumption DEF SelfUpdateAssumption, RunnableInv, UpdaterTypeOK,
         Modes, Alone, Runnable, Whole, NextWhole, SavedWhole, Go, Use, shared, files, facts
<1>1. CASE UNCHANGED vars \/ NewRelease \/ GoBack
    BY <1>1 DEF NewRelease, GoBack, vars
<1>2. ASSUME NEW u \in Updaters, Looks(u) PROVE Runnable'
    BY <1>2 DEF Looks, Start, Latest, NoneWanted, Confirmed, Declined, Pulled, UpToDate,
         NotPulled, NotCreated, Checks, Gate, Report, Signal
<1>3. ASSUME NEW u \in Updaters, Writes(u) PROVE Runnable'
    BY <1>3 DEF Writes, Create, Receive, CopyOpens, Copied, Swap, Keep, NotKept, Finish
<1>4. ASSUME NEW u \in Updaters, CleansUp(u) PROVE Runnable'
    BY <1>4 DEF CleansUp, CleanUp
<1>5. ASSUME NEW u \in Updaters, Removes(u) \/ Build(u) PROVE Runnable'
    BY <1>5 DEF Removes, RemoveNew, Build
<1>6. ASSUME NEW u \in Updaters, Built(u) PROVE Runnable'
    BY <1>6 DEF Built
<1>7. ASSUME NEW u \in Updaters, SwapNew(u) PROVE Runnable'
    BY <1>7 DEF SwapNew
<1>8. ASSUME NEW u \in Updaters, Kill(u) PROVE Runnable'
    BY <1>8 DEF Kill
<1> QED BY <1>1, <1>2, <1>3, <1>4, <1>5, <1>6, <1>7, <1>8, Steps

\* Together they are inductive.
LEMMA RunnableStep == RunnableInv /\ [Next]_vars => RunnableInv'
BY TypesKept, ModesKept, AloneKept, WholeKept, RunnableKept DEF RunnableInv

\* Whatever fails or is killed, the program and exe.old are whole binaries that were
\* checked, for any number of updates of a release, and of a checkout as long as none
\* writes exe.new under another (src/update.go:443-475, 536-549).
THEOREM AlwaysRunnable == Spec => []Runnable
<1>1. RunnableInv => Runnable
    BY DEF RunnableInv
<1> QED BY RunnableInit, RunnableStep, <1>1, PTL DEF Spec

-----------------------------------------------------------------------------
(* What an update that is over has left behind. *)

\* Until its download an update has no file, until its copy none beside exe; after
\* the swap its binary is exe; and at the end it has what it will name, or nothing.
\* An update of a checkout has no file of its own.
Tidied(u) ==
  /\ mode = "checkout" => next[u] = None /\ saved[u] = None
  /\ place[u] \in {"off", "ask", "confirm", "create", "keep", "print"} => next[u] = None
  /\ place[u] \in {"off", "ask", "confirm", "create", "receive", "check", "copy"} =>
       saved[u] = None
  /\ place[u] \in {"print", "finish", "ended", "signalled"} =>
       /\ next[u] # None => staged[u] /\ place[u] # "signalled"
       /\ saved[u] # None => unkept[u]

\* exe.new is in use, or was left by an update that was killed.
NewTidied ==
  /\ mode = "release" => exeNew = None
  /\ exeNew # None => \E u \in Updaters : place[u] \in Using \cup {"killed"}

TidyInv == unkept \in [Updaters -> BOOLEAN] /\ (\A u \in Updaters : Tidied(u)) /\ NewTidied

\* What a step of u leaves alone of the others.
OthersTidy(u) ==
  \A v \in Updaters \ {u} :
    /\ place'[v] = place[v] /\ saved'[v] = saved[v] /\ next'[v] = next[v]
    /\ staged'[v] = staged[v] /\ unkept'[v] = unkept[v]

\* They stay tidy, and so does exe.new if u does not leave it.
LEMMA OthersStayTidy ==
  ASSUME NEW u \in Updaters, TidyInv, OthersTidy(u), mode' = mode
  PROVE  /\ \A v \in Updaters \ {u} : Tidied(v)'
         /\ /\ exeNew' \in {exeNew, None}
            /\ place[u] \in Using => place'[u] \in Using \cup {"killed"}
            /\ place[u] = "killed" => place'[u] = "killed"
            => NewTidied'
         /\ exeNew' = None => NewTidied'
<1>1. \A v \in Updaters \ {u} : Tidied(v)'
    BY DEF TidyInv, OthersTidy, Tidied
<1>2. ASSUME exeNew' \in {exeNew, None}, place[u] \in Using => place'[u] \in Using \cup {"killed"},
             place[u] = "killed" => place'[u] = "killed"
      PROVE  NewTidied'
  <2>1. ASSUME NEW v \in Updaters, place[v] \in Using \cup {"killed"}
        PROVE  place'[v] \in Using \cup {"killed"}
      BY <1>2, <2>1 DEF OthersTidy
  <2> QED BY <1>2, <2>1 DEF TidyInv, NewTidied
<1>3. exeNew' = None => NewTidied'
    BY DEF NewTidied
<1> QED BY <1>1, <1>2, <1>3

\* Every way an update ends leaves it tidy.
LEMMA TidyStep == RunnableInv /\ TidyInv /\ [Next]_vars => TidyInv'
<1> SUFFICES ASSUME RunnableInv, TidyInv, [Next]_vars PROVE TidyInv'
    OBVIOUS
<1> USE DEF RunnableInv, UpdaterTypeOK, Modes, shared, files, facts, Go
<1>1. CASE UNCHANGED vars \/ NewRelease \/ GoBack
    BY <1>1 DEF NewRelease, GoBack, TidyInv, Tidied, NewTidied, vars
<1>2. ASSUME NEW u \in Updaters, Looks(u) PROVE TidyInv'
  <2> USE <1>2 DEF Looks, Start, Latest, NoneWanted, Confirmed, Declined, Pulled, UpToDate,
         NotPulled, NotCreated, Checks, Gate, Report, Signal, Use
  <2>1. OthersTidy(u) /\ mode' = mode /\ unkept' = unkept
      BY DEF OthersTidy
  <2>2. Tidied(u)'
      BY DEF TidyInv, Tidied
  <2>3. NewTidied'
      BY <2>1, OthersStayTidy DEF TidyInv, NewTidied
  <2> QED BY <2>1, <2>2, <2>3, OthersStayTidy DEF TidyInv
<1>3. ASSUME NEW u \in Updaters, Writes(u) PROVE TidyInv'
  <2> USE <1>3 DEF Writes, Create, Receive, CopyOpens, Copied, Swap, Keep, NotKept, Finish
  <2>1. OthersTidy(u) /\ mode' = mode
      BY DEF OthersTidy, TidyInv
  <2>2. Tidied(u)'
      BY DEF TidyInv, Tidied
  <2>3. unkept' \in [Updaters -> BOOLEAN]
      BY DEF TidyInv
  <2>4. NewTidied'
      BY <2>1, OthersStayTidy DEF TidyInv, NewTidied
  <2> QED BY <2>1, <2>2, <2>3, <2>4, OthersStayTidy DEF TidyInv
<1>4. ASSUME NEW u \in Updaters, CleansUp(u) PROVE TidyInv'
  <2> USE <1>4 DEF CleansUp, CleanUp
  <2>1. OthersTidy(u) /\ mode' = mode /\ unkept' = unkept
      BY DEF OthersTidy
  <2>2. Tidied(u)'
      BY DEF TidyInv, Tidied
  <2>3. NewTidied'
      BY DEF TidyInv, NewTidied
  <2> QED BY <2>1, <2>2, <2>3, OthersStayTidy DEF TidyInv
<1>5. ASSUME NEW u \in Updaters, Removes(u) \/ SwapNew(u) PROVE TidyInv'
  <2> USE <1>5 DEF Removes, RemoveNew, SwapNew
  <2>1. OthersTidy(u) /\ mode' = mode /\ unkept' = unkept /\ exeNew' = None
      BY DEF OthersTidy
  <2>2. Tidied(u)'
      BY DEF TidyInv, Tidied
  <2> QED BY <2>1, <2>2, OthersStayTidy DEF TidyInv
<1>6. ASSUME NEW u \in Updaters, Build(u) \/ Built(u) \/ Kill(u) PROVE TidyInv'
  <2> USE <1>6 DEF Build, Built, Kill
  <2>1. OthersTidy(u) /\ mode' = mode /\ unkept' = unkept
      BY DEF OthersTidy
  <2>2. Tidied(u)'
      BY DEF TidyInv, Tidied
  <2>3. NewTidied'
    <3>1. CASE Build(u)
        BY <3>1 DEF NewTidied
    <3>2. CASE Built(u)
        BY <3>2 DEF NewTidied
    <3>3. CASE Kill(u)
        BY <2>1, <3>3, OthersStayTidy DEF TidyInv, NewTidied
    <3> QED BY <1>6, <3>1, <3>2, <3>3
  <2> QED BY <2>1, <2>2, <2>3, OthersStayTidy DEF TidyInv
<1> QED BY <1>1, <1>2, <1>3, <1>4, <1>5, <1>6, Steps

\* However an update ends, unless it is killed, it leaves no file that it has not
\* named, and exe.new only to one that uses it (src/update.go:182-196, 436-442, 536-549,
\* src/internal/release/release.go:119-162).
THEOREM AlwaysTidy == Spec => []Tidy
<1>1. Init => TidyInv
    BY DEF Init, TidyInv, Tidied, NewTidied
<1>2. TidyInv => Tidy
    BY DEF TidyInv, Tidied, NewTidied, Tidy
<1> QED BY RunnableInit, RunnableStep, TidyStep, <1>1, <1>2, PTL DEF Spec

-----------------------------------------------------------------------------
(* The way back to the version that the last swap replaced. *)

\* What an update copied is the program that it opened.
CopyTrue(u) == place[u] \in {"gate", "swap"} /\ mode = "release" => saved[u] = took[u]

\* u, past its swap, has the version to go back to, and no other is about to rename.
Holds(u) ==
  /\ place[u] \in {"keep", "print", "finish"} \cup Over /\ saved[u] = previous
  /\ \A v \in Updaters : place[v] = "keep" => v = u

\* exe.old is that version, and nobody is about to rename over it.
Kept == previous = old /\ \A v \in Updaters : place[v] # "keep"

WayInv ==
  /\ \A u \in Updaters : CopyTrue(u)
  /\ previous # None => Kept \/ \E u \in Updaters : Holds(u)

\* What a step of one update leaves alone of the others.
OthersKeep(u) ==
  \A v \in Updaters \ {u} :
    place'[v] = place[v] /\ took'[v] = took[v] /\ saved'[v] = saved[v]

\* A step of u that neither swaps nor renames, nor removes what u holds.
LEMMA WayKept ==
  ASSUME NEW u \in Updaters, UpdaterTypeOK, WayInv, OthersKeep(u), CopyTrue(u)',
         mode' = mode, old' = old, previous' = previous, place'[u] # "keep",
         place[u] \in {"keep", "print", "finish"} \cup Over =>
           saved'[u] = saved[u] /\ place'[u] \in {"print", "finish"} \cup Over
  PROVE  WayInv'
<1>1. \A v \in Updaters : CopyTrue(v)'
    BY DEF WayInv, CopyTrue, OthersKeep
<1>2. ASSUME Kept PROVE Kept'
    BY <1>2 DEF Kept, OthersKeep
<1>3. ASSUME NEW w \in Updaters, Holds(w) PROVE Holds(w)'
    BY <1>3 DEF Holds, OthersKeep
<1> QED BY <1>1, <1>2, <1>3 DEF WayInv

\* The way back is lost in no step: the swap makes one, the keep makes it exe.old.
LEMMA WayStep == RunnableInv /\ WayInv /\ [Next]_vars => WayInv'
<1> SUFFICES ASSUME RunnableInv, WayInv, [Next]_vars PROVE WayInv'
    OBVIOUS
<1> USE DEF RunnableInv, Modes, shared, files, facts
<1>1. CASE UNCHANGED vars \/ NewRelease
    BY <1>1 DEF NewRelease, WayInv, CopyTrue, Kept, Holds, vars
<1>2. CASE GoBack
    BY <1>2 DEF GoBack, WayInv, CopyTrue
<1>3. ASSUME NEW u \in Updaters,
             \/ Looks(u) /\ ~Signal(u)
             \/ Writes(u) /\ ~Swap(u) /\ ~Keep(u)
             \/ CleansUp(u) \/ Removes(u) \/ Build(u) \/ Built(u) \/ SwapNew(u)
      PROVE  WayInv'
  <2> USE <1>3 DEF Looks, Start, Latest, NoneWanted, Confirmed, Declined, Pulled, UpToDate,
         NotPulled, NotCreated, Checks, Gate, Report, Signal,
         Use, Writes, Create, Receive, CopyOpens, Copied, NotKept, Finish,
         CleansUp, CleanUp, Removes, RemoveNew, Build, Built, SwapNew, Go, UpdaterTypeOK
  <2>1. OthersKeep(u) /\ mode' = mode /\ old' = old /\ previous' = previous
      BY DEF OthersKeep
  <2>2. CopyTrue(u)' /\ place'[u] # "keep"
      BY DEF WayInv, CopyTrue
  <2>3. place[u] \in {"keep", "print", "finish"} \cup Over =>
          saved'[u] = saved[u] /\ place'[u] \in {"print", "finish"} \cup Over
      OBVIOUS
  <2> QED BY <2>1, <2>2, <2>3, WayKept
<1>4. ASSUME NEW u \in Updaters, Kill(u) \/ Signal(u) PROVE WayInv'
    BY <1>4 DEF Kill, Signal, Go, UpdaterTypeOK, WayInv, CopyTrue, Kept, Holds
<1>5. ASSUME NEW u \in Updaters, Swap(u) PROVE WayInv'
  <2>1. \A v \in Updaters : CopyTrue(v)'
      BY <1>5 DEF Swap, Go, UpdaterTypeOK, WayInv, CopyTrue
  <2>2. ASSUME previous' # None PROVE Holds(u)'
    <3>1. mode = "release" /\ took[u] = exe /\ previous' = exe
          /\ \A v \in Updaters : place[v] # "keep"
        BY <1>5, <2>2 DEF Swap, Overlapped, UpdaterTypeOK
    <3>2. saved'[u] = exe
        BY <1>5, <3>1 DEF Swap, Go, WayInv, CopyTrue
    <3> QED BY <1>5, <3>1, <3>2 DEF Swap, Go, UpdaterTypeOK, Holds
  <2> QED BY <2>1, <2>2 DEF WayInv
<1>6. ASSUME NEW u \in Updaters, Keep(u) PROVE WayInv'
  <2>1. \A v \in Updaters : CopyTrue(v)'
      BY <1>6 DEF Keep, Go, UpdaterTypeOK, WayInv, CopyTrue
  <2>2. ASSUME previous' # None PROVE Kept'
    <3>1. Holds(u)
        BY <1>6, <2>2 DEF Keep, Go, WayInv, Kept, Holds
    <3> QED BY <1>6, <3>1 DEF Keep, Go, UpdaterTypeOK, Holds, Kept
  <2> QED BY <2>1, <2>2 DEF WayInv
<1> QED BY <1>1, <1>2, <1>3, <1>4, <1>5, <1>6, Steps DEF Looks, Writes

\* The version that a swap replaced is in exe.old or in a copy beside it, unless two
\* updates overlapped or the user went back to it (src/update.go:436-475).
THEOREM AlwaysWayBack == Spec => []WayBack
<1>1. Init => WayInv
    BY DEF Init, WayInv, CopyTrue
<1>2. WayInv => WayBack
    BY DEF WayInv, Kept, Holds, WayBack
<1> QED BY RunnableInit, RunnableStep, WayStep, <1>1, <1>2, PTL DEF Spec
=============================================================================
