---------------------------- MODULE SelfUpdate ----------------------------
(***************************************************************************)
(* `scterm update' (src/update.go, src/internal/release): a release binary *)
(* downloads, checks and swaps in the latest release and keeps a copy of   *)
(* the one it replaces; a build from source pulls, rebuilds and swaps.     *)
(* Several updates of one program can run at once, any step can fail, and  *)
(* an update can be interrupted by a signal that it catches, or killed, at *)
(* any step.  Each update of a release has files of its own; all those of  *)
(* a checkout build into one file, exe.new.                                *)
(*                                                                         *)
(* A file's content is the version of the whole binary in it, Bad (what a  *)
(* server sent instead, or a build that does not start), Part of something *)
(* still being written, or None when there is no such file.                *)
(***************************************************************************)
EXTENDS Naturals

CONSTANTS Updaters, LastVersion, None, Part, Bad

Versions == 1..LastVersion

ASSUME SelfUpdateAssumption ==
  /\ LastVersion \in Nat \ {0}
  /\ None \notin Versions /\ Part \notin Versions /\ Bad \notin Versions

VARIABLES
  mode,     \* the program is a "release" binary, or built from a "checkout"
  latest,   \* the newest release, or the head of the repository
  exe,      \* the program's file
  old,      \* exe.old
  exeNew,   \* exe.new, for a checkout's new binary
  next,     \* each release update's new binary: a temporary file beside exe, or in
            \* TempDir
  saved,    \* each one's copy of exe, a temporary file beside it
  place,    \* where each one is
  output,   \* the file that its go build is writing: "new", exe.new; "exe", once
            \* another update has renamed that file; "none" when there is no such
            \* build, or no such file any more
  orphans,  \* the updates that were killed and whose go build goes on
  running,  \* the version that each one is
  wanted,   \* the version it is to bring
  took,     \* what it reads as it copies exe: the file that it opened
  staged,   \* its binary is in TempDir, to be installed by hand
  unkept,   \* it could not rename its copy and names that instead
  signal,   \* it has caught a signal, and intr has ended
  previous, \* what the last swap replaced, which is to be kept; None when the
            \* swap overlapped another one, or the user has gone back
  clash     \* a build began to write exe.new while another update of the
            \* checkout was writing, checking or installing it

shared == <<exeNew, output, orphans, clash>>
files == <<exe, old, next, saved, previous>>
facts == <<running, wanted, took, staged, unkept, signal>>
vars == <<mode, latest, shared, files, place, facts>>

Init ==
  /\ mode \in {"release", "checkout"} /\ latest = 1 /\ exe = 1 /\ old = None
  /\ next = [u \in Updaters |-> None] /\ saved = [u \in Updaters |-> None]
  /\ place = [u \in Updaters |-> "off"]
  /\ running = [u \in Updaters |-> None] /\ wanted = [u \in Updaters |-> None]
  /\ took = [u \in Updaters |-> None]
  /\ staged = [u \in Updaters |-> FALSE] /\ unkept = [u \in Updaters |-> FALSE]
  /\ signal = [u \in Updaters |-> FALSE] /\ previous = None
  /\ exeNew = None /\ output = [u \in Updaters |-> "none"] /\ orphans = {} /\ clash = FALSE

Over == {"ended", "signalled", "killed"}
Catching == {"create", "receive", "check", "copy", "copying", "gate", "swap", "keep", "print",
             "finish"}
Go(u, from, to) == place[u] = from /\ place' = [place EXCEPT ![u] = to]

\* A program that runs is started to update itself.
Start(u) ==
  /\ exe \in Versions /\ Go(u, "off", "ask")
  /\ running' = [running EXCEPT ![u] = exe]
  /\ UNCHANGED <<mode, latest, shared, files, wanted, took, staged, unkept, signal>>

\* release.Latest: the newest release is newer, and has the program's file.
Latest(u) ==
  /\ mode = "release" /\ Go(u, "ask", "confirm") /\ latest > running[u]
  /\ wanted' = [wanted EXCEPT ![u] = latest]
  /\ UNCHANGED <<mode, latest, shared, files, running, took, staged, unkept, signal>>

\* An error, nothing newer, no file for this system, or --check.
NoneWanted(u) ==
  /\ mode = "release" /\ Go(u, "ask", "ended")
  /\ UNCHANGED <<mode, latest, shared, files, facts>>

\* The answer, which comes when it comes: newer releases make no difference.
Confirmed(u) ==
  /\ Go(u, "confirm", "create")
  /\ UNCHANGED <<mode, latest, shared, files, facts>>

Declined(u) ==
  /\ Go(u, "confirm", "ended")
  /\ UNCHANGED <<mode, latest, shared, files, facts>>

\* The checkout is pulled; the program was built from another commit, or from
\* files that were not committed.
Pulled(u) ==
  /\ mode = "checkout" /\ Go(u, "ask", "build")
  /\ wanted' = [wanted EXCEPT ![u] = latest]
  /\ UNCHANGED <<mode, latest, shared, files, running, took, staged, unkept, signal>>

UpToDate(u) ==
  /\ mode = "checkout" /\ Go(u, "ask", "ended") /\ running[u] = latest
  /\ UNCHANGED <<mode, latest, shared, files, facts>>

\* The program is in no checkout, or the pull fails.
NotPulled(u) ==
  /\ mode = "checkout" /\ Go(u, "ask", "ended")
  /\ UNCHANGED <<mode, latest, shared, files, facts>>

-----------------------------------------------------------------------------
(* The new binary: release.Download or `go build', and checkRuns. *)

\* Without the permission to write beside exe the file goes to TempDir, from
\* where it will only be named.
Create(u) ==
  /\ Go(u, "create", "receive")
  /\ next' = [next EXCEPT ![u] = Part]
  /\ \E denied \in BOOLEAN : staged' = [staged EXCEPT ![u] = denied]
  /\ UNCHANGED <<mode, latest, shared, exe, old, saved, previous, running, wanted, took, unkept,
                 signal>>

NotCreated(u) ==
  /\ Go(u, "create", "finish")
  /\ UNCHANGED <<mode, latest, shared, files, facts>>

\* What arrived agrees with the size and digest that the release has, if it
\* has any: it can be bad only when they were not published.
Receive(u) ==
  /\ Go(u, "receive", "check")
  /\ \E content \in {wanted[u], Bad} : next' = [next EXCEPT ![u] = content]
  /\ UNCHANGED <<mode, latest, shared, exe, old, saved, previous, facts>>

\* Both files of a release update are removed, the copy if there is one.
CleanUp(u) ==
  /\ next' = [next EXCEPT ![u] = None] /\ saved' = [saved EXCEPT ![u] = None]
  /\ UNCHANGED <<mode, latest, shared, exe, old, previous, facts>>

\* The download fails, or ends with intr, or is not what was published.
NotReceived(u) == Go(u, "receive", "finish") /\ CleanUp(u)

\* os.Remove(exe.new), whoever's it is: a build that is writing it goes on into no file.
RemoveNew(u) ==
  /\ exeNew' = None
  /\ output' = [v \in Updaters |-> IF v # u /\ output[v] = "exe" THEN "exe" ELSE "none"]
  /\ UNCHANGED <<mode, latest, orphans, clash, files, facts>>

\* go build writes exe.new: the file that is there, also one that another build is
\* writing, or a new one in its place.
Build(u) ==
  /\ Go(u, "build", "building")
  /\ exeNew' = Part
  /\ \E same \in BOOLEAN :
       output' = [v \in Updaters |-> IF v = u THEN "new"
                                     ELSE IF output[v] = "new" /\ ~same THEN "none"
                                     ELSE output[v]]
  /\ clash' = (clash \/ \E v \in Updaters \ {u} : place[v] \in {"building", "check", "swap"})
  /\ UNCHANGED <<mode, latest, orphans, files, facts>>

\* It is written, unless another build still writes the same file.  The sources are
\* those that were pulled, or newer ones that another update has pulled since.
Built(u) ==
  /\ Go(u, "building", IF u \in orphans THEN "killed" ELSE "check")
  /\ \E content \in (wanted[u] .. latest) \cup {Bad} :
       LET both == \E v \in Updaters \ {u} : output[v] = output[u]
           now == IF both THEN Part ELSE content IN
       /\ exeNew' = IF output[u] = "new" THEN now ELSE exeNew
       /\ exe' = IF output[u] = "exe" THEN now ELSE exe
  /\ output' = [output EXCEPT ![u] = "none"]
  /\ UNCHANGED <<mode, latest, orphans, clash, old, next, saved, previous, facts>>

\* It does not compile, or cannot be written.
NotBuilt(u) ==
  /\ place[u] \in {"build", "building"} /\ u \notin orphans
  /\ Go(u, place[u], "ended") /\ RemoveNew(u)

\* What a checked binary is for.
Use(u) == IF mode = "checkout" THEN "swap" ELSE IF staged[u] THEN "finish" ELSE "copy"

\* Mutant: whatever came is good enough.
ChecksTrusts(u) ==
  /\ Go(u, "check", Use(u))
  /\ UNCHANGED <<mode, latest, shared, files, facts>>

\* It starts and reports the version wanted; each build of a checkout reports the same
\* one, and is not run while it is being written.
Checks(u) ==
  /\ IF mode = "release" THEN next[u] = wanted[u] ELSE exeNew \in Versions
  /\ Go(u, "check", Use(u))
  /\ UNCHANGED <<mode, latest, shared, files, facts>>

\* It does not start here, reports another version, or is killed as intr ends.
ChecksNot(u) ==
  \/ mode = "release" /\ Go(u, "check", "finish") /\ CleanUp(u)
  \/ mode = "checkout" /\ Go(u, "check", "ended") /\ RemoveNew(u)

-----------------------------------------------------------------------------
(* replaceBinary. *)

CopyOpens(u) ==
  /\ Go(u, "copy", "copying")
  /\ took' = [took EXCEPT ![u] = exe] /\ saved' = [saved EXCEPT ![u] = Part]
  /\ UNCHANGED <<mode, latest, shared, exe, old, next, previous, running, wanted, staged, unkept,
                 signal>>

Copied(u) ==
  /\ Go(u, "copying", "gate")
  /\ saved' = [saved EXCEPT ![u] = took[u]]
  /\ UNCHANGED <<mode, latest, shared, exe, old, next, previous, facts>>

NotCopied(u) == place[u] \in {"copy", "copying"} /\ Go(u, place[u], "finish") /\ CleanUp(u)

Gate(u) ==
  /\ ~signal[u] /\ Go(u, "gate", "swap")
  /\ UNCHANGED <<mode, latest, shared, files, facts>>

\* Mutant: an interrupted update leaves its copy.
InterruptedLeaves(u) ==
  /\ signal[u] /\ Go(u, "gate", "finish")
  /\ next' = [next EXCEPT ![u] = None]
  /\ UNCHANGED <<mode, latest, shared, exe, old, saved, previous, facts>>

Interrupted(u) == signal[u] /\ Go(u, "gate", "finish") /\ CleanUp(u)

\* The program was replaced since it was opened to be copied, or another
\* update has yet to rename its copy to exe.old.
Overlapped(u) == took[u] # exe \/ \E v \in Updaters : place[v] = "keep"

Swap(u) ==
  /\ mode = "release" /\ Go(u, "swap", "keep")
  /\ exe' = next[u] /\ next' = [next EXCEPT ![u] = None]
  /\ previous' = IF Overlapped(u) THEN None ELSE exe
  /\ UNCHANGED <<mode, latest, shared, old, saved, facts>>

\* updateCheckout's rename of exe.new: whatever it has become since it was checked.  A
\* build that is writing it writes on in exe.
SwapNew(u) ==
  /\ mode = "checkout" /\ exeNew # None /\ Go(u, "swap", "ended")
  /\ exe' = exeNew /\ exeNew' = None
  /\ output' = [v \in Updaters |-> IF output[v] = "new" THEN "exe" ELSE "none"]
  /\ UNCHANGED <<mode, latest, orphans, clash, old, next, saved, previous, facts>>

NotSwapped(u) ==
  \/ mode = "release" /\ Go(u, "swap", "finish") /\ CleanUp(u)
  \/ mode = "checkout" /\ Go(u, "swap", "ended") /\ RemoveNew(u)

Keep(u) ==
  /\ Go(u, "keep", "print")
  /\ old' = saved[u] /\ saved' = [saved EXCEPT ![u] = None]
  /\ UNCHANGED <<mode, latest, shared, exe, next, previous, facts>>

\* Mutant: the copy that could not be renamed is removed.
NotKeptRemoves(u) == Go(u, "keep", "print") /\ CleanUp(u)

NotKept(u) ==
  /\ Go(u, "keep", "print")
  /\ unkept' = [unkept EXCEPT ![u] = TRUE]
  /\ UNCHANGED <<mode, latest, shared, files, running, wanted, took, staged, signal>>

\* The first lines since the download began; with nobody to read them the
\* process ends at once.
Report(u) ==
  /\ \E to \in {"finish", "killed"} : Go(u, "print", to)
  /\ UNCHANGED <<mode, latest, shared, files, facts>>

\* The deferred end: a signal that was caught takes the staged binary with it;
\* without one the staged binary is named.
Finish(u) ==
  /\ Go(u, "finish", IF signal[u] THEN "signalled" ELSE "ended")
  /\ next' = IF signal[u] /\ staged[u] THEN [next EXCEPT ![u] = None] ELSE next
  /\ UNCHANGED <<mode, latest, shared, exe, old, saved, previous, facts>>

-----------------------------------------------------------------------------
(* The world around the updates. *)

Signal(u) ==
  /\ mode = "release" /\ place[u] \in Catching /\ ~signal[u]
  /\ signal' = [signal EXCEPT ![u] = TRUE]
  /\ UNCHANGED <<mode, latest, shared, files, place, running, wanted, took, staged, unkept>>

\* SIGKILL, or a signal that the update does not catch at this step.  A go build that it
\* has started ends with it or goes on.
Kill(u) ==
  /\ place[u] \notin Over \cup {"off"}
  /\ \/ /\ Go(u, place[u], "killed")
        /\ output' = [output EXCEPT ![u] = "none"] /\ UNCHANGED orphans
     \/ /\ place[u] \in {"build", "building"} /\ u \notin orphans
        /\ orphans' = orphans \cup {u} /\ UNCHANGED <<place, output>>
  /\ UNCHANGED <<mode, latest, exeNew, clash, files, facts>>

NewRelease ==
  /\ latest < LastVersion /\ latest' = latest + 1
  /\ UNCHANGED <<mode, shared, files, place, facts>>

\* The user does what the last line says: mv exe.old exe.
GoBack ==
  /\ old # None
  /\ exe' = old /\ old' = None /\ previous' = None
  /\ UNCHANGED <<mode, latest, shared, next, saved, place, facts>>

Next ==
  \/ \E u \in Updaters :
       \/ Start(u) \/ Latest(u) \/ NoneWanted(u) \/ Confirmed(u) \/ Declined(u)
       \/ Pulled(u) \/ UpToDate(u) \/ NotPulled(u)
       \/ Create(u) \/ NotCreated(u) \/ Receive(u) \/ NotReceived(u)
       \/ Build(u) \/ Built(u) \/ NotBuilt(u) \/ Checks(u) \/ ChecksNot(u)
       \/ CopyOpens(u) \/ Copied(u) \/ NotCopied(u) \/ Gate(u) \/ Interrupted(u)
       \/ Swap(u) \/ SwapNew(u) \/ NotSwapped(u) \/ Keep(u) \/ NotKept(u) \/ Report(u) \/ Finish(u)
       \/ Signal(u) \/ Kill(u)
  \/ NewRelease \/ GoBack

Spec == Init /\ [][Next]_vars

-----------------------------------------------------------------------------
\* Whatever fails, is interrupted or is killed, the program and the one kept beside it
\* are whole binaries that were checked: neither is ever a part, nor what a server sent
\* in place of a release.  So for any number of updates of a release; updates of a
\* checkout share exe.new, and nothing is promised once one of them has written it
\* under another (src/update.go:443-475, 536-549, 586-608).
Runnable == clash \/ (exe \in Versions /\ old \in Versions \cup {None})

\* An update that was not killed leaves no file behind but exe.old and what it
\* named to the user: a binary for sudo to install, or a copy it could not
\* rename.  One ended by a signal names nothing.  And exe.new is there only while an
\* update of the checkout uses it, or once one has been killed (src/update.go:182-196,
\* 436-442, 536-549, src/internal/release/release.go:119-162).
Tidy ==
  /\ \A u \in Updaters : place[u] \in {"ended", "signalled"} =>
       /\ next[u] # None => staged[u] /\ place[u] = "ended"
       /\ saved[u] # None => unkept[u]
  /\ exeNew # None =>
       \E u \in Updaters : place[u] \in {"building", "check", "swap", "killed"}

\* The version that the last update replaced can be gone back to, even when
\* that update was killed right after the swap, unless two updates overlapped
\* in replaceBinary (src/update.go:436-475).
WayBack == previous # None => previous = old \/ \E u \in Updaters : saved[u] = previous
=============================================================================
