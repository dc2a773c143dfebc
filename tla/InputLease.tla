----------------------------- MODULE InputLease -----------------------------
(***************************************************************************)
(* What a serving device promises about input: one session at a time has   *)
(* the lease, nothing is held down while nobody has it, and the lease      *)
(* changes hands only once everything that was held down has been let go.  *)
(***************************************************************************)
CONSTANTS Sessions, None, Keys

VARIABLES
  holder,  \* the session that has the lease, or None
  pressed  \* what is held down on the device

Init == holder = None /\ pressed = {}

Pass(to) == holder' = to /\ pressed' = {}

Press(key) == holder # None /\ pressed' = pressed \cup {key} /\ UNCHANGED holder

LetGo(key) == holder # None /\ pressed' = pressed \ {key} /\ UNCHANGED holder

\* What performs the input ends.
AllUp == pressed' = {} /\ UNCHANGED holder

Next ==
  \/ \E to \in Sessions \cup {None} : Pass(to)
  \/ \E key \in Keys : Press(key) \/ LetGo(key)
  \/ AllUp

Spec == Init /\ [][Next]_<<holder, pressed>>
=============================================================================
