---------------------------- MODULE SharedBuffers ----------------------------
(***************************************************************************)
(* What the browser display promises about frame buffers, whatever its     *)
(* counters do: a buffer that somebody still reads is not in the pool, the *)
(* step that takes its last reader away is the step that returns it, and   *)
(* a returned frame is never lent again.                                   *)
(***************************************************************************)
CONSTANTS Frames,   \* the decoded frames, each with a buffer of its own
          Holder    \* whoever may be reading a buffer

VARIABLES holders,  \* holders[f]: who holds frame f's buffer now
          pool      \* the frames whose buffer has been returned

Init == /\ holders = [f \in Frames |-> {}]
        /\ pool = {}

\* One step may move several holds, but the pool changes only as they say.
Next == /\ holders' \in [Frames -> SUBSET Holder]
        /\ \A f \in pool : holders'[f] = {}
        /\ pool' = pool \cup {f \in Frames : holders[f] # {} /\ holders'[f] = {}}

Spec == Init /\ [][Next]_<<holders, pool>>
==============================================================================
