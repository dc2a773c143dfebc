------------------------------ MODULE MCSound ------------------------------
(* Two servers to try.  Long sessions without a follower, that the network, *)
(* or the sink and the volume, disturb twice; and short ones, with pactl,   *)
(* that end in each way and differ in what is known of the sinks.           *)
EXTENDS Sound
Long == [here |-> TRUE, pactl |-> FALSE, default |-> "a", pinned |-> None,
         cards |-> {"a", "b"}, running |-> {}, busy |-> {},
         waiting |-> 4, packets |-> 18, may |-> {"stall"}, times |-> 2]
Short == [Long EXCEPT !.pactl = TRUE, !.default = "b", !.waiting = 1, !.packets = 2,
                      !.may = Surprises \ {"stall"}, !.times = 3]
MCStarts ==
  {Long, [Long EXCEPT !.waiting = 0, !.may = {"suspend", "mute"}],
   [Short EXCEPT !.cards = {"a"}], [Short EXCEPT !.pinned = "a", !.times = 1],
   [Short EXCEPT !.cards = {}, !.busy = {"a"}, !.times = 1],
   [Short EXCEPT !.here = FALSE, !.times = 1]}
=============================================================================
