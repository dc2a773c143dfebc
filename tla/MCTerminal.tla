---------------------------- MODULE MCTerminal ----------------------------
(* The runs that TLC starts: with all sockets in a small and in a large     *)
(* terminal and without one, and with no video.                             *)
EXTENDS Terminal
All == {"video", "audio", "control"}
MCStarts ==
  {[display |-> "tui", want |-> All, pane |-> 2],
   [display |-> "tui", want |-> {"audio", "control"}, pane |-> 1],
   [display |-> "headless", want |-> All, pane |-> 1]}
=============================================================================
