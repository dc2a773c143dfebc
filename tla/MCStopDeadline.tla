---------------------------- MODULE MCStopDeadline ----------------------------
EXTENDS StopDeadline, TLC

Sym == Permutations(Connected)
==============================================================================
