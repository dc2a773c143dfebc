--------------------------- MODULE MCTargetSessions ---------------------------
EXTENDS TargetSessions, TLC

Sym == Permutations(Sessions)
==============================================================================
