------------------------------- MODULE MCPeer -------------------------------
(* Three processes: two on one computer, one on another. *)
EXTENDS Peer, TLC

MCHome == ("p1" :> "desk" @@ "p2" :> "desk" @@ "p3" :> "lap")
Run(a, b, c, paired) ==
  [runs |-> ("p1" :> a @@ "p2" :> b @@ "p3" :> c), paired |-> paired]
MCStarts == {
  Run("code", "off", "code", {}), Run("code", "check", "off", {}), Run("nearby", "off", "code", {}),
  Run("connect", "off", "off", {"desk"}), Run("connect", "check", "off", {"desk"}),
  Run("connect", "forget", "off", {"desk"}), Run("check", "code", "off", {"desk"}),
  Run("off", "forget", "off", {})}
MCCrowd == {Run("nearby", "nearby", "nearby", {})}
=============================================================================
