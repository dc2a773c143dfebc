------------------------------- MODULE Link -------------------------------
(***************************************************************************)
(* The link to a device over adb: src/link.go's session, from start to     *)
(* stop.  The host pushes the server, opens a tunnel (adb reverse, or adb  *)
(* forward where that fails), starts the server through `adb shell`, joins *)
(* the wanted sockets to the server's in the order video, audio, control,  *)
(* reads the device's name and closes the tunnel.  Any step can fail, the  *)
(* server can exit and the device can go at any moment.                    *)
(*                                                                         *)
(* A socket of the session is known by the server's socket at its other    *)
(* end.  In reverse mode the server's sockets wait in `queue' to be         *)
(* accepted.  In forward mode the host's wait there; adb accepts a dial    *)
(* before the server listens and then hangs up, so the first socket counts *)
(* only once the server's dummy byte has come on it.                       *)
(***************************************************************************)
EXTENDS Naturals, Sequences, FiniteSets

Kinds == {"video", "audio", "control"}
\* Both sides go through the sockets in this order.
Rank == [video |-> 1, audio |-> 2, control |-> 3]
Foremost(S) == CHOOSE k \in S : \A j \in S : Rank[k] <= Rank[j]
\* What is at the other end of a socket of the host: nothing, as it is not open;
\* a server that has yet to accept it; adb, which hung up; the server's socket.
Ends == {"closed", "waiting", "hung up"} \cup Kinds

VARIABLES
  want,        \* the sockets the options ask for
  step,        \* the place of start, connect and stop
  forwardMode, \* the tunnel is adb forward: the host dials
  tunnel,      \* the mapping adb holds: "none", "reverse" or "forward"
  listener,    \* the host's listening socket is open
  server,      \* the server's process (as `adb shell' shows it): "none",
               \* "started", "listening", "serving" or "exited"
  host,        \* the other end of each socket of the session
  trying,      \* the other end of the dial whose dummy byte is awaited
  queue,       \* the sockets one side has connected and the other not accepted:
               \* the server's in reverse mode, the host's in forward mode
  joined,      \* the sockets that the server has connected or accepted
  late,        \* the deadline of the current wait has passed
  plugged      \* adb reaches the device

linkVars == <<want, step, forwardMode, tunnel, listener, server, host, trying, queue,
              joined, late, plugged>>
wires == <<host, trying, queue, joined>>

NoSockets == [k \in Kinds |-> "closed"]

LinkInit ==
  /\ want \in (SUBSET Kinds) \ {{}}
  /\ step = "push" /\ forwardMode = FALSE /\ tunnel = "none"
  /\ listener = FALSE /\ server = "none"
  /\ host = NoSockets /\ trying = "closed" /\ queue = <<>> /\ joined = {}
  /\ late = FALSE /\ plugged = TRUE

\* The wanted sockets that the host has not opened yet, and the next on each side.
Missing == {k \in want : host[k] = "closed"}
Opening == Foremost(Missing)
Joining == Foremost(want \ joined)
Complete == joined = want
Running == server \in {"started", "listening", "serving"}
Waiting == step \in {"connect", "dummy", "meta"}

-----------------------------------------------------------------------------
(* The host opens the tunnel and starts the server. *)

Go(from, to) == step = from /\ step' = to

Push ==
  /\ \/ plugged /\ Go("push", "reverse")
     \/ Go("push", "gone")
  /\ UNCHANGED <<want, forwardMode, tunnel, listener, server, wires, late, plugged>>

OpenReverse ==
  /\ plugged /\ Go("reverse", "launch")
  /\ tunnel' = "reverse" /\ listener' = TRUE
  /\ UNCHANGED <<want, forwardMode, server, wires, late, plugged>>

\* No free port, or adb refuses: the listener it bound first is closed again.
ReverseFails ==
  /\ Go("reverse", "forward")
  /\ UNCHANGED <<want, forwardMode, tunnel, listener, server, wires, late, plugged>>

OpenForward ==
  /\ \/ /\ plugged /\ Go("forward", "launch")
        /\ tunnel' = "forward" /\ forwardMode' = TRUE
     \/ Go("forward", "gone") /\ UNCHANGED <<tunnel, forwardMode>>
  /\ UNCHANGED <<want, listener, server, wires, late, plugged>>

CloseTunnel == tunnel' = "none" /\ listener' = FALSE

\* Mutant: a server that did not start leaves the tunnel.
LaunchLeaks ==
  /\ \/ Go("launch", "connect") /\ server' = "started"
     \/ Go("launch", "gone") /\ UNCHANGED server
  /\ UNCHANGED <<want, forwardMode, tunnel, listener, wires, late, plugged>>

Launch ==
  /\ \/ /\ Go("launch", "connect") /\ server' = "started"
        /\ UNCHANGED <<tunnel, listener>>
     \/ Go("launch", "gone") /\ CloseTunnel /\ UNCHANGED server
  /\ UNCHANGED <<want, forwardMode, wires, late, plugged>>

-----------------------------------------------------------------------------
(* The host's side of the sockets. *)

\* The next socket is opened; after the last one comes the wait for the name,
\* which has a deadline of its own.
Open(end) ==
  /\ host' = [host EXCEPT ![Opening] = end]
  /\ IF Missing = {Opening} THEN step' = "meta" /\ late' = FALSE
                            ELSE step' = "connect" /\ late' = late

Accept ==
  /\ step = "connect" /\ ~forwardMode /\ listener /\ ~late /\ queue # <<>>
  /\ Open(Head(queue)) /\ queue' = Tail(queue)
  /\ UNCHANGED <<want, forwardMode, tunnel, listener, server, trying, joined, plugged>>

\* adb takes the dial whether or not the server listens; only a server that
\* listens will ever accept it.
Reached == IF server = "listening" THEN "waiting" ELSE "hung up"

\* Mutant: a dial that adb took is a socket.
DialTrusts ==
  /\ step = "connect" /\ forwardMode /\ tunnel = "forward"
  /\ queue' = IF server = "listening" THEN Append(queue, Opening) ELSE queue
  /\ Open(Reached)
  /\ UNCHANGED <<want, forwardMode, tunnel, listener, server, trying, joined, plugged>>

Dial ==
  /\ step = "connect" /\ forwardMode /\ tunnel = "forward"
  /\ LET entry == IF host = NoSockets THEN "first" ELSE Opening IN
     queue' = IF server = "listening" THEN Append(queue, entry) ELSE queue
  /\ IF host = NoSockets THEN step' = "dummy" /\ trying' = Reached /\ UNCHANGED <<host, late>>
                         ELSE Open(Reached) /\ UNCHANGED trying
  /\ UNCHANGED <<want, forwardMode, tunnel, listener, server, joined, plugged>>

\* The server has accepted the first socket and written the byte.
DummyByte ==
  /\ step = "dummy" /\ ~late /\ trying \in Kinds
  /\ Open(trying) /\ trying' = "closed"
  /\ UNCHANGED <<want, forwardMode, tunnel, listener, server, queue, joined, plugged>>

\* The connection is closed; unless the server is gone or time is up, the host
\* dials again.
NoDummyByte ==
  /\ step = "dummy" /\ (trying = "hung up" \/ late \/ server = "exited")
  /\ trying' = "closed" /\ queue' = <<>>
  /\ step' = IF server = "exited" \/ late THEN "stop" ELSE "connect"
  /\ UNCHANGED <<want, forwardMode, tunnel, listener, server, host, joined, late, plugged>>

\* Mutant: nothing watches the server.
WaitOnlyExpires ==
  /\ step \in {"connect", "meta"} /\ late /\ step' = "stop"
  /\ UNCHANGED <<want, forwardMode, tunnel, listener, server, wires, late, plugged>>

\* An accept, a dial or the read of the name ends with an error: the server
\* exited (its watcher closes the listener or ends the dial), the other end
\* hung up, or time is up.
WaitFails ==
  /\ step \in {"connect", "meta"}
  /\ server = "exited" \/ late
  /\ step' = "stop"
  /\ UNCHANGED <<want, forwardMode, tunnel, listener, server, wires, late, plugged>>

\* The name comes on the first socket once the server has all of its sockets;
\* it may still come from one that has exited since.
Meta ==
  /\ Complete /\ ~late /\ Go("meta", "untunnel")
  /\ UNCHANGED <<want, forwardMode, tunnel, listener, server, wires, late, plugged>>

Untunnel ==
  /\ Go("untunnel", "up") /\ CloseTunnel
  /\ UNCHANGED <<want, forwardMode, server, wires, late, plugged>>

-----------------------------------------------------------------------------
(* stop: after a failed bring-up, and at the end of a session. *)

StopTunnel ==
  /\ Go("stop", "sockets") /\ CloseTunnel
  /\ UNCHANGED <<want, forwardMode, server, wires, late, plugged>>

StopSockets ==
  /\ Go("sockets", "kill") /\ host' = NoSockets
  /\ UNCHANGED <<want, forwardMode, tunnel, listener, server, trying, queue, joined, late,
                 plugged>>

\* Kill, and the wait for the process.
StopServer ==
  /\ Go("kill", "gone") /\ server' = "exited"
  /\ UNCHANGED <<want, forwardMode, tunnel, listener, wires, late, plugged>>

-----------------------------------------------------------------------------
(* The server, which is not part of the program, the device and time. *)

\* The server connects, or accepts, its sockets in order, and then serves.
Join ==
  /\ ~Complete /\ joined' = joined \cup {Joining}
  /\ server' = IF joined' = want THEN "serving" ELSE server

ServerConnects ==
  /\ server = "started" /\ ~forwardMode /\ tunnel = "reverse" /\ listener
  /\ Join /\ queue' = Append(queue, Joining)
  /\ UNCHANGED <<want, step, forwardMode, tunnel, listener, host, trying, late, plugged>>

ServerListens ==
  /\ server = "started" /\ forwardMode /\ server' = "listening"
  /\ UNCHANGED <<want, step, forwardMode, tunnel, listener, wires, late, plugged>>

ServerAccepts ==
  /\ server = "listening" /\ queue # <<>>
  /\ Join /\ queue' = Tail(queue)
  /\ IF Head(queue) = "first"
     THEN trying' = Joining /\ UNCHANGED host
     ELSE /\ host' = [host EXCEPT ![Head(queue)] = IF @ = "closed" THEN @ ELSE Joining]
          /\ UNCHANGED trying
  /\ UNCHANGED <<want, step, forwardMode, tunnel, listener, late, plugged>>

\* Its end hangs up all of its sockets.
ServerExits ==
  /\ Running /\ server' = "exited"
  /\ UNCHANGED <<want, step, forwardMode, tunnel, listener, wires, late, plugged>>

\* adb's mappings end with the connection to the device.
Unplug ==
  /\ plugged /\ plugged' = FALSE /\ tunnel' = "none"
  /\ server' = IF Running THEN "exited" ELSE server
  /\ UNCHANGED <<want, step, forwardMode, listener, wires, late>>

Deadline ==
  /\ Waiting /\ ~late /\ late' = TRUE
  /\ UNCHANGED <<want, step, forwardMode, tunnel, listener, server, wires, plugged>>

-----------------------------------------------------------------------------
HostStep ==
  \/ Push \/ OpenReverse \/ ReverseFails \/ OpenForward \/ Launch
  \/ Accept \/ Dial \/ DummyByte \/ NoDummyByte \/ WaitFails \/ Meta \/ Untunnel
  \/ StopTunnel \/ StopSockets \/ StopServer

ServerStep == ServerConnects \/ ServerListens \/ ServerAccepts

LinkTypeOK ==
  /\ want \in (SUBSET Kinds) \ {{}}
  /\ step \in {"push", "reverse", "forward", "launch", "connect", "dummy", "meta",
               "untunnel", "up", "stop", "sockets", "kill", "gone"}
  /\ forwardMode \in BOOLEAN /\ listener \in BOOLEAN /\ late \in BOOLEAN
  /\ plugged \in BOOLEAN
  /\ tunnel \in {"none", "reverse", "forward"}
  /\ server \in {"none", "started", "listening", "serving", "exited"}
  /\ host \in [Kinds -> Ends] /\ trying \in Ends
  /\ queue \in Seq(Kinds \cup {"first"}) /\ joined \subseteq want

\* However the session ends, after a step of its bring-up that failed or after
\* it was up, nothing of it stays: no listener, no mapping in adb, no open
\* connection and no server process (src/link.go:85, 97, 393-426).
NothingLeftBehind ==
  step = "gone" =>
    /\ ~listener /\ tunnel = "none"
    /\ host = NoSockets /\ trying = "closed"
    /\ server \in {"none", "exited"}

\* The session's video, audio and control sockets are the server's: a dial
\* that adb accepted before the server listened is never taken for one
\* (src/link.go:228-231).
SocketsPaired ==
  \A k \in Kinds :
    /\ host[k] \in Kinds => host[k] = k
    /\ step \in {"untunnel", "up"} /\ k \in want => host[k] = k
=============================================================================
