---------------------------- MODULE TargetSessions ----------------------------
(***************************************************************************)
(* The controllers' sessions with one serving device (TargetServer.kt):    *)
(* the handshake of a control connection (handleControl, obtainBackend),   *)
(* its loop (runControl: input, takeover, bye), the end of a session from  *)
(* its own thread or from the admin thread (end, endAllSessions,           *)
(* onPeerChanged), the one input lease with what its holder has pressed    *)
(* (InputTracker, SessionPolicy.kt), and a session's media connection.     *)
(*                                                                         *)
(* One thread per control connection, one per media connection, and the    *)
(* single admin thread.  A step is one critical section of lock, inputLock *)
(* or of the session, one volatile read, or one message written.  Every    *)
(* session asks for control and is granted it; a controller connects again *)
(* as another session.                                                     *)
(***************************************************************************)
EXTENDS Naturals, FiniteSets

CONSTANTS Sessions,      \* the control connections
          None,          \* no session
          Keys,          \* what can be held down: keys, pointers, Back
          MaxSessions,   \* Config.maxSessions
          MaxHelper,     \* bound: helpers activated in a behaviour
          MaxTasks       \* bound: tasks given to the admin thread from outside

ASSUME NoneIsNoSession == None \notin Sessions
ASSUME MaxSessionsPositive == MaxSessions \in Nat \ {0}
ASSUME MaxHelperPositive == MaxHelper \in Nat \ {0}
ASSUME MaxTasksNatural == MaxTasks \in Nat

VARIABLES
  pc,        \* a control connection's thread: see ThreadAt
  msg,       \* the input message it is forwarding
  todo,      \* the sessions it has still to send a lease message to
  prev,      \* takeover's previous holder
  created,   \* the backend that its obtainBackend got from the provider
  epc,       \* Session.end, run by whoever set Session.ended: see EndAt
  elist,     \* the sessions it has still to tell that the lease is free
  sessions,  \* TargetServer.sessions
  leaseHolder,
  tracker,   \* what InputTracker has each session hold down
  down,      \* what is held down on the device
  backend,   \* TargetServer.backend, 0 for null; backends are numbered
  offered,   \* the backend TargetService's provider hands out
  stopped,   \* the backends stop has been called on, or whose helper has died
  admin,     \* the admin tasks submitted: "all", or a session whose grants changed
  tasks,     \* how many it has been given from outside
  alist,     \* the sessions the running admin task has still to end
  acur,      \* the session it is ending
  media,     \* a session's media connection: see MediaAt
  told       \* what each controller has last been told of the lease: "none", "held", "viewer"

thread == <<pc, msg, todo, prev, created>>
ending == <<epc, elist>>
input == <<leaseHolder, tracker, down>>
helper == <<backend, offered, stopped>>
adminThread == <<admin, tasks, alist, acur>>
vars == <<pc, msg, todo, prev, created, epc, elist, sessions, leaseHolder,
          tracker, down, backend, offered, stopped, admin, tasks, alist, acur, media, told>>

ThreadAt ==
  {"none", "install", "register", "lease", "greetHeld", "greetViewer",
   "announce", "tell", "loop", "read", "tellPrev", "tellSelf", "forward",
   "end", "ending", "gone"}
EndAt == {"no", "ended", "released", "removed", "tell", "done"}
MediaAt == {"none", "claimed", "added", "serving"}
Unwelcomed == {"none", "install", "register", "lease", "greetHeld", "greetViewer"}
Press == {"down", "up"} \X Keys
Backends == 1 .. MaxHelper
NoBackend == 0

TypeOK ==
  /\ pc \in [Sessions -> ThreadAt]
  /\ msg \in [Sessions -> Press \cup {<<>>}]
  /\ todo \in [Sessions -> SUBSET Sessions]
  /\ prev \in [Sessions -> Sessions \cup {None}]
  /\ created \in [Sessions -> Backends \cup {NoBackend}]
  /\ epc \in [Sessions -> EndAt]
  /\ elist \in [Sessions -> SUBSET Sessions]
  /\ sessions \subseteq Sessions /\ \A s \in sessions : epc[s] \in {"no", "ended", "released"}
  /\ leaseHolder \in Sessions \cup {None}
  /\ tracker \in [Sessions -> SUBSET Keys]
  /\ down \subseteq Keys
  /\ backend \in Backends \cup {NoBackend}
  /\ offered \in Backends
  /\ stopped \subseteq Backends
  /\ admin \subseteq Sessions \cup {"all"}
  /\ tasks \in 0 .. MaxTasks
  /\ alist \subseteq Sessions
  /\ acur \in Sessions \cup {None}
  /\ media \in [Sessions -> MediaAt]
  /\ told \in [Sessions -> {"none", "held", "viewer"}]

Init ==
  /\ pc = [s \in Sessions |-> "none"]
  /\ msg = [s \in Sessions |-> <<>>]
  /\ todo = [s \in Sessions |-> {}]
  /\ prev = [s \in Sessions |-> None]
  /\ created = [s \in Sessions |-> NoBackend]
  /\ epc = [s \in Sessions |-> "no"]
  /\ elist = [s \in Sessions |-> {}]
  /\ sessions = {} /\ leaseHolder = None
  /\ tracker = [s \in Sessions |-> {}] /\ down = {}
  /\ backend = NoBackend /\ offered = 1 /\ stopped = {}
  /\ admin = {} /\ tasks = 0 /\ alist = {} /\ acur = None
  /\ media = [s \in Sessions |-> "none"]
  /\ told = [s \in Sessions |-> "none"]

-----------------------------------------------------------------------------
Goto(s, where) == pc' = [pc EXCEPT ![s] = where]

Ended(s) == epc[s] # "no"
SocketOpen(s) == epc[s] \notin {"tell", "done"}

\* sendRaw: nothing once the socket is closed.  what is "held" or "viewer".
SendLease(s, what) == IF SocketOpen(s) THEN told' = [told EXCEPT ![s] = what] ELSE UNCHANGED told

\* releaseInputLocked: the releases go to the device, if there is a backend to take
\* them (a helper that has died holds nothing down), and are forgotten.
Released(s) == IF backend \in stopped \cup {NoBackend} THEN down ELSE down \ tracker[s]

(***************************************************************************)
(* The handshake.                                                          *)
(***************************************************************************)
\* handleControl up to obtainBackend's look without the lock: a full house is refused
\* early; else there is a backend, or the provider's is taken.
Hello(s) ==
  /\ pc[s] = "none"
  /\ \/ /\ Cardinality(sessions) >= MaxSessions
        /\ Goto(s, "gone") /\ UNCHANGED created
     \/ /\ Cardinality(sessions) < MaxSessions /\ backend # NoBackend
        /\ Goto(s, "register") /\ UNCHANGED created
     \/ /\ Cardinality(sessions) < MaxSessions /\ backend = NoBackend
        /\ Goto(s, "install") /\ created' = [created EXCEPT ![s] = offered]
  /\ UNCHANGED <<msg, todo, prev, ending, sessions, input, helper, adminThread, media, told>>

\* obtainBackend under lock: another handshake may have been faster, and this one's
\* backend is stopped: TargetService's provider gives both the same one.  A helper
\* whose relay is closed exits, and what it held down is up.
InstallBackend(s) ==
  /\ pc[s] = "install"
  /\ IF backend # NoBackend
       THEN /\ stopped' = stopped \cup {created[s]}
            /\ down' = IF created[s] = backend THEN {} ELSE down
            /\ UNCHANGED backend
       ELSE backend' = created[s] /\ UNCHANGED <<stopped, down>>
  /\ created' = [created EXCEPT ![s] = NoBackend]
  /\ Goto(s, "register")
  /\ UNCHANGED <<msg, todo, prev, ending, sessions, leaseHolder, tracker, offered, adminThread,
                 media, told>>

\* handleControl under lock.
Register(s) ==
  /\ pc[s] = "register"
  /\ IF Cardinality(sessions) < MaxSessions
       THEN sessions' = sessions \cup {s} /\ Goto(s, "lease")
       ELSE UNCHANGED sessions /\ Goto(s, "gone")
  /\ UNCHANGED <<msg, todo, prev, created, ending, input, helper, adminThread, media, told>>

\* handleControl under inputLock: a free lease is taken.
TakeFreeLease(s) ==
  /\ pc[s] = "lease"
  /\ leaseHolder' = IF leaseHolder = None THEN s ELSE leaseHolder
  /\ Goto(s, IF leaseHolder' = s THEN "greetHeld" ELSE "greetViewer")
  /\ UNCHANGED <<msg, todo, prev, created, ending, sessions, tracker, down, helper,
                 adminThread, media, told>>

\* The welcome is written, without writeLock; or the connection is gone.
Welcome(s) ==
  /\ pc[s] \in {"greetHeld", "greetViewer"}
  /\ IF SocketOpen(s)
       THEN /\ SendLease(s, IF pc[s] = "greetHeld" THEN "held" ELSE "viewer")
            /\ Goto(s, IF pc[s] = "greetHeld" THEN "announce" ELSE "loop")
       ELSE Goto(s, "end") /\ UNCHANGED told
  /\ UNCHANGED <<msg, todo, prev, created, ending, sessions, input, helper, adminThread, media>>

Announce(s) ==
  /\ pc[s] = "announce"
  /\ todo' = [todo EXCEPT ![s] = sessions \ {s}]
  /\ Goto(s, IF sessions \ {s} = {} THEN "loop" ELSE "tell")
  /\ UNCHANGED <<msg, prev, created, ending, sessions, input, helper, adminThread, media, told>>

TellOther(s, t) ==
  /\ pc[s] = "tell" /\ t \in todo[s]
  /\ SendLease(t, "viewer")
  /\ todo' = [todo EXCEPT ![s] = @ \ {t}]
  /\ Goto(s, IF todo[s] = {t} THEN "loop" ELSE "tell")
  /\ UNCHANGED <<msg, prev, created, ending, sessions, input, helper, adminThread, media>>

(***************************************************************************)
(* The control loop.                                                       *)
(***************************************************************************)
\* while (!ended), then a read that the end of the session does not wake.
LoopTop(s) ==
  /\ pc[s] = "loop"
  /\ Goto(s, IF Ended(s) THEN "end" ELSE "read")
  /\ UNCHANGED <<msg, todo, prev, created, ending, sessions, input, helper, adminThread,
                 media, told>>

\* onControl's policy: input that does not hold the lease is refused here.
ReadInput(s, m) ==
  /\ pc[s] = "read" /\ leaseHolder = s
  /\ msg' = [msg EXCEPT ![s] = m]
  /\ Goto(s, "forward")
  /\ UNCHANGED <<todo, prev, created, ending, sessions, input, helper, adminThread, media, told>>

\* Sent to a backend that can perform it, and then noted.
Perform(s) ==
  LET key == msg[s][2]
  IN IF msg[s][1] = "down"
       THEN /\ down' = down \cup {key}
            /\ tracker' = [tracker EXCEPT ![s] = @ \cup {key}]
       ELSE /\ down' = down \ {key}
            /\ tracker' = [tracker EXCEPT ![s] = @ \ {key}]

\* Mutant: the lease is not looked at again under inputLock.
ForwardStale(s) ==
  /\ pc[s] = "forward"
  /\ IF backend \notin stopped \cup {NoBackend} THEN Perform(s) ELSE UNCHANGED <<tracker, down>>
  /\ msg' = [msg EXCEPT ![s] = <<>>]
  /\ Goto(s, "loop")
  /\ UNCHANGED <<todo, prev, created, ending, sessions, leaseHolder, helper, adminThread,
                 media, told>>

\* forward under inputLock: the lease may have moved since; a backend may refuse.
Forward(s) ==
  /\ pc[s] = "forward"
  /\ \/ leaseHolder = s /\ backend \notin stopped \cup {NoBackend} /\ Perform(s)
     \/ UNCHANGED <<tracker, down>>
  /\ msg' = [msg EXCEPT ![s] = <<>>]
  /\ Goto(s, "loop")
  /\ UNCHANGED <<todo, prev, created, ending, sessions, leaseHolder, helper, adminThread,
                 media, told>>

\* takeover under inputLock: first the previous holder's releases.
Takeover(s) ==
  /\ pc[s] = "read"
  /\ prev' = [prev EXCEPT ![s] = leaseHolder]
  /\ leaseHolder' = s
  /\ IF leaseHolder \notin {s, None}
       THEN /\ down' = Released(leaseHolder)
            /\ tracker' = [tracker EXCEPT ![leaseHolder] = {}]
       ELSE UNCHANGED <<tracker, down>>
  /\ Goto(s, IF leaseHolder \in {s, None} THEN "tellSelf" ELSE "tellPrev")
  /\ UNCHANGED <<msg, todo, created, ending, sessions, helper, adminThread, media, told>>

TellPrev(s) ==
  /\ pc[s] = "tellPrev"
  /\ SendLease(prev[s], "viewer")
  /\ Goto(s, "tellSelf")
  /\ UNCHANGED <<msg, todo, prev, created, ending, sessions, input, helper, adminThread, media>>

TellSelf(s) ==
  /\ pc[s] = "tellSelf"
  /\ SendLease(s, "held")
  /\ prev' = [prev EXCEPT ![s] = None]
  /\ Goto(s, "loop")
  /\ UNCHANGED <<msg, todo, created, ending, sessions, input, helper, adminThread, media>>

\* bye with endSession: the lease holder's ends every session.
ReadBye(s) ==
  /\ pc[s] = "read" /\ leaseHolder = s
  /\ admin' = admin \cup {"all"}
  /\ Goto(s, "end")
  /\ UNCHANGED <<msg, todo, prev, created, ending, sessions, input, helper, tasks, alist,
                 acur, media, told>>

\* A bye that ends nobody else's session; or the connection is lost, went silent, or
\* was closed by the session's end.
ReadEnds(s) ==
  /\ pc[s] = "read"
  /\ Goto(s, "end")
  /\ UNCHANGED <<msg, todo, prev, created, ending, sessions, input, helper, adminThread,
                 media, told>>

(***************************************************************************)
(* The end of a session.                                                   *)
(***************************************************************************)
\* end, from the connection's own thread: a no-op if another thread was first.
EndItself(s) ==
  /\ pc[s] = "end"
  /\ IF Ended(s)
       THEN Goto(s, "gone") /\ UNCHANGED epc
       ELSE /\ Goto(s, "ending")
            /\ epc' = [epc EXCEPT ![s] = "ended"]
  /\ UNCHANGED <<msg, todo, prev, created, elist, sessions, input, helper, adminThread,
                 media, told>>

\* end under inputLock.  elist notes whether a lease was freed (freedLease).
EndRelease(s) ==
  /\ epc[s] = "ended"
  /\ down' = Released(s)
  /\ tracker' = [tracker EXCEPT ![s] = {}]
  /\ leaseHolder' = IF leaseHolder = s THEN None ELSE leaseHolder
  /\ elist' = [elist EXCEPT ![s] = IF leaseHolder = s THEN {s} ELSE {}]
  /\ epc' = [epc EXCEPT ![s] = "released"]
  /\ UNCHANGED <<thread, sessions, helper, adminThread, media, told>>

\* end under lock: off the list; the others are told below if a lease was freed.
EndRemove(s) ==
  /\ epc[s] = "released"
  /\ sessions' = sessions \ {s}
  /\ elist' = [elist EXCEPT ![s] = IF @ = {} THEN {} ELSE sessions']
  /\ epc' = [epc EXCEPT ![s] = "removed"]
  /\ UNCHANGED <<thread, input, helper, adminThread, media, told>>

\* The subscriptions and the media and control sockets are closed; what its controller
\* knew of the lease no longer matters.
EndClose(s) ==
  /\ epc[s] = "removed"
  /\ media' = [media EXCEPT ![s] = IF @ \in {"added", "serving"} THEN "none" ELSE @]
  /\ told' = [told EXCEPT ![s] = "none"]
  /\ epc' = [epc EXCEPT ![s] = "tell"]
  /\ UNCHANGED <<thread, elist, sessions, input, helper, adminThread>>

EndTell(s, t) ==
  /\ epc[s] = "tell" /\ t \in elist[s]
  /\ SendLease(t, "viewer")
  /\ elist' = [elist EXCEPT ![s] = @ \ {t}]
  /\ UNCHANGED <<thread, epc, sessions, input, helper, adminThread, media>>

EndDone(s) ==
  /\ epc[s] = "tell" /\ elist[s] = {}
  /\ epc' = [epc EXCEPT ![s] = "done"]
  /\ IF pc[s] = "ending" THEN Goto(s, "gone") ELSE UNCHANGED pc
  /\ UNCHANGED <<msg, todo, prev, created, elist, sessions, input, helper,
                 adminThread, media, told>>

(***************************************************************************)
(* The admin thread, one task after the other.                             *)
(***************************************************************************)
\* The local user disconnects everyone ("all") or changes the grants of s's peer.
Submit(task) ==
  /\ tasks < MaxTasks /\ tasks' = tasks + 1
  /\ admin' = admin \cup {task}
  /\ UNCHANGED <<thread, ending, sessions, input, helper, alist, acur, media, told>>

AdminTask(task) ==
  /\ alist = {} /\ acur = None /\ task \in admin
  /\ admin' = admin \ {task}
  /\ alist' = IF task = "all" THEN sessions ELSE sessions \cap {task}
  /\ UNCHANGED <<thread, ending, sessions, input, helper, tasks, acur, media, told>>

AdminEnds(s) ==
  /\ acur = None /\ s \in alist
  /\ alist' = alist \ {s}
  /\ IF Ended(s)
       THEN UNCHANGED <<acur, epc>>
       ELSE /\ acur' = s
            /\ epc' = [epc EXCEPT ![s] = "ended"]
  /\ UNCHANGED <<thread, elist, sessions, input, helper, admin, tasks, media,
                 told>>

AdminGoesOn ==
  /\ acur # None /\ epc[acur] = "done"
  /\ acur' = None
  /\ UNCHANGED <<thread, ending, sessions, input, helper, admin, tasks, alist, media, told>>

(***************************************************************************)
(* Media connections and the backend.                                      *)
(***************************************************************************)
\* handleMedia: the session is found and accepts the token, and claimChannel.
ClaimChannel(s) ==
  /\ media[s] = "none" /\ pc[s] \notin Unwelcomed
  /\ s \in sessions /\ ~Ended(s)
  /\ media' = [media EXCEPT ![s] = "claimed"]
  /\ UNCHANGED <<thread, ending, sessions, input, helper, adminThread, told>>

\* fanout.serve: the subscriber is on the fanout's list and on the session's.
AddSubscription(s) ==
  /\ media[s] = "claimed"
  /\ media' = [media EXCEPT ![s] = "added"]
  /\ UNCHANGED <<thread, ending, sessions, input, helper, adminThread, told>>

\* Mutant: addSubscription does not look whether the session has ended meanwhile.
SubscribedBlindly(s) ==
  /\ media[s] = "added"
  /\ media' = [media EXCEPT ![s] = "serving"]
  /\ UNCHANGED <<thread, ending, sessions, input, helper, adminThread, told>>

\* addSubscription's end.
Subscribed(s) ==
  /\ media[s] = "added"
  /\ media' = [media EXCEPT ![s] = IF Ended(s) THEN "none" ELSE "serving"]
  /\ UNCHANGED <<thread, ending, sessions, input, helper, adminThread, told>>

\* The helper dies: Sink.stopped, and TargetService offers a new one.
HelperDies ==
  /\ tasks < MaxTasks /\ tasks' = tasks + 1
  /\ backend = offered /\ backend \notin stopped /\ offered < MaxHelper
  /\ stopped' = stopped \cup {backend}
  /\ backend' = NoBackend
  /\ offered' = offered + 1
  /\ down' = {}
  /\ admin' = admin \cup {"all"}
  /\ UNCHANGED <<thread, ending, sessions, leaseHolder, tracker, alist, acur, media, told>>

-----------------------------------------------------------------------------
Handshake(s) ==
  \/ Hello(s) \/ InstallBackend(s) \/ Register(s) \/ TakeFreeLease(s)
  \/ Welcome(s) \/ Announce(s) \/ (\E t \in Sessions : TellOther(s, t))
Loop(s) ==
  \/ LoopTop(s) \/ (\E m \in Press : ReadInput(s, m)) \/ Forward(s)
  \/ Takeover(s) \/ TellPrev(s) \/ TellSelf(s)
  \/ ReadBye(s) \/ ReadEnds(s)
End(s) ==
  \/ EndItself(s) \/ EndRelease(s) \/ EndRemove(s) \/ EndClose(s)
  \/ (\E t \in Sessions : EndTell(s, t)) \/ EndDone(s)
Admin ==
  \/ \E task \in Sessions \cup {"all"} : Submit(task) \/ AdminTask(task)
  \/ (\E s \in Sessions : AdminEnds(s)) \/ AdminGoesOn
Media(s) == ClaimChannel(s) \/ AddSubscription(s) \/ Subscribed(s)

Next ==
  \/ \E s \in Sessions : Handshake(s) \/ Loop(s) \/ End(s) \/ Media(s)
  \/ Admin
  \/ HelperDies

Spec == Init /\ [][Next]_vars

-----------------------------------------------------------------------------
\* No finger or key is stuck: what is down on the device was pressed by the lease
\* holder, who has it noted, so that losing the lease or the connection releases it;
\* nobody else's input is down, whatever they sent before they lost the lease.
NothingStuck ==
  /\ down \subseteq UNION {tracker[s] : s \in Sessions}
  /\ \A s \in Sessions : tracker[s] # {} => leaseHolder = s

\* The device keeps to InputLease: however threads take, hand over, lose and free the
\* lease, it changes hands with nothing held down, and nobody presses without it.
Lease == INSTANCE InputLease WITH holder <- leaseHolder, pressed <- down
LeaseKept == Lease!Spec

\* A media connection does not outlive its session, also when it is opened while the
\* session ends: it would wait for a stream that nobody is left to close.
NoOrphanMedia == \A s \in Sessions : epc[s] = "done" => media[s] # "serving"

(***************************************************************************)
(* Three more things a reader of the code would expect, which do not hold  *)
(* (README, "Remarks on the code"): TLC finds a counterexample to each.    *)
(***************************************************************************)
\* The backend in use has not been stopped by the server itself (BackendProvider:
\* "Creates the backend on first use").
BackendInUseRuns == backend # NoBackend => backend \notin stopped

\* The lease is free once its holder's session has ended (docs/PEER_PROTOCOL.md).
EndedHoldsNoLease ==
  \A s \in Sessions : leaseHolder = s => epc[s] \in {"no", "ended"}

AtRest ==
  /\ admin = {} /\ alist = {} /\ acur = None
  /\ \A s \in Sessions : pc[s] \in {"none", "read", "gone"} /\ epc[s] \in {"no", "done"}

\* When every message has been sent, each controller knows whether it has control.
ToldTheTruth ==
  AtRest => \A s \in sessions : (told[s] = "held") <=> (leaseHolder = s)
==============================================================================
