------------------------------ MODULE Pairing ------------------------------
(***************************************************************************)
(* Pairing a computer with a serving device, on both sides: the commands   *)
(* scterm pair (with a typed invitation, or nearby, comparing codes) and   *)
(* scterm forget, and the device's invitation with the threads that answer *)
(* them (TargetServer.kt).  A command is one process on a computer; the    *)
(* processes of a computer share its peers.json.  One device is paired     *)
(* with; another one may have the address it had.                          *)
(*                                                                         *)
(* A step is a message read with what it makes the reader write, one       *)
(* critical section of the device's lock, one answer of a user, or one     *)
(* replacement of a file.  Put and Remove load and replace peers.json in    *)
(* one step: what they loaded decides only about other devices' records.   *)
(***************************************************************************)
EXTENDS Naturals, Sequences, FiniteSets

CONSTANTS
  Commands,        \* the scterm processes
  Home,            \* the computer each runs on
  Starts,          \* what the processes run, to start with, and who is paired
  MaxInvitations,  \* bound: invitations opened
  MaxFailures,     \* Config.maxPairingFailures
  MaxSurprises     \* bound: moves of the devices, lines cut, processes killed,
                   \* invitations withdrawn and sessions ended by the device

Kinds == {"off", "code", "nearby", "forget", "connect", "check"}
Computers == {Home[p] : p \in Commands}
Places == 1 .. 2
None == "none"
Invitations == 1 .. MaxInvitations

ASSUME PairingAssumption ==
  /\ DOMAIN Home = Commands /\ None \notin Commands
  /\ Starts \subseteq [runs : [Commands -> Kinds], paired : SUBSET Computers]
  /\ MaxInvitations \in Nat /\ MaxSurprises \in Nat /\ MaxFailures \in Nat \ {0}

VARIABLES
  what, pc,    \* what a process runs, and its place
  goal,        \* the place it dials
  typed,       \* the invitation whose code was typed, 0 for a wrong one
  socks,       \* the connections it holds open
  result,      \* what the nearby pairing's await delivered
  yes,         \* its user confirmed the code
  line,        \* who still has the connection: "here" and "there"
  up, down,    \* what is under way on it, to the device and to the computer
  identity,    \* a computer's identity.pem: its name if it is as old as the
               \* computer, or the process that made it
  me,          \* the identity that a process uses
  store,       \* peers.json: the place saved for the device, 0 without a record
  proven,      \* the places where the device proved to a computer who it is
  at, other,   \* where the device and the other one are, 0 for off the network
  trusted,     \* the identities in the device's own store
  invited,     \* how many invitations it has opened
  invitation,  \* the one that is open, 0 for none
  failures,    \* an invitation's failed attempts
  busy,        \* the invitations with nearbyBusy set
  server,      \* the place of the device's thread for a process's connection
  held,        \* the invitation that thread works with
  reader,      \* its second thread: "off", "confirm", "hangup" or "done"
  answers,     \* the queue of answers
  accepted,    \* the device's user accepted the request
  asking,      \* the requests the device's user is shown
  admitted,    \* the processes whose pairing the device recorded
  surprises

command == <<what, pc, goal, typed, result, yes>>
wire == <<socks, line, up, down>>
ids == <<identity, me>>
world == <<at, other, surprises, ids>>
device == <<trusted, invited, invitation, failures, busy, server, held, reader,
            answers, accepted, asking, admitted>>
pairVars == <<what, pc, goal, typed, socks, result, yes, line, up, down, store, proven,
              ids, at, other, trusted, invited, invitation, failures, busy, server, held,
              reader, answers, accepted, asking, admitted, surprises>>

PairInit ==
  \E s \in Starts :
    /\ what = s.runs /\ trusted = s.paired
    /\ store = [c \in Computers |-> IF c \in s.paired THEN 1 ELSE 0]
    /\ proven = [c \in Computers |-> IF c \in s.paired THEN {1} ELSE {}]
    /\ identity = [c \in Computers |-> IF c \in s.paired THEN c ELSE None]
    /\ me = [p \in Commands |-> None]
    /\ pc = [p \in Commands |-> "open"] /\ goal = [p \in Commands |-> 0]
    /\ typed = [p \in Commands |-> 0] /\ result = [p \in Commands |-> "none"]
    /\ socks = [p \in Commands |-> {}] /\ line = [p \in Commands |-> {}]
    /\ up = [p \in Commands |-> <<>>] /\ down = [p \in Commands |-> <<>>]
    /\ at = 1 /\ other = 2 /\ surprises = 0
    /\ invited = 0 /\ invitation = 0 /\ failures = [i \in Invitations |-> 0]
    /\ server = [p \in Commands |-> "off"] /\ held = [p \in Commands |-> 0]
    /\ reader = [p \in Commands |-> "off"] /\ answers = [p \in Commands |-> <<>>]
    /\ busy = {} /\ yes = {} /\ accepted = {} /\ asking = {} /\ admitted = {}

Over == {"failed", "done", "killed"}
At(p, k, c) == what[p] = k /\ pc[p] = c
Goto(p, c) == pc' = [pc EXCEPT ![p] = c]
Surprise == surprises < MaxSurprises /\ surprises' = surprises + 1

\* A message is written if the other end is still there.
Sent(q, p, m, end) == [q EXCEPT ![p] = IF end \in line[p] THEN Append(@, m) ELSE @]
\* The other end is gone, and everything it had sent has been read.
Lost(q, p, end) == q[p] = <<>> /\ end \notin line[p]
\* A process closes its connections.
HangsUp(p) ==
  /\ socks' = [socks EXCEPT ![p] = {}]
  /\ line' = [line EXCEPT ![p] = @ \ {"here"}]
  /\ down' = [down EXCEPT ![p] = <<>>]

-----------------------------------------------------------------------------
(* Any command: openPeerClient *)

\* LoadOrCreateIdentity.  Two processes that find none each use their own.
OpenClient(p) ==
  /\ what[p] # "off" /\ pc[p] = "open"
  /\ IF identity[Home[p]] = None
       THEN Goto(p, "create") /\ UNCHANGED me
       ELSE Goto(p, "start") /\ me' = [me EXCEPT ![p] = identity[Home[p]]]
  /\ UNCHANGED <<what, goal, typed, result, yes, wire, store, proven, identity, at, other,
                 surprises, device>>

CreateIdentity(p) ==
  /\ pc[p] = "create" /\ Goto(p, "start")
  /\ identity' = [identity EXCEPT ![Home[p]] = p] /\ me' = [me EXCEPT ![p] = p]
  /\ UNCHANGED <<what, goal, typed, result, yes, wire, store, proven, at, other, surprises,
                 device>>

\* writeFileAtomic: peers.json is replaced in one step.
Replaces(c, place) == store' = [store EXCEPT ![c] = place]

\* FindIn, MatchesIn: what a command names is in peers.json.
Known(c) == store[c] # 0

-----------------------------------------------------------------------------
(* The search of the local network *)

\* The collector puts the packets of one answer together, in any order: a device
\* is at the place that its answer came from.
Advertised == {at} \ {0}

\* discoverService: all of a device's answers to three queries can be lost.
Answers(advertised) == SUBSET advertised

-----------------------------------------------------------------------------
(* scterm pair *)

\* dial: the connection of process p to what is at its place.  Without a pin
\* any device will do, and the other one refuses to pair.
Dials(p, place, first, next) ==
  IF place = at
    THEN /\ Goto(p, next)
         /\ socks' = [socks EXCEPT ![p] = {"pair"}]
         /\ line' = [line EXCEPT ![p] = {"here", "there"}]
         /\ up' = [up EXCEPT ![p] = <<first>>]
         /\ server' = [server EXCEPT ![p] = "read"]
         /\ proven' = [proven EXCEPT ![Home[p]] = @ \cup {place}]
    ELSE Goto(p, "failed") /\ UNCHANGED <<socks, line, up, server, proven>>

\* ParseInvitation: an address and a code as somebody typed them.
Typed(p, place, code) ==
  /\ typed' = [typed EXCEPT ![p] = code] /\ goal' = [goal EXCEPT ![p] = place]

\* pairCommand, Client.Pair.
PairDials(p) ==
  /\ At(p, "code", "start") /\ invited > 0
  /\ \E place \in Places, code \in 0 .. invited :
       Typed(p, place, code) /\ Dials(p, place, "pair", "reply")
  /\ UNCHANGED <<what, result, yes, down, store, world, trusted, invited, invitation,
                 failures, busy, held, reader, answers, accepted, asking, admitted>>

PairReply(p) ==
  /\ pc[p] = "reply"
  /\ \/ down[p] # <<>> /\ Goto(p, IF Head(down[p]) = "paired" THEN "put" ELSE "failed")
     \/ Lost(down, p, "there") /\ Goto(p, "failed")
  /\ HangsUp(p)
  /\ UNCHANGED <<what, goal, typed, result, yes, up, store, proven, world, device>>

\* findNearby: the device is found while it advertises an invitation.
Find(p) ==
  /\ At(p, "nearby", "start")
  /\ \E found \in Answers(IF invitation = 0 THEN {} ELSE Advertised) :
       IF found = {}
         THEN Goto(p, "failed") /\ UNCHANGED goal
         ELSE Goto(p, "dial") /\ \E place \in found : goal' = [goal EXCEPT ![p] = place]
  /\ UNCHANGED <<what, typed, result, yes, wire, store, proven, world, device>>

\* StartNearbyPairing, message by message.
NearbyDials(p) ==
  /\ At(p, "nearby", "dial")
  /\ Dials(p, goal[p], "pair_nearby", "commit")
  /\ UNCHANGED <<what, goal, typed, result, yes, down, store, world, trusted, invited,
                 invitation, failures, busy, held, reader, answers, accepted, asking,
                 admitted>>

NearbyReads(p) ==
  /\ pc[p] \in {"commit", "reveal"}
  /\ IF down[p] # <<>> /\ Head(down[p]) \in {"code_commit", "code_reveal"}
       THEN /\ down' = [down EXCEPT ![p] = Tail(@)]
            /\ IF pc[p] = "commit"
                 THEN Goto(p, "reveal") /\ up' = Sent(up, p, "code_nonce", "there")
                 ELSE Goto(p, "shown") /\ UNCHANGED up
            /\ UNCHANGED <<socks, line>>
       ELSE /\ down[p] # <<>> \/ Lost(down, p, "there")
            /\ Goto(p, "failed") /\ HangsUp(p) /\ UNCHANGED up
  /\ UNCHANGED <<what, goal, typed, result, yes, store, proven, world, device>>

\* await: the device's answer, which may come before this user's.
Await(p) ==
  /\ pc[p] \in {"shown", "confirmed"} /\ result[p] = "none"
  /\ \/ /\ down[p] # <<>>
        /\ result' = [result EXCEPT ![p] =
             IF Head(down[p]) = "paired" /\ p \in yes THEN "paired" ELSE "refused"]
     \/ Lost(down, p, "there") /\ result' = [result EXCEPT ![p] = "refused"]
  /\ HangsUp(p)
  /\ UNCHANGED <<what, pc, goal, typed, yes, up, store, proven, world, device>>

\* pairNearbyCommand: the user compares the codes.
SaysYes(p) ==
  /\ pc[p] = "shown"
  /\ yes' = yes \cup {p} /\ Goto(p, "confirmed")
  /\ up' = IF socks[p] = {} THEN up ELSE Sent(up, p, "code_confirm", "there")
  /\ UNCHANGED <<what, goal, typed, result, socks, line, down, store, proven, world, device>>

SaysNo(p) ==
  /\ pc[p] = "shown"
  /\ Goto(p, "failed") /\ HangsUp(p)
  /\ UNCHANGED <<what, goal, typed, result, yes, up, store, proven, world, device>>

Told(p) ==
  /\ pc[p] \in {"shown", "confirmed"} /\ result[p] # "none"
  /\ Goto(p, IF pc[p] = "confirmed" /\ result[p] = "paired" THEN "put" ELSE "failed")
  /\ UNCHANGED <<what, goal, typed, result, yes, wire, store, proven, world, device>>

Put(p) ==
  /\ pc[p] = "put"
  /\ Replaces(Home[p], goal[p]) /\ Goto(p, "done")
  /\ UNCHANGED <<what, goal, typed, result, yes, wire, proven, world, device>>

\* forgetCommand: a name that was not whole is confirmed, or not.
Forget(p) ==
  /\ At(p, "forget", "start")
  /\ Goto(p, IF Known(Home[p]) THEN "remove" ELSE "failed")
  /\ UNCHANGED <<what, goal, typed, result, yes, wire, store, proven, world, device>>

Remove(p) ==
  /\ pc[p] = "remove" /\ Goto(p, "done")
  /\ Replaces(Home[p], 0) \/ UNCHANGED store
  /\ UNCHANGED <<what, goal, typed, result, yes, wire, proven, world, device>>

-----------------------------------------------------------------------------
(* The device: its user, and the thread of each connection *)

\* invite, and cancelInvitation; one that expires is found gone the same way.
Invite ==
  /\ invited < MaxInvitations
  /\ invited' = invited + 1 /\ invitation' = invited + 1
  /\ UNCHANGED <<command, wire, store, proven, world, trusted, failures, busy, server, held,
                 reader, answers, accepted, asking, admitted>>

Withdraw ==
  /\ Surprise /\ invitation # 0 /\ invitation' = 0
  /\ UNCHANGED <<command, wire, store, proven, at, other, ids, trusted, invited, failures, busy,
                 server, held, reader, answers, accepted, asking, admitted>>

Failed(i) == failures' = [failures EXCEPT ![i] = @ + 1]
Serve(p, s) == server' = [server EXCEPT ![p] = s]
\* A last message, and the device closes the connection.
Ends(p, m) ==
  /\ Serve(p, "off")
  /\ down' = Sent(down, p, m, "here")
  /\ line' = [line EXCEPT ![p] = @ \ {"there"}]
First(p, m) == server[p] = "read" /\ up[p] # <<>> /\ Head(up[p]) = m

\* Mutant: the invitation stays open until the pairing is complete.
TakePairKeeps(p) ==
  /\ First(p, "pair")
  /\ IF invitation # 0 /\ typed[p] = invitation
       THEN /\ held' = [held EXCEPT ![p] = invitation]
            /\ Serve(p, "record") /\ UNCHANGED <<invitation, failures, line, down>>
       ELSE Ends(p, "reject") /\ UNCHANGED <<invitation, failures, held>>
  /\ up' = [up EXCEPT ![p] = <<>>]
  /\ UNCHANGED <<command, socks, store, proven, world, trusted, invited, busy, reader, answers,
                 accepted, asking, admitted>>

\* handlePair: one invitation admits one proof of its code.
TakePair(p) ==
  /\ First(p, "pair")
  /\ IF invitation # 0 /\ typed[p] = invitation
       THEN /\ held' = [held EXCEPT ![p] = invitation] /\ invitation' = 0
            /\ Serve(p, "record") /\ UNCHANGED <<failures, line, down>>
       ELSE /\ IF invitation = 0
                 THEN UNCHANGED <<failures, invitation>>
                 ELSE /\ Failed(invitation)
                      /\ invitation' =
                           IF failures'[invitation] >= MaxFailures THEN 0 ELSE invitation
            /\ Ends(p, "reject") /\ UNCHANGED held
  /\ up' = [up EXCEPT ![p] = <<>>]
  /\ UNCHANGED <<command, socks, store, proven, world, trusted, invited, busy, reader, answers,
                 accepted, asking, admitted>>

\* handlePairNearby, up to the commitment: one request at a time.
TakeNearby(p) ==
  /\ First(p, "pair_nearby")
  /\ IF invitation # 0 /\ invitation \notin busy
       THEN /\ busy' = busy \cup {invitation} /\ held' = [held EXCEPT ![p] = invitation]
            /\ Serve(p, "nonce") /\ down' = Sent(down, p, "code_commit", "here")
            /\ UNCHANGED line
       ELSE Ends(p, "reject") /\ UNCHANGED <<busy, held>>
  /\ up' = [up EXCEPT ![p] = <<>>]
  /\ UNCHANGED <<command, socks, store, proven, world, trusted, invited, invitation, failures,
                 reader, answers, accepted, asking, admitted>>

\* The nonces are exchanged, and the user here sees the request.
TakeNonce(p) ==
  /\ server[p] = "nonce" /\ up[p] # <<>>
  /\ up' = [up EXCEPT ![p] = Tail(@)] /\ down' = Sent(down, p, "code_reveal", "here")
  /\ Serve(p, "asking") /\ asking' = asking \cup {p}
  /\ reader' = [reader EXCEPT ![p] = "confirm"]
  /\ UNCHANGED <<command, socks, line, store, proven, world, trusted, invited, invitation,
                 failures, busy, held, answers, accepted, admitted>>

Answer(p, a) == answers' = [answers EXCEPT ![p] = Append(@, a)]

\* The thread that reads the other user's confirmation, then the hang-up.  What
\* it offers once the request is decided reaches nobody.
Reader(p) ==
  /\ server[p] = "asking"
  /\ \/ /\ reader[p] = "confirm" /\ up[p] # <<>>
        /\ up' = [up EXCEPT ![p] = Tail(@)]
        /\ reader' = [reader EXCEPT ![p] = "hangup"] /\ Answer(p, "confirmed")
     \/ /\ reader[p] \in {"confirm", "hangup"} /\ Lost(up, p, "here")
        /\ reader' = [reader EXCEPT ![p] = "done"] /\ Answer(p, "gone")
        /\ UNCHANGED up
  /\ UNCHANGED <<command, socks, line, down, store, proven, world, trusted, invited,
                 invitation, failures, busy, server, held, accepted, asking, admitted>>

Given(p) == {answers[p][n] : n \in DOMAIN answers[p]}

UserAnswers(p) ==
  /\ server[p] = "asking" /\ Given(p) \cap {"accepted", "declined"} = {}
  /\ \/ Answer(p, "accepted") /\ accepted' = accepted \cup {p}
     \/ Answer(p, "declined") /\ UNCHANGED accepted
  /\ UNCHANGED <<command, wire, store, proven, world, trusted, invited, invitation, failures,
                 busy, server, held, reader, asking, admitted>>

\* Mutant: the other user's confirmation is not waited for.
AgreedHere(q) == \E n \in DOMAIN q : q[n] = "accepted" /\ \A j \in 1 .. n : q[j] # "gone"

\* awaitNearbyAnswers: the first answers, in their order, that decide.
Agreed(q) ==
  \E n \in 0 .. Len(q) : LET first == {q[j] : j \in 1 .. n}
                         IN {"accepted", "confirmed"} = first
Outcome(p) ==
  IF Agreed(answers[p]) THEN "admit"
  ELSE IF \E n \in DOMAIN answers[p] : answers[p][n] = "gone"
            /\ \A j \in 1 .. n : answers[p][j] # "declined"
    THEN "cancel" ELSE "refuse"

\* Mutant: no deadline for the two users' answers.
DecideInTime(p) ==
  /\ server[p] = "asking" /\ (Agreed(answers[p]) \/ Given(p) \cap {"declined", "gone"} # {})
  /\ Serve(p, Outcome(p)) /\ busy' = busy \ {held[p]}
  /\ UNCHANGED <<command, wire, store, proven, world, trusted, invited, invitation, failures,
                 held, reader, answers, accepted, asking, admitted>>

\* It decides, or nobody answered in time; the invitation is free at once, so
\* that a retry is not refused.
Decide(p) ==
  /\ server[p] = "asking"
  /\ Serve(p, Outcome(p)) /\ busy' = busy \ {held[p]}
  /\ UNCHANGED <<command, wire, store, proven, world, trusted, invited, invitation, failures,
                 held, reader, answers, accepted, asking, admitted>>

Admit(p) ==
  /\ server[p] = "admit" /\ Serve(p, "record")
  /\ invitation' = IF invitation = held[p] THEN 0 ELSE invitation
  /\ UNCHANGED <<command, wire, store, proven, world, trusted, invited, failures, busy, held,
                 reader, answers, accepted, asking, admitted>>

\* completePairing.
Record(p) ==
  /\ server[p] = "record"
  /\ trusted' = trusted \cup {me[p]} /\ admitted' = admitted \cup {p}
  /\ IF p \in asking
       THEN Serve(p, "finally") /\ down' = Sent(down, p, "paired", "here") /\ UNCHANGED line
       ELSE Ends(p, "paired")
  /\ UNCHANGED <<command, socks, up, store, proven, world, invited, invitation, failures, busy,
                 held, reader, answers, accepted, asking>>

\* countNearbyFailure, and the answer unless the other side hung up.
Refuse(p) ==
  /\ server[p] \in {"refuse", "cancel"} /\ Failed(held[p])
  /\ invitation' = IF invitation = held[p] /\ failures'[held[p]] >= MaxFailures
                     THEN 0 ELSE invitation
  /\ down' = IF server[p] = "refuse" THEN Sent(down, p, "reject", "here") ELSE down
  /\ Serve(p, "finally")
  /\ UNCHANGED <<command, socks, line, up, store, proven, world, trusted, invited, busy, held,
                 reader, answers, accepted, asking, admitted>>

\* handlePairNearby's finally, and acceptLoop's.
Finally(p) ==
  /\ server[p] = "finally"
  /\ busy' = busy \ {held[p]} /\ asking' = asking \ {p}
  /\ Serve(p, "off") /\ line' = [line EXCEPT ![p] = @ \ {"there"}]
  /\ UNCHANGED <<command, socks, up, down, store, proven, world, trusted, invited, invitation,
                 failures, held, reader, answers, accepted, admitted>>

\* The other side hung up before it said all.
ServerLoses(p) ==
  /\ server[p] \in {"read", "nonce"} /\ Lost(up, p, "here")
  /\ Serve(p, IF server[p] = "nonce" THEN "finally" ELSE "off")
  /\ UNCHANGED <<command, wire, store, proven, world, trusted, invited, invitation, failures,
                 busy, held, reader, answers, accepted, asking, admitted>>

-----------------------------------------------------------------------------
(* What may happen to them *)

Break(P) ==
  /\ line' = [p \in Commands |-> IF p \in P THEN {} ELSE line[p]]
  /\ up' = [p \in Commands |-> IF p \in P THEN <<>> ELSE up[p]]
  /\ down' = [p \in Commands |-> IF p \in P THEN <<>> ELSE down[p]]

\* The devices change addresses, or leave the network.
Move ==
  /\ Surprise
  /\ at' \in Places \cup {0} /\ other' \in Places \cup {0}
  /\ at' # at /\ (at' = other' => at' = 0)
  /\ Break(Commands)
  /\ UNCHANGED <<command, socks, store, proven, ids, device>>

Cut(p) ==
  /\ Surprise /\ line[p] # {} /\ Break({p})
  /\ UNCHANGED <<command, socks, store, proven, at, other, ids, device>>

Kill(p) ==
  /\ Surprise /\ what[p] # "off" /\ pc[p] \notin Over \cup {"open", "start"}
  /\ Goto(p, "killed") /\ HangsUp(p)
  /\ UNCHANGED <<what, goal, typed, result, yes, up, store, proven, at, other, ids, device>>

-----------------------------------------------------------------------------
(* The computer's process, and the device's threads, without their users. *)
PairProcess(p) ==
  \/ OpenClient(p) \/ CreateIdentity(p)
  \/ PairDials(p) \/ PairReply(p) \/ Find(p) \/ NearbyDials(p) \/ NearbyReads(p)
  \/ Await(p) \/ Told(p) \/ Put(p) \/ Forget(p) \/ Remove(p)
PairServer(p) ==
  \/ TakePair(p) \/ TakeNearby(p) \/ TakeNonce(p) \/ Decide(p) \/ Admit(p) \/ Record(p)
  \/ Refuse(p) \/ Finally(p) \/ ServerLoses(p)
PairNext ==
  \/ \E p \in Commands : \/ PairProcess(p) \/ SaysYes(p) \/ SaysNo(p)
                         \/ PairServer(p) \/ Reader(p) \/ UserAnswers(p)
                         \/ Cut(p) \/ Kill(p)
  \/ Invite \/ Withdraw \/ Move
=============================================================================
