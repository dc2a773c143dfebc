------------------------------ MODULE PeerProofs ------------------------------
(***************************************************************************)
(* Proofs about Peer and Pairing, for any computers, commands, invitations *)
(* and failures: what both sides know when a pairing is recorded, that a   *)
(* code admits one, that a record leads to the device itself, and that a   *)
(* command leaves no connection open.                                      *)
(***************************************************************************)
EXTENDS Peer, SequenceTheorems, TLAPS

\* A message is under way.
Has(q, m) == \E i \in 1 .. Len(q) : q[i] = m

\* The messages, the answers and the places there are.
UpMessage == {"pair", "pair_nearby", "code_nonce", "code_confirm"}
DownMessage == {"reject", "code_commit", "code_reveal", "paired", "bye"}
Answering == {"accepted", "declined", "confirmed", "gone"}
Place == {"open", "create", "start", "remove", "reply", "dial", "commit", "reveal", "shown",
          "confirmed", "put", "welcome", "media", "search", "discover", "probe", "load", "save",
          "live", "leaving"} \cup Over

\* The type invariant in parts, stronger than TypeOK: queues hold messages only.
CommandTypes ==
  /\ what \in [Commands -> Kinds] /\ pc \in [Commands -> Place]
  /\ goal \in [Commands -> Places \cup {0}] /\ saved \in [Commands -> Places \cup {0}]
  /\ result \in [Commands -> {"none", "paired", "refused"}]
FileTypes ==
  /\ store \in [Computers -> Places \cup {0}] /\ proven \in [Computers -> SUBSET Places]
  /\ at \in Places \cup {0} /\ other \in Places \cup {0}
  /\ DOMAIN identity = Computers /\ DOMAIN me = Commands
UpTypes == up \in [Commands -> Seq(UpMessage)]
DownTypes == down \in [Commands -> Seq(DownMessage)]
SockTypes == socks \in [Commands -> SUBSET {"pair", "control", "video", "audio"}]
WireTypes == DOMAIN line = Commands /\ UpTypes /\ DownTypes /\ SockTypes
DeviceTypes ==
  /\ server \in [Commands -> {"off", "read", "nonce", "asking", "admit", "record", "refuse",
                              "cancel", "finally"}]
  /\ reader \in [Commands -> {"off", "confirm", "hangup", "done"}]
  /\ busy \subseteq Invitations /\ admitted \subseteq Commands
AnswerTypes == answers \in [Commands -> Seq(Answering)]
SessionTypes ==
  /\ media \in [Commands -> SUBSET {"video", "audio"}]
  /\ met \in [Commands -> SUBSET {"device", "other"}]
  /\ DOMAIN reason = Commands
Types == CommandTypes /\ FileTypes /\ WireTypes /\ DeviceTypes /\ AnswerTypes /\ SessionTypes

\* A command that has not dialled yet.
Early(p) == pc[p] \in {"open", "create", "start"} \/ At(p, "nearby", "dial")

\* A process is at a place of its own command; a nearby pairing has its answer only at the
\* end, and whoever dials has a place to dial.
InPlace(p) ==
  /\ what[p] = "off" => pc[p] = "open"
  /\ pc[p] \in {"discover", "probe"} => what[p] = "check"
  /\ pc[p] \in {"welcome", "media", "search", "live", "leaving"} => what[p] = "connect"
  /\ pc[p] \in {"load", "save"} => what[p] \in {"connect", "check"}
  /\ pc[p] = "reply" => what[p] = "code"
  /\ pc[p] \in {"commit", "reveal", "shown", "confirmed"} => what[p] = "nearby"
  /\ pc[p] = "put" => what[p] \in {"code", "nearby"}
  /\ pc[p] = "remove" => what[p] = "forget"
  /\ pc[p] = "dial" => what[p] \in {"nearby", "connect"} /\ goal[p] \in Places
  /\ result[p] # "none" => pc[p] \in {"shown", "confirmed", "put"} \cup Over
PlaceInv == \A p \in Commands : InPlace(p)

\* Where no connection is open: before a dial and after the end, for a check, once await has
\* its answer, and once a session has ended.
SocketInv == \A p \in Commands :
  /\ pc[p] \in {"open", "create", "start", "remove", "put", "search", "dial", "discover",
                "probe"} \cup Over => socks[p] = {}
  /\ what[p] = "check" => socks[p] = {}
  /\ result[p] # "none" => socks[p] = {}
  /\ reason[p] # "none" => socks[p] = {} /\ pc[p] \in {"live", "leaving"} \cup Over

\* A record's place, and the place a process is connected to or will save, is one where the
\* device proved itself; a session met the device and nobody else.
MetInv ==
  /\ \A c \in Computers : store[c] # 0 => store[c] \in proven[c]
  /\ \A p \in Commands :
       /\ pc[p] \in {"reply", "commit", "reveal", "shown", "confirmed", "put", "welcome", "media",
                     "load", "save", "live"} => goal[p] \in proven[Home[p]]
       /\ pc[p] \in {"open", "create", "start", "dial", "search", "discover", "probe"}
            => met[p] = {}
       /\ pc[p] \in {"welcome", "media", "load", "save", "live"} => met[p] = {"device"}

\* The identity of a computer was made by one of its processes.
Made(c) == \E r \in Commands : Home[r] = c /\ me[r] = r /\ identity[c] = r
\* A process past the start has an identity: the one of its computer, unless two made one
\* each; the device trusts that of every computer it recorded.
NameInv == \A p \in Commands :
  /\ pc[p] \in {"open", "create"} => me[p] = None
  /\ pc[p] = "create" => identity[Home[p]] = None \/ Made(Home[p])
  /\ pc[p] \notin {"open", "create", "killed"} \/ server[p] # "off" => me[p] # None
  /\ me[p] # None => me[p] = identity[Home[p]] \/ TwoIdentities(Home[p])
  /\ p \in admitted => me[p] # None /\ me[p] \in trusted

\* The device has recorded a computer, or is about to.
Admits(p) == p \in admitted \/ server[p] = "record"
\* Where the device's thread is with a nearby request until it is recorded or turned down.
Deciding == {"nonce", "asking", "admit", "refuse", "cancel"}

\* Invitations are numbered as they open.
CountTypes ==
  /\ invited \in 0 .. MaxInvitations /\ invitation \in 0 .. invited
  /\ held \in [Commands -> 0 .. invited] /\ failures \in [Invitations -> Nat]
\* No two codes admitted on one invitation, and an open one admitted none and has failures
\* left; a nearby request holds its invitation; one not opened yet has no failures.
CodeInv ==
  /\ \A p, q \in Commands :
       Admits(p) /\ Admits(q) /\ what[p] = "code" /\ what[q] = "code" /\ p # q => held[p] # held[q]
  /\ invitation # 0 => failures[invitation] < MaxFailures
  /\ \A p \in Commands : Admits(p) => held[p] \in Invitations /\ held[p] # invitation
  /\ \A p \in Commands : server[p] \in Deciding => held[p] \in Invitations
  /\ \A i \in Invitations : i > invited => failures[i] = 0

\* Whose turn it is on a connection.  Until the commitment is read nothing is on its way to
\* the device, and until the nonce is read nothing more than that: so what the device reads
\* after the codes are shown is the user's confirmation.
Turn(p) ==
  /\ Early(p) => server[p] = "off" /\ down[p] = <<>>
  /\ Early(p) \/ server[p] \in Deciding \cup {"read", "record"} => p \notin admitted
  /\ Has(up[p], "pair") => what[p] = "code"
  /\ Has(up[p], "pair_nearby") => what[p] = "nearby"
  /\ server[p] \in Deciding => what[p] = "nearby"
  /\ server[p] = "read" /\ what[p] = "nearby" => pc[p] \in {"commit"} \cup Over /\ down[p] = <<>>
  /\ server[p] = "nonce" =>
       /\ pc[p] \in {"commit", "reveal"} \cup Over /\ Len(up[p]) <= 1
       /\ pc[p] = "commit" => up[p] = <<>> /\ Len(down[p]) <= 1
       /\ pc[p] = "reveal" => down[p] = <<>>
  /\ server[p] = "asking" => pc[p] # "commit"
TurnInv == \A p \in Commands : Turn(p)

\* What the two sides' state says of the users: a confirmation that was read or is about to
\* be was given, an answer here too, and whoever is told to be paired was recorded.
Consent(p) ==
  /\ server[p] = "asking" /\ reader[p] = "confirm" /\ up[p] # <<>> => p \in yes
  /\ Has(answers[p], "confirmed") => p \in yes
  /\ Has(answers[p], "accepted") => p \in accepted
  /\ what[p] = "nearby" /\ (server[p] = "admit" \/ Admits(p)) => p \in yes \cap accepted
  /\ Has(down[p], "paired") \/ result[p] = "paired" => p \in admitted
  /\ pc[p] = "put" => p \in admitted
  /\ pc[p] = "done" /\ what[p] \in {"code", "nearby"} => p \in admitted
AgreedInv == \A p \in Commands : Consent(p)

\* The inductive invariant.
IInv == Types /\ CountTypes /\ PlaceInv /\ SocketInv /\ MetInv /\ NameInv /\ CodeInv /\ TurnInv
        /\ AgreedInv

-----------------------------------------------------------------------------
USE PairingAssumption

\* What the proofs need of a queue of messages: its first message, the rest, and one more.
LEMMA HasFacts ==
  ASSUME NEW X, NEW q \in Seq(X)
  PROVE  /\ Len(q) \in Nat /\ (q # <<>> => Len(q) > 0)
         /\ q # <<>> => /\ Head(q) \in X /\ Has(q, Head(q)) /\ Tail(q) \in Seq(X)
                        /\ Len(Tail(q)) = Len(q) - 1
                        /\ \A m : Has(Tail(q), m) => Has(q, m)
         /\ \A m \in X : /\ Append(q, m) \in Seq(X) /\ Len(Append(q, m)) = Len(q) + 1
                         /\ Append(q, m) # <<>>
                         /\ \A n : Has(Append(q, m), n) <=> Has(q, n) \/ n = m
<1>1. Len(q) \in Nat /\ (q # <<>> => Len(q) > 0)
  OBVIOUS
<1>2. ASSUME q # <<>>
      PROVE  /\ Head(q) \in X /\ Has(q, Head(q)) /\ Tail(q) \in Seq(X)
             /\ Len(Tail(q)) = Len(q) - 1
             /\ \A m : Has(Tail(q), m) => Has(q, m)
  <2>1. Head(q) = q[1] /\ Len(Tail(q)) = Len(q) - 1 /\ Tail(q) \in Seq(X)
        /\ \A i \in 1 .. Len(q) - 1 : Tail(q)[i] = q[i + 1]
    BY <1>2
  <2> QED BY <1>1, <1>2, <2>1 DEF Has
<1>3. ASSUME NEW m \in X
      PROVE  /\ Append(q, m) \in Seq(X) /\ Len(Append(q, m)) = Len(q) + 1
             /\ Append(q, m) # <<>>
             /\ \A n : Has(Append(q, m), n) <=> Has(q, n) \/ n = m
  <2>1. /\ Append(q, m) \in Seq(X) /\ Len(Append(q, m)) = Len(q) + 1
        /\ \A i \in 1 .. Len(q) : Append(q, m)[i] = q[i]
        /\ Append(q, m)[Len(q) + 1] = m
    OBVIOUS
  <2>2. Append(q, m) # <<>>
    BY <2>1, <1>1
  <2>3. ASSUME NEW n PROVE Has(Append(q, m), n) <=> Has(q, n) \/ n = m
    <3>1. Has(Append(q, m), n) => Has(q, n) \/ n = m
      BY <2>1, <1>1 DEF Has
    <3>2. Has(q, n) => Has(Append(q, m), n)
      BY <2>1, <1>1 DEF Has
    <3>3. Has(Append(q, m), m)
      BY <2>1, <1>1 DEF Has
    <3> QED BY <3>1, <3>2, <3>3
  <2> QED BY <2>1, <2>2, <2>3
<1> QED BY <1>1, <1>2, <1>3

\* An empty queue has no message: what hanging up (HangsUp) or a cut line (Break) leaves.
LEMMA EmptyHas == ASSUME NEW m PROVE ~Has(<<>>, m) /\ Len(<<>>) = 0
BY DEF Has

\* Sending writes at most one message, to the one connection (writeMessage).
LEMMA SentIs ==
  ASSUME NEW X, NEW q \in [Commands -> Seq(X)], NEW p \in Commands, NEW m \in X, NEW end
  PROVE  /\ Sent(q, p, m, end) \in [Commands -> Seq(X)]
         /\ \A r \in Commands : r # p => Sent(q, p, m, end)[r] = q[r]
         /\ Sent(q, p, m, end)[p] \in {q[p], Append(q[p], m)}
BY HasFacts DEF Sent

\* The invariant holds when the processes start: no connection is open, nothing is invited.
LEMMA InitIInv == Init => IInv
<1> SUFFICES ASSUME Init PROVE IInv
  OBVIOUS
<1>1. PICK s \in Starts :
        /\ what = s.runs /\ store = [c \in Computers |-> IF c \in s.paired THEN 1 ELSE 0]
        /\ proven = [c \in Computers |-> IF c \in s.paired THEN {1} ELSE {}]
        /\ identity = [c \in Computers |-> IF c \in s.paired THEN c ELSE None]
        /\ s.runs \in [Commands -> Kinds]
  BY DEF Init, PairInit
<1>2. \A p \in Commands : Home[p] \in Computers
  BY DEF Computers
<1>3. Types
  BY <1>1 DEF Init, PairInit, Types, CommandTypes, FileTypes, WireTypes, UpTypes, DownTypes,
              SockTypes, DeviceTypes, AnswerTypes, SessionTypes, Places, Place
<1>4. CountTypes /\ CodeInv
  BY DEF Init, PairInit, CountTypes, CodeInv, Admits, Deciding, Invitations
<1>5. PlaceInv /\ SocketInv
  BY DEF Init, PairInit, PlaceInv, InPlace, SocketInv, Over
<1>6. MetInv
  BY <1>1 DEF Init, PairInit, MetInv
<1>7. NameInv
  BY <1>1, <1>2 DEF Init, PairInit, NameInv
<1>8. TurnInv /\ AgreedInv
  BY EmptyHas DEF Init, PairInit, TurnInv, Turn, AgreedInv, Consent, Admits, Early, At, Deciding
<1> QED BY <1>3, <1>4, <1>5, <1>6, <1>7, <1>8 DEF IInv

-----------------------------------------------------------------------------
(* What each kind of step leaves alone. *)

\* The device's threads and its user.
DeviceStep(p) ==
  (PairServer(p) \/ Reader(p) \/ UserAnswers(p)) /\ UNCHANGED sessVars
DeviceFrame == <<what, pc, goal, typed, result, yes, socks, store, proven, identity, me, at, other,
                 saved, media, met, probes, closing, reason>>

\* The device's threads and its user change nothing that is kept on a computer.
LEMMA DeviceAlone ==
  ASSUME NEW p \in Commands, DeviceStep(p) PROVE UNCHANGED DeviceFrame
<1> USE DEF DeviceFrame, command, wire, world, ids, sessVars
<1>1. CASE TakePair(p) \/ TakeNearby(p) \/ TakeNonce(p) \/ Decide(p) \/ Admit(p)
  BY <1>1 DEF DeviceStep, TakePair, TakeNearby, TakeNonce, Decide, Admit
<1>2. CASE Record(p) \/ Refuse(p) \/ Finally(p) \/ ServerLoses(p) \/ Reader(p) \/ UserAnswers(p)
  BY <1>2 DEF DeviceStep, Record, Refuse, Finally, ServerLoses, Reader, UserAnswers
<1> QED BY <1>1, <1>2 DEF DeviceStep, PairServer

\* The other kinds of steps: invitations, lost lines, pairing commands, sessions and checks.
Invites == (Invite \/ Withdraw) /\ UNCHANGED sessVars
Breaks == (Move \/ \E p \in Commands : Cut(p)) /\ UNCHANGED sessVars
PairStep(p) == (PairProcess(p) \/ SaysYes(p) \/ SaysNo(p) \/ Kill(p)) /\ UNCHANGED sessVars
SessionStep(p) == SessionProcess(p) \/ ReadLoop(p) \/ PingLoop(p) \/ TargetBye(p) \/ Leave(p)

\* Every step is of one of these kinds.
LEMMA Steps ==
  ASSUME [Next]_vars
  PROVE  \/ UNCHANGED vars \/ Invites \/ Breaks
         \/ \E p \in Commands : DeviceStep(p) \/ PairStep(p) \/ SessionStep(p)
BY DEF Next, PairNext, DeviceStep, Invites, Breaks, PairStep, SessionStep

\* A session or a check changes nothing of the pairing, nor what it sends the device
\* for pairing (connectPeer, printPeers).
LEMMA SessionAlone ==
  ASSUME NEW p \in Commands, SessionStep(p)
  PROVE  UNCHANGED <<what, typed, result, yes, up, identity, me, device, at, other>>
<1> USE DEF elsewhere, command, wire, world, ids, device, Fails, HangsUp, Shutdown
<1>1. CASE Pick(p) \/ Dial(p) \/ Welcome(p) \/ Media(p) \/ Connected(p) \/ Search(p)
  BY <1>1 DEF Pick, Dial, Welcome, Media, Connected, Search
<1>2. CASE Discover(p) \/ Probe(p) \/ Load(p) \/ Save(p) \/ Left(p) \/ Ended(p)
  BY <1>2 DEF Discover, Probe, Load, Save, Left, Ended
<1>3. CASE ReadLoop(p) \/ PingLoop(p) \/ TargetBye(p) \/ Leave(p)
  BY <1>3 DEF ReadLoop, PingLoop, TargetBye, Leave
<1> QED BY <1>1, <1>2, <1>3 DEF SessionStep, SessionProcess

\* A pairing command changes nothing that the device's threads keep, and no session.
LEMMA PairAlone ==
  ASSUME NEW p \in Commands, PairStep(p)
  PROVE  UNCHANGED <<what, at, other, trusted, invited, invitation, failures, busy, held, reader,
                     answers, accepted, asking, admitted, sessVars>>
<1> USE DEF command, wire, world, ids, device, HangsUp, Dials, Typed, Replaces, PairStep
<1>1. CASE OpenClient(p) \/ CreateIdentity(p) \/ PairDials(p) \/ PairReply(p) \/ Find(p)
  BY <1>1 DEF OpenClient, CreateIdentity, PairDials, PairReply, Find
<1>2. CASE NearbyDials(p) \/ NearbyReads(p) \/ Await(p) \/ Told(p) \/ Put(p)
  BY <1>2 DEF NearbyDials, NearbyReads, Await, Told, Put
<1>3. CASE Forget(p) \/ Remove(p) \/ SaysYes(p) \/ SaysNo(p) \/ Kill(p)
  BY <1>3 DEF Forget, Remove, SaysYes, SaysNo, Kill
<1> QED BY <1>1, <1>2, <1>3 DEF PairProcess

\* Opening or withdrawing an invitation changes only that (invite, cancelInvitation).
LEMMA InvitesAlone ==
  ASSUME Invites
  PROVE  UNCHANGED <<command, wire, store, proven, at, other, ids, trusted, failures, busy, server,
                     held, reader, answers, accepted, asking, admitted, sessVars>>
BY DEF Invites, Invite, Withdraw, world

\* A device that moves, and a line that is cut, lose messages and change nothing else.
LEMMA BreaksAlone ==
  ASSUME Breaks PROVE UNCHANGED <<command, socks, store, proven, ids, device, sessVars>>
BY DEF Breaks, Move, Cut

-----------------------------------------------------------------------------
(* The types. *)

\* The types of what a process keeps.
LEMMA CommandTyped == ASSUME IInv, [Next]_vars PROVE CommandTypes'
<1> USE DEF IInv, Types, CommandTypes, Place, Over
<1>1. ASSUME NEW p \in Commands, PairStep(p) PROVE CommandTypes'
  <2> USE DEF PairStep, sessVars, command, Goto, HangsUp
  <2>1. CASE OpenClient(p) \/ CreateIdentity(p) \/ PairReply(p)
    BY <2>1, <1>1 DEF OpenClient, CreateIdentity, PairReply
  <2>2. CASE PairDials(p)
    BY <2>2, <1>1 DEF PairDials, Typed, Dials
  <2>3. CASE Find(p)
    BY <2>3, <1>1 DEF Find, Answers, Advertised, FileTypes
  <2>4. CASE NearbyDials(p) \/ NearbyReads(p)
    BY <2>4, <1>1 DEF NearbyDials, NearbyReads, Dials
  <2>5. CASE Await(p) \/ Told(p) \/ Put(p)
    BY <2>5, <1>1 DEF Await, Told, Put
  <2>6. CASE Forget(p) \/ Remove(p) \/ SaysYes(p) \/ SaysNo(p) \/ Kill(p)
    BY <2>6, <1>1 DEF Forget, Remove, SaysYes, SaysNo, Kill
  <2> QED BY <1>1, <2>1, <2>2, <2>3, <2>4, <2>5, <2>6 DEF PairProcess
<1>2. ASSUME NEW p \in Commands, SessionStep(p) PROVE CommandTypes'
  <2> USE DEF sessVars, elsewhere, command, Goto, HangsUp
  <2>1. CASE Pick(p)
    BY <2>1 DEF Pick, FileTypes, Computers
  <2>2. CASE Dial(p) \/ Welcome(p) \/ Media(p)
    BY <2>2 DEF Dial, Welcome, Media, Fails
  <2>3. CASE Search(p)
    BY <2>3 DEF Search, Answers, Advertised, FileTypes
  <2>4. CASE Connected(p) \/ Discover(p) \/ Load(p) \/ Save(p)
    BY <2>4 DEF Connected, Discover, Load, Save, Updated
  <2>5. CASE Probe(p)
    BY <2>5 DEF Probe, ProbeEnds, Reaches, FileTypes
  <2>6. CASE Left(p) \/ Ended(p) \/ ReadLoop(p) \/ PingLoop(p) \/ TargetBye(p) \/ Leave(p)
    BY <2>6 DEF Left, Ended, ReadLoop, PingLoop, TargetBye, Leave
  <2> QED BY <1>2, <2>1, <2>2, <2>3, <2>4, <2>5, <2>6 DEF SessionStep, SessionProcess
<1>3. CASE UNCHANGED vars \/ Invites \/ Breaks
  BY <1>3, InvitesAlone, BreaksAlone DEF vars, pairVars, sessVars, command
<1>4. ASSUME NEW p \in Commands, DeviceStep(p) PROVE CommandTypes'
  BY <1>4, DeviceAlone DEF DeviceFrame
<1> QED BY <1>1, <1>2, <1>3, <1>4, Steps

\* A dial or a media channel proves the device where it is, or proves nothing (dial).
LEMMA ProvenMoves ==
  ASSUME NEW p \in Commands, Dial(p) \/ Media(p)
  PROVE  \/ proven' = proven
         \/ /\ proven' = [proven EXCEPT ![Home[p]] = @ \cup ({goal[p]} \cap {at})]
            /\ goal[p] # 0 /\ goal[p] = at
<1>1. CASE Dial(p)
  <2>1. proven' = proven \/ (Reaches(p, goal[p]) /\ Proves(p, goal[p]))
    BY <1>1 DEF Dial
  <2> QED BY <2>1 DEF Reaches, Proves
<1>2. CASE Media(p)
  <2>1. proven' = proven \/ (Reaches(p, goal[p]) /\ Proves(p, goal[p]))
    BY <1>2 DEF Media
  <2> QED BY <2>1 DEF Reaches, Proves
<1> QED BY <1>1, <1>2

\* The types of the files: peers.json, identity.pem, and where the devices are.
LEMMA FileTyped == ASSUME IInv, [Next]_vars PROVE FileTypes'
<1> USE DEF IInv, Types, FileTypes
<1>1. ASSUME NEW p \in Commands, PairStep(p) PROVE FileTypes'
  <2> USE DEF PairStep, sessVars, command, wire, world, ids, Replaces, HangsUp
  <2>1. CASE OpenClient(p) \/ CreateIdentity(p) \/ PairReply(p)
    BY <2>1, <1>1 DEF OpenClient, CreateIdentity, PairReply
  <2>2. CASE PairDials(p) \/ NearbyDials(p)
    BY <2>2, <1>1 DEF PairDials, NearbyDials, Dials, PlaceInv, InPlace, At
  <2>3. CASE Find(p) \/ NearbyReads(p) \/ Await(p) \/ Told(p)
    BY <2>3, <1>1 DEF Find, NearbyReads, Await, Told
  <2>4. CASE Put(p)
    BY <2>4, <1>1 DEF Put, CommandTypes
  <2>5. CASE Forget(p) \/ Remove(p) \/ SaysYes(p) \/ SaysNo(p) \/ Kill(p)
    BY <2>5, <1>1 DEF Forget, Remove, SaysYes, SaysNo, Kill
  <2> QED BY <1>1, <2>1, <2>2, <2>3, <2>4, <2>5 DEF PairProcess
<1>2. ASSUME NEW p \in Commands, SessionStep(p) PROVE FileTypes'
  <2> USE DEF sessVars, elsewhere, command, wire, world, ids, HangsUp, Replaces
  <2>1. CASE Pick(p) \/ Welcome(p) \/ Search(p) \/ Connected(p) \/ Discover(p) \/ Load(p)
    BY <2>1 DEF Pick, Welcome, Search, Connected, Discover, Load
  <2>2. CASE Dial(p) \/ Media(p)
    <3>1. proven' \in [Computers -> SUBSET Places]
      BY <2>2, ProvenMoves
    <3>2. UNCHANGED <<store, at, other, identity, me>>
      BY <2>2 DEF Dial, Media
    <3> QED BY <3>1, <3>2
  <2>3. CASE Probe(p)
    BY <2>3 DEF Probe, Proves, ProbeEnds, Reaches
  <2>4. CASE Save(p)
    BY <2>4 DEF Save, CommandTypes
  <2>5. CASE Left(p) \/ Ended(p) \/ ReadLoop(p) \/ PingLoop(p) \/ TargetBye(p) \/ Leave(p)
    BY <2>5 DEF Left, Ended, ReadLoop, PingLoop, TargetBye, Leave
  <2> QED BY <1>2, <2>1, <2>2, <2>3, <2>4, <2>5 DEF SessionStep, SessionProcess
<1>3. CASE UNCHANGED vars \/ Invites
  BY <1>3, InvitesAlone DEF vars, pairVars, ids
<1>4. CASE Breaks
  BY <1>4, BreaksAlone DEF Breaks, Move, Cut, ids
<1>5. ASSUME NEW p \in Commands, DeviceStep(p) PROVE FileTypes'
  BY <1>5, DeviceAlone DEF DeviceFrame
<1> QED BY <1>1, <1>2, <1>3, <1>4, <1>5, Steps

\* Queues of messages: the empty one, those that dials begin, and what is left of one.
LEMMA MessagesTyped ==
  /\ <<>> \in Seq(UpMessage) /\ <<>> \in Seq(DownMessage)
  /\ <<"pair">> \in Seq(UpMessage) /\ <<"pair_nearby">> \in Seq(UpMessage)
  /\ \A q \in Seq(UpMessage) : q # <<>> => Tail(q) \in Seq(UpMessage)
  /\ \A q \in Seq(DownMessage) : q # <<>> => Tail(q) \in Seq(DownMessage)
BY DEF UpMessage, DownMessage

\* The device's answers are messages.
LEMMA AnswersAreMessages ==
  ASSUME IInv, NEW p \in Commands,
         NEW m \in {"reject", "code_commit", "code_reveal", "paired", "bye"}
  PROVE  Sent(down, p, m, "here") \in [Commands -> Seq(DownMessage)]
BY SentIs DEF IInv, Types, WireTypes, DownTypes, DownMessage

\* What a step does to a connection's two directions and to the process's sockets.
UpMoves(p) == \/ up' \in {up, [up EXCEPT ![p] = <<>>]}
              \/ up[p] # <<>> /\ up' = [up EXCEPT ![p] = Tail(@)]
              \/ \E m \in {"pair", "pair_nearby"} : up' = [up EXCEPT ![p] = <<m>>]
              \/ \E m \in {"code_nonce", "code_confirm"} : up' = Sent(up, p, m, "there")
DownMoves(p) == \/ down' \in {down, [down EXCEPT ![p] = <<>>]}
                \/ down[p] # <<>> /\ down' = [down EXCEPT ![p] = Tail(@)]
                \/ \E m \in {"reject", "code_commit", "code_reveal", "paired", "bye"} :
                     down' = Sent(down, p, m, "here")
LineMoves(p) == line' = line \/ \E ends : line' = [line EXCEPT ![p] = ends]
SockMoves(p) == \/ socks' \in {socks, [socks EXCEPT ![p] = {}]}
                \/ \E c \in {"pair", "control", "video", "audio"} :
                     \/ socks' = [socks EXCEPT ![p] = {c}]
                     \/ socks' = [socks EXCEPT ![p] = @ \cup {c}]
Moves(p) == UpMoves(p) /\ DownMoves(p) /\ LineMoves(p) /\ SockMoves(p)

\* A pairing command does that.
LEMMA PairMoves == ASSUME NEW p \in Commands, PairStep(p) PROVE Moves(p)
<1> USE DEF PairStep, wire, Moves, UpMoves, DownMoves, LineMoves, SockMoves, HangsUp
<1>1. CASE OpenClient(p) \/ CreateIdentity(p) \/ Find(p) \/ Told(p) \/ Put(p)
  BY <1>1 DEF OpenClient, CreateIdentity, Find, Told, Put
<1>2. CASE PairDials(p) \/ NearbyDials(p)
  BY <1>2 DEF PairDials, NearbyDials, Dials
<1>3. CASE NearbyReads(p) \/ SaysYes(p)
  BY <1>3 DEF NearbyReads, SaysYes
<1>4. CASE PairReply(p) \/ Await(p) \/ Forget(p) \/ Remove(p) \/ SaysNo(p) \/ Kill(p)
  BY <1>4 DEF PairReply, Await, Forget, Remove, SaysNo, Kill
<1> QED BY <1>1, <1>2, <1>3, <1>4 DEF PairProcess

\* So does a session or a check.
LEMMA SessionMoves == ASSUME NEW p \in Commands, SessionStep(p) PROVE Moves(p)
<1> USE DEF elsewhere, wire, Moves, UpMoves, DownMoves, LineMoves, SockMoves, HangsUp
<1>1. CASE Pick(p) \/ Welcome(p) \/ Search(p) \/ Connected(p) \/ Discover(p) \/ Load(p)
  BY <1>1 DEF Pick, Welcome, Search, Connected, Discover, Load, Fails
<1>2. CASE Dial(p) \/ Media(p)
  BY <1>2 DEF Dial, Media, Opens, Fails
<1>3. CASE Probe(p) \/ Save(p) \/ Left(p) \/ Ended(p) \/ ReadLoop(p) \/ PingLoop(p) \/ Leave(p)
  BY <1>3 DEF Probe, Save, Left, Ended, ReadLoop, PingLoop, Leave, Shutdown
<1>4. CASE TargetBye(p)
  BY <1>4 DEF TargetBye
<1> QED BY <1>1, <1>2, <1>3, <1>4 DEF SessionStep, SessionProcess

\* And so do the device's threads.
LEMMA DeviceMoves == ASSUME NEW p \in Commands, DeviceStep(p) PROVE Moves(p)
<1> USE DEF DeviceStep, wire, Moves, UpMoves, DownMoves, LineMoves, SockMoves, Ends
<1>1. CASE TakePair(p) \/ TakeNearby(p) \/ TakeNonce(p)
  BY <1>1 DEF TakePair, TakeNearby, TakeNonce
<1>2. CASE Record(p) \/ Refuse(p) \/ Decide(p) \/ Admit(p) \/ Finally(p) \/ ServerLoses(p)
  BY <1>2 DEF Record, Refuse, Decide, Admit, Finally, ServerLoses
<1>3. CASE Reader(p) \/ UserAnswers(p)
  BY <1>3 DEF Reader, UserAnswers
<1> QED BY <1>1, <1>2, <1>3 DEF PairServer

\* The types of the connections and of the sockets.
LEMMA WireTyped == ASSUME IInv, [Next]_vars PROVE WireTypes'
<1> USE DEF IInv, Types, WireTypes
<1>1. ASSUME NEW p \in Commands, Moves(p) PROVE WireTypes'
  <2> USE DEF Moves
  <2>1. UpTypes'
    <3>1. \A m \in {"code_nonce", "code_confirm"} :
            Sent(up, p, m, "there") \in [Commands -> Seq(UpMessage)]
      BY SentIs DEF UpMessage, UpTypes
    <3>2. CASE up' \in {up, [up EXCEPT ![p] = <<>>]}
      BY <3>2, MessagesTyped DEF UpTypes
    <3>3. CASE up[p] # <<>> /\ up' = [up EXCEPT ![p] = Tail(@)]
      BY <3>3, MessagesTyped DEF UpTypes
    <3>4. ASSUME NEW m \in {"pair", "pair_nearby"}, up' = [up EXCEPT ![p] = <<m>>] PROVE UpTypes'
      BY <3>4, MessagesTyped DEF UpTypes
    <3> QED BY <1>1, <3>1, <3>2, <3>3, <3>4 DEF UpTypes, UpMoves
  <2>2. DownTypes'
    <3>1. CASE down' \in {down, [down EXCEPT ![p] = <<>>]}
      BY <3>1, MessagesTyped DEF DownTypes
    <3>2. CASE down[p] # <<>> /\ down' = [down EXCEPT ![p] = Tail(@)]
      BY <3>2, MessagesTyped DEF DownTypes
    <3>3. ASSUME NEW m \in {"reject", "code_commit", "code_reveal", "paired", "bye"},
                 down' = Sent(down, p, m, "here")
          PROVE  DownTypes'
      BY <3>3, AnswersAreMessages DEF DownTypes
    <3> QED BY <1>1, <3>1, <3>2, <3>3 DEF DownTypes, DownMoves
  <2>3. SockTypes'
    BY <1>1 DEF SockTypes, SockMoves
  <2>4. (DOMAIN line = Commands)'
    BY <1>1 DEF LineMoves
  <2> QED BY <2>1, <2>2, <2>3, <2>4
<1>2. CASE UNCHANGED vars \/ Invites
  BY <1>2, InvitesAlone DEF vars, pairVars, wire, UpTypes, DownTypes, SockTypes
<1>3. CASE Breaks
  <2>1. PICK P : Break(P)
    BY <1>3 DEF Breaks, Move, Cut
  <2>2. UpTypes' /\ DownTypes' /\ (DOMAIN line = Commands)'
    BY <2>1, MessagesTyped DEF Break, UpTypes, DownTypes
  <2> QED BY <2>2, <1>3, BreaksAlone DEF SockTypes
<1> QED BY <1>1, <1>2, <1>3, PairMoves, SessionMoves, DeviceMoves, Steps

\* The types of a session.
LEMMA SessionTyped == ASSUME IInv, [Next]_vars PROVE SessionTypes'
<1> USE DEF IInv, Types, SessionTypes
<1>1. ASSUME NEW p \in Commands, PairStep(p) \/ DeviceStep(p) PROVE SessionTypes'
  BY <1>1 DEF PairStep, DeviceStep, sessVars
<1>2. ASSUME NEW p \in Commands, SessionStep(p) PROVE SessionTypes'
  <2> USE DEF sessVars
  <2>1. CASE Pick(p) \/ Connected(p) \/ Search(p)
    BY <2>1 DEF Pick, Connected, Search
  <2>2. ASSUME reason' = reason,
               \/ media' = media
               \/ \E m \in SUBSET {"video", "audio"} : media' = [media EXCEPT ![p] = m],
               \/ met' = met
               \/ \E d \in SUBSET {"device", "other"} : met' = [met EXCEPT ![p] = d]
        PROVE  SessionTypes'
    <3>1. media' \in [Commands -> SUBSET {"video", "audio"}]
      BY <2>2
    <3>2. met' \in [Commands -> SUBSET {"device", "other"}]
      BY <2>2
    <3> QED BY <2>2, <3>1, <3>2
  <2>3. CASE Dial(p)
    <3>1. CASE Reaches(p, goal[p])
      <4>1. /\ UNCHANGED <<media, reason>>
            /\ met' = [met EXCEPT ![p] = @ \cup {IF goal[p] = at THEN "device" ELSE "other"}]
        BY <2>3, <3>1 DEF Dial, Proves, Fails
      <4>2. met[p] \cup {IF goal[p] = at THEN "device" ELSE "other"} \in SUBSET {"device", "other"}
        OBVIOUS
      <4> QED BY <2>2, <4>1, <4>2
    <3>2. CASE ~Reaches(p, goal[p])
      <4>1. /\ reason' = reason
            /\ media' = [media EXCEPT ![p] = {}] /\ met' = [met EXCEPT ![p] = {}]
        BY <2>3, <3>2 DEF Dial, Fails
      <4> QED BY <2>2, <4>1
    <3> QED BY <3>1, <3>2
  <2>4. CASE Welcome(p)
    <3>1. reason' = reason
      BY <2>4 DEF Welcome
    <3>2. \/ met' = met /\ \E m \in SUBSET {"video", "audio"} : media' = [media EXCEPT ![p] = m]
          \/ Fails(p, TRUE) \/ Fails(p, FALSE)
      BY <2>4 DEF Welcome
    <3>3. \/ met' = met /\ \E m \in SUBSET {"video", "audio"} : media' = [media EXCEPT ![p] = m]
          \/ media' = [media EXCEPT ![p] = {}] /\ met' = [met EXCEPT ![p] = {}]
      BY <3>2 DEF Fails
    <3> QED BY <2>2, <3>1, <3>3
  <2>5. CASE Media(p)
    <3>1. /\ reason' = reason
          /\ \/ /\ media' = [media EXCEPT ![p] = @ \ {IF "video" \in media[p] THEN "video"
                                                      ELSE "audio"}]
                /\ met' = [met EXCEPT ![p] = @ \cup {IF goal[p] = at THEN "device" ELSE "other"}]
             \/ media' = [media EXCEPT ![p] = {}] /\ met' = [met EXCEPT ![p] = {}]
      BY <2>5 DEF Media, Proves, Fails
    <3>2. /\ met[p] \cup {IF goal[p] = at THEN "device" ELSE "other"} \in SUBSET {"device", "other"}
          /\ media[p] \ {IF "video" \in media[p] THEN "video" ELSE "audio"}
               \in SUBSET {"video", "audio"}
      OBVIOUS
    <3> QED BY <2>2, <3>1, <3>2
  <2>6. CASE Discover(p) \/ Probe(p) \/ Load(p) \/ Save(p) \/ Left(p) \/ Ended(p)
    BY <2>6 DEF Discover, Probe, Load, Save, Left, Ended, Proves, Shutdown
  <2>7. CASE ReadLoop(p) \/ PingLoop(p) \/ TargetBye(p) \/ Leave(p)
    BY <2>7 DEF ReadLoop, PingLoop, TargetBye, Leave, Shutdown
  <2> QED BY <1>2, <2>1, <2>3, <2>4, <2>5, <2>6, <2>7 DEF SessionStep, SessionProcess
<1>3. CASE UNCHANGED vars \/ Invites \/ Breaks
  BY <1>3, InvitesAlone, BreaksAlone DEF vars, sessVars
<1> QED BY <1>1, <1>2, <1>3, Steps

\* Of the device's threads a pairing command changes one: a dial starts it (acceptLoop).
LEMMA PairServes ==
  ASSUME NEW p \in Commands, PairStep(p)
  PROVE  server' \in {server, [server EXCEPT ![p] = "read"]}
<1> USE DEF PairStep, command, wire, world, ids, device, HangsUp, Dials, Typed, Replaces
<1>1. CASE OpenClient(p) \/ CreateIdentity(p) \/ PairDials(p) \/ PairReply(p) \/ Find(p)
  BY <1>1 DEF OpenClient, CreateIdentity, PairDials, PairReply, Find
<1>2. CASE NearbyDials(p) \/ NearbyReads(p) \/ Await(p) \/ Told(p) \/ Put(p)
  BY <1>2 DEF NearbyDials, NearbyReads, Await, Told, Put
<1>3. CASE Forget(p) \/ Remove(p) \/ SaysYes(p) \/ SaysNo(p) \/ Kill(p)
  BY <1>3 DEF Forget, Remove, SaysYes, SaysNo, Kill
<1> QED BY <1>1, <1>2, <1>3 DEF PairProcess

\* The types of the device's state, and that what is invited and held is counted.
LEMMA DeviceTyped == ASSUME IInv, [Next]_vars PROVE DeviceTypes' /\ CountTypes'
<1> USE DEF IInv, Types, DeviceTypes, CountTypes
<1>1. ASSUME NEW p \in Commands, PairStep(p) PROVE DeviceTypes' /\ CountTypes'
  <2> QED BY <1>1, PairServes, PairAlone
<1>2. ASSUME NEW p \in Commands, SessionStep(p) PROVE DeviceTypes' /\ CountTypes'
  BY <1>2, SessionAlone DEF device
<1>3. CASE UNCHANGED vars \/ Breaks
  BY <1>3, BreaksAlone DEF vars, pairVars, device
<1>4. CASE Invites
  BY <1>4, InvitesAlone DEF Invites, Invite, Withdraw
<1>5. ASSUME NEW p \in Commands, DeviceStep(p) PROVE DeviceTypes' /\ CountTypes'
  <2> USE DEF DeviceStep, Serve
  <2>1. CASE TakePair(p) \/ TakeNearby(p) \/ TakeNonce(p)
    <3>1. DeviceTypes'
      <4>1. server' \in {server} \cup {[server EXCEPT ![p] = x] :
                                         x \in {"record", "off", "nonce", "asking"}}
        BY <2>1 DEF TakePair, TakeNearby, TakeNonce, Ends
      <4>2. reader' \in {reader, [reader EXCEPT ![p] = "confirm"]} /\ admitted' = admitted
            /\ busy' \in {busy, busy \cup {invitation}} /\ (busy' # busy => invitation # 0)
        BY <2>1 DEF TakePair, TakeNearby, TakeNonce
      <4>3. invitation # 0 => invitation \in Invitations
        BY DEF Invitations
      <4> QED BY <4>1, <4>2, <4>3
    <3>2. CountTypes'
      BY <1>5, <2>1 DEF TakePair, TakeNearby, TakeNonce, Failed
    <3> QED BY <3>1, <3>2
  <2>2. CASE Decide(p) \/ Admit(p) \/ Record(p)
    <3>1. DeviceTypes'
      BY <1>5, <2>2 DEF Decide, Outcome, Admit, Record, Ends
    <3>2. CountTypes'
      BY <1>5, <2>2 DEF Decide, Admit, Record
    <3> QED BY <3>1, <3>2
  <2>3. CASE Refuse(p) \/ Finally(p) \/ ServerLoses(p)
    <3>1. DeviceTypes'
      BY <1>5, <2>3 DEF Refuse, Finally, ServerLoses
    <3>2. CountTypes'
      BY <1>5, <2>3 DEF Refuse, Finally, ServerLoses, Failed
    <3> QED BY <3>1, <3>2
  <2>4. CASE Reader(p) \/ UserAnswers(p)
    BY <1>5, <2>4 DEF Reader, UserAnswers
  <2> QED BY <1>5, <2>1, <2>2, <2>3, <2>4 DEF PairServer
<1> QED BY <1>1, <1>2, <1>3, <1>4, <1>5, Steps

\* The types of the queue of answers (awaitNearbyAnswers).
LEMMA AnswersTyped == ASSUME IInv, [Next]_vars PROVE AnswerTypes'
<1> USE DEF IInv, Types, AnswerTypes
<1>1. ASSUME NEW p \in Commands, DeviceStep(p) PROVE AnswerTypes'
  <2>1. answers' = answers \/ \E a \in Answering : Answer(p, a)
    <3> USE DEF DeviceStep, Answering
    <3>1. CASE TakePair(p) \/ TakeNearby(p) \/ TakeNonce(p) \/ Decide(p) \/ Admit(p)
      BY <3>1 DEF TakePair, TakeNearby, TakeNonce, Decide, Admit
    <3>2. CASE Record(p) \/ Refuse(p) \/ Finally(p) \/ ServerLoses(p) \/ Reader(p) \/ UserAnswers(p)
      BY <3>2 DEF Record, Refuse, Finally, ServerLoses, Reader, UserAnswers
    <3> QED BY <1>1, <3>1, <3>2 DEF PairServer
  <2>2. \A q \in Seq(Answering), a \in Answering : Append(q, a) \in Seq(Answering)
    OBVIOUS
  <2>3. CASE answers' = answers
    BY <2>3
  <2>4. ASSUME NEW a \in Answering, Answer(p, a) PROVE AnswerTypes'
    BY <2>2, <2>4 DEF Answer
  <2> QED BY <2>1, <2>3, <2>4
<1>2. ASSUME NEW p \in Commands, PairStep(p) \/ SessionStep(p) PROVE AnswerTypes'
  BY <1>2, PairAlone, SessionAlone DEF device
<1>3. CASE UNCHANGED vars \/ Invites \/ Breaks
  BY <1>3, InvitesAlone, BreaksAlone DEF vars, pairVars, device
<1> QED BY <1>1, <1>2, <1>3, Steps

\* All types together.
LEMMA TypesKept == ASSUME IInv, [Next]_vars PROVE Types' /\ CountTypes'
BY CommandTyped, FileTyped, WireTyped, DeviceTyped, AnswersTyped, SessionTyped DEF Types

-----------------------------------------------------------------------------
(* Places, sockets and records. *)

\* A process is only where its command leads it.
LEMMA PlacesKept == ASSUME IInv, [Next]_vars PROVE PlaceInv'
<1> USE DEF IInv, Types, CommandTypes, PlaceInv, InPlace, Over
<1>1. ASSUME NEW p \in Commands, PairStep(p) PROVE PlaceInv'
  <2> USE DEF PairStep, sessVars, command, Goto, HangsUp, At
  <2>1. CASE OpenClient(p) \/ CreateIdentity(p) \/ PairReply(p)
    BY <2>1, <1>1 DEF OpenClient, CreateIdentity, PairReply
  <2>2. CASE PairDials(p)
    BY <2>2, <1>1 DEF PairDials, Typed, Dials
  <2>3. CASE Find(p)
    BY <2>3, <1>1 DEF Find, Answers, Advertised, FileTypes
  <2>4. CASE NearbyDials(p) \/ NearbyReads(p)
    BY <2>4, <1>1 DEF NearbyDials, NearbyReads, Dials
  <2>5. CASE Await(p) \/ Told(p) \/ Put(p)
    BY <2>5, <1>1 DEF Await, Told, Put
  <2>6. CASE Forget(p) \/ Remove(p) \/ SaysYes(p) \/ SaysNo(p) \/ Kill(p)
    BY <2>6, <1>1 DEF Forget, Remove, SaysYes, SaysNo, Kill
  <2> QED BY <1>1, <2>1, <2>2, <2>3, <2>4, <2>5, <2>6 DEF PairProcess
<1>2. ASSUME NEW p \in Commands, SessionStep(p) PROVE PlaceInv'
  <2> USE DEF sessVars, elsewhere, command, Goto, HangsUp, At
  <2>1. CASE Pick(p)
    BY <2>1 DEF Pick, FileTypes, Computers, Known
  <2>2. CASE Dial(p) \/ Welcome(p) \/ Media(p)
    BY <2>2 DEF Dial, Welcome, Media, Fails
  <2>3. CASE Search(p)
    BY <2>3 DEF Search, Answers, Advertised, FileTypes
  <2>4. CASE Connected(p) \/ Discover(p) \/ Load(p) \/ Save(p)
    BY <2>4 DEF Connected, Discover, Load, Save, Updated
  <2>5. CASE Probe(p)
    BY <2>5 DEF Probe
  <2>6. CASE Left(p) \/ Ended(p) \/ ReadLoop(p) \/ PingLoop(p) \/ TargetBye(p) \/ Leave(p)
    BY <2>6 DEF Left, Ended, ReadLoop, PingLoop, TargetBye, Leave
  <2> QED BY <1>2, <2>1, <2>2, <2>3, <2>4, <2>5, <2>6 DEF SessionStep, SessionProcess
<1>3. CASE UNCHANGED vars \/ Invites \/ Breaks
  BY <1>3, InvitesAlone, BreaksAlone DEF vars, pairVars, sessVars, command
<1>4. ASSUME NEW p \in Commands, DeviceStep(p) PROVE PlaceInv'
  BY <1>4, DeviceAlone DEF DeviceFrame
<1> QED BY <1>1, <1>2, <1>3, <1>4, Steps

\* Every way out of a step that fails or ends closes what was open: fail, Close, await's
\* defer, shutdown.
LEMMA SocketsKept == ASSUME IInv, [Next]_vars PROVE SocketInv'
<1> USE DEF IInv, Types, CommandTypes, WireTypes, SockTypes, SessionTypes, PlaceInv, InPlace,
            SocketInv, Over
<1>1. ASSUME NEW p \in Commands, PairStep(p) PROVE SocketInv'
  <2> USE DEF PairStep, sessVars, command, wire, Goto, HangsUp, At
  <2>1. CASE OpenClient(p) \/ CreateIdentity(p) \/ PairReply(p)
    BY <2>1, <1>1 DEF OpenClient, CreateIdentity, PairReply
  <2>2. CASE PairDials(p)
    BY <2>2, <1>1 DEF PairDials, Typed, Dials
  <2>3. CASE Find(p)
    BY <2>3, <1>1 DEF Find
  <2>4. CASE NearbyDials(p) \/ NearbyReads(p)
    BY <2>4, <1>1 DEF NearbyDials, NearbyReads, Dials
  <2>5. CASE Await(p) \/ Told(p) \/ Put(p)
    BY <2>5, <1>1 DEF Await, Told, Put
  <2>6. CASE Forget(p) \/ Remove(p) \/ SaysYes(p) \/ SaysNo(p) \/ Kill(p)
    BY <2>6, <1>1 DEF Forget, Remove, SaysYes, SaysNo, Kill
  <2> QED BY <1>1, <2>1, <2>2, <2>3, <2>4, <2>5, <2>6 DEF PairProcess
<1>2. ASSUME NEW p \in Commands, SessionStep(p) PROVE SocketInv'
  <2> USE DEF sessVars, elsewhere, command, wire, Goto, HangsUp, At
  <2>1. CASE Pick(p)
    BY <2>1 DEF Pick
  <2>2. CASE Dial(p) \/ Welcome(p) \/ Media(p)
    BY <2>2 DEF Dial, Welcome, Media, Fails, Opens
  <2>3. CASE Search(p)
    BY <2>3 DEF Search
  <2>4. CASE Connected(p) \/ Discover(p) \/ Load(p) \/ Save(p)
    BY <2>4 DEF Connected, Discover, Load, Save, Updated
  <2>5. CASE Probe(p)
    BY <2>5 DEF Probe
  <2>6. CASE Left(p) \/ Ended(p) \/ ReadLoop(p) \/ PingLoop(p) \/ TargetBye(p) \/ Leave(p)
    BY <2>6 DEF Left, Ended, ReadLoop, PingLoop, TargetBye, Leave, Shutdown, Open
  <2> QED BY <1>2, <2>1, <2>2, <2>3, <2>4, <2>5, <2>6 DEF SessionStep, SessionProcess
<1>3. CASE UNCHANGED vars \/ Invites \/ Breaks
  BY <1>3, InvitesAlone, BreaksAlone DEF vars, pairVars, sessVars, command, wire
<1>4. ASSUME NEW p \in Commands, DeviceStep(p) PROVE SocketInv'
  BY <1>4, DeviceAlone DEF DeviceFrame
<1> QED BY <1>1, <1>2, <1>3, <1>4, Steps

\* Whoever passes the pin is the device, and its place is proven then (dial).
LEMMA Proven ==
  ASSUME Types, NEW p \in Commands, NEW place, met[p] = {}, Reaches(p, place), Proves(p, place)
  PROVE  /\ place \in proven'[Home[p]]
         /\ \A c \in Computers : proven[c] \subseteq proven'[c]
         /\ met' = [met EXCEPT ![p] = {"device"}]
<1> USE DEF Reaches, Types
<1>1. proven' = [proven EXCEPT ![Home[p]] = @ \cup ({place} \cap {at})]
      /\ met' = [met EXCEPT ![p] = @ \cup {IF place = at THEN "device" ELSE "other"}]
  BY DEF Proves
<1>2. place \in proven'[Home[p]] /\ \A c \in Computers : proven[c] \subseteq proven'[c]
  BY <1>1 DEF FileTypes, Computers
<1>3. met[p] \cup {IF place = at THEN "device" ELSE "other"} = {"device"}
  OBVIOUS
<1> QED BY <1>1, <1>2, <1>3

\* Only a place where the device proved itself is saved, and a session met nobody else.
LEMMA MetKept == ASSUME IInv, [Next]_vars PROVE MetInv'
<1> USE DEF IInv, Types, CommandTypes, FileTypes, SessionTypes, PlaceInv, InPlace, MetInv, Over
<1>0. \A p \in Commands : Home[p] \in Computers
  BY DEF Computers
<1>1. ASSUME NEW p \in Commands, PairStep(p) PROVE MetInv'
  <2> USE DEF PairStep, sessVars, command, wire, world, ids, Goto, HangsUp, At
  <2>1. CASE OpenClient(p) \/ CreateIdentity(p) \/ PairReply(p)
    BY <2>1, <1>1 DEF OpenClient, CreateIdentity, PairReply
  <2>2. CASE PairDials(p)
    BY <1>0, <2>2, <1>1 DEF PairDials, Typed, Dials
  <2>3. CASE Find(p)
    BY <2>3, <1>1 DEF Find
  <2>4. CASE NearbyDials(p) \/ NearbyReads(p)
    BY <1>0, <2>4, <1>1 DEF NearbyDials, NearbyReads, Dials
  <2>5. CASE Await(p) \/ Told(p) \/ Put(p)
    BY <1>0, <2>5, <1>1 DEF Await, Told, Put, Replaces
  <2>6. CASE Forget(p) \/ Remove(p) \/ SaysYes(p) \/ SaysNo(p) \/ Kill(p)
    BY <2>6, <1>1 DEF Forget, Remove, SaysYes, SaysNo, Kill, Replaces
  <2> QED BY <1>1, <2>1, <2>2, <2>3, <2>4, <2>5, <2>6 DEF PairProcess
<1>2. ASSUME NEW p \in Commands, SessionStep(p) PROVE MetInv'
  <2> USE DEF sessVars, elsewhere, command, wire, Goto, HangsUp, At
  <2>1. CASE Pick(p) \/ Welcome(p) \/ Search(p)
    BY <2>1 DEF Pick, Welcome, Fails, Search
  <2>2. CASE Dial(p)
    <3>1. CASE Reaches(p, goal[p])
      <4>1. pc' = [pc EXCEPT ![p] = "welcome"] /\ UNCHANGED <<store, goal>>
        BY <2>2, <3>1 DEF Dial
      <4>2. /\ goal[p] \in proven'[Home[p]]
            /\ \A c \in Computers : proven[c] \subseteq proven'[c]
            /\ met' = [met EXCEPT ![p] = {"device"}]
        BY <1>0, <2>2, <3>1, Proven DEF Dial
      <4> QED BY <1>0, <4>1, <4>2
    <3>2. CASE ~Reaches(p, goal[p])
      BY <2>2, <3>2 DEF Dial, Fails
    <3> QED BY <3>1, <3>2
  <2>3. CASE Media(p)
    BY <1>0, <2>3 DEF Media, Fails, Proves, Reaches
  <2>4. CASE Connected(p) \/ Discover(p) \/ Load(p) \/ Save(p)
    BY <1>0, <2>4 DEF Connected, Discover, Load, Save, Updated, Replaces
  <2>5. CASE Probe(p)
    <3>1. PICK end \in ProbeEnds(p, Head(probes[p])) :
            /\ IF end = "result"
                 THEN /\ Proves(p, Head(probes[p]))
                      /\ goal' = [goal EXCEPT ![p] = Head(probes[p])]
                 ELSE UNCHANGED <<proven, met, goal>>
            /\ pc' = [pc EXCEPT ![p] =
                 IF end = "result" THEN "load"
                 ELSE IF end = "reject" \/ probes'[p] = <<>> THEN "done" ELSE "probe"]
      BY <2>5 DEF Probe
    <3>2. pc[p] = "probe" /\ met[p] = {} /\ UNCHANGED store
      BY <2>5 DEF Probe
    <3>3. CASE end = "result"
      <4>1. Reaches(p, Head(probes[p]))
        BY <3>3 DEF ProbeEnds
      <4>2. /\ Head(probes[p]) \in proven'[Home[p]]
            /\ \A c \in Computers : proven[c] \subseteq proven'[c]
            /\ met' = [met EXCEPT ![p] = {"device"}]
        BY <1>0, <3>1, <3>2, <3>3, <4>1, Proven
      <4> QED BY <1>0, <3>1, <3>2, <3>3, <4>2
    <3>4. CASE end # "result"
      BY <3>1, <3>2, <3>4
    <3> QED BY <3>3, <3>4
  <2>6. CASE Left(p) \/ Ended(p) \/ ReadLoop(p) \/ PingLoop(p) \/ TargetBye(p) \/ Leave(p)
    BY <2>6 DEF Left, Ended, ReadLoop, PingLoop, TargetBye, Leave
  <2> QED BY <1>2, <2>1, <2>2, <2>3, <2>4, <2>5, <2>6 DEF SessionStep, SessionProcess
<1>3. CASE UNCHANGED vars \/ Invites \/ Breaks
  BY <1>3, InvitesAlone, BreaksAlone DEF vars, pairVars, sessVars, command
<1>4. ASSUME NEW p \in Commands, DeviceStep(p) PROVE MetInv'
  BY <1>4, DeviceAlone DEF DeviceFrame
<1> QED BY <1>1, <1>2, <1>3, <1>4, Steps

\* A process moves on, away from where it has no identity yet, or is killed.
GoesOn(p) ==
  /\ \A q \in Commands \ {p} : pc'[q] = pc[q]
  /\ \/ pc'[p] \in {pc[p], "killed"}
     \/ pc[p] \notin {"open", "create", "killed"} /\ pc'[p] \notin {"open", "create", "killed"}

\* A process that finds no identity makes one; another made meanwhile is the case of two
\* first commands at once (LoadOrCreateIdentity).
LEMMA NamesKept == ASSUME IInv, [Next]_vars PROVE NameInv'
<1> USE DEF IInv, Types, CommandTypes, FileTypes, DeviceTypes, NameInv, Over
<1>0. \A p \in Commands : Home[p] \in Computers
  BY DEF Computers
<1>1. ASSUME UNCHANGED <<identity, me, trusted, admitted>>,
             NEW p \in Commands,
             GoesOn(p),
             \/ server' = server
             \/ \E c : server' = [server EXCEPT ![p] = c]
                        /\ (server[p] # "off" \/ pc[p] \in {"start", "dial"})
      PROVE  NameInv'
  <2>1. \A c : (Made(c) => Made(c)') /\ (TwoIdentities(c) => TwoIdentities(c)')
    BY <1>1 DEF Made, TwoIdentities
  <2>2. \A q \in Commands : server'[q] # "off" => me[q] # None
    BY <1>1
  <2>3. \A q \in Commands : pc'[q] \in {"open", "create"} => pc'[q] = pc[q]
    BY <1>1 DEF GoesOn
  <2>4. \A q \in Commands : pc'[q] \notin {"open", "create", "killed"} => me[q] # None
    BY <1>1 DEF GoesOn
  <2>5. ASSUME NEW q \in Commands
        PROVE  /\ pc'[q] = "create" => identity'[Home[q]] = None \/ Made(Home[q])'
               /\ me'[q] # None => me'[q] = identity'[Home[q]] \/ TwoIdentities(Home[q])'
    BY <1>1, <2>1, <2>3
  <2> QED BY <1>1, <2>2, <2>3, <2>4, <2>5
<1>2. ASSUME NEW p \in Commands, PairStep(p) PROVE NameInv'
  <2> USE DEF PairStep, sessVars, command, wire, world, ids, Goto, At
  <2>1. CASE OpenClient(p)
    <3>1. CASE identity[Home[p]] = None
      <4>1. pc' = [pc EXCEPT ![p] = "create"] /\ pc[p] = "open"
            /\ UNCHANGED <<identity, me, trusted, admitted, server>>
        BY <2>1, <3>1, <1>2, PairAlone DEF OpenClient, device
      <4>2. \A c : (Made(c) => Made(c)') /\ (TwoIdentities(c) => TwoIdentities(c)')
        BY <4>1 DEF Made, TwoIdentities
      <4> QED BY <3>1, <4>1, <4>2
    <3>2. CASE identity[Home[p]] # None
      <4>1. pc' = [pc EXCEPT ![p] = "start"] /\ pc[p] = "open" /\ me[p] = None
            /\ me' = [me EXCEPT ![p] = identity[Home[p]]]
            /\ UNCHANGED <<identity, trusted, admitted, server>>
        BY <2>1, <3>2, <1>2, PairAlone DEF OpenClient, device
      <4>2. \A c : (Made(c) => Made(c)') /\ (TwoIdentities(c) => TwoIdentities(c)')
        BY <4>1 DEF Made, TwoIdentities
      <4> QED BY <3>2, <4>1, <4>2
    <3> QED BY <3>1, <3>2
  <2>2. CASE CreateIdentity(p)
    <3>1. /\ pc' = [pc EXCEPT ![p] = "start"] /\ pc[p] = "create" /\ me[p] = None
          /\ me' = [me EXCEPT ![p] = p] /\ identity' = [identity EXCEPT ![Home[p]] = p]
          /\ UNCHANGED <<trusted, admitted, server>>
      BY <2>2, <1>2, PairAlone DEF CreateIdentity, device
    <3>2. identity'[Home[p]] = p /\ Made(Home[p])'
      BY <1>0, <3>1 DEF Made
    <3>3. \A c : c # Home[p] => identity'[c] = identity[c] /\ (Made(c) => Made(c)')
      BY <3>1 DEF Made
    <3>4. \A c : TwoIdentities(c) => TwoIdentities(c)'
      BY <3>1 DEF TwoIdentities
    <3>5. ASSUME NEW q \in Commands, q # p, Home[q] = Home[p], me[q] # None
          PROVE  TwoIdentities(Home[p])'
      <4>1. CASE TwoIdentities(Home[p])
        BY <4>1, <3>4
      <4>2. CASE ~TwoIdentities(Home[p])
        <5>1. me[q] = identity[Home[p]]
          BY <3>5, <4>2
        <5>2. PICK r \in Commands : Home[r] = Home[p] /\ me[r] = r
          BY <3>1, <3>5, <5>1 DEF Made
        <5> QED BY <3>1, <5>2 DEF TwoIdentities
      <4> QED BY <4>1, <4>2
    <3>6. ASSUME NEW q \in Commands
          PROVE  /\ pc'[q] = "create" => identity'[Home[q]] = None \/ Made(Home[q])'
                 /\ me'[q] # None => me'[q] = identity'[Home[q]] \/ TwoIdentities(Home[q])'
      BY <3>1, <3>2, <3>3, <3>4, <3>5
    <3> QED BY <3>1, <3>6
  <2>3. CASE ~OpenClient(p) /\ ~CreateIdentity(p)
    <3>1. UNCHANGED <<identity, me, trusted, admitted>>
      <4> USE DEF Dials, Typed, HangsUp, Replaces
      <4>1. UNCHANGED <<trusted, admitted>>
        BY <1>2, PairAlone
      <4>2. CASE \/ PairDials(p) \/ PairReply(p) \/ Find(p)
                 \/ NearbyDials(p) \/ NearbyReads(p) \/ Await(p)
        BY <4>1, <4>2 DEF PairDials, PairReply, Find, NearbyDials, NearbyReads, Await
      <4>3. CASE Told(p) \/ Put(p) \/ Forget(p) \/ Remove(p) \/ SaysYes(p) \/ SaysNo(p) \/ Kill(p)
        BY <4>1, <4>3 DEF Told, Put, Forget, Remove, SaysYes, SaysNo, Kill
      <4> QED BY <1>2, <2>3, <4>2, <4>3 DEF PairProcess
    <3>2. GoesOn(p)
      <4> USE DEF Dials, GoesOn
      <4>1. CASE \/ PairDials(p) \/ PairReply(p) \/ Find(p)
                 \/ NearbyDials(p) \/ NearbyReads(p) \/ Await(p)
        BY <4>1 DEF PairDials, PairReply, Find, NearbyDials, NearbyReads, Await
      <4>2. CASE Told(p) \/ Put(p) \/ Forget(p) \/ Remove(p) \/ SaysYes(p) \/ SaysNo(p) \/ Kill(p)
        BY <4>2 DEF Told, Put, Forget, Remove, SaysYes, SaysNo, Kill
      <4> QED BY <1>2, <2>3, <4>1, <4>2 DEF PairProcess
    <3>3. \/ server' = server
          \/ \E c : server' = [server EXCEPT ![p] = c]
                     /\ (server[p] # "off" \/ pc[p] \in {"start", "dial"})
      <4> USE DEF Dials, device
      <4>1. CASE \/ PairDials(p) \/ PairReply(p) \/ Find(p)
                 \/ NearbyDials(p) \/ NearbyReads(p) \/ Await(p)
        BY <4>1 DEF PairDials, PairReply, Find, NearbyDials, NearbyReads, Await
      <4>2. CASE Told(p) \/ Put(p) \/ Forget(p) \/ Remove(p) \/ SaysYes(p) \/ SaysNo(p) \/ Kill(p)
        BY <4>2 DEF Told, Put, Forget, Remove, SaysYes, SaysNo, Kill
      <4> QED BY <1>2, <2>3, <4>1, <4>2 DEF PairProcess
    <3> QED BY <1>1, <3>1, <3>2, <3>3
  <2> QED BY <2>1, <2>2, <2>3
<1>3. ASSUME NEW p \in Commands, SessionStep(p) PROVE NameInv'
  <2>1. UNCHANGED <<identity, me, trusted, admitted, server>>
    BY <1>3, SessionAlone DEF device
  <2>2. GoesOn(p)
    <3> USE DEF Goto, At, elsewhere, command, GoesOn
    <3>1. CASE Pick(p) \/ Dial(p) \/ Welcome(p) \/ Media(p) \/ Connected(p) \/ Search(p)
      BY <3>1 DEF Pick, Dial, Welcome, Media, Connected, Search, Fails
    <3>2. CASE Discover(p) \/ Probe(p) \/ Load(p) \/ Save(p) \/ Left(p) \/ Ended(p)
      BY <3>2 DEF Discover, Probe, Load, Save, Left, Ended, Updated
    <3>3. CASE ReadLoop(p) \/ PingLoop(p) \/ TargetBye(p) \/ Leave(p)
      BY <3>3 DEF ReadLoop, PingLoop, TargetBye, Leave
    <3> QED BY <1>3, <3>1, <3>2, <3>3 DEF SessionStep, SessionProcess
  <2> QED BY <1>1, <2>1, <2>2
<1>4. ASSUME NEW p \in Commands, DeviceStep(p), ~Record(p) PROVE NameInv'
  <2>1. UNCHANGED <<trusted, admitted>>
    <3>1. CASE TakePair(p) \/ TakeNearby(p) \/ TakeNonce(p) \/ Decide(p) \/ Admit(p)
      BY <3>1 DEF TakePair, TakeNearby, TakeNonce, Decide, Admit
    <3>2. CASE Refuse(p) \/ Finally(p) \/ ServerLoses(p) \/ Reader(p) \/ UserAnswers(p)
      BY <3>2 DEF Refuse, Finally, ServerLoses, Reader, UserAnswers
    <3> QED BY <1>4, <3>1, <3>2 DEF DeviceStep, PairServer
  <2>2. server' = server \/ \E c : server' = [server EXCEPT ![p] = c] /\ server[p] # "off"
    <3> USE DEF Serve, First, Ends
    <3>1. CASE TakePair(p) \/ TakeNearby(p) \/ TakeNonce(p) \/ Decide(p) \/ Admit(p)
      BY <3>1 DEF TakePair, TakeNearby, TakeNonce, Decide, Admit
    <3>2. CASE Refuse(p) \/ Finally(p) \/ ServerLoses(p) \/ Reader(p) \/ UserAnswers(p)
      BY <3>2 DEF Refuse, Finally, ServerLoses, Reader, UserAnswers
    <3> QED BY <1>4, <3>1, <3>2 DEF DeviceStep, PairServer
  <2> QED BY <1>1, <1>4, <2>1, <2>2, DeviceAlone DEF DeviceFrame, GoesOn
<1>5. ASSUME NEW p \in Commands, Record(p), DeviceStep(p) PROVE NameInv'
  <2>1. /\ trusted' = trusted \cup {me[p]} /\ admitted' = admitted \cup {p}
        /\ server[p] = "record" /\ \E c : server' = [server EXCEPT ![p] = c]
    BY <1>5 DEF Record, Ends, Serve
  <2>2. UNCHANGED <<pc, identity, me>>
    BY <1>5, DeviceAlone DEF DeviceFrame
  <2>3. \A c : (Made(c) => Made(c)') /\ (TwoIdentities(c) => TwoIdentities(c)')
    BY <2>2 DEF Made, TwoIdentities
  <2>4. ASSUME NEW q \in Commands
        PROVE  /\ pc'[q] = "create" => identity'[Home[q]] = None \/ Made(Home[q])'
               /\ me'[q] # None => me'[q] = identity'[Home[q]] \/ TwoIdentities(Home[q])'
    BY <2>2, <2>3
  <2> QED BY <2>1, <2>2, <2>4
<1>6. CASE UNCHANGED vars \/ Invites \/ Breaks
  <2>1. UNCHANGED <<pc, server, identity, me, trusted, admitted>>
    BY <1>6, InvitesAlone, BreaksAlone DEF vars, pairVars, command, ids, device
  <2>2. \A c : (Made(c) => Made(c)') /\ (TwoIdentities(c) => TwoIdentities(c)')
    BY <2>1 DEF Made, TwoIdentities
  <2> QED BY <2>1, <2>2
<1> QED BY <1>2, <1>3, <1>4, <1>5, <1>6, Steps

-----------------------------------------------------------------------------
(* Whose turn it is, and what was agreed. *)

\* What a step of one process leaves alone of the others.
Others(p) == \A q \in Commands \ {p} :
  /\ pc'[q] = pc[q] /\ server'[q] = server[q] /\ up'[q] = up[q] /\ down'[q] = down[q]
  /\ reader'[q] = reader[q] /\ answers'[q] = answers[q] /\ result'[q] = result[q]
  /\ held'[q] = held[q]

\* A step moves messages of its own process's connection only.
LEMMA MovesOthers ==
  ASSUME IInv, NEW p \in Commands, Moves(p)
  PROVE  \A q \in Commands \ {p} : up'[q] = up[q] /\ down'[q] = down[q]
<1> USE DEF IInv, Types, WireTypes, UpTypes, DownTypes
<1>1. \A q \in Commands \ {p} : up'[q] = up[q]
  BY DEF Moves, UpMoves, Sent
<1>2. \A q \in Commands \ {p} : down'[q] = down[q]
  BY DEF Moves, DownMoves, Sent
<1> QED BY <1>1, <1>2

\* A pairing command leaves the exchanges of the others alone.
LEMMA PairOthers == ASSUME IInv, NEW p \in Commands, PairStep(p) PROVE Others(p)
<1> USE DEF IInv, Types, CommandTypes, DeviceTypes, PairStep, Goto, Dials
<1>1. \A q \in Commands \ {p} : up'[q] = up[q] /\ down'[q] = down[q]
  BY PairMoves, MovesOthers
<1>2. \A q \in Commands \ {p} : pc'[q] = pc[q] /\ result'[q] = result[q]
  <2>1. CASE OpenClient(p) \/ CreateIdentity(p) \/ PairDials(p) \/ PairReply(p) \/ Find(p)
    BY <2>1 DEF OpenClient, CreateIdentity, PairDials, PairReply, Find
  <2>2. CASE NearbyDials(p) \/ NearbyReads(p) \/ Await(p) \/ Told(p) \/ Put(p)
    BY <2>2 DEF NearbyDials, NearbyReads, Await, Told, Put
  <2>3. CASE Forget(p) \/ Remove(p) \/ SaysYes(p) \/ SaysNo(p) \/ Kill(p)
    BY <2>3 DEF Forget, Remove, SaysYes, SaysNo, Kill
  <2> QED BY <2>1, <2>2, <2>3 DEF PairProcess
<1>3. \A q \in Commands \ {p} : server'[q] = server[q]
  <2> USE DEF device
  <2>1. CASE OpenClient(p) \/ CreateIdentity(p) \/ PairDials(p) \/ PairReply(p) \/ Find(p)
    BY <2>1 DEF OpenClient, CreateIdentity, PairDials, PairReply, Find
  <2>2. CASE NearbyDials(p) \/ NearbyReads(p) \/ Await(p) \/ Told(p) \/ Put(p)
    BY <2>2 DEF NearbyDials, NearbyReads, Await, Told, Put
  <2>3. CASE Forget(p) \/ Remove(p) \/ SaysYes(p) \/ SaysNo(p) \/ Kill(p)
    BY <2>3 DEF Forget, Remove, SaysYes, SaysNo, Kill
  <2> QED BY <2>1, <2>2, <2>3 DEF PairProcess
<1> QED BY <1>1, <1>2, <1>3, PairAlone DEF Others

\* So does a session or a check.
LEMMA SessionOthers == ASSUME IInv, NEW p \in Commands, SessionStep(p) PROVE Others(p)
<1> USE DEF IInv, Types, CommandTypes, Goto
<1>1. \A q \in Commands \ {p} : up'[q] = up[q] /\ down'[q] = down[q]
  BY SessionMoves, MovesOthers
<1>2. \A q \in Commands \ {p} : pc'[q] = pc[q]
  <2>1. CASE Pick(p) \/ Dial(p) \/ Welcome(p) \/ Media(p) \/ Connected(p) \/ Search(p)
    BY <2>1 DEF Pick, Dial, Welcome, Media, Connected, Search, Fails
  <2>2. CASE Discover(p) \/ Probe(p) \/ Load(p) \/ Save(p) \/ Left(p) \/ Ended(p)
    BY <2>2 DEF Discover, Probe, Load, Save, Left, Ended
  <2>3. CASE ReadLoop(p) \/ PingLoop(p) \/ TargetBye(p) \/ Leave(p)
    BY <2>3 DEF ReadLoop, PingLoop, TargetBye, Leave, command
  <2> QED BY <2>1, <2>2, <2>3 DEF SessionStep, SessionProcess
<1> QED BY <1>1, <1>2, SessionAlone DEF Others, device

\* So do the device's threads.
LEMMA DeviceOthers == ASSUME IInv, NEW p \in Commands, DeviceStep(p) PROVE Others(p)
<1> USE DEF IInv, Types, DeviceTypes, AnswerTypes, CountTypes, DeviceStep, Serve
<1>1. \A q \in Commands \ {p} : up'[q] = up[q] /\ down'[q] = down[q]
  BY DeviceMoves, MovesOthers
<1>2. \A q \in Commands \ {p} :
        server'[q] = server[q] /\ reader'[q] = reader[q] /\ answers'[q] = answers[q]
        /\ held'[q] = held[q]
  <2>1. CASE TakePair(p) \/ TakeNearby(p) \/ TakeNonce(p)
    BY <2>1 DEF TakePair, TakeNearby, TakeNonce, Ends
  <2>2. CASE Decide(p) \/ Admit(p) \/ Record(p)
    BY <2>2 DEF Decide, Admit, Record, Ends
  <2>3. CASE Refuse(p) \/ Finally(p) \/ ServerLoses(p)
    BY <2>3 DEF Refuse, Finally, ServerLoses
  <2>4. CASE Reader(p) \/ UserAnswers(p)
    BY <2>4 DEF Reader, UserAnswers, Answer
  <2> QED BY <2>1, <2>2, <2>3, <2>4 DEF PairServer
<1> QED BY <1>1, <1>2, DeviceAlone DEF Others, DeviceFrame

\* A queue of one message has only that: what a dial (Dials) puts on the connection.
LEMMA OneHas == \A m, n : Has(<<m>>, n) => n = m
BY DEF Has

\* A step that leaves the others alone keeps whose turn it is, if it does so for its own.
LEMMA TurnOthers ==
  ASSUME IInv, NEW p \in Commands, Others(p), UNCHANGED what, Turn(p)',
         admitted' \in {admitted, admitted \cup {p}}
  PROVE  TurnInv'
<1> USE DEF IInv, TurnInv
<1>1. ASSUME NEW q \in Commands \ {p} PROVE Turn(q)'
  <2>1. /\ pc'[q] = pc[q] /\ server'[q] = server[q] /\ up'[q] = up[q] /\ down'[q] = down[q]
        /\ what' = what /\ (q \in admitted' => q \in admitted)
    BY DEF Others
  <2>2. Turn(q)
    OBVIOUS
  <2> QED BY <2>1, <2>2 DEF Turn, Early, At, Deciding
<1> QED BY <1>1

\* What the invariant says of one process and its connection.
LEMMA TurnFacts ==
  ASSUME IInv, NEW p \in Commands
  PROVE  /\ Turn(p) /\ InPlace(p)
         /\ DOMAIN pc = Commands /\ DOMAIN down = Commands /\ DOMAIN up = Commands
         /\ DOMAIN server = Commands
         /\ up[p] \in Seq(UpMessage) /\ down[p] \in Seq(DownMessage)
BY DEF IInv, Types, CommandTypes, WireTypes, UpTypes, DownTypes, DeviceTypes, TurnInv, PlaceInv

\* The nonce and the confirmation are no requests, and one of them is one message.
LEMMA UpSent ==
  ASSUME IInv, NEW p \in Commands, NEW m \in {"code_nonce", "code_confirm"}
  PROVE  /\ \A n \in {"pair", "pair_nearby"} : Has(Sent(up, p, m, "there")[p], n) => Has(up[p], n)
         /\ up[p] = <<>> => Len(Sent(up, p, m, "there")[p]) <= 1
<1>1. up \in [Commands -> Seq(UpMessage)] /\ m \in UpMessage
  BY DEF IInv, Types, WireTypes, UpTypes, UpMessage
<1>2. Sent(up, p, m, "there")[p] \in {up[p], Append(up[p], m)}
  BY <1>1, SentIs
<1>3. \A n : Has(Append(up[p], m), n) <=> Has(up[p], n) \/ n = m
  BY <1>1, HasFacts
<1>4. up[p] = <<>> => Len(Append(up[p], m)) = 1
  BY <1>1, HasFacts, EmptyHas
<1> DEFINE s == Sent(up, p, m, "there")[p]
<1> HIDE DEF s
<1>5. s \in {up[p], Append(up[p], m)}
  BY <1>2 DEF s
<1>6. CASE s = up[p]
  <2>1. up[p] = <<>> => Len(s) <= 1
    BY <1>6, EmptyHas
  <2> QED BY <1>6, <2>1 DEF s
<1>7. CASE s = Append(up[p], m)
  <2>1. \A n \in {"pair", "pair_nearby"} : Has(s, n) => Has(up[p], n)
    BY <1>3, <1>7
  <2>2. up[p] = <<>> => Len(s) <= 1
    BY <1>4, <1>7
  <2> QED BY <2>1, <2>2 DEF s
<1> QED BY <1>5, <1>6, <1>7

\* A pairing command keeps to its turn: it reads a commitment before it sends its nonce,
\* and the reveal before its user can confirm (StartNearbyPairing).
LEMMA PairTurn == ASSUME IInv, NEW p \in Commands, PairStep(p) PROVE Turn(p)'
<1>0. /\ Turn(p) /\ InPlace(p)
      /\ DOMAIN pc = Commands /\ DOMAIN down = Commands /\ DOMAIN up = Commands
      /\ DOMAIN server = Commands
      /\ up[p] \in Seq(UpMessage) /\ down[p] \in Seq(DownMessage)
      /\ what' = what /\ admitted' = admitted
  BY TurnFacts, PairAlone
<1> USE DEF PairStep, wire, device, Goto, At, HangsUp, Turn, Early, Over
<1>1. CASE OpenClient(p) \/ CreateIdentity(p) \/ Find(p)
  BY <1>0, <1>1 DEF OpenClient, CreateIdentity, Find, Deciding
<1>2. CASE PairDials(p) \/ NearbyDials(p)
  BY <1>0, <1>2, OneHas DEF PairDials, NearbyDials, Dials, Deciding
<1>3. CASE PairReply(p) \/ Await(p) \/ SaysNo(p) \/ Kill(p)
  BY <1>0, <1>3, EmptyHas DEF PairReply, Await, SaysNo, Kill, InPlace, Deciding
<1>4. CASE NearbyReads(p)
  <2>1. CASE down[p] # <<>> /\ Head(down[p]) \in {"code_commit", "code_reveal"} /\ pc[p] = "commit"
    <3>1. /\ pc'[p] = "reveal" /\ server' = server
          /\ down'[p] = Tail(down[p]) /\ up' = Sent(up, p, "code_nonce", "there")
      BY <1>0, <1>4, <2>1 DEF NearbyReads
    <3>2. server[p] = "nonce" => up[p] = <<>> /\ Len(down[p]) <= 1
      BY <1>0, <2>1
    <3>3. server[p] = "nonce" => down'[p] = <<>>
      BY <1>0, <2>1, <3>1, <3>2, HasFacts
    <3> QED BY <1>0, <2>1, <3>1, <3>2, <3>3, UpSent DEF Deciding
  <2>2. CASE down[p] # <<>> /\ Head(down[p]) \in {"code_commit", "code_reveal"} /\ pc[p] = "reveal"
    BY <1>0, <1>4, <2>2 DEF NearbyReads, Deciding
  <2>3. CASE ~(down[p] # <<>> /\ Head(down[p]) \in {"code_commit", "code_reveal"})
    BY <1>0, <1>4, <2>3 DEF NearbyReads, Deciding
  <2> QED BY <1>4, <2>1, <2>2, <2>3 DEF NearbyReads
<1>5. CASE SaysYes(p)
  <2>1. /\ pc[p] = "shown" /\ pc'[p] = "confirmed" /\ server' = server /\ down' = down
        /\ up' \in {up, Sent(up, p, "code_confirm", "there")}
    BY <1>0, <1>5 DEF SaysYes
  <2> QED BY <1>0, <2>1, UpSent DEF InPlace, Deciding
<1>6. CASE Told(p) \/ Put(p) \/ Forget(p) \/ Remove(p)
  BY <1>0, <1>6 DEF Told, Put, Forget, Remove, InPlace, Deciding
<1> QED BY <1>1, <1>2, <1>3, <1>4, <1>5, <1>6 DEF PairProcess

\* A session or a check never goes back to where a command starts.
LEMMA SessionPlaces ==
  ASSUME IInv, NEW p \in Commands, SessionStep(p)
  PROVE  what[p] \in {"connect", "check"} /\ pc'[p] \notin {"open", "create", "start"}
<1> USE DEF elsewhere, command, Goto, At, Over
<1>0. InPlace(p) /\ DOMAIN pc = Commands
  BY TurnFacts
<1>1. CASE Pick(p) \/ Dial(p) \/ Welcome(p) \/ Media(p) \/ Connected(p) \/ Search(p)
  BY <1>0, <1>1 DEF Pick, Dial, Welcome, Media, Connected, Search, Fails, InPlace
<1>2. CASE Discover(p) \/ Probe(p) \/ Load(p) \/ Save(p) \/ Left(p) \/ Ended(p)
  BY <1>0, <1>2 DEF Discover, Probe, Load, Save, Left, Ended, Updated, InPlace
<1>3. CASE ReadLoop(p) \/ PingLoop(p) \/ TargetBye(p) \/ Leave(p)
  BY <1>0, <1>3 DEF ReadLoop, PingLoop, TargetBye, Leave, Open, InPlace
<1> QED BY <1>1, <1>2, <1>3 DEF SessionStep, SessionProcess

\* A session or a check takes no part in the exchange.
LEMMA SessionTurn == ASSUME IInv, NEW p \in Commands, SessionStep(p) PROVE Turn(p)'
<1>1. Turn(p)
  BY TurnFacts
<1>2. UNCHANGED <<what, up, server, admitted>>
  BY SessionAlone DEF device
<1> QED BY <1>1, <1>2, SessionPlaces DEF Turn, Early, At, Deciding

\* The device's threads keep to their turn: the commitment on a request, the reveal on the
\* nonce (handlePairNearby).
LEMMA DeviceTurn == ASSUME IInv, NEW p \in Commands, DeviceStep(p) PROVE Turn(p)'
<1>0. /\ Turn(p) /\ InPlace(p)
      /\ DOMAIN pc = Commands /\ DOMAIN down = Commands /\ DOMAIN up = Commands
      /\ DOMAIN server = Commands
      /\ up[p] \in Seq(UpMessage) /\ down[p] \in Seq(DownMessage)
      /\ what' = what /\ pc' = pc
  BY TurnFacts, DeviceAlone DEF DeviceFrame
<1>1. up[p] # <<>> => /\ Has(up[p], Head(up[p])) /\ \A m : Has(Tail(up[p]), m) => Has(up[p], m)
                      /\ Len(Tail(up[p])) = Len(up[p]) - 1 /\ Len(up[p]) \in Nat
  BY <1>0, HasFacts
<1> USE DEF DeviceStep, wire, Serve, First
<1>2. ASSUME server[p] # "off", server'[p] \notin {"read", "nonce"},
             \A m : Has(up'[p], m) => Has(up[p], m),
             server'[p] \in Deciding => what[p] = "nearby",
             server'[p] \in Deciding \cup {"record"} => p \notin admitted',
             server'[p] = "asking" => pc[p] # "commit"
      PROVE  Turn(p)'
  BY <1>0, <1>2 DEF Turn, Early, At
<1>3. CASE TakePair(p)
  <2>1. /\ server[p] = "read" /\ server'[p] \in {"record", "off"} /\ up'[p] = <<>>
        /\ admitted' = admitted
    BY <1>0, <1>3 DEF TakePair, Ends
  <2> QED BY <1>0, <1>2, <2>1, EmptyHas DEF Turn, Deciding
<1>4. CASE TakeNearby(p)
  <2>1. /\ server[p] = "read" /\ server'[p] \in {"nonce", "off"} /\ up'[p] = <<>>
        /\ admitted' = admitted /\ Head(up[p]) = "pair_nearby" /\ up[p] # <<>>
    BY <1>0, <1>4 DEF TakeNearby, Ends
  <2>2. /\ down[p] = <<>> /\ pc[p] \in {"commit"} \cup Over /\ what[p] = "nearby"
        /\ p \notin admitted
    BY <1>0, <1>1, <2>1 DEF Turn
  <2>3. CASE server'[p] = "nonce"
    <3>1. down' = Sent(down, p, "code_commit", "here")
      BY <1>0, <1>4, <2>3 DEF TakeNearby, Ends
    <3>2. Len(down'[p]) <= 1
      <4>1. down \in [Commands -> Seq(DownMessage)] /\ "code_commit" \in DownMessage
        BY DEF IInv, Types, WireTypes, DownTypes, DownMessage
      <4>2. down'[p] \in {down[p], Append(down[p], "code_commit")}
        BY <3>1, <4>1, SentIs
      <4>3. Len(Append(down[p], "code_commit")) = Len(down[p]) + 1
        BY <4>1, HasFacts
      <4>4. Len(down[p]) = 0
        BY <2>2, EmptyHas
      <4>5. CASE down'[p] = down[p]
        BY <4>4, <4>5
      <4>6. CASE down'[p] = Append(down[p], "code_commit")
        BY <4>3, <4>4, <4>6
      <4> QED BY <4>2, <4>5, <4>6
    <3>3. Len(up'[p]) <= 1 /\ \A m : ~Has(up'[p], m)
      BY <2>1, EmptyHas
    <3> QED BY <1>0, <2>1, <2>2, <2>3, <3>2, <3>3 DEF Turn, Early, At, Over, Deciding
  <2>4. CASE server'[p] = "off"
    BY <1>2, <2>1, <2>4, EmptyHas DEF Deciding
  <2> QED BY <2>1, <2>3, <2>4
<1>5. CASE TakeNonce(p)
  <2>1. /\ server[p] = "nonce" /\ up[p] # <<>> /\ up'[p] = Tail(up[p])
        /\ server'[p] = "asking" /\ admitted' = admitted
    BY <1>0, <1>5 DEF TakeNonce
  <2> QED BY <1>0, <1>1, <1>2, <2>1 DEF Turn, Deciding
<1>6. CASE Decide(p) \/ Admit(p)
  <2>1. /\ server[p] \in {"asking", "admit"}
        /\ server'[p] \in {"admit", "cancel", "refuse", "record"}
        /\ up' = up /\ admitted' = admitted
    BY <1>0, <1>6 DEF Decide, Admit, Outcome
  <2> QED BY <1>0, <1>2, <2>1 DEF Turn, Deciding
<1>7. CASE Record(p) \/ Refuse(p) \/ Finally(p) \/ ServerLoses(p)
  <2>1. server[p] # "off" /\ server'[p] \in {"finally", "off"} /\ up' = up
    BY <1>0, <1>7 DEF Record, Ends, Refuse, Finally, ServerLoses
  <2> QED BY <1>0, <1>2, <2>1 DEF Deciding
<1>8. CASE Reader(p) \/ UserAnswers(p)
  <2>1. /\ server[p] = "asking" /\ server' = server /\ admitted' = admitted
        /\ up' = up \/ (up[p] # <<>> /\ up'[p] = Tail(up[p]))
    BY <1>0, <1>8 DEF Reader, UserAnswers
  <2> QED BY <1>0, <1>1, <1>2, <2>1 DEF Turn, Deciding
<1> QED BY <1>3, <1>4, <1>5, <1>6, <1>7, <1>8 DEF PairServer

\* Only completePairing records a computer.
LEMMA DeviceAdmits ==
  ASSUME NEW p \in Commands, DeviceStep(p)
  PROVE  admitted' = admitted \/ (Record(p) /\ admitted' = admitted \cup {p})
<1>1. CASE TakePair(p) \/ TakeNearby(p) \/ TakeNonce(p) \/ Decide(p) \/ Admit(p)
  BY <1>1 DEF TakePair, TakeNearby, TakeNonce, Decide, Admit
<1>2. CASE Record(p)
  BY <1>2 DEF Record
<1>3. CASE Refuse(p) \/ Finally(p) \/ ServerLoses(p) \/ Reader(p) \/ UserAnswers(p)
  BY <1>3 DEF Refuse, Finally, ServerLoses, Reader, UserAnswers
<1> QED BY <1>1, <1>2, <1>3 DEF DeviceStep, PairServer

\* So does any step: whose turn it is stays an invariant.
LEMMA TurnKept == ASSUME IInv, [Next]_vars PROVE TurnInv'
<1>1. ASSUME NEW p \in Commands, PairStep(p) PROVE TurnInv'
  BY <1>1, PairTurn, PairOthers, PairAlone, TurnOthers
<1>2. ASSUME NEW p \in Commands, SessionStep(p) PROVE TurnInv'
  BY <1>2, SessionTurn, SessionOthers, SessionAlone, TurnOthers DEF device
<1>3. ASSUME NEW p \in Commands, DeviceStep(p) PROVE TurnInv'
  BY <1>3, DeviceTurn, DeviceOthers, DeviceAlone, DeviceAdmits, TurnOthers DEF DeviceFrame
<1>4. CASE UNCHANGED vars \/ Invites
  <2>1. UNCHANGED <<what, pc, server, up, down, admitted>>
    BY <1>4, InvitesAlone DEF vars, pairVars, command, wire
  <2> QED BY <2>1 DEF IInv, TurnInv, Turn, Early, At
<1>5. CASE Breaks
  <2>1. UNCHANGED <<what, pc, server, admitted>>
    BY <1>5, BreaksAlone DEF command, device
  <2>2. PICK P : Break(P)
    BY <1>5 DEF Breaks, Move, Cut
  <2>3. ASSUME NEW q \in Commands PROVE Turn(q)'
    <3>1. up'[q] \in {up[q], <<>>} /\ down'[q] \in {down[q], <<>>}
      BY <2>2 DEF Break
    <3>2. Turn(q)
      BY TurnFacts
    <3> QED BY <2>1, <3>1, <3>2, EmptyHas DEF Turn, Early, At
  <2> QED BY <2>3 DEF TurnInv
<1> QED BY <1>1, <1>2, <1>3, <1>4, <1>5, Steps

\* What a step of one of the device's threads has to keep for the codes: a computer that it
\* begins to admit holds the invitation that was open and is now closed, or paired nearby.
LEMMA CodeAfter ==
  ASSUME IInv, NEW p \in Commands, Others(p), UNCHANGED <<what, invited>>,
         admitted' \in {admitted, admitted \cup {p}},
         Admits(p)' => held'[p] \in Invitations /\ held'[p] # invitation',
         Admits(p)' => \/ Admits(p) /\ held'[p] = held[p]
                       \/ what[p] # "code"
                       \/ held'[p] = invitation /\ invitation # 0,
         server'[p] \in Deciding => held'[p] \in Invitations,
         invitation' \in {invitation, 0},
         invitation' # 0 => failures'[invitation'] < MaxFailures,
         \A i \in Invitations : i > invited => failures'[i] = 0
  PROVE  CodeInv'
<1> USE DEF IInv, CodeInv
<1>1. ASSUME NEW q \in Commands \ {p}
      PROVE  (Admits(q)' => Admits(q)) /\ held'[q] = held[q] /\ server'[q] = server[q]
  BY DEF Others, Admits
<1>2. ASSUME NEW q \in Commands, Admits(q)'
      PROVE  held'[q] \in Invitations /\ held'[q] # invitation'
  <2>1. 0 \notin Invitations
    BY DEF Invitations
  <2> QED BY <1>1, <1>2, <2>1
<1>3. ASSUME NEW q \in Commands, server'[q] \in Deciding PROVE held'[q] \in Invitations
  BY <1>1, <1>3
<1>4. ASSUME NEW q \in Commands \ {p}, Admits(p)', Admits(q)', what[p] = "code", what[q] = "code"
      PROVE  held'[q] # held'[p]
  BY <1>1, <1>4
<1>5. ASSUME NEW q \in Commands, NEW r \in Commands, Admits(q)', Admits(r)',
             what'[q] = "code", what'[r] = "code", q # r
      PROVE  held'[q] # held'[r]
  BY <1>1, <1>4, <1>5
<1> QED BY <1>2, <1>3, <1>5

\* handlePair, handlePairNearby and countNearbyFailure keep it: the invitation is closed in
\* the critical section that accepts its code, and on the failure that reaches the limit.
LEMMA DeviceCode == ASSUME IInv, NEW p \in Commands, DeviceStep(p) PROVE CodeInv'
<1>0. /\ Turn(p) /\ DOMAIN server = Commands /\ DOMAIN held = Commands
      /\ up[p] # <<>> => Has(up[p], Head(up[p]))
      /\ invitation \in 0 .. invited /\ invited \in Nat /\ failures \in [Invitations -> Nat]
      /\ invitation # 0 => invitation \in Invitations
      /\ held[p] \in 0 .. invited /\ MaxFailures \in Nat
  BY TurnFacts, HasFacts DEF IInv, CountTypes, Invitations
<1>1. /\ invitation # 0 => failures[invitation] < MaxFailures
      /\ Admits(p) => held[p] \in Invitations /\ held[p] # invitation
      /\ server[p] \in Deciding => held[p] \in Invitations
      /\ \A i \in Invitations : i > invited => failures[i] = 0
  BY DEF IInv, CodeInv
<1>2. Others(p) /\ what' = what /\ admitted' \in {admitted, admitted \cup {p}}
  BY DeviceOthers, DeviceAlone, DeviceAdmits DEF DeviceFrame
<1> USE DEF DeviceStep, Serve, First, Admits
<1>3. CASE TakePair(p)
  <2>1. server[p] = "read" /\ what[p] = "code" /\ p \notin admitted
    BY <1>0, <1>3 DEF TakePair, Turn
  <2>2. CASE invitation # 0 /\ typed[p] = invitation
    <3>1. /\ server'[p] = "record" /\ held'[p] = invitation /\ invitation' = 0
          /\ UNCHANGED <<invited, failures, admitted>>
      BY <1>0, <1>3, <2>2 DEF TakePair
    <3> QED BY <1>0, <1>1, <1>2, <2>1, <2>2, <3>1, CodeAfter DEF Deciding
  <2>3. CASE ~(invitation # 0 /\ typed[p] = invitation)
    <3>1. /\ server'[p] = "off" /\ UNCHANGED <<invited, held, admitted>>
          /\ \/ UNCHANGED <<failures, invitation>>
             \/ /\ invitation # 0 /\ failures' = [failures EXCEPT ![invitation] = @ + 1]
                /\ invitation' = IF failures'[invitation] >= MaxFailures THEN 0 ELSE invitation
      BY <1>0, <1>3, <2>3 DEF TakePair, Ends, Failed
    <3>2. /\ invitation' \in {invitation, 0}
        /\ invitation' # 0 => failures'[invitation'] < MaxFailures
      BY <1>0, <1>1, <3>1
    <3>3. \A i \in Invitations : i > invited => failures'[i] = 0
      BY <1>0, <1>1, <3>1
    <3> QED BY <1>2, <2>1, <3>1, <3>2, <3>3, CodeAfter DEF Deciding
  <2> QED BY <2>2, <2>3
<1>4. CASE TakeNearby(p)
  <2>1. /\ server[p] = "read" /\ p \notin admitted
    BY <1>0, <1>4 DEF TakeNearby, Turn
  <2>2. /\ UNCHANGED <<invited, invitation, failures, admitted>>
        /\ \/ server'[p] = "nonce" /\ held'[p] = invitation /\ invitation # 0
           \/ server'[p] = "off"
    BY <1>0, <1>4 DEF TakeNearby, Ends
  <2> QED BY <1>0, <1>1, <1>2, <2>1, <2>2, CodeAfter DEF Deciding
<1>5. ASSUME UNCHANGED <<invited, invitation, failures, held>>, Admits(p)' => Admits(p),
             server'[p] \in Deciding => server[p] \in Deciding
      PROVE  CodeInv'
  <2>1. held'[p] = held[p] /\ invitation' = invitation
    BY <1>5
  <2> HIDE DEF Admits
  <2> QED BY <1>1, <1>2, <1>5, <2>1, CodeAfter
<1>6. CASE TakeNonce(p) \/ Decide(p)
  <2>1. /\ UNCHANGED <<invited, invitation, failures, held, admitted>>
        /\ server[p] \in {"nonce", "asking"}
        /\ server'[p] \in {"asking", "admit", "cancel", "refuse"}
    BY <1>0, <1>6 DEF TakeNonce, Decide, Outcome
  <2> QED BY <1>5, <2>1 DEF Deciding
<1>7. CASE Record(p) \/ Finally(p) \/ ServerLoses(p)
  <2>1. /\ UNCHANGED <<invited, invitation, failures, held>>
        /\ server'[p] \in {"finally", "off"} /\ (p \in admitted' => Admits(p))
    BY <1>0, <1>7 DEF Record, Finally, ServerLoses, Ends
  <2> QED BY <1>5, <2>1 DEF Deciding
<1>8. CASE Reader(p) \/ UserAnswers(p)
  <2>1. UNCHANGED <<invited, invitation, failures, held, admitted, server>>
    BY <1>8 DEF Reader, UserAnswers
  <2> QED BY <1>5, <2>1
<1>9. CASE Admit(p)
  <2>1. /\ UNCHANGED <<invited, failures, held, admitted>> /\ server[p] = "admit"
        /\ server'[p] = "record" /\ invitation' = IF invitation = held[p] THEN 0 ELSE invitation
    BY <1>0, <1>9 DEF Admit
  <2>2. what[p] = "nearby" /\ held[p] \in Invitations /\ held[p] # 0
    BY <1>0, <1>1, <2>1 DEF Turn, Deciding, Invitations
  <2>3. invitation' \in {invitation, 0} /\ held'[p] \in Invitations /\ held'[p] # invitation'
    BY <2>1, <2>2
  <2> QED BY <1>0, <1>1, <1>2, <2>1, <2>2, <2>3, CodeAfter DEF Deciding
<1>10. CASE Refuse(p)
  <2>1. /\ UNCHANGED <<invited, held, admitted>> /\ server[p] \in {"refuse", "cancel"}
        /\ server'[p] = "finally" /\ failures' = [failures EXCEPT ![held[p]] = @ + 1]
        /\ invitation' = IF invitation = held[p] /\ failures'[held[p]] >= MaxFailures
                           THEN 0 ELSE invitation
    BY <1>0, <1>10 DEF Refuse, Failed
  <2>2. held[p] \in Invitations /\ p \notin admitted
    BY <1>0, <1>1, <2>1 DEF Turn, Deciding
  <2>3. /\ invitation' \in {invitation, 0}
        /\ invitation' # 0 => failures'[invitation'] < MaxFailures
    BY <1>0, <1>1, <2>1, <2>2
  <2>4. \A i \in Invitations : i > invited => failures'[i] = 0
    BY <1>0, <1>1, <2>1, <2>2
  <2> QED BY <1>2, <2>1, <2>2, <2>3, <2>4, CodeAfter DEF Deciding
<1> QED BY <1>3, <1>4, <1>6, <1>7, <1>8, <1>9, <1>10 DEF PairServer

\* So does any step; a new invitation has a number that nobody holds yet.
LEMMA CodeKept == ASSUME IInv, [Next]_vars PROVE CodeInv'
<1> USE DEF IInv, CodeInv, Admits
<1>1. ASSUME NEW p \in Commands, PairStep(p) PROVE CodeInv'
  <2>1. \A q \in Commands : server'[q] \in {server[q], "read"}
    BY <1>1, PairServes DEF Types, DeviceTypes
  <2>2. UNCHANGED <<what, held, invitation, invited, failures, admitted>>
    BY <1>1, PairAlone
  <2> QED BY <2>1, <2>2 DEF Deciding
<1>2. ASSUME NEW p \in Commands, SessionStep(p) PROVE CodeInv'
  <2>1. UNCHANGED <<what, server, held, invitation, invited, failures, admitted>>
    BY <1>2, SessionAlone DEF device
  <2> QED BY <2>1
<1>3. ASSUME NEW p \in Commands, DeviceStep(p) PROVE CodeInv'
  BY <1>3, DeviceCode
<1>4. CASE UNCHANGED vars \/ Breaks
  <2>1. UNCHANGED <<what, server, held, invitation, invited, failures, admitted>>
    BY <1>4, BreaksAlone DEF vars, pairVars, command, device
  <2> QED BY <2>1
<1>5. CASE Invites
  <2>1. UNCHANGED <<what, server, held, failures, admitted>>
    BY <1>5, InvitesAlone DEF command
  <2>2. \/ invited < MaxInvitations /\ invited' = invited + 1 /\ invitation' = invited + 1
        \/ invited' = invited /\ invitation' = 0
    BY <1>5 DEF Invites, Invite, Withdraw
  <2>3. invited \in Nat /\ \A p \in Commands : held[p] <= invited /\ held[p] \in Nat
    BY DEF CountTypes
  <2>4. invitation' # 0 => invitation' \in Invitations /\ invitation' > invited
    BY <2>2, <2>3 DEF Invitations
  <2>5. invitation' # 0 => failures'[invitation'] < MaxFailures
    BY <2>1, <2>4
  <2>6. \A p \in Commands : held[p] \in Invitations => held[p] # invitation'
    BY <2>2, <2>3 DEF Invitations
  <2>7. \A i \in Invitations : i > invited' => i > invited
    BY <2>2, <2>3 DEF Invitations
  <2> QED BY <2>1, <2>5, <2>6, <2>7
<1> QED BY <1>1, <1>2, <1>3, <1>4, <1>5, Steps

\* An agreement needs the answers of both users (awaitNearbyAnswers).
LEMMA AgreedIsBoth ==
  ASSUME NEW q \in Seq(Answering), Agreed(q) PROVE Has(q, "accepted") /\ Has(q, "confirmed")
<1>1. PICK n \in 0 .. Len(q) : {"accepted", "confirmed"} = {q[j] : j \in 1 .. n}
  BY DEF Agreed
<1>2. PICK i \in 1 .. n : q[i] = "accepted"
  BY <1>1
<1>3. PICK j \in 1 .. n : q[j] = "confirmed"
  BY <1>1
<1> QED BY <1>1, <1>2, <1>3 DEF Has

\* A step that leaves the others alone keeps what was agreed, if it does so for its own.
LEMMA ConsentOthers ==
  ASSUME IInv, NEW p \in Commands, Others(p), UNCHANGED what, Consent(p)',
         admitted' \in {admitted, admitted \cup {p}},
         yes \subseteq yes', accepted \subseteq accepted'
  PROVE  AgreedInv'
<1> USE DEF IInv, AgreedInv
<1>1. ASSUME NEW q \in Commands \ {p} PROVE Consent(q)'
  <2>1. /\ pc'[q] = pc[q] /\ server'[q] = server[q] /\ up'[q] = up[q] /\ down'[q] = down[q]
        /\ reader'[q] = reader[q] /\ answers'[q] = answers[q] /\ result'[q] = result[q]
        /\ what' = what /\ (q \in admitted' <=> q \in admitted)
        /\ (q \in yes => q \in yes') /\ (q \in accepted => q \in accepted')
    BY DEF Others
  <2>2. Consent(q)
    OBVIOUS
  <2> QED BY <2>1, <2>2 DEF Consent, Admits
<1> QED BY <1>1

\* What the invariant says of one process, with its types.
LEMMA ConsentFacts ==
  ASSUME IInv, NEW p \in Commands
  PROVE  /\ Consent(p) /\ Turn(p) /\ InPlace(p)
         /\ DOMAIN pc = Commands /\ DOMAIN down = Commands /\ DOMAIN up = Commands
         /\ DOMAIN server = Commands /\ DOMAIN result = Commands /\ DOMAIN reader = Commands
         /\ DOMAIN answers = Commands
         /\ up[p] \in Seq(UpMessage) /\ down[p] \in Seq(DownMessage)
         /\ answers[p] \in Seq(Answering)
BY TurnFacts DEF IInv, Types, CommandTypes, DeviceTypes, AnswerTypes, AgreedInv

\* No other message of the device reads as paired.
LEMMA DownSent ==
  ASSUME IInv, NEW p \in Commands, NEW m \in DownMessage \ {"paired"},
         Has(Sent(down, p, m, "here")[p], "paired")
  PROVE  Has(down[p], "paired")
<1>1. down \in [Commands -> Seq(DownMessage)]
  BY DEF IInv, Types, WireTypes, DownTypes
<1>2. Sent(down, p, m, "here")[p] \in {down[p], Append(down[p], m)}
  BY <1>1, SentIs
<1>3. Has(Append(down[p], m), "paired") => Has(down[p], "paired")
  BY <1>1, HasFacts
<1> QED BY <1>2, <1>3

\* A pairing command ends well only on the message that it is paired (Client.Pair, await).
LEMMA PairConsent ==
  ASSUME IInv, NEW p \in Commands, PairStep(p) PROVE Consent(p)' /\ yes \subseteq yes'
<1>0. /\ Consent(p) /\ Turn(p) /\ InPlace(p)
      /\ DOMAIN pc = Commands /\ DOMAIN down = Commands /\ DOMAIN up = Commands
      /\ DOMAIN server = Commands /\ DOMAIN result = Commands
      /\ UNCHANGED <<what, reader, answers, accepted, admitted>>
  BY ConsentFacts, PairAlone
<1>1. down[p] # <<>> => /\ Has(down[p], Head(down[p]))
                        /\ (Has(Tail(down[p]), "paired") => Has(down[p], "paired"))
  BY ConsentFacts, HasFacts
<1>2. server'[p] \in {server[p], "read"}
  BY <1>0, PairServes
<1> USE DEF PairStep, wire, Goto, At, HangsUp, Over
<1>3. ASSUME yes \subseteq yes', pc'[p] \notin {"put", "done"},
             Has(down'[p], "paired") => Has(down[p], "paired"),
             result'[p] = "paired" => result[p] = "paired" \/ Has(down[p], "paired"),
             server'[p] = "asking" => up'[p] = up[p] \/ p \in yes'
      PROVE  Consent(p)' /\ yes \subseteq yes'
  BY <1>0, <1>2, <1>3 DEF Consent, Admits
<1>4. CASE OpenClient(p) \/ CreateIdentity(p) \/ Find(p) \/ Forget(p) \/ SaysNo(p) \/ Kill(p)
  <2>1. /\ UNCHANGED <<yes, up, result>> /\ pc'[p] \notin {"put", "done"}
        /\ down'[p] = down[p] \/ down'[p] = <<>>
    BY <1>0, <1>4 DEF OpenClient, CreateIdentity, Find, Forget, SaysNo, Kill
  <2> QED BY <1>3, <2>1, EmptyHas
<1>5. CASE PairDials(p) \/ NearbyDials(p)
  <2>1. /\ UNCHANGED <<yes, down, result>> /\ pc'[p] \notin {"put", "done"}
        /\ server'[p] = "read" \/ up' = up
    BY <1>0, <1>5 DEF PairDials, NearbyDials, Dials
  <2> QED BY <1>3, <2>1
<1>6. CASE PairReply(p)
  <2>1. /\ UNCHANGED <<yes, up, result>> /\ down'[p] = <<>> /\ pc'[p] \in {"put", "failed"}
        /\ pc'[p] = "put" => Has(down[p], "paired")
    BY <1>0, <1>1, <1>6 DEF PairReply
  <2> QED BY <1>0, <1>2, <2>1, EmptyHas DEF Consent, Admits
<1>7. CASE NearbyReads(p)
  <2>1. /\ UNCHANGED <<yes, result>> /\ pc'[p] \in {"reveal", "shown", "failed"}
        /\ up' = up \/ pc[p] = "commit"
        /\ down'[p] = <<>> \/ (down[p] # <<>> /\ down'[p] = Tail(down[p]))
    BY <1>0, <1>7 DEF NearbyReads
  <2>2. server'[p] = "asking" => pc[p] # "commit"
    BY <1>0, <1>2 DEF Turn
  <2> QED BY <1>1, <1>3, <2>1, <2>2, EmptyHas
<1>8. CASE Await(p)
  <2>1. /\ UNCHANGED <<yes, up, pc>> /\ pc[p] \in {"shown", "confirmed"} /\ down'[p] = <<>>
        /\ result'[p] = "paired" => Has(down[p], "paired")
    BY <1>0, <1>1, <1>8 DEF Await
  <2> QED BY <1>3, <2>1, EmptyHas
<1>9. CASE SaysYes(p)
  <2>1. UNCHANGED <<result, down>> /\ yes' = yes \cup {p} /\ pc'[p] = "confirmed"
    BY <1>0, <1>9 DEF SaysYes
  <2> QED BY <1>3, <2>1
<1>10. CASE Told(p)
  <2>1. UNCHANGED <<yes, up, down, result>> /\ pc'[p] \in {"put", "failed"}
        /\ (pc'[p] = "put" => result[p] = "paired")
    BY <1>0, <1>10 DEF Told
  <2> QED BY <1>0, <1>2, <2>1 DEF Consent, Admits
<1>11. CASE Put(p) \/ Remove(p)
  <2>1. /\ UNCHANGED <<yes, up, down, result>> /\ pc'[p] = "done"
        /\ pc[p] = "put" \/ what[p] = "forget"
    BY <1>0, <1>11 DEF Put, Remove, InPlace
  <2> QED BY <1>0, <1>2, <2>1 DEF Consent, Admits
<1> QED BY <1>4, <1>5, <1>6, <1>7, <1>8, <1>9, <1>10, <1>11 DEF PairProcess

\* A session is never told that it is paired.
LEMMA SessionDowns ==
  ASSUME IInv, NEW p \in Commands, SessionStep(p), Has(down'[p], "paired")
  PROVE  Has(down[p], "paired")
<1> USE DEF elsewhere, wire, command, HangsUp
<1>0. DOMAIN down = Commands
  BY TurnFacts
<1>1. CASE TargetBye(p)
  <2>1. down' = Sent(down, p, "bye", "here")
    BY <1>1 DEF TargetBye
  <2> QED BY <2>1, DownSent DEF DownMessage
<1>2. CASE ~TargetBye(p)
  <2>1. down' \in {down, [down EXCEPT ![p] = <<>>]}
    <3>1. CASE Pick(p) \/ Dial(p) \/ Welcome(p) \/ Media(p) \/ Connected(p) \/ Search(p)
      BY <3>1 DEF Pick, Dial, Welcome, Media, Connected, Search, Fails
    <3>2. CASE Discover(p) \/ Probe(p) \/ Load(p) \/ Save(p) \/ Left(p) \/ Ended(p)
      BY <3>2 DEF Discover, Probe, Load, Save, Left, Ended, Shutdown
    <3>3. CASE ReadLoop(p) \/ PingLoop(p) \/ Leave(p)
      BY <3>3 DEF ReadLoop, PingLoop, Leave, Shutdown
    <3> QED BY <1>2, <3>1, <3>2, <3>3 DEF SessionStep, SessionProcess
  <2>2. down'[p] = down[p] \/ down'[p] = <<>>
    BY <1>0, <2>1
  <2> QED BY <2>2, EmptyHas
<1> QED BY <1>1, <1>2

\* A session or a check changes nothing that was agreed.
LEMMA SessionConsent == ASSUME IInv, NEW p \in Commands, SessionStep(p) PROVE Consent(p)'
<1>1. Consent(p)
  BY ConsentFacts
<1>2. UNCHANGED <<what, up, result, yes, server, reader, answers, accepted, admitted>>
  BY SessionAlone DEF device
<1>3. what[p] \in {"connect", "check"}
  BY SessionPlaces
<1>4. pc'[p] # "put"
  <2>1. InPlace(p)'
    BY PlacesKept DEF PlaceInv, Next, SessionStep
  <2> QED BY <1>2, <1>3, <2>1 DEF InPlace
<1> QED BY <1>1, <1>2, <1>3, <1>4, SessionDowns DEF Consent, Admits

\* The device says paired after it has recorded, and records a nearby pairing on both
\* users' answers: its reader takes a message for the confirmation only when it is one.
LEMMA DeviceConsent ==
  ASSUME IInv, NEW p \in Commands, DeviceStep(p) PROVE Consent(p)' /\ accepted \subseteq accepted'
<1>0. /\ Consent(p) /\ Turn(p)
      /\ DOMAIN down = Commands /\ DOMAIN up = Commands /\ DOMAIN server = Commands
      /\ DOMAIN reader = Commands /\ DOMAIN answers = Commands
      /\ UNCHANGED <<what, pc, result, yes>>
  BY ConsentFacts, DeviceAlone DEF DeviceFrame
<1>1. up[p] # <<>> => /\ Has(up[p], Head(up[p])) /\ Tail(up[p]) \in Seq(UpMessage)
                      /\ Len(Tail(up[p])) = Len(up[p]) - 1 /\ Len(up[p]) \in Nat
  BY ConsentFacts, HasFacts
<1> USE DEF DeviceStep, Serve, First, wire
<1>2. ASSUME UNCHANGED <<answers, accepted>>,
             server'[p] = "asking" /\ reader'[p] = "confirm" => up'[p] = <<>>,
             what[p] = "nearby" /\ (server'[p] = "admit" \/ Admits(p)') => p \in yes \cap accepted,
             Has(down'[p], "paired") => Has(down[p], "paired") \/ p \in admitted',
             admitted \subseteq admitted'
      PROVE  Consent(p)' /\ accepted \subseteq accepted'
  BY <1>0, <1>2 DEF Consent
<1>3. \A m \in {"reject", "code_commit", "code_reveal"} :
        Has(Sent(down, p, m, "here")[p], "paired") => Has(down[p], "paired")
  BY DownSent DEF DownMessage
<1>4. CASE TakePair(p)
  <2>1. /\ what[p] = "code" /\ server'[p] \in {"record", "off"}
        /\ UNCHANGED <<answers, accepted, admitted>>
        /\ down' = down \/ down' = Sent(down, p, "reject", "here")
    BY <1>0, <1>1, <1>4 DEF TakePair, Ends, Turn
  <2> QED BY <1>2, <1>3, <2>1
<1>5. CASE TakeNearby(p)
  <2>1. /\ server[p] = "read" /\ server'[p] \in {"nonce", "off"}
        /\ UNCHANGED <<answers, accepted, admitted>>
        /\ down' = Sent(down, p, "code_commit", "here") \/ down' = Sent(down, p, "reject", "here")
    BY <1>0, <1>5 DEF TakeNearby, Ends
  <2>2. p \notin admitted
    BY <1>0, <2>1 DEF Turn
  <2> QED BY <1>2, <1>3, <2>1, <2>2 DEF Admits
<1>6. CASE TakeNonce(p)
  <2>1. /\ server[p] = "nonce" /\ server'[p] = "asking" /\ up[p] # <<>> /\ up'[p] = Tail(up[p])
        /\ UNCHANGED <<answers, accepted, admitted>>
        /\ down' = Sent(down, p, "code_reveal", "here")
    BY <1>0, <1>6 DEF TakeNonce
  <2>2. p \notin admitted /\ Len(up[p]) <= 1
    BY <1>0, <2>1 DEF Turn, Deciding
  <2>3. up'[p] = <<>>
    BY <1>1, <2>1, <2>2, HasFacts
  <2> QED BY <1>2, <1>3, <2>1, <2>2, <2>3 DEF Admits
<1>7. CASE Decide(p)
  <2>1. /\ server[p] = "asking" /\ server'[p] = Outcome(p)
        /\ UNCHANGED <<answers, accepted, admitted, down>>
    BY <1>0, <1>7 DEF Decide
  <2>2. p \notin admitted /\ Outcome(p) \in {"admit", "cancel", "refuse"}
    BY <1>0, <2>1 DEF Turn, Deciding, Outcome
  <2>3. Outcome(p) = "admit" => Agreed(answers[p])
    BY DEF Outcome
  <2>4. Outcome(p) = "admit" => p \in yes \cap accepted
    BY <1>0, <2>3, AgreedIsBoth, ConsentFacts DEF Consent
  <2> QED BY <1>2, <2>1, <2>2, <2>4 DEF Admits
<1>8. CASE Admit(p)
  <2>1. /\ server[p] = "admit" /\ server'[p] = "record"
        /\ UNCHANGED <<answers, accepted, admitted, down>>
    BY <1>0, <1>8 DEF Admit
  <2> QED BY <1>0, <1>2, <2>1 DEF Consent
<1>9. CASE Record(p)
  <2>1. /\ server[p] = "record" /\ server'[p] \in {"finally", "off"}
        /\ UNCHANGED <<answers, accepted>> /\ admitted' = admitted \cup {p}
    BY <1>0, <1>9 DEF Record, Ends
  <2> QED BY <1>0, <1>2, <2>1 DEF Consent, Admits
<1>10. CASE Refuse(p) \/ Finally(p) \/ ServerLoses(p)
  <2>1. /\ server'[p] \in {"finally", "off"} /\ UNCHANGED <<answers, accepted, admitted>>
        /\ down' = down \/ down' = Sent(down, p, "reject", "here")
    BY <1>0, <1>10 DEF Refuse, Finally, ServerLoses
  <2> QED BY <1>0, <1>2, <1>3, <2>1 DEF Consent, Admits
<1>11. CASE Reader(p)
  <2>1. /\ server[p] = "asking" /\ UNCHANGED <<server, down, accepted, admitted>>
        /\ reader'[p] # "confirm"
        /\ \/ /\ reader[p] = "confirm" /\ up[p] # <<>>
              /\ answers'[p] = Append(answers[p], "confirmed")
           \/ answers'[p] = Append(answers[p], "gone")
    BY <1>0, <1>11 DEF Reader, Answer
  <2>2. \A n : \A a \in {"confirmed", "gone"} :
          Has(Append(answers[p], a), n) <=> Has(answers[p], n) \/ n = a
    <3>1. answers[p] \in Seq(Answering) /\ {"confirmed", "gone"} \subseteq Answering
      BY ConsentFacts DEF Answering
    <3> QED BY <3>1, HasFacts
  <2>3. /\ Has(answers'[p], "confirmed") => p \in yes
        /\ Has(answers'[p], "accepted") => p \in accepted
    BY <1>0, <2>1, <2>2 DEF Consent
  <2> QED BY <1>0, <2>1, <2>3 DEF Consent, Admits
<1>12. CASE UserAnswers(p)
  <2>1. /\ UNCHANGED <<server, reader, up, down, admitted>> /\ accepted \subseteq accepted'
        /\ \/ answers'[p] = Append(answers[p], "accepted") /\ p \in accepted'
           \/ answers'[p] = Append(answers[p], "declined")
    BY <1>0, <1>12 DEF UserAnswers, Answer
  <2>2. \A n : \A a \in {"accepted", "declined"} :
          Has(Append(answers[p], a), n) <=> Has(answers[p], n) \/ n = a
    <3>1. answers[p] \in Seq(Answering) /\ {"accepted", "declined"} \subseteq Answering
      BY ConsentFacts DEF Answering
    <3> QED BY <3>1, HasFacts
  <2>3. /\ Has(answers'[p], "confirmed") => p \in yes
        /\ Has(answers'[p], "accepted") => p \in accepted'
    BY <1>0, <2>1, <2>2 DEF Consent
  <2> QED BY <1>0, <2>1, <2>3 DEF Consent, Admits
<1> QED BY <1>4, <1>5, <1>6, <1>7, <1>8, <1>9, <1>10, <1>11, <1>12 DEF PairServer

\* So does any step: what was agreed stays an invariant.
LEMMA AgreedKept == ASSUME IInv, [Next]_vars PROVE AgreedInv'
<1>1. ASSUME NEW p \in Commands, PairStep(p) PROVE AgreedInv'
  BY <1>1, PairConsent, PairOthers, PairAlone, ConsentOthers
<1>2. ASSUME NEW p \in Commands, SessionStep(p) PROVE AgreedInv'
  <2>1. UNCHANGED <<what, yes, accepted, admitted>>
    BY <1>2, SessionAlone DEF device
  <2> QED BY <1>2, <2>1, SessionConsent, SessionOthers, ConsentOthers
<1>3. ASSUME NEW p \in Commands, DeviceStep(p) PROVE AgreedInv'
  <2>1. UNCHANGED <<what, yes>> /\ admitted' \in {admitted, admitted \cup {p}}
    BY <1>3, DeviceAlone, DeviceAdmits DEF DeviceFrame
  <2> QED BY <1>3, <2>1, DeviceConsent, DeviceOthers, ConsentOthers
<1>4. CASE UNCHANGED vars \/ Invites
  <2>1. UNCHANGED <<what, pc, result, yes, server, up, down, reader, answers, accepted, admitted>>
    BY <1>4, InvitesAlone DEF vars, pairVars, command, wire
  <2> QED BY <2>1 DEF IInv, AgreedInv, Consent, Admits
<1>5. CASE Breaks
  <2>1. UNCHANGED <<what, pc, result, yes, server, reader, answers, accepted, admitted>>
    BY <1>5, BreaksAlone DEF command, device
  <2>2. PICK P : Break(P)
    BY <1>5 DEF Breaks, Move, Cut
  <2>3. ASSUME NEW q \in Commands PROVE Consent(q)'
    <3>1. up'[q] \in {up[q], <<>>} /\ down'[q] \in {down[q], <<>>}
      BY <2>2 DEF Break
    <3> QED BY <2>1, <3>1, ConsentFacts, EmptyHas DEF Consent, Admits
  <2> QED BY <2>3 DEF AgreedInv
<1> QED BY <1>1, <1>2, <1>3, <1>4, <1>5, Steps

-----------------------------------------------------------------------------
(* The theorems. *)

\* The invariant holds in every state of every behaviour of Pairing and Peer.
THEOREM Inductive == Spec => []IInv
<1>1. ASSUME IInv, [Next]_vars PROVE IInv'
  <2>1. Types' /\ CountTypes' /\ PlaceInv' /\ SocketInv' /\ MetInv' /\ NameInv'
    BY <1>1, TypesKept, PlacesKept, SocketsKept, MetKept, NamesKept
  <2>2. CodeInv' /\ TurnInv' /\ AgreedInv'
    BY <1>1, CodeKept, TurnKept, AgreedKept
  <2> QED BY <2>1, <2>2 DEF IInv
<1> QED BY InitIInv, <1>1, PTL DEF Spec

\* Every variable keeps its type, for any commands, computers and bounds.
THEOREM TypeCorrect == Spec => []TypeOK
<1>1. IInv => TypeOK
  BY DEF IInv, Types, CountTypes, CommandTypes, FileTypes, WireTypes, SockTypes, DeviceTypes, Place,
         TypeOK
<1> QED BY Inductive, <1>1, PTL

\* A command that is over, and a session that ended, hold no connection open, whichever step
\* failed (fail, Close, shutdown, await).
THEOREM NothingLeftOpenCorrect == Spec => []NothingLeftOpen
<1>1. IInv => NothingLeftOpen
  BY DEF IInv, SocketInv, NothingLeftOpen
<1> QED BY Inductive, <1>1, PTL

\* A record leads to the device itself and a session is with nobody else, however the devices
\* exchange their addresses (connectPeer, printPeers, UpdateExisting).
THEOREM RightDeviceCorrect == Spec => []RightDevice
<1>1. IInv => RightDevice
  BY DEF IInv, MetInv, RightDevice
<1> QED BY Inductive, <1>1, PTL

\* An invitation's code admits one computer, and an open invitation has admitted none and has
\* failures left, however many try at once (handlePair, countNearbyFailure).
THEOREM CodeWorksOnceCorrect == Spec => []CodeWorksOnce
<1>1. IInv => CodeWorksOnce
  BY DEF IInv, Types, DeviceTypes, CodeInv, Admits, CodeWorksOnce
<1> QED BY Inductive, <1>1, PTL

\* A nearby pairing is recorded only when both users agreed to it, and a computer keeps a record
\* only if the device has one too (awaitNearbyAnswers, completePairing, Put).
THEOREM BothAgreedCorrect == Spec => []BothAgreed
<1>1. ASSUME IInv PROVE BothAgreed
  <2>1. ASSUME NEW p \in admitted, what[p] = "nearby" PROVE p \in yes \cap accepted
    BY <1>1, <2>1, ConsentFacts DEF IInv, Types, DeviceTypes, Consent, Admits
  <2>2. ASSUME NEW p \in Commands, what[p] \in {"code", "nearby"}, pc[p] \in {"put", "done"}
        PROVE  p \in admitted /\ (identity[Home[p]] \in trusted \/ TwoIdentities(Home[p]))
    <3>1. p \in admitted
      BY <1>1, <2>2, ConsentFacts DEF Consent
    <3> QED BY <1>1, <3>1 DEF IInv, NameInv
  <2> QED BY <2>1, <2>2 DEF BothAgreed
<1> QED BY Inductive, <1>1, PTL
=============================================================================
