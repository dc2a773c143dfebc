-------------------------------- MODULE Peer --------------------------------
(***************************************************************************)
(* A computer's use of a paired device, beside the pairing of Pairing:     *)
(* scterm --peer (connectPeer, Client.Connect and the life of a Session)   *)
(* and scterm peers --check (printPeers, Probe).  Both dial with the       *)
(* device's pinned identity, may find that it has moved, and then save its *)
(* new address if the record still has the old one.  Each runs as a        *)
(* process of its own, so UpdateExisting loads peers.json in one step and  *)
(* replaces it in a later one.                                             *)
(*                                                                         *)
(* The device's side of a session is TargetSessions; here it welcomes or   *)
(* refuses, grants media, and ends the session when it likes.  Pings, the  *)
(* lease and the device's messages change nothing here.                    *)
(***************************************************************************)
EXTENDS Pairing

VARIABLES
  saved,    \* the place that the process found in its record
  media,    \* the media channels it has still to open
  met,      \* the devices its session is connected to
  probes,   \* the places a check has still to probe
  closing,  \* the sessions whose Close has begun
  reason    \* why a session ended, by shutdown's first caller

sessVars == <<saved, media, met, probes, closing, reason>>
vars == <<pairVars, sessVars>>

Init ==
  /\ PairInit
  /\ saved = [p \in Commands |-> 0] /\ media = [p \in Commands |-> {}]
  /\ met = [p \in Commands |-> {}] /\ probes = [p \in Commands |-> <<>>]
  /\ closing = {} /\ reason = [p \in Commands |-> "none"]

\* What these commands leave alone of the pairing.
elsewhere == <<what, typed, result, yes, up, world, device>>

\* pickPeer; or the record a check starts from.
Pick(p) ==
  /\ what[p] \in {"connect", "check"} /\ pc[p] = "start"
  /\ LET place == store[Home[p]] IN
       /\ saved' = [saved EXCEPT ![p] = place]
       /\ goal' = [goal EXCEPT ![p] = place]
       /\ Goto(p, IF ~Known(Home[p]) THEN "failed"
                  ELSE IF what[p] = "check" THEN "discover" ELSE "dial")
  /\ UNCHANGED <<elsewhere, wire, store, proven, media, met, probes, closing, reason>>

\* Mutant: the dial trusts whoever has the address.
ReachesAny(p, place) == place # 0 /\ place \in {at, other}

\* dial with the pin: only the device itself passes.
Reaches(p, place) == place # 0 /\ place = at
Proves(p, place) ==
  /\ proven' = [proven EXCEPT ![Home[p]] = @ \cup ({place} \cap {at})]
  /\ met' = [met EXCEPT ![p] = @ \cup {IF place = at THEN "device" ELSE "other"}]
Opens(p, channel) == socks' = [socks EXCEPT ![p] = @ \cup {channel}]

\* Mutant: only the control connection is closed.
FailsHalf(p, refused) ==
  /\ socks' = [socks EXCEPT ![p] = @ \ {"control"}]
  /\ line' = [line EXCEPT ![p] = @ \ {"here"}] /\ down' = [down EXCEPT ![p] = <<>>]
  /\ media' = [media EXCEPT ![p] = {}] /\ met' = [met EXCEPT ![p] = {}]
  /\ Goto(p, IF refused \/ goal[p] # saved[p] THEN "failed" ELSE "search")

\* Client.Connect fails: fail closes what it had opened.  A refusal is final;
\* anything else may mean that the device moved, and one other address is tried.
Fails(p, refused) ==
  /\ HangsUp(p) /\ media' = [media EXCEPT ![p] = {}] /\ met' = [met EXCEPT ![p] = {}]
  /\ Goto(p, IF refused \/ goal[p] # saved[p] THEN "failed" ELSE "search")

Dial(p) ==
  /\ At(p, "connect", "dial")
  /\ IF Reaches(p, goal[p])
       THEN /\ Opens(p, "control") /\ Proves(p, goal[p])
            /\ line' = [line EXCEPT ![p] = {"here", "there"}]
            /\ Goto(p, "welcome") /\ UNCHANGED <<down, media>>
       ELSE Fails(p, FALSE) /\ UNCHANGED proven
  /\ UNCHANGED <<elsewhere, goal, store, saved, probes, closing, reason>>

\* The device answers hello: it refuses a computer it does not know, and any
\* other when it is not ready.  The welcome says which media to open.
Welcome(p) ==
  /\ pc[p] = "welcome"
  /\ \/ /\ "there" \in line[p] /\ me[p] \in trusted
        /\ \E m \in SUBSET {"video", "audio"} : media' = [media EXCEPT ![p] = m]
        /\ Goto(p, "media") /\ UNCHANGED <<socks, line, down, met>>
     \/ "there" \in line[p] /\ Fails(p, TRUE)
     \/ "there" \notin line[p] /\ Fails(p, FALSE)
  /\ UNCHANGED <<elsewhere, goal, store, proven, saved, probes, closing, reason>>

\* openMedia, video first.  A device that has ended the session meanwhile
\* refuses its token.
Media(p) ==
  /\ pc[p] = "media" /\ media[p] # {}
  /\ LET channel == IF "video" \in media[p] THEN "video" ELSE "audio" IN
       \/ /\ Reaches(p, goal[p]) /\ Opens(p, channel) /\ Proves(p, goal[p])
          /\ media' = [media EXCEPT ![p] = @ \ {channel}] /\ UNCHANGED <<pc, line, down>>
       \/ Reaches(p, goal[p]) /\ Fails(p, TRUE) /\ UNCHANGED proven
       \/ ~Reaches(p, goal[p]) /\ Fails(p, FALSE) /\ UNCHANGED proven
  /\ UNCHANGED <<elsewhere, goal, store, saved, probes, closing, reason>>

\* newSession, once all is open.
Connected(p) ==
  /\ pc[p] = "media" /\ media[p] = {}
  /\ Goto(p, IF goal[p] = saved[p] THEN "live" ELSE "load")
  /\ UNCHANGED <<elsewhere, goal, wire, store, proven, sessVars>>

\* The presence search of connectPeer; the device may go on moving after it.
Search(p) ==
  /\ pc[p] = "search"
  /\ \E found \in Answers(Advertised \ {saved[p]}) :
       IF found = {}
         THEN Goto(p, "failed") /\ UNCHANGED goal
         ELSE Goto(p, "dial") /\ \E place \in found : goal' = [goal EXCEPT ![p] = place]
  /\ UNCHANGED <<elsewhere, wire, store, proven, sessVars>>

\* printPeers: the candidates of the search are probed before the saved address.
Discover(p) ==
  /\ pc[p] = "discover"
  /\ \E found \in Answers(Advertised \ {saved[p]}) :
       probes' = [probes EXCEPT ![p] = [n \in 1 .. Cardinality(found) |-> at] \o <<saved[p]>>]
  /\ Goto(p, "probe")
  /\ UNCHANGED <<elsewhere, goal, wire, store, proven, saved, media, met, closing, reason>>

\* Client.Probe: a device that is reached shows its state to a computer that it
\* knows, or refuses; or no answer comes, or one that does not parse.
ProbeEnds(p, place) ==
  (IF Reaches(p, place) THEN {IF me[p] \in trusted THEN "result" ELSE "reject"} ELSE {})
    \cup {"error"}

\* A refusal ends the tries, as a result does.
Probe(p) ==
  /\ pc[p] = "probe"
  /\ LET place == Head(probes[p]) IN \E end \in ProbeEnds(p, place) :
       /\ IF end = "result"
            THEN Proves(p, place) /\ goal' = [goal EXCEPT ![p] = place]
            ELSE UNCHANGED <<proven, met, goal>>
       /\ probes' = [probes EXCEPT ![p] = Tail(@)]
       /\ Goto(p, IF end = "result" THEN "load"
                  ELSE IF end = "reject" \/ probes'[p] = <<>> THEN "done" ELSE "probe")
  /\ UNCHANGED <<elsewhere, wire, store, saved, media, closing, reason>>

Updated(p) == IF what[p] = "connect" THEN "live" ELSE "done"

\* UpdateExisting: the record must be there, with the address this began with.
\* A check may also have other news of the device to save.
Load(p) ==
  /\ pc[p] = "load"
  /\ \/ /\ store[Home[p]] = saved[p] /\ (goal[p] # saved[p] \/ what[p] = "check")
        /\ Goto(p, "save")
     \/ (store[Home[p]] # saved[p] \/ goal[p] = saved[p]) /\ Goto(p, Updated(p))
  /\ UNCHANGED <<elsewhere, goal, wire, store, proven, sessVars>>

Save(p) ==
  /\ pc[p] = "save"
  /\ Replaces(Home[p], goal[p]) /\ Goto(p, Updated(p))
  /\ UNCHANGED <<elsewhere, goal, wire, proven, sessVars>>

-----------------------------------------------------------------------------
(* The session's life: pc is "live", or "leaving" while Close waits *)

Open(p) == pc[p] \in {"live", "leaving"} /\ socks[p] # {}

\* shutdown, once: its first caller closes everything and says why.
Shutdown(p, why) ==
  /\ HangsUp(p)
  /\ reason' = [reason EXCEPT ![p] = IF p \in closing THEN "closed" ELSE why]

\* The device says bye, and closes.
TargetBye(p) ==
  /\ Surprise /\ Open(p) /\ "there" \in line[p]
  /\ down' = Sent(down, p, "bye", "here")
  /\ line' = [line EXCEPT ![p] = @ \ {"there"}]
  /\ UNCHANGED <<command, socks, up, store, proven, at, other, ids, device, sessVars>>

\* readLoop: a bye, the end of the stream, or no answer in time.
ReadLoop(p) ==
  /\ Open(p)
  /\ \/ down[p] # <<>> /\ Shutdown(p, Head(down[p]))
     \/ Lost(down, p, "there") /\ Shutdown(p, "lost")
  /\ UNCHANGED <<command, up, store, proven, world, device, saved, media, met, probes, closing>>

\* pingLoop: its ping cannot be written, although a bye may still be unread.
PingLoop(p) ==
  /\ Open(p) /\ "there" \notin line[p] /\ Shutdown(p, "lost")
  /\ UNCHANGED <<command, up, store, proven, world, device, saved, media, met, probes, closing>>

\* Close by the user's quit: nothing when the session has ended, else bye.
Leave(p) ==
  /\ pc[p] = "live" /\ socks[p] # {}
  /\ closing' = closing \cup {p} /\ Goto(p, "leaving")
  /\ UNCHANGED <<elsewhere, goal, wire, store, proven, saved, media, met, probes, reason>>

\* The device read the bye and closed, or it had its second.
Left(p) ==
  /\ pc[p] = "leaving"
  /\ Goto(p, "done")
  /\ IF reason[p] = "none" THEN Shutdown(p, "closed")
                           ELSE UNCHANGED <<socks, line, down, reason>>
  /\ UNCHANGED <<elsewhere, goal, store, proven, saved, media, met, probes, closing>>

\* The program ends when its session has.
Ended(p) ==
  /\ pc[p] = "live" /\ reason[p] # "none"
  /\ Goto(p, "done")
  /\ UNCHANGED <<elsewhere, goal, wire, store, proven, sessVars>>

-----------------------------------------------------------------------------
SessionProcess(p) ==
  \/ Pick(p) \/ Dial(p) \/ Welcome(p) \/ Media(p) \/ Connected(p) \/ Search(p)
  \/ Discover(p) \/ Probe(p) \/ Load(p) \/ Save(p) \/ Left(p) \/ Ended(p)

Next ==
  \/ PairNext /\ UNCHANGED sessVars
  \/ \E p \in Commands : SessionProcess(p) \/ ReadLoop(p) \/ PingLoop(p) \/ TargetBye(p) \/ Leave(p)

\* Every thread goes on; users, and the device's wish to end, do as they like.
Fairness ==
  \A p \in Commands :
    /\ WF_vars(PairProcess(p) /\ UNCHANGED sessVars)
    /\ WF_vars(PairServer(p) /\ UNCHANGED sessVars)
    /\ WF_vars(Reader(p) /\ UNCHANGED sessVars)
    /\ WF_vars(SessionProcess(p))
    /\ WF_vars(ReadLoop(p))
Spec == Init /\ [][Next]_vars /\ Fairness

-----------------------------------------------------------------------------
TypeOK ==
  /\ pc \in [Commands -> {"open", "create", "start", "remove", "reply", "dial", "commit", "reveal",
                          "shown", "confirmed", "put", "welcome", "media", "search", "discover",
                          "probe", "load",
                          "save", "live", "leaving"} \cup Over]
  /\ server \in [Commands -> {"off", "read", "nonce", "asking", "admit", "record", "refuse",
                              "cancel", "finally"}]
  /\ store \in [Computers -> Places \cup {0}] /\ proven \in [Computers -> SUBSET Places]
  /\ at \in Places \cup {0} /\ other \in Places \cup {0}
  /\ socks \in [Commands -> SUBSET {"pair", "control", "video", "audio"}]
  /\ invitation \in 0 .. invited /\ busy \subseteq Invitations

\* Two first commands of a computer ran at once, and each made an identity.
TwoIdentities(c) ==
  \E p, q \in Commands : p # q /\ Home[p] = c /\ Home[q] = c /\ me[p] = p /\ me[q] = q

\* A computer keeps a record of a pairing only if the device recorded it too,
\* under the identity that the computer will use, unless two first commands made
\* one each; and the device records a nearby one only when both users agreed to
\* that request (await, awaitNearbyAnswers, LoadOrCreateIdentity).
BothAgreed ==
  /\ \A p \in admitted : what[p] = "nearby" => p \in yes \cap accepted
  /\ \A p \in Commands :
       what[p] \in {"code", "nearby"} /\ pc[p] \in {"put", "done"} =>
         /\ p \in admitted
         /\ identity[Home[p]] \in trusted \/ TwoIdentities(Home[p])

\* An invitation's code admits one computer, whoever else tries it at the same
\* time; an open one has admitted none and has failures left (handlePair).
CodeWorksOnce ==
  /\ \A p, q \in admitted : what[p] = "code" /\ what[q] = "code" /\ p # q => held[p] # held[q]
  /\ invitation # 0 =>
       /\ failures[invitation] < MaxFailures
       /\ \A p \in admitted : held[p] # invitation

\* A record's address is one where the device itself was met, and a session's
\* channels all lead to it, although devices exchange their addresses between
\* the search, the dials and the save (connectPeer, printPeers).
RightDevice ==
  /\ \A c \in Computers : store[c] # 0 => store[c] \in proven[c]
  /\ \A p \in Commands : pc[p] \in {"load", "save", "live"} => met[p] = {"device"}

\* A command that is over holds no connection open, and a session that ended
\* none either, whichever of its steps failed or goroutines ended it.
NothingLeftOpen ==
  \A p \in Commands : pc[p] \in Over \/ reason[p] # "none" => socks[p] = {}

\* A process that has more to do than wait for a user or for a device that keeps
\* its session, and a request that is on the device's screen.
Pending(p) ==
  \/ what[p] \in {"nearby", "check", "forget"} /\ pc[p] \notin Over
  \/ pc[p] = "reply"
  \/ what[p] = "connect" /\ pc[p] \notin Over
     /\ (Open(p) => p \in closing \/ "there" \notin line[p])
  \/ p \in asking

\* Every command comes to its end whatever the other side does, except a session
\* nobody leaves and that the device keeps; and a request is taken off the
\* device's screen (Client.Pair, await, Connect, readLoop, Close).
CommandsEnd == \A p \in Commands : Pending(p) ~> ~Pending(p)

\* The device asks its user about one request at a time for an invitation.
OneRequestAtATime ==
  \A p, q \in asking :
    server[p] = "asking" /\ server[q] = "asking" /\ held[p] = held[q] => p = q
=============================================================================
