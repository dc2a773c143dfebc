--------------------------- MODULE TerminalProofs ---------------------------
(***************************************************************************)
(* Proofs about Terminal and Link, for any terminal sizes, pictures, queue *)
(* and number of surprises: what a session leaves on the device and here,  *)
(* which socket is joined to which, that the terminal is given back, and   *)
(* which size and which picture a frame that is painted has.               *)
(***************************************************************************)
EXTENDS Terminal, SequenceTheorems, TLAPS

(***************************************************************************)
(* The order of the sockets.                                               *)
(***************************************************************************)
\* Foremost is a member, and none comes before it.
LEMMA ForemostIs ==
  ASSUME NEW S, S \subseteq Kinds, S # {}
  PROVE  Foremost(S) \in S /\ \A j \in S : Rank[Foremost(S)] <= Rank[j]
<1>1. \E k \in S : \A j \in S : Rank[k] <= Rank[j]
  <2>1. CASE "video" \in S
    BY <2>1 DEF Kinds, Rank
  <2>2. CASE "video" \notin S /\ "audio" \in S
    BY <2>2 DEF Kinds, Rank
  <2>3. CASE S = {"control"}
    BY <2>3 DEF Kinds, Rank
  <2> QED BY <2>1, <2>2, <2>3 DEF Kinds
<1> QED BY <1>1 DEF Foremost

\* No two kinds have the same place.
LEMMA RankIs ==
  ASSUME NEW j \in Kinds, NEW k \in Kinds
  PROVE  /\ Rank[j] \in Nat /\ Rank[k] \in Nat
         /\ j # k => Rank[j] < Rank[k] \/ Rank[k] < Rank[j]
BY DEF Kinds, Rank

\* The foremost of the rest comes after the part that leads.
LEMMA ForemostOfRest ==
  ASSUME NEW W, W \subseteq Kinds, NEW S, S \subseteq W, S # W,
         \A k \in S, j \in W : Rank[j] < Rank[k] => j \in S
  PROVE  /\ Foremost(W \ S) \in W \ S
         /\ \A j \in W : Rank[j] < Rank[Foremost(W \ S)] => j \in S
         /\ \A j \in S : Rank[j] < Rank[Foremost(W \ S)]
<1>1. PICK f \in W \ S : f = Foremost(W \ S) /\ \A j \in W \ S : Rank[f] <= Rank[j]
  BY ForemostIs
<1>2. \A j \in W : Rank[j] < Rank[f] => j \in S
  BY <1>1, RankIs
<1>3. \A j \in S : Rank[j] < Rank[f]
  BY <1>1, RankIs
<1> QED BY <1>1, <1>2, <1>3

\* q lists the kinds of S, each once and in their order.
InLine(q, S) ==
  /\ \A i \in 1..Len(q) : q[i] \in S
  /\ \A k \in S : \E i \in 1..Len(q) : q[i] = k
  /\ \A i, j \in 1..Len(q) : i < j => Rank[q[i]] < Rank[q[j]]

\* Who is at the front of the line is the foremost in it; the others stay in line.
LEMMA HeadOfLine ==
  ASSUME NEW q \in Seq(Kinds \cup {"first"}), q # <<>>, NEW S, S \subseteq Kinds, InLine(q, S)
  PROVE  /\ Head(q) \in S /\ \A k \in S : Rank[Head(q)] <= Rank[k]
         /\ InLine(Tail(q), S \ {Head(q)})
<1>1. Len(q) \in Nat /\ Len(q) > 0 /\ Head(q) = q[1] /\ Len(Tail(q)) = Len(q) - 1
      /\ \A i \in 1..Len(q) - 1 : Tail(q)[i] = q[i + 1]
  OBVIOUS
<1>2. Head(q) \in S
  BY <1>1 DEF InLine
<1>3. \A i \in 1..Len(q) : i > 1 => Rank[q[1]] < Rank[q[i]]
  BY <1>1 DEF InLine
<1>4. \A k \in S : k = Head(q) \/ Rank[Head(q)] < Rank[k]
  BY <1>1, <1>3 DEF InLine
<1>5. \A k \in S : Rank[Head(q)] <= Rank[k]
  BY <1>2, <1>4, RankIs
<1>6. \A i \in 1..Len(Tail(q)) : Tail(q)[i] \in S \ {Head(q)}
  <2> SUFFICES ASSUME NEW i \in 1..Len(q) - 1 PROVE q[i + 1] \in S \ {q[1]}
    BY <1>1
  <2>1. q[i + 1] \in S /\ Rank[q[1]] < Rank[q[i + 1]]
    BY <1>1, <1>3 DEF InLine
  <2> QED BY <2>1, <1>1, <1>2, RankIs
<1>7. \A k \in S \ {Head(q)} : \E i \in 1..Len(Tail(q)) : Tail(q)[i] = k
  <2> TAKE k \in S \ {Head(q)}
  <2>1. PICK i \in 1..Len(q) : q[i] = k
    BY DEF InLine
  <2>2. i - 1 \in 1..Len(Tail(q)) /\ Tail(q)[i - 1] = k
    BY <2>1, <1>1
  <2> QED BY <2>2
<1>8. \A i, j \in 1..Len(Tail(q)) : i < j => Rank[Tail(q)[i]] < Rank[Tail(q)[j]]
  BY <1>1 DEF InLine
<1> QED BY <1>2, <1>5, <1>6, <1>7, <1>8 DEF InLine

\* Who comes after everybody in line goes to its end.
LEMMA EndOfLine ==
  ASSUME NEW q \in Seq(Kinds \cup {"first"}), NEW S, S \subseteq Kinds, InLine(q, S),
         NEW k \in Kinds, \A j \in S : Rank[j] < Rank[k]
  PROVE  InLine(Append(q, k), S \cup {k})
<1>1. Len(q) \in Nat /\ Len(Append(q, k)) = Len(q) + 1 /\ Append(q, k)[Len(q) + 1] = k
      /\ \A i \in 1..Len(q) : Append(q, k)[i] = q[i]
  OBVIOUS
<1>2. \A i \in 1..Len(Append(q, k)) : Append(q, k)[i] \in S \cup {k}
  BY <1>1 DEF InLine
<1>3. \A j \in S \cup {k} : \E i \in 1..Len(Append(q, k)) : Append(q, k)[i] = j
  <2> TAKE j \in S \cup {k}
  <2>1. CASE j = k
    BY <2>1, <1>1
  <2>2. CASE j \in S
    <3>1. PICK i \in 1..Len(q) : q[i] = j
      BY <2>2 DEF InLine
    <3> QED BY <3>1, <1>1
  <2> QED BY <2>1, <2>2
<1>4. \A i, j \in 1..Len(Append(q, k)) : i < j => Rank[Append(q, k)[i]] < Rank[Append(q, k)[j]]
  BY <1>1 DEF InLine
<1> QED BY <1>2, <1>3, <1>4 DEF InLine

\* The empty line has nobody in it.
LEMMA EmptyLine ==
  ASSUME NEW q, q = <<>>
  PROVE  InLine(q, {}) /\ \A i \in 1..Len(q) : q[i] # "first"
BY DEF InLine

\* And it is the only one.
LEMMA NobodyInLine ==
  ASSUME NEW q \in Seq(Kinds \cup {"first"})
  PROVE  InLine(q, {}) <=> q = <<>>
BY DEF InLine

(***************************************************************************)
(* The invariant of the link.                                              *)
(***************************************************************************)
OpenSockets == {k \in Kinds : host[k] # "closed"}

\* The sockets that the server has or can get: the open ones, and the one whose
\* dummy byte has been sent.
Reachable == OpenSockets \cup ({trying} \cap Kinds)

\* A part of the wanted sockets that lacks none before one it has.
Leading(S) == S \subseteq want /\ \A k \in S, j \in want : Rank[j] < Rank[k] => j \in S

Started == step \notin {"push", "reverse", "forward", "launch"}
Bringing == step \in {"connect", "dummy", "meta", "untunnel", "up"}
Closed == step \in {"kill", "gone"}

\* What is open at each place of start, connect and stop.
Places ==
  /\ step \in {"push", "reverse", "forward"} => tunnel = "none" /\ ~listener /\ ~forwardMode
  /\ ~Started => server = "none" /\ host = NoSockets /\ queue = <<>> /\ joined = {}
  /\ trying # "closed" => step = "dummy" /\ host = NoSockets
  /\ step = "dummy" => forwardMode /\ trying # "closed"
  /\ step \in {"sockets", "kill", "gone"} => tunnel = "none" /\ ~listener
  /\ Closed => host = NoSockets
  /\ step = "gone" => server \in {"none", "exited"}
  /\ server = "listening" => forwardMode
  /\ step \in {"connect", "dummy"} => Missing # {}
  /\ step \in {"meta", "untunnel", "up"} => Missing = {}
  /\ step \in {"untunnel", "up"} => Complete

\* Which sockets are at the ends of which, and who waits in the queue.
Pairs ==
  /\ Leading(joined) /\ Leading(Reachable)
  /\ \A k \in Kinds : host[k] \in Kinds => host[k] = k
  /\ Bringing => \A k \in joined \cap OpenSockets : host[k] = k
  /\ trying \in Kinds => trying = Foremost(want) /\ trying \in joined
  /\ IF trying = "waiting" THEN queue = <<"first">> /\ joined = {}
                           ELSE \A i \in 1..Len(queue) : queue[i] # "first"
  /\ Bringing /\ ~forwardMode => OpenSockets \subseteq joined /\ InLine(queue, joined \ OpenSockets)
  /\ Bringing /\ forwardMode => joined \subseteq Reachable
  /\ server = "started" /\ forwardMode =>
       queue = <<>> /\ joined = {} /\ host = NoSockets /\ trying \in {"closed", "hung up"}
  /\ server = "listening" /\ ~Closed /\ trying # "waiting" => InLine(queue, Reachable \ joined)

\* LinkTypeOK, the Booleans apart from the others.
LinkFlags ==
  forwardMode \in BOOLEAN /\ listener \in BOOLEAN /\ late \in BOOLEAN /\ plugged \in BOOLEAN
LinkTypes ==
  /\ want \in (SUBSET Kinds) \ {{}}
  /\ step \in {"push", "reverse", "forward", "launch", "connect", "dummy", "meta",
               "untunnel", "up", "stop", "sockets", "kill", "gone"}
  /\ tunnel \in {"none", "reverse", "forward"}
  /\ server \in {"none", "started", "listening", "serving", "exited"}
  /\ host \in [Kinds -> Ends] /\ trying \in Ends
  /\ queue \in Seq(Kinds \cup {"first"}) /\ joined \subseteq want

LinkInv == LinkTypes /\ Places /\ Pairs

\* The session's end, which main and the run loop bring about.
Stops ==
  /\ step = "up" /\ step' = "stop"
  /\ UNCHANGED <<want, forwardMode, tunnel, listener, server, wires, late, plugged>>

LinkMoves == HostStep \/ ServerStep \/ Deadline \/ ServerExits \/ Unplug \/ Stops

\* Nothing is open before start.
LEMMA LinkStart == LinkInit => LinkInv
<1> SUFFICES ASSUME LinkInit PROVE LinkInv
  OBVIOUS
<1> USE DEF LinkInit, NoSockets
<1>1. LinkTypes
  BY DEF LinkTypes, Ends, Kinds
<1>2. Places
  BY DEF Places, Started, Closed, Missing
<1>3. OpenSockets = {} /\ Reachable = {}
  BY DEF OpenSockets, Reachable, Kinds
<1>4. Pairs
  BY <1>3, NobodyInLine DEF Pairs, Leading, Bringing, InLine, Kinds
<1> QED BY <1>1, <1>2, <1>4 DEF LinkInv

\* Where the next socket of each side stands among the others.
LEMMA NextSocket ==
  ASSUME LinkInv
  PROVE  /\ want \subseteq Kinds /\ OpenSockets \subseteq want
         /\ Missing # {} => /\ Opening \in want \ OpenSockets
                            /\ \A j \in want : Rank[j] < Rank[Opening] => j \in OpenSockets
                            /\ \A j \in OpenSockets : Rank[j] < Rank[Opening]
         /\ ~Complete => /\ Joining \in want \ joined
                         /\ \A j \in want : Rank[j] < Rank[Joining] => j \in joined
                         /\ \A j \in joined : Rank[j] < Rank[Joining]
<1> USE DEF LinkInv, LinkTypes, Pairs
<1>1. want \subseteq Kinds /\ joined \subseteq want /\ OpenSockets \subseteq want
  BY DEF Leading, Reachable
<1>2. Leading(OpenSockets)
  BY <1>1 DEF Leading, Reachable, Places, OpenSockets, NoSockets, Kinds
<1>3. ASSUME NEW S, Leading(S), S # want
      PROVE  /\ Foremost(want \ S) \in want \ S
             /\ \A j \in want : Rank[j] < Rank[Foremost(want \ S)] => j \in S
             /\ \A j \in S : Rank[j] < Rank[Foremost(want \ S)]
  BY <1>1, <1>3, ForemostOfRest DEF Leading
<1>4. Missing = want \ OpenSockets
  BY <1>1 DEF Missing, OpenSockets
<1>5. Missing # {} => OpenSockets # want
  BY <1>4
<1> QED BY <1>1, <1>2, <1>3, <1>4, <1>5 DEF Opening, Joining, Complete

\* Facts about queues, for the types.
LEMMA NobodyThere == <<>> \in Seq(Kinds \cup {"first"})
OBVIOUS

\* The front of a queue and the rest.
LEMMA FrontOf ==
  ASSUME NEW X, NEW q \in Seq(X), q # <<>>
  PROVE  1 \in 1..Len(q) /\ Head(q) = q[1] /\ Head(q) \in X /\ Tail(q) \in Seq(X)
<1>1. Len(q) \in Nat /\ Len(q) # 0
  OBVIOUS
<1>2. 1 \in 1..Len(q) /\ Head(q) = q[1]
  BY <1>1
<1>3. q[1] \in X
  BY <1>2
<1>4. Tail(q) \in Seq(X)
  OBVIOUS
<1> QED BY <1>2, <1>3, <1>4

\* The rest of a queue is the queue, from its second place on.
LEMMA RestOf ==
  ASSUME NEW X, NEW q \in Seq(X), q # <<>>, NEW i \in 1..Len(Tail(q))
  PROVE  i + 1 \in 1..Len(q) /\ Tail(q)[i] = q[i + 1]
<1>1. Len(q) \in Nat /\ Len(q) # 0 /\ Len(Tail(q)) = Len(q) - 1
  OBVIOUS
<1> QED BY <1>1

\* The entry that is taken from the queue.
LEMMA FrontOfQueue ==
  ASSUME LinkInv, queue # <<>>
  PROVE  /\ Head(queue) \in Kinds \cup {"first"} /\ Tail(queue) \in Seq(Kinds \cup {"first"})
         /\ Head(queue) = "first" => trying = "waiting"
<1>1. queue \in Seq(Kinds \cup {"first"})
  BY DEF LinkInv, LinkTypes
<1>2. 1 \in 1..Len(queue) /\ Head(queue) = queue[1] /\ Head(queue) \in Kinds \cup {"first"}
      /\ Tail(queue) \in Seq(Kinds \cup {"first"})
  BY <1>1, FrontOf
<1>3. trying # "waiting" => \A i \in 1..Len(queue) : queue[i] # "first"
  BY DEF LinkInv, Pairs
<1> QED BY <1>1, <1>2, <1>3

\* A queue that somebody joins is a queue.
LEMMA JoinsQueue ==
  ASSUME LinkInv, NEW k \in Kinds \cup {"first"}
  PROVE  Append(queue, k) \in Seq(Kinds \cup {"first"})
BY DEF LinkInv, LinkTypes

\* The link keeps its types, whoever moves.
LEMMA LinkTyped ==
  ASSUME LinkInv, LinkMoves PROVE LinkTypes'
<1> USE DEF LinkInv, LinkTypes, wires, Go, CloseTunnel, Ends
<1>1. CASE Push \/ OpenReverse \/ ReverseFails \/ OpenForward \/ Launch
  BY <1>1 DEF Push, OpenReverse, ReverseFails, OpenForward, Launch
<1>2. step \in {"connect", "dummy"} => Opening \in Kinds
  BY NextSocket DEF Places
<1>3. ~Complete => Joining \in Kinds /\ joined \cup {Joining} \subseteq want
  BY NextSocket
<1>4. CASE Accept
  <2>1. Head(queue) \in Ends
    BY <1>4, FrontOfQueue DEF Accept, Places
  <2> QED BY <1>2, <1>4, <2>1, FrontOfQueue DEF Accept, Open
<1>5. CASE Dial
  <2>1. Opening \in Kinds
    BY <1>2, <1>5 DEF Dial
  <2>2. queue' \in Seq(Kinds \cup {"first"})
    <3>1. queue' \in {queue, Append(queue, "first"), Append(queue, Opening)}
      BY <1>5 DEF Dial
    <3> QED BY <2>1, <3>1, JoinsQueue
  <2> QED BY <1>5, <2>1, <2>2 DEF Dial, Open, Reached
<1>6. CASE DummyByte
  BY <1>2, <1>6 DEF DummyByte, Open
<1>7. CASE NoDummyByte \/ WaitFails \/ Meta \/ Untunnel
  <2>1. CASE NoDummyByte
    <3>1. step' \in {"stop", "connect"} /\ queue' = <<>> /\ trying' = "closed"
          /\ UNCHANGED <<want, tunnel, server, host, joined>>
      BY <2>1 DEF NoDummyByte
    <3>2. queue' \in Seq(Kinds \cup {"first"})
      BY <3>1, NobodyThere
    <3> QED BY <3>1, <3>2
  <2> QED BY <1>7, <2>1 DEF WaitFails, Meta, Untunnel
<1>8. CASE StopTunnel \/ StopSockets \/ StopServer \/ Stops
  BY <1>8 DEF StopTunnel, StopSockets, StopServer, Stops, NoSockets
<1>9. CASE ServerConnects
  <2>1. queue' \in Seq(Kinds \cup {"first"})
    BY <1>3, <1>9, JoinsQueue DEF ServerConnects, Join
  <2> QED BY <1>3, <1>9, <2>1 DEF ServerConnects, Join
<1>10. CASE ServerListens \/ ServerExits \/ Unplug \/ Deadline
  BY <1>10 DEF ServerListens, ServerExits, Unplug, Deadline
<1>11. CASE ServerAccepts
  <2>1. queue' \in Seq(Kinds \cup {"first"}) /\ joined' \subseteq want
    BY <1>3, <1>11, FrontOfQueue DEF ServerAccepts, Join
  <2>2. host' \in [Kinds -> Ends] /\ trying' \in Ends
    BY <1>3, <1>11, FrontOfQueue DEF ServerAccepts, Join
  <2> QED BY <1>11, <2>1, <2>2 DEF ServerAccepts, Join
<1> QED
  BY <1>1, <1>4, <1>5, <1>6, <1>7, <1>8, <1>9, <1>10, <1>11 DEF LinkMoves, HostStep, ServerStep

\* One more socket of the host is open.
LEMMA Opened ==
  ASSUME LinkInv, step \in {"connect", "dummy"}, NEW end \in Ends \ {"closed"}, Open(end),
         UNCHANGED want
  PROVE  /\ Missing' = Missing \ {Opening} /\ OpenSockets' = OpenSockets \cup {Opening}
         /\ host'[Opening] = end /\ \A k \in Kinds \ {Opening} : host'[k] = host[k]
         /\ \/ step' = "meta" /\ Missing' = {}
            \/ step' = "connect" /\ Missing' # {}
<1>1. Opening \in want /\ want \subseteq Kinds /\ Opening \in Missing
  BY NextSocket DEF LinkInv, Places, Missing, OpenSockets
<1>2. host'[Opening] = end /\ \A k \in Kinds \ {Opening} : host'[k] = host[k]
  BY <1>1 DEF Open, LinkInv, LinkTypes
<1>3. Missing' = Missing \ {Opening}
  BY <1>1, <1>2 DEF Missing
<1>4. OpenSockets' = OpenSockets \cup {Opening}
  BY <1>1, <1>2 DEF OpenSockets
<1>5. /\ Missing = {Opening} => step' = "meta"
      /\ Missing # {Opening} => step' = "connect"
  BY DEF Open
<1>6. /\ Missing = {Opening} => Missing' = {}
      /\ Missing # {Opening} => Missing' # {}
  BY <1>1, <1>3
<1>7. \/ step' = "meta" /\ Missing' = {}
      \/ step' = "connect" /\ Missing' # {}
  BY <1>5, <1>6
<1> QED BY <1>2, <1>3, <1>4, <1>7

\* And Places: what a failed step or stop leaves open (session.start, connect, stop).
LEMMA LinkPlaces ==
  ASSUME LinkInv, LinkMoves PROVE Places'
<1> USE DEF LinkInv, LinkTypes, wires, Go, CloseTunnel, Places, Started, Closed, Missing, Complete,
            NoSockets
<1>1. CASE Push \/ OpenReverse \/ ReverseFails \/ OpenForward \/ Launch
  BY <1>1 DEF Push, OpenReverse, ReverseFails, OpenForward, Launch
<1>2. CASE Accept
  <2>1. Head(queue) \in Ends \ {"closed"}
    BY <1>2, FrontOfQueue DEF Accept, Ends, Kinds
  <2> QED BY <1>2, <2>1, Opened DEF Accept
<1>3. CASE Dial
  <2>1. CASE host = NoSockets
    BY <1>3, <2>1 DEF Dial, Reached
  <2>2. CASE host # NoSockets
    <3>1. Open(Reached) /\ Reached \in Ends \ {"closed"}
      BY <1>3, <2>2 DEF Dial, Reached, Ends
    <3> QED BY <1>3, <2>2, <3>1, Opened DEF Dial
  <2> QED BY <2>1, <2>2
<1>4. CASE DummyByte
  <2>1. trying \in Ends \ {"closed"}
    BY <1>4 DEF DummyByte, Ends, Kinds
  <2> QED BY <1>4, <2>1, Opened DEF DummyByte
<1>5. CASE NoDummyByte \/ WaitFails \/ Meta \/ Untunnel
  BY <1>5, ZenonT(40) DEF NoDummyByte, WaitFails, Meta, Untunnel
<1>6. CASE StopTunnel \/ StopSockets \/ StopServer \/ Stops
  BY <1>6 DEF StopTunnel, StopSockets, StopServer, Stops
<1>7. CASE ServerConnects
  BY <1>7, NextSocket DEF ServerConnects, Join
<1>8. CASE ServerListens \/ ServerExits \/ Unplug \/ Deadline
  BY <1>8 DEF ServerListens, ServerExits, Unplug, Deadline, Running
<1>9. CASE ServerAccepts
  <2>1. UNCHANGED <<want, step, forwardMode, tunnel, listener>> /\ server = "listening"
        /\ server' \in {"listening", "serving"} /\ joined # want
    BY <1>9 DEF ServerAccepts, Join
  <2>2. step \notin {"untunnel", "up"} /\ Started /\ step # "gone"
    BY <2>1
  <2>3. UNCHANGED Missing /\ (trying' # "closed" <=> trying # "closed")
        /\ (host = NoSockets => host' = NoSockets)
    <3>1. CASE Head(queue) = "first"
      <4>1. trying = "waiting" /\ Joining # "closed" /\ trying' = Joining /\ UNCHANGED host
        BY <1>9, <3>1, FrontOfQueue, NextSocket DEF ServerAccepts, Join, Kinds
      <4> QED BY <2>1, <4>1
    <3>2. CASE Head(queue) # "first"
      <4>1. Head(queue) \in Kinds /\ Joining # "closed" /\ UNCHANGED trying
        BY <1>9, <3>2, FrontOfQueue, NextSocket DEF ServerAccepts, Join, Kinds
      <4>2. \A k \in Kinds : host'[k] = "closed" <=> host[k] = "closed"
        BY <1>9, <3>2, <4>1 DEF ServerAccepts
      <4>3. host' \in [Kinds -> Ends]
        BY LinkTyped DEF LinkTypes
      <4> QED BY <2>1, <4>1, <4>2, <4>3, NextSocket
    <3> QED BY <3>1, <3>2
  <2> QED BY <2>1, <2>2, <2>3
<1> QED
  BY <1>1, <1>2, <1>3, <1>4, <1>5, <1>6, <1>7, <1>8, <1>9 DEF LinkMoves, HostStep, ServerStep

(***************************************************************************)
(* Pairs, step by step.                                                    *)
(***************************************************************************)
\* A step that leaves the sockets and the queue alone.
LEMMA SocketsKept ==
  ASSUME LinkInv, UNCHANGED <<want, wires>>, Bringing' => Bringing /\ UNCHANGED forwardMode,
         server' \in {"started", "listening"} => server' = server /\ UNCHANGED forwardMode,
         Closed => Closed'
  PROVE  Pairs'
<1>1. UNCHANGED <<want, host, trying, queue, joined, OpenSockets, Reachable>>
  BY DEF Reachable, OpenSockets, wires
<1>2. Leading(joined)' /\ Leading(Reachable)'
  BY <1>1 DEF LinkInv, Pairs, Leading
<1>3. /\ InLine(queue, joined \ OpenSockets) => InLine(queue, joined \ OpenSockets)'
      /\ InLine(queue, Reachable \ joined) => InLine(queue, Reachable \ joined)'
  BY <1>1 DEF InLine
<1>4. /\ \A k \in Kinds : host'[k] \in Kinds => host'[k] = k
      /\ trying' \in Kinds => trying' = Foremost(want') /\ trying' \in joined'
      /\ IF trying' = "waiting" THEN queue' = <<"first">> /\ joined' = {}
                                ELSE \A i \in 1..Len(queue') : queue'[i] # "first"
  BY <1>1 DEF LinkInv, Pairs
<1>5. /\ Bringing' => \A k \in joined' \cap OpenSockets' : host'[k] = k
      /\ Bringing' /\ ~forwardMode' =>
           OpenSockets' \subseteq joined' /\ InLine(queue, joined \ OpenSockets)'
      /\ Bringing' /\ forwardMode' => joined' \subseteq Reachable'
  <2>1. Bringing' => Bringing /\ (forwardMode' => forwardMode) /\ (~forwardMode' => ~forwardMode)
    OBVIOUS
  <2>2. Bringing' => \A k \in joined' \cap OpenSockets' : host'[k] = k
    BY <1>1, <2>1 DEF LinkInv, Pairs
  <2>3. Bringing' /\ ~forwardMode' => OpenSockets \subseteq joined /\ InLine(queue, joined \ OpenSockets)
    BY <2>1 DEF LinkInv, Pairs
  <2>4. Bringing' /\ forwardMode' => joined \subseteq Reachable
    BY <2>1 DEF LinkInv, Pairs
  <2> QED BY <1>1, <1>3, <2>2, <2>3, <2>4
<1>6. /\ server' = "started" /\ forwardMode' =>
           queue' = <<>> /\ joined' = {} /\ host' = NoSockets /\ trying' \in {"closed", "hung up"}
      /\ server' = "listening" /\ ~Closed' /\ trying' # "waiting" =>
           InLine(queue, Reachable \ joined)'
  <2>1. server' \in {"started", "listening"} =>
          server' = server /\ (forwardMode' => forwardMode)
    OBVIOUS
  <2>2. server' = "started" /\ forwardMode' =>
          queue = <<>> /\ joined = {} /\ host = NoSockets /\ trying \in {"closed", "hung up"}
    BY <2>1 DEF LinkInv, Pairs
  <2>3. server' = "listening" /\ ~Closed' /\ trying # "waiting" => InLine(queue, Reachable \ joined)
    BY <2>1 DEF LinkInv, Pairs
  <2> QED BY <1>1, <1>3, <2>2, <2>3
<1> QED BY <1>2, <1>4, <1>5, <1>6 DEF Pairs

\* When connect begins nothing is joined.
LEMMA LaunchPairs ==
  ASSUME LinkInv, Launch PROVE Pairs'
<1>1. /\ UNCHANGED <<want, forwardMode, host, trying, queue, joined>> /\ server' # "listening"
      /\ host = NoSockets /\ queue = <<>> /\ joined = {} /\ trying = "closed"
  BY DEF LinkInv, Places, Launch, Go, Started, wires
<1>2. OpenSockets' = {} /\ Reachable' = {}
  BY <1>1 DEF OpenSockets, Reachable, NoSockets, Kinds
<1>3. InLine(queue', {}) /\ \A i \in 1..Len(queue') : queue'[i] # "first"
  BY <1>1, EmptyLine
<1> QED BY <1>1, <1>2, <1>3 DEF Pairs, Leading, LinkInv, NoSockets, Kinds

\* stop closes every socket.
LEMMA StopSocketsPairs ==
  ASSUME LinkInv, StopSockets PROVE Pairs'
<1>1. /\ UNCHANGED <<want, forwardMode, trying, queue, joined, server>> /\ host' = NoSockets
      /\ Closed' /\ ~Bringing' /\ trying = "closed"
  BY DEF LinkInv, Places, StopSockets, Go, Closed, Bringing
<1>2. OpenSockets' = {} /\ Reachable' = {}
  BY <1>1 DEF OpenSockets, Reachable, NoSockets, Kinds
<1> QED BY <1>1, <1>2 DEF Pairs, Leading, LinkInv, NoSockets, Kinds

\* Through adb reverse: the server's next socket joins the queue.
LEMMA ServerConnectsPairs ==
  ASSUME LinkInv, ServerConnects PROVE Pairs'
<1>1. /\ UNCHANGED <<want, step, forwardMode, host, trying>> /\ server' # "listening"
      /\ ~forwardMode /\ joined' = joined \cup {Joining} /\ queue' = Append(queue, Joining)
      /\ ~Complete
  BY DEF ServerConnects, Join
<1>2. Joining \in want \ joined /\ (\A j \in want : Rank[j] < Rank[Joining] => j \in joined)
      /\ (\A j \in joined : Rank[j] < Rank[Joining]) /\ want \subseteq Kinds /\ Joining \in Kinds
  BY <1>1, NextSocket
<1>3. UNCHANGED <<OpenSockets, Reachable, Bringing, Closed>>
  BY <1>1 DEF OpenSockets, Reachable, Bringing, Closed
<1>4. Leading(joined)' /\ Leading(Reachable)'
  BY <1>1, <1>2, <1>3 DEF LinkInv, Pairs, Leading
<1>5. trying # "waiting" /\ trying = "closed"
  BY <1>1 DEF LinkInv, Places, Pairs
<1>6. \A i \in 1..Len(queue') : queue'[i] # "first"
  <2>1. queue \in Seq(Kinds \cup {"first"}) /\ \A i \in 1..Len(queue) : queue[i] # "first"
    BY <1>5 DEF LinkInv, LinkTypes, Pairs
  <2>2. ASSUME NEW i \in 1..Len(Append(queue, Joining))
        PROVE  Append(queue, Joining)[i] # "first"
    BY <1>2, <2>1 DEF Kinds
  <2> QED BY <1>1, <2>2
<1>7. Bringing => OpenSockets \subseteq joined' /\ InLine(queue', joined' \ OpenSockets)
  <2> HAVE Bringing
  <2>1. OpenSockets \subseteq joined /\ InLine(queue, joined \ OpenSockets)
    BY <1>1 DEF LinkInv, Pairs
  <2>2. joined \ OpenSockets \subseteq Kinds /\ queue \in Seq(Kinds \cup {"first"})
    BY DEF LinkInv, LinkTypes
  <2>3. InLine(queue', (joined \ OpenSockets) \cup {Joining})
    BY <1>1, <1>2, <2>1, <2>2, EndOfLine
  <2>4. joined' \ OpenSockets = (joined \ OpenSockets) \cup {Joining}
    BY <1>1, <1>2, <2>1
  <2> QED BY <1>1, <2>1, <2>3, <2>4
<1>8. Bringing' => \A k \in joined' \cap OpenSockets' : host'[k] = k
  BY <1>1, <1>2, <1>3, <1>7 DEF LinkInv, Pairs
<1> QED BY <1>1, <1>3, <1>4, <1>5, <1>6, <1>7, <1>8 DEF LinkInv, Pairs

\* Through adb reverse: the host accepts the socket at the front of the queue.
LEMMA AcceptPairs ==
  ASSUME LinkInv, Accept PROVE Pairs'
<1>1. /\ UNCHANGED <<want, forwardMode, server, trying, joined>> /\ queue # <<>>
      /\ step = "connect" /\ ~forwardMode /\ Open(Head(queue)) /\ queue' = Tail(queue)
  BY DEF Accept
<1>2. trying = "closed" /\ server # "listening" /\ Bringing /\ ~forwardMode'
  BY <1>1 DEF LinkInv, Places, Bringing
<1>3. OpenSockets \subseteq joined /\ InLine(queue, joined \ OpenSockets)
      /\ Leading(joined) /\ Leading(Reachable)
      /\ (\A k \in Kinds : host[k] \in Kinds => host[k] = k)
      /\ (\A k \in joined \cap OpenSockets : host[k] = k)
      /\ (\A i \in 1..Len(queue) : queue[i] # "first")
  BY <1>1, <1>2 DEF LinkInv, Pairs
<1>4. queue \in Seq(Kinds \cup {"first"}) /\ joined \subseteq want /\ want \subseteq Kinds
  BY DEF LinkInv, LinkTypes
<1>5. /\ Opening \in want \ OpenSockets
      /\ \A j \in want : Rank[j] < Rank[Opening] => j \in OpenSockets
      /\ \A j \in OpenSockets : Rank[j] < Rank[Opening]
  BY <1>1, NextSocket DEF LinkInv, Places
<1>6. /\ Head(queue) \in joined \ OpenSockets
      /\ \A k \in joined \ OpenSockets : Rank[Head(queue)] <= Rank[k]
      /\ InLine(Tail(queue), (joined \ OpenSockets) \ {Head(queue)})
  BY <1>1, <1>3, <1>4, HeadOfLine
<1>7. Head(queue) = Opening
  <2> SUFFICES ASSUME Head(queue) # Opening PROVE FALSE
    OBVIOUS
  <2>1. Head(queue) \in Kinds /\ Opening \in Kinds /\ Head(queue) \in want
    BY <1>4, <1>5, <1>6
  <2>2. CASE Rank[Head(queue)] < Rank[Opening]
    BY <1>5, <1>6, <2>1, <2>2
  <2>3. CASE Rank[Opening] < Rank[Head(queue)]
    <3>1. Opening \in joined
      BY <1>3, <1>5, <1>6, <2>3 DEF Leading
    <3>2. Rank[Head(queue)] <= Rank[Opening]
      BY <1>5, <1>6, <3>1
    <3> QED BY <2>1, <2>3, <3>2, RankIs
  <2> QED BY <2>1, <2>2, <2>3, RankIs
<1>8. Head(queue) \in Ends \ {"closed"}
  BY <1>4, <1>6 DEF Ends, Kinds
<1>9. /\ OpenSockets' = OpenSockets \cup {Opening}
      /\ host'[Opening] = Opening /\ \A k \in Kinds \ {Opening} : host'[k] = host[k]
      /\ step' \in {"meta", "connect"}
  BY <1>1, <1>7, <1>8, Opened
<1>10. Reachable = OpenSockets /\ Reachable' = OpenSockets'
  BY <1>1, <1>2 DEF Reachable, Kinds
<1>11. Leading(joined)' /\ Leading(Reachable)'
  <2>1. Leading(OpenSockets)
    BY <1>3, <1>10
  <2>2. /\ OpenSockets \cup {Opening} \subseteq want
        /\ \A k \in OpenSockets \cup {Opening}, j \in want :
             Rank[j] < Rank[k] => j \in OpenSockets \cup {Opening}
    BY <1>5, <2>1 DEF Leading
  <2> QED BY <1>1, <1>3, <1>9, <1>10, <2>2 DEF Leading
<1>12. /\ \A k \in Kinds : host'[k] \in Kinds => host'[k] = k
       /\ \A k \in joined' \cap OpenSockets' : host'[k] = k
  BY <1>1, <1>3, <1>4, <1>9
<1>13. OpenSockets' \subseteq joined' /\ InLine(queue', joined' \ OpenSockets')
  <2>1. joined' \ OpenSockets' = (joined \ OpenSockets) \ {Head(queue)}
    BY <1>1, <1>7, <1>9
  <2> QED BY <1>1, <1>3, <1>6, <1>7, <1>9, <2>1
<1>14. \A i \in 1..Len(queue') : queue'[i] # "first"
  BY <1>1, <1>4, <1>13 DEF InLine, Kinds
<1> QED BY <1>1, <1>2, <1>11, <1>12, <1>13, <1>14 DEF Pairs, Kinds

\* Through adb forward: the server listens, and nothing has been left for it yet.
LEMMA ServerListensPairs ==
  ASSUME LinkInv, ServerListens PROVE Pairs'
<1>1. UNCHANGED <<want, step, forwardMode, host, trying, queue, joined>> /\ server' = "listening"
      /\ server = "started" /\ forwardMode
  BY DEF ServerListens, wires
<1>2. queue = <<>> /\ joined = {} /\ host = NoSockets /\ trying \in {"closed", "hung up"}
  BY <1>1 DEF LinkInv, Pairs
<1>3. OpenSockets' = {} /\ Reachable' = {}
  BY <1>1, <1>2 DEF OpenSockets, Reachable, NoSockets, Kinds
<1>4. InLine(queue', {}) /\ \A i \in 1..Len(queue') : queue'[i] # "first"
  BY <1>1, <1>2, EmptyLine
<1> QED BY <1>1, <1>2, <1>3, <1>4 DEF Pairs, Leading, NoSockets, Kinds

\* The first socket is open once its dummy byte has come.
LEMMA DummyBytePairs ==
  ASSUME LinkInv, DummyByte PROVE Pairs'
<1>1. UNCHANGED <<want, forwardMode, server, queue, joined>> /\ trying' = "closed" /\ Open(trying)
      /\ trying \in Kinds /\ step = "dummy" /\ trying # "closed" /\ trying # "waiting"
  BY DEF DummyByte, Kinds
<1>2. host = NoSockets /\ forwardMode /\ Bringing /\ ~Closed /\ trying = Foremost(want)
      /\ joined \subseteq Reachable
  BY <1>1 DEF LinkInv, Places, Pairs, Bringing, Closed
<1>3. OpenSockets = {} /\ Reachable = {trying} /\ Missing = want
  BY <1>1, <1>2 DEF OpenSockets, Reachable, Missing, NoSockets, Kinds, LinkInv, LinkTypes
<1>4. Opening = trying
  BY <1>2, <1>3 DEF Opening
<1>5. /\ OpenSockets' = {trying} /\ host'[trying] = trying
      /\ (\A k \in Kinds \ {trying} : host'[k] = host[k])
      /\ step' \in {"meta", "connect"}
  BY <1>1, <1>3, <1>4, Opened DEF Ends, Kinds
<1>6. Reachable' = {trying}
  BY <1>1, <1>5 DEF Reachable, Kinds
<1>7. /\ \A k \in Kinds : host'[k] \in Kinds => host'[k] = k
      /\ \A k \in joined' \cap OpenSockets' : host'[k] = k
  BY <1>2, <1>5 DEF NoSockets, Kinds
<1>8. Leading(joined)' /\ Leading(Reachable)'
  BY <1>1, <1>3, <1>6 DEF LinkInv, Pairs, Leading
<1>9. /\ server' # "started" /\ \A i \in 1..Len(queue') : queue'[i] # "first"
      /\ server' = "listening" => InLine(queue', Reachable' \ joined')
  BY <1>1, <1>2, <1>3, <1>6 DEF LinkInv, Pairs, Kinds
<1>10. ~Closed' /\ Bringing' /\ forwardMode' /\ joined' \subseteq Reachable'
  BY <1>1, <1>2, <1>3, <1>5, <1>6 DEF Closed, Bringing
<1> QED BY <1>1, <1>7, <1>8, <1>9, <1>10 DEF Pairs, Kinds

\* A dial whose dummy byte did not come is given up (readDummyByte), with its place in the
\* queue.
LEMMA NoDummyBytePairs ==
  ASSUME LinkInv, NoDummyByte PROVE Pairs'
<1>1. /\ UNCHANGED <<want, forwardMode, server, host, joined>>
      /\ trying' = "closed" /\ queue' = <<>> /\ step = "dummy" /\ step' \in {"stop", "connect"}
      /\ step' = "connect" => trying = "hung up"
  BY DEF NoDummyByte
<1>2. forwardMode /\ Bringing /\ joined \subseteq Reachable
  BY <1>1 DEF LinkInv, Places, Pairs, Bringing
<1>3. OpenSockets = {} /\ OpenSockets' = {} /\ Reachable' = {} /\ host = NoSockets
  BY <1>1 DEF OpenSockets, Reachable, NoSockets, Kinds, LinkInv, Places
<1>4. step' = "connect" => joined = {}
  BY <1>1, <1>2, <1>3 DEF Reachable, Kinds
<1>5. InLine(queue', {}) /\ \A i \in 1..Len(queue') : queue'[i] # "first"
  BY <1>1, EmptyLine
<1>6. Leading(joined)' /\ Leading(Reachable)'
  BY <1>1, <1>3 DEF LinkInv, Pairs, Leading
<1>7. server = "started" => joined = {}
  BY <1>2 DEF LinkInv, Pairs
<1>8. Bringing' => joined' = {} /\ forwardMode'
  BY <1>1, <1>2, <1>4 DEF Bringing
<1> QED BY <1>1, <1>3, <1>5, <1>6, <1>7, <1>8 DEF Pairs, NoSockets, Kinds

\* Through adb forward: adb takes the host's dial, and a server that listens will
\* accept it.
LEMMA DialPairs ==
  ASSUME LinkInv, Dial PROVE Pairs'
<1>1. /\ UNCHANGED <<want, forwardMode, server, joined>> /\ step = "connect" /\ forwardMode
      /\ trying = "closed" /\ Bringing /\ ~Closed
  BY DEF Dial, LinkInv, Places, Bringing, Closed
<1>2. /\ joined \subseteq Reachable /\ Leading(joined) /\ Leading(Reachable)
      /\ (server = "listening" => InLine(queue, Reachable \ joined))
      /\ (server = "started" => queue = <<>> /\ joined = {} /\ host = NoSockets)
      /\ (\A k \in Kinds : host[k] \in Kinds => host[k] = k)
      /\ (\A k \in joined \cap OpenSockets : host[k] = k)
      /\ (\A i \in 1..Len(queue) : queue[i] # "first")
  BY <1>1 DEF LinkInv, Pairs
<1>3. Reachable = OpenSockets
  BY <1>1 DEF Reachable, Kinds
<1>4. queue \in Seq(Kinds \cup {"first"}) /\ joined \subseteq want /\ want \subseteq Kinds
  BY DEF LinkInv, LinkTypes
<1>5. CASE host = NoSockets
  <2>1. OpenSockets = {} /\ OpenSockets' = {} /\ UNCHANGED host /\ joined = {}
        /\ Reached \in {"waiting", "hung up"} /\ (Reached = "waiting" <=> server = "listening")
        /\ trying' = Reached /\ step' = "dummy"
        /\ (server = "listening" => queue' = Append(queue, "first"))
        /\ (server # "listening" => UNCHANGED queue)
    BY <1>2, <1>3, <1>5 DEF Dial, OpenSockets, NoSockets, Reached
  <2>2. Reachable' = {} /\ ~Closed' /\ Bringing' /\ Leading(joined)' /\ Leading(Reachable)'
    BY <1>1, <1>2, <2>1 DEF Reachable, Kinds, Leading, Closed, Bringing
  <2>3. CASE server = "listening"
    <3>1. queue = <<>>
      BY <1>2, <1>3, <1>4, <2>1, <2>3, NobodyInLine
    <3>2. queue' = <<"first">>
      BY <2>1, <2>3, <3>1
    <3> QED BY <1>1, <1>2, <1>5, <2>1, <2>2, <2>3, <3>2 DEF Pairs, NoSockets, Kinds
  <2>4. CASE server # "listening"
    BY <1>1, <1>2, <1>5, <2>1, <2>2, <2>4 DEF Pairs, NoSockets, Kinds
  <2> QED BY <2>3, <2>4
<1>6. CASE host # NoSockets
  <2>1. /\ Opening \in want \ OpenSockets
        /\ \A j \in want : Rank[j] < Rank[Opening] => j \in OpenSockets
        /\ \A j \in OpenSockets : Rank[j] < Rank[Opening]
    BY <1>1, NextSocket DEF LinkInv, Places
  <2>2. /\ Open(Reached) /\ UNCHANGED trying /\ Reached \in {"waiting", "hung up"}
        /\ (server = "listening" => queue' = Append(queue, Opening))
        /\ (server # "listening" => UNCHANGED queue)
    BY <1>6 DEF Dial, Reached
  <2>3. /\ OpenSockets' = OpenSockets \cup {Opening}
        /\ host'[Opening] = Reached /\ \A k \in Kinds \ {Opening} : host'[k] = host[k]
        /\ step' \in {"meta", "connect"}
    BY <1>1, <2>2, Opened DEF Ends, Kinds
  <2>4. Reachable' = OpenSockets' /\ ~Closed' /\ Bringing'
    BY <1>1, <2>2, <2>3 DEF Reachable, Kinds, Closed, Bringing
  <2>5. Leading(joined)' /\ Leading(Reachable)'
    <3>1. /\ OpenSockets \cup {Opening} \subseteq want
          /\ \A k \in OpenSockets \cup {Opening}, j \in want :
               Rank[j] < Rank[k] => j \in OpenSockets \cup {Opening}
      BY <1>2, <1>3, <2>1 DEF Leading
    <3> QED BY <1>1, <1>2, <2>3, <2>4, <3>1 DEF Leading
  <2>6. /\ \A k \in Kinds : host'[k] \in Kinds => host'[k] = k
        /\ \A k \in joined' \cap OpenSockets' : host'[k] = k
    <3>1. Reached \notin Kinds /\ Opening \notin joined
      BY <1>2, <1>3, <2>1, <2>2 DEF Kinds
    <3> QED BY <1>1, <1>2, <1>4, <2>3, <3>1
  <2>7. /\ server = "listening" => InLine(queue', Reachable' \ joined')
        /\ \A i \in 1..Len(queue') : queue'[i] # "first"
    <3>1. CASE server = "listening"
      <4>1. InLine(Append(queue, Opening), (OpenSockets \ joined) \cup {Opening})
        <5>1. OpenSockets \ joined \subseteq Kinds /\ Opening \in Kinds
          BY <1>4, <2>1 DEF OpenSockets
        <5> QED BY <1>2, <1>3, <1>4, <2>1, <3>1, <5>1, EndOfLine
      <4>2. Reachable' \ joined' = (OpenSockets \ joined) \cup {Opening}
        BY <1>1, <1>2, <1>3, <2>1, <2>3, <2>4
      <4>3. "first" \notin Reachable'
        BY <1>4, <2>1, <2>3, <2>4 DEF OpenSockets, Kinds
      <4> QED BY <2>2, <3>1, <4>1, <4>2, <4>3, ZenonT(40) DEF InLine
    <3>2. CASE server # "listening"
      BY <1>2, <2>2, <3>2
    <3> QED BY <3>1, <3>2
  <2>8. joined' \subseteq Reachable' /\ server # "started"
    BY <1>1, <1>2, <1>3, <1>6, <2>3, <2>4
  <2> QED BY <1>1, <2>2, <2>4, <2>5, <2>6, <2>7, <2>8 DEF Pairs, Kinds
<1> QED BY <1>5, <1>6

\* Through adb forward: the server accepts the dial at the front of the queue.
LEMMA ServerAcceptsPairs ==
  ASSUME LinkInv, ServerAccepts PROVE Pairs'
<1>1. /\ UNCHANGED <<want, step, forwardMode>> /\ server = "listening" /\ queue # <<>>
      /\ ~Complete /\ joined' = joined \cup {Joining} /\ queue' = Tail(queue)
      /\ server' \in {"listening", "serving"}
  BY DEF ServerAccepts, Join
<1>2. /\ forwardMode /\ UNCHANGED <<Closed, Bringing>> /\ (Bringing => joined \subseteq Reachable)
      /\ Leading(joined) /\ Leading(Reachable)
      /\ (\A k \in Kinds : host[k] \in Kinds => host[k] = k)
      /\ (Bringing => \A k \in joined \cap OpenSockets : host[k] = k)
  BY <1>1 DEF LinkInv, Places, Pairs, Closed, Bringing
<1>3. queue \in Seq(Kinds \cup {"first"}) /\ joined \subseteq want /\ want \subseteq Kinds
  BY DEF LinkInv, LinkTypes
<1>4. /\ Joining \in want \ joined /\ \A j \in want : Rank[j] < Rank[Joining] => j \in joined
      /\ \A j \in joined : Rank[j] < Rank[Joining]
  BY <1>1, NextSocket
<1>5. Leading(joined)'
  BY <1>1, <1>2, <1>4 DEF Leading
<1>6. CASE trying = "waiting"
  <2>1. queue = <<"first">> /\ joined = {} /\ host = NoSockets /\ step = "dummy"
    BY <1>6 DEF LinkInv, Places, Pairs
  <2>2. /\ queue' = <<>> /\ trying' = Joining /\ UNCHANGED host
    BY <1>1, <2>1 DEF ServerAccepts
  <2>3. OpenSockets' = {} /\ Joining \in Kinds /\ Joining = Foremost(want)
    BY <1>3, <1>4, <2>1, <2>2 DEF OpenSockets, NoSockets, Kinds, Joining
  <2>4. Reachable' = {Joining} /\ joined' = {Joining}
    BY <1>1, <2>1, <2>2, <2>3 DEF Reachable
  <2>5. InLine(queue', {}) /\ \A i \in 1..Len(queue') : queue'[i] # "first"
    BY <2>2, EmptyLine
  <2>6. Leading(Reachable)'
    BY <1>5, <2>4 DEF Leading
  <2>7. trying' # "waiting" /\ trying' = Foremost(want') /\ server' # "started"
        /\ \A k \in Kinds : host'[k] = "closed" /\ host'[k] \notin Kinds
    BY <1>1, <2>1, <2>2, <2>3 DEF Kinds, NoSockets
  <2> QED BY <1>1, <1>2, <1>5, <2>3, <2>4, <2>5, <2>6, <2>7 DEF Pairs
<1>7. CASE trying # "waiting" /\ Closed
  <2>1. Head(queue) # "first" /\ Head(queue) \in Kinds /\ Tail(queue) \in Seq(Kinds \cup {"first"})
    BY <1>1, <1>7, FrontOfQueue
  <2>2. host = NoSockets /\ UNCHANGED <<host, trying>> /\ trying \notin Kinds /\ ~Bringing
    <3>1. host = NoSockets /\ trying = "closed" /\ ~Bringing
      BY <1>7 DEF LinkInv, Places, Closed, Bringing
    <3>2. UNCHANGED trying /\ host' = [host EXCEPT ![Head(queue)] = IF @ = "closed" THEN @ ELSE Joining]
      BY <2>1 DEF ServerAccepts
    <3>3. host[Head(queue)] = "closed"
      BY <2>1, <3>1 DEF NoSockets
    <3>4. host' = host
      BY <2>1, <3>2, <3>3 DEF LinkInv, LinkTypes
    <3> QED BY <3>1, <3>2, <3>4 DEF Kinds
  <2>3. UNCHANGED <<OpenSockets, Reachable>>
    BY <2>2 DEF OpenSockets, Reachable
  <2>4. \A i \in 1..Len(queue') : queue'[i] # "first"
    <3>1. \A i \in 1..Len(queue) : queue[i] # "first"
      BY <1>7 DEF LinkInv, Pairs
    <3>2. \A i \in 1..Len(Tail(queue)) : i + 1 \in 1..Len(queue) /\ Tail(queue)[i] = queue[i + 1]
      BY <1>1, <1>3, RestOf
    <3> QED BY <1>1, <3>1, <3>2
  <2>5. Leading(Reachable)'
    BY <1>1, <1>2, <2>3 DEF Leading
  <2> QED BY <1>1, <1>2, <1>5, <1>7, <2>2, <2>3, <2>4, <2>5 DEF Pairs
<1>8. CASE trying # "waiting" /\ ~Closed
  <2>1. InLine(queue, Reachable \ joined) /\ Reachable \ joined \subseteq Kinds
    BY <1>1, <1>8 DEF LinkInv, Pairs, Reachable, OpenSockets
  <2>2. /\ Head(queue) \in Reachable \ joined
        /\ \A k \in Reachable \ joined : Rank[Head(queue)] <= Rank[k]
        /\ InLine(Tail(queue), (Reachable \ joined) \ {Head(queue)})
    BY <1>1, <1>3, <2>1, HeadOfLine
  <2>3. Head(queue) = Joining
    <3> SUFFICES ASSUME Head(queue) # Joining PROVE FALSE
      OBVIOUS
    <3>1. Head(queue) \in Kinds /\ Joining \in Kinds /\ Head(queue) \in want
      BY <1>2, <1>3, <1>4, <2>2 DEF Leading
    <3>2. CASE Rank[Head(queue)] < Rank[Joining]
      BY <1>4, <2>2, <3>1, <3>2
    <3>3. CASE Rank[Joining] < Rank[Head(queue)]
      <4>1. Joining \in Reachable
        BY <1>2, <1>4, <2>2, <3>3 DEF Leading
      <4>2. Rank[Head(queue)] <= Rank[Joining]
        BY <1>4, <2>2, <4>1
      <4> QED BY <3>1, <3>3, <4>2, RankIs
    <3> QED BY <3>1, <3>2, <3>3, RankIs
  <2>4. Joining \in Kinds /\ Joining # "first" /\ Joining # "closed" /\ Joining # "waiting"
    BY <1>3, <1>4 DEF Kinds
  <2>5. trying \notin Kinds
    <3>1. trying \in Kinds => OpenSockets = {} /\ trying \in joined
      BY DEF LinkInv, Places, Pairs, OpenSockets, NoSockets, Kinds
    <3> QED BY <2>2, <3>1 DEF Reachable
  <2>6. /\ Reachable = OpenSockets /\ UNCHANGED trying
        /\ host' = [host EXCEPT ![Joining] = Joining]
    <3>1. Reachable = OpenSockets /\ host[Joining] # "closed"
      BY <2>2, <2>3, <2>5 DEF Reachable, OpenSockets
    <3> QED BY <2>3, <2>4, <3>1 DEF ServerAccepts
  <2>7. host'[Joining] = Joining /\ \A k \in Kinds \ {Joining} : host'[k] = host[k]
    BY <2>4, <2>6 DEF LinkInv, LinkTypes
  <2>8. OpenSockets' = OpenSockets /\ Reachable' = Reachable
    <3>1. OpenSockets' = OpenSockets
      BY <2>2, <2>3, <2>4, <2>6, <2>7 DEF OpenSockets
    <3> QED BY <2>6, <3>1 DEF Reachable
  <2>9. Leading(Reachable)'
    BY <1>1, <1>2, <2>8 DEF Leading
  <2>10. /\ \A k \in Kinds : host'[k] \in Kinds => host'[k] = k
         /\ Bringing' => joined' \subseteq Reachable'
         /\ Bringing' => \A k \in joined' \cap OpenSockets' : host'[k] = k
    BY <1>1, <1>2, <1>3, <2>2, <2>3, <2>7, <2>8
  <2>11. InLine(queue', Reachable' \ joined')
    <3>1. Reachable' \ joined' = (Reachable \ joined) \ {Head(queue)}
      BY <1>1, <2>3, <2>8
    <3> QED BY <1>1, <2>2, <3>1
  <2>12. \A i \in 1..Len(queue') : queue'[i] # "first"
    <3>1. "first" \notin Reachable'
      BY DEF Reachable, OpenSockets, Kinds
    <3> QED BY <2>11, <3>1 DEF InLine
  <2> QED BY <1>1, <1>2, <1>5, <1>8, <2>5, <2>6, <2>9, <2>10, <2>11, <2>12 DEF Pairs
<1> QED BY <1>6, <1>7, <1>8

\* Whatever the host, the server, adb and time do next.
LEMMA LinkPairs == ASSUME LinkInv, LinkMoves PROVE Pairs'
<1>1. CASE Push \/ OpenReverse \/ ReverseFails \/ OpenForward
  <2>1. /\ UNCHANGED <<want, wires, server>> /\ ~Bringing' /\ server = "none" /\ ~Closed
    BY <1>1 DEF Push, OpenReverse, ReverseFails, OpenForward, Go, Bringing, LinkInv, Places,
       Started, Closed
  <2> QED BY <2>1, SocketsKept
<1>2. CASE WaitFails \/ Meta \/ Untunnel \/ StopTunnel \/ Stops \/ Deadline
  <2>1. /\ UNCHANGED <<want, wires, server, forwardMode>> /\ (Bringing' => Bringing) /\ ~Closed
    BY <1>2 DEF WaitFails, Meta, Untunnel, StopTunnel, Stops, Deadline, Go, Bringing, Waiting, Closed
  <2> QED BY <2>1, SocketsKept
<1>3. CASE StopServer \/ ServerExits \/ Unplug
  <2>1. /\ UNCHANGED <<want, wires, forwardMode>> /\ (Bringing' => Bringing) /\ (Closed => Closed')
        /\ (server' = "exited" \/ UNCHANGED server)
    BY <1>3 DEF StopServer, ServerExits, Unplug, Go, Bringing, Closed
  <2> QED BY <2>1, SocketsKept
<1> QED
  BY <1>1, <1>2, <1>3, LaunchPairs, AcceptPairs, DialPairs, DummyBytePairs, NoDummyBytePairs,
     StopSocketsPairs, ServerConnectsPairs, ServerListensPairs, ServerAcceptsPairs
     DEF LinkMoves, HostStep, ServerStep

\* The Booleans of the link stay Booleans.
LEMMA LinkFlagsKept == LinkFlags /\ LinkMoves => LinkFlags'
BY DEF LinkFlags, LinkMoves, HostStep, ServerStep, Push, OpenReverse, ReverseFails, OpenForward,
   Launch, Accept, Dial, DummyByte, Open, NoDummyByte, WaitFails, Meta, Untunnel, StopTunnel,
   StopSockets, StopServer, ServerConnects, ServerListens, ServerAccepts, ServerExits, Unplug,
   Deadline, Stops, CloseTunnel

(***************************************************************************)
(* The session on the link: the run loop runs while the link is up, and    *)
(* only it stops the link.                                                 *)
(***************************************************************************)
LoopRuns == loop \notin {"off", "left"} => step = "up"

\* What a step is to the link.
LEMMA LinkOrNot ==
  ASSUME LoopRuns, Next PROVE LinkMoves \/ UNCHANGED linkVars
<1> USE DEF linkVars, wires
<1>1. CASE LinkStep \/ DeviceStep \/ DeviceLost
  BY <1>1 DEF LinkStep, DeviceStep, DeviceLost, LinkMoves
<1>2. CASE DemuxStep
  BY <1>2 DEF DemuxStep, VideoStarts, VideoEnds, Frame, Evict, DeliverAgain, AudioEnds
<1>3. CASE Rotate \/ Notice \/ Panic \/ RestoreStep \/ SinkStep
  BY <1>3 DEF Rotate, Notice, Panic, RestoreStep, RestoreStops, RestoreWrites, Die,
     SinkStep, SinkSuspends, SinkResumes
<1>4. CASE Begin \/ PostQuit \/ Written \/ TakeEvent \/ TakeFrame \/ TakeWake \/ TakeLoss
  BY <1>4 DEF Begin, PostQuit, Written, TakeEvent, TakeFrame, TakeWake, TakeLoss
<1>5. CASE Shutdown
  BY <1>5 DEF Shutdown, LinkMoves, Stops, LoopRuns
<1>6. ASSUME NEW e \in Event, Arrive(e) \/ Send(e) PROVE UNCHANGED linkVars
  BY <1>6 DEF Arrive, Send
<1> QED BY <1>1, <1>2, <1>3, <1>4, <1>5, <1>6 DEF Next, LoopStep

\* Only Shutdown takes the link from "up", and the run loop has left by then.
LEMMA LoopRunsKept ==
  ASSUME LoopRuns, Next PROVE LoopRuns'
<1> USE DEF LoopRuns, linkVars, loopVars
<1>1. CASE LinkStep
  <2>1. UNCHANGED loop /\ (HostStep => step # "up")
    BY <1>1 DEF LinkStep, HostStep, Push, OpenReverse, ReverseFails, OpenForward, Launch, Accept,
       Dial, DummyByte, NoDummyByte, WaitFails, Meta, Untunnel, StopTunnel, StopSockets,
       StopServer, Go
  <2> QED BY <1>1, <2>1 DEF LinkStep
<1>2. CASE DeviceStep \/ DeviceLost
  BY <1>2 DEF DeviceStep, DeviceLost, ServerStep, ServerConnects, ServerListens, ServerAccepts,
     ServerExits, Unplug, Deadline
<1>3. CASE DemuxStep
  BY <1>3 DEF DemuxStep, VideoStarts, VideoEnds, Frame, Evict, DeliverAgain, AudioEnds
<1>4. CASE Rotate \/ Notice \/ Panic \/ RestoreStep \/ SinkStep
  BY <1>4 DEF Rotate, Notice, Panic, RestoreStep, RestoreStops, RestoreWrites, Die,
     SinkStep, SinkSuspends, SinkResumes
<1>5. CASE LoopStep
  BY <1>5 DEF LoopStep, Begin, PostQuit, Written, Shutdown
<1>6. CASE TakeEvent \/ TakeFrame \/ TakeWake \/ TakeLoss
  BY <1>6 DEF TakeEvent, TakeFrame, TakeWake, TakeLoss, Ready
<1>7. ASSUME NEW e \in Event, Arrive(e) \/ Send(e) PROVE LoopRuns'
  BY <1>7 DEF Arrive, Send
<1> QED BY <1>1, <1>2, <1>3, <1>4, <1>5, <1>6, <1>7 DEF Next

\* So the link's invariant holds in a session.
LEMMA LinkKept ==
  ASSUME LoopRuns, LinkInv, [Next]_vars PROVE LinkInv'
<1>1. CASE UNCHANGED linkVars
  <2>1. UNCHANGED <<want, wires, forwardMode, server, Bringing, Closed>>
    BY <1>1 DEF linkVars, wires, Bringing, Closed
  <2>2. Pairs'
    BY <2>1, SocketsKept
  <2>3. LinkTypes' /\ Places'
    BY <1>1 DEF linkVars, LinkInv, LinkTypes, Places, Started, Closed, Missing, Complete
  <2> QED BY <2>2, <2>3 DEF LinkInv
<1>2. CASE LinkMoves
  BY <1>2, LinkTyped, LinkPlaces, LinkPairs DEF LinkInv
<1> QED BY <1>1, <1>2, LinkOrNot DEF vars, linkVars

(***************************************************************************)
(* The terminal and the notices.                                           *)
(***************************************************************************)
ScreenInv ==
  /\ running => screen = "alt" /\ restore = "no"
  /\ loop = "write" => screen = "alt"
  /\ restore = "done" => screen = "shell" /\ ~board
  /\ display = "tui" /\ (loop = "left" \/ crashed = "dead") => restore = "done"
  /\ ~board => kept = 0
  /\ restore # "no" \/ crashed # "no" => loop # "off"

screens == <<display, loop, restore, crashed, running, screen, board, kept>>

\* Painting, the restorer, a panic and the ends keep the screen right (app.run, tui, notice.go).
LEMMA ScreenKept ==
  ASSUME ScreenInv, [Next]_vars PROVE ScreenInv'
<1> USE DEF ScreenInv, screens, screenVars, noticeVars, endVars, calm, loopVars, InProcess, Alive
<1>1. CASE UNCHANGED screens
  BY <1>1
<1>2. CASE LinkStep \/ DeviceStep \/ DeviceLost \/ Rotate \/ SinkStep
  BY <1>1, <1>2 DEF LinkStep, DeviceStep, DeviceLost, Rotate, SinkStep, SinkSuspends, SinkResumes
<1>3. CASE VideoStarts \/ VideoEnds \/ Frame \/ Evict \/ DeliverAgain
  BY <1>1, <1>3 DEF VideoStarts, VideoEnds, Frame, Evict, DeliverAgain
<1>4. CASE AudioEnds \/ Notice
  BY <1>4 DEF AudioEnds, Notice, Put
<1>5. CASE Panic
  BY <1>5 DEF Panic
<1>6. CASE Begin
  BY <1>6 DEF Begin
<1>7. CASE PostQuit \/ Written
  BY <1>7 DEF PostQuit, Written
<1>8. CASE Shutdown
  BY <1>8 DEF Shutdown, Restored
<1>9. CASE TakeEvent
  BY <1>9 DEF TakeEvent, Ready, Leave, Paint
<1>10. CASE TakeFrame \/ TakeWake \/ TakeLoss
  BY <1>10 DEF TakeFrame, TakeWake, TakeLoss, Ready, Leave, Paint
<1>11. CASE RestoreStops \/ RestoreWrites
  BY <1>11 DEF RestoreStops, RestoreWrites
<1>12. CASE Die
  BY <1>12 DEF Die, Restored
<1>13. ASSUME NEW e \in Event, Arrive(e) \/ Send(e) PROVE UNCHANGED screens
  BY <1>13 DEF Arrive, Send
<1> QED
  BY <1>1, <1>2, <1>3, <1>4, <1>5, <1>6, <1>7, <1>8, <1>9, <1>10, <1>11, <1>12, <1>13
     DEF Next, DemuxStep, LoopStep, RestoreStep, vars

(***************************************************************************)
(* The sizes.                                                              *)
(***************************************************************************)
\* A resize that the run loop has yet to take.
Resizing == "resize" \in senders \/ \E i \in 1..Len(events) : events[i] = "resize"

SizeTypes == events \in Seq(Event) /\ senders \subseteq Event

SizesInv ==
  /\ loop = "left" \/ Resizing \/ grid = pane
  /\ loop # "left" /\ ~Resizing /\ ~dirty /\ video \in {"read", "full", "again"} =>
       canvas = <<pane, picture>>

sizes == <<loop, events, senders, pane, grid, picture, canvas, dirty>>

\* Whether a queue has a resize in it.
LEMMA QueueIs ==
  ASSUME NEW q \in Seq(Event), NEW e \in Event
  PROVE  /\ Append(q, e) \in Seq(Event)
         /\ q # <<>> => Tail(q) \in Seq(Event) /\ Head(q) \in Event
         /\ (\E i \in 1..Len(Append(q, e)) : Append(q, e)[i] = "resize") <=>
              e = "resize" \/ \E i \in 1..Len(q) : q[i] = "resize"
         /\ q # <<>> => ((\E i \in 1..Len(q) : q[i] = "resize") <=>
              Head(q) = "resize" \/ \E i \in 1..Len(Tail(q)) : Tail(q)[i] = "resize")
<1>1. /\ Append(q, e) \in Seq(Event) /\ Len(Append(q, e)) = Len(q) + 1 /\ Len(q) \in Nat
      /\ Append(q, e)[Len(q) + 1] = e /\ \A i \in 1..Len(q) : Append(q, e)[i] = q[i]
  OBVIOUS
<1>2. (\E i \in 1..Len(Append(q, e)) : Append(q, e)[i] = "resize") <=>
        e = "resize" \/ \E i \in 1..Len(q) : q[i] = "resize"
  <2>1. ASSUME NEW i \in 1..Len(q) PROVE i \in 1..Len(Append(q, e))
    BY <1>1
  <2>2. ASSUME NEW i \in 1..Len(Append(q, e)) PROVE i \in 1..Len(q) \/ i = Len(q) + 1
    BY <1>1
  <2>3. Len(q) + 1 \in 1..Len(Append(q, e))
    BY <1>1
  <2> QED BY <1>1, <2>1, <2>2, <2>3
<1>3. ASSUME q # <<>>
      PROVE  (\E i \in 1..Len(q) : q[i] = "resize") <=>
               Head(q) = "resize" \/ \E i \in 1..Len(Tail(q)) : Tail(q)[i] = "resize"
  <2>1. 1 \in 1..Len(q) /\ Head(q) = q[1] /\ Len(Tail(q)) = Len(q) - 1 /\ Len(q) \in Nat
    BY <1>3, FrontOf
  <2>2. \A i \in 1..Len(Tail(q)) : i + 1 \in 1..Len(q) /\ Tail(q)[i] = q[i + 1]
    BY <1>3, RestOf
  <2>3. ASSUME NEW i \in 1..Len(q), i # 1 PROVE i - 1 \in 1..Len(Tail(q)) /\ Tail(q)[i - 1] = q[i]
    <3>1. i - 1 \in 1..Len(Tail(q))
      BY <2>1, <2>3
    <3> QED BY <2>2, <3>1
  <2> QED BY <2>1, <2>2, <2>3
<1> QED BY <1>1, <1>2, <1>3, FrontOf

\* A resize reaches the grid and, through the dirty flag, the canvas (onResize, stream.go).
LEMMA SizesKept ==
  ASSUME LoopRuns, SizeTypes, SizesInv, [Next]_vars PROVE SizeTypes' /\ SizesInv'
<1> USE DEF SizesInv, SizeTypes, sizes, queueVars, sizeVars, frameVars, screenVars, loopVars
<1>1. CASE UNCHANGED <<loop, events, senders, pane, grid, picture, canvas, dirty, video>>
  BY <1>1 DEF Resizing
<1>2. CASE \/ LinkStep \/ DeviceStep \/ DeviceLost \/ Notice \/ Panic \/ AudioEnds \/ RestoreStep
           \/ SinkStep
  BY <1>1, <1>2 DEF LinkStep, DeviceStep, DeviceLost, Notice, Panic, AudioEnds, RestoreStep,
     RestoreStops, RestoreWrites, Die, SinkStep, SinkSuspends, SinkResumes
<1>3. CASE VideoStarts \/ VideoEnds \/ Rotate
  BY <1>3 DEF VideoStarts, VideoEnds, Rotate, Resizing
<1>4. CASE Frame
  BY <1>4 DEF Frame, Resizing
<1>5. CASE Evict \/ DeliverAgain
  BY <1>5 DEF Evict, DeliverAgain, Resizing
<1>6. CASE Begin
  BY <1>6 DEF Begin, Resizing
<1>7. CASE Written \/ TakeFrame \/ TakeWake \/ TakeLoss
  BY <1>7 DEF Written, TakeFrame, TakeWake, TakeLoss, Ready, Leave, Paint, Resizing
<1>8. CASE Shutdown
  BY <1>8 DEF Shutdown
<1>9. CASE PostQuit
  <2>1. Resizing' <=> Resizing
    BY <1>9, QueueIs DEF PostQuit, Resizing, Event
  <2> QED BY <1>9, <2>1, QueueIs DEF PostQuit, Event
<1>10. CASE TakeEvent
  <2>1. events # <<>> /\ events' = Tail(events) /\ UNCHANGED <<senders, pane, picture, canvas, video>>
        /\ loop = "wait" /\ loop' # "left"
        /\ IF Head(events) = "resize" THEN grid' = pane /\ dirty' = TRUE
                                      ELSE UNCHANGED <<grid, dirty>>
    BY <1>10 DEF TakeEvent, Ready, Leave, Paint, Resized
  <2>2. Resizing <=> Head(events) = "resize" \/ Resizing'
    BY <2>1, QueueIs DEF Resizing, Event
  <2>3. SizeTypes'
    BY <2>1, QueueIs DEF Event
  <2> QED BY <2>1, <2>2, <2>3
<1>11. ASSUME NEW e \in Event, Arrive(e) PROVE SizeTypes' /\ SizesInv'
  BY <1>11 DEF Arrive, Resizing
<1>12. ASSUME NEW e \in Event, Send(e) PROVE SizeTypes' /\ SizesInv'
  <2>1. senders' = senders \ {e} /\ events' = Append(events, e) /\ (e = "tick" \/ e \in senders)
        /\ UNCHANGED <<loop, pane, grid, picture, canvas, dirty, video>>
    BY <1>12 DEF Send
  <2>2. Resizing' <=> Resizing
    BY <2>1, QueueIs DEF Resizing
  <2> QED BY <2>1, <2>2, QueueIs
<1> QED
  BY <1>1, <1>2, <1>3, <1>4, <1>5, <1>6, <1>7, <1>8, <1>9, <1>10, <1>11, <1>12
     DEF Next, DemuxStep, LoopStep, vars

(***************************************************************************)
(* The buffers.                                                            *)
(***************************************************************************)
\* What is in a buffer is the current picture and nothing else, or it was out of
\* the pool when that was last reset.
Fresh(b) == b.old \/ (b.shows = canvas /\ ~b.mixed)

BufferTypes ==
  /\ canvas \in Geometries /\ pane \in Panes /\ picture \in Pictures
  /\ {doing, hand, mailbox} \subseteq Buffers \cup {None} /\ pool \in Seq(Buffers)

BuffersInv ==
  /\ \A b \in {doing, hand, mailbox} : b # None => Fresh(b)
  /\ \A i \in 1..Len(pool) : Fresh(pool[i])
  /\ video \in {"off", "header"} => pool = <<>> /\ mailbox = None /\ doing = None
  /\ video \notin {"full", "again"} => hand = None
  /\ loop = "off" => video = "off"

\* Fresh, for any canvas.
Good(b, c) == b.old \/ (b.shows = c /\ ~b.mixed)

\* A pool without one of its buffers has none that it did not have.
LEMMA RestOfPool ==
  ASSUME NEW p \in Seq(Buffers), NEW i \in 1..Len(p)
  PROVE  /\ RemoveAt(p, i) \in Seq(Buffers)
         /\ Len(RemoveAt(p, i)) <= Len(p)
         /\ \A j \in 1..Len(RemoveAt(p, i)) : \E k \in 1..Len(p) : RemoveAt(p, i)[j] = p[k]
<1> DEFINE a == SubSeq(p, 1, i - 1)
           z == SubSeq(p, i + 1, Len(p))
<1>1. Len(p) \in Nat /\ i \in Nat /\ i >= 1 /\ i <= Len(p)
  OBVIOUS
<1>2. /\ a \in Seq(Buffers) /\ Len(a) = i - 1 /\ \A j \in 1..i - 1 : a[j] = p[j]
  BY <1>1
<1>3. /\ z \in Seq(Buffers) /\ Len(z) = Len(p) - i /\ \A j \in 1..Len(p) - i : z[j] = p[i + j]
  BY <1>1
<1>4. RemoveAt(p, i) = a \o z
  BY DEF RemoveAt
<1>5. /\ a \o z \in Seq(Buffers) /\ Len(a \o z) = Len(p) - 1
      /\ \A j \in 1..Len(p) - 1 : (a \o z)[j] = IF j <= i - 1 THEN a[j] ELSE z[j - (i - 1)]
  <2> HIDE DEF a, z
  <2>1. /\ a \o z \in Seq(Buffers) /\ Len(a \o z) = Len(a) + Len(z)
        /\ \A j \in 1..Len(a) + Len(z) :
             (a \o z)[j] = IF j <= Len(a) THEN a[j] ELSE z[j - Len(a)]
    BY <1>2, <1>3, ConcatProperties
  <2>2. Len(a) + Len(z) = Len(p) - 1
    BY <1>1, <1>2, <1>3
  <2> QED BY <1>2, <2>1, <2>2
<1> HIDE DEF a, z
<1>6. ASSUME NEW j \in 1..Len(p) - 1 PROVE \E k \in 1..Len(p) : (a \o z)[j] = p[k]
  <2>1. CASE j <= i - 1
    <3>1. (a \o z)[j] = p[j] /\ j \in 1..Len(p)
      BY <1>1, <1>2, <1>5, <2>1
    <3> QED BY <3>1
  <2>2. CASE ~(j <= i - 1)
    <3>1. (a \o z)[j] = z[j - (i - 1)] /\ j - (i - 1) \in 1..Len(p) - i
      BY <1>1, <1>5, <2>2
    <3>2. i + (j - (i - 1)) = j + 1 /\ j + 1 \in 1..Len(p)
      BY <1>1
    <3>3. (a \o z)[j] = p[j + 1]
      BY <1>3, <3>1, <3>2
    <3> QED BY <3>2, <3>3
  <2> QED BY <2>1, <2>2
<1>7. Len(RemoveAt(p, i)) = Len(p) - 1 /\ Len(RemoveAt(p, i)) <= Len(p)
  BY <1>1, <1>4, <1>5
<1>8. \A j \in 1..Len(RemoveAt(p, i)) : \E k \in 1..Len(p) : RemoveAt(p, i)[j] = p[k]
  BY <1>4, <1>6, <1>7
<1> QED BY <1>4, <1>5, <1>7, <1>8

\* What a picture is scaled into shows nothing else (takePooled), nor does
\* what is left in the pool.
LEMMA ScaledIs ==
  ASSUME NEW p \in Seq(Buffers), NEW c \in Geometries, \A i \in 1..Len(p) : Good(p[i], c),
         NEW x \in Scaled(p, c)
  PROVE  /\ x[1] \in Buffers /\ Good(x[1], c)
         /\ x[2] \in Seq(Buffers) /\ \A i \in 1..Len(x[2]) : Good(x[2][i], c)
         /\ Len(x[2]) <= Len(p)
<1>1. CASE x = <<[made |-> c[1], shows |-> c, mixed |-> FALSE, old |-> FALSE], p>>
  <2>1. x[1] = [made |-> c[1], shows |-> c, mixed |-> FALSE, old |-> FALSE] /\ x[2] = p
        /\ Len(p) \in Nat
    BY <1>1
  <2>2. x[1] \in Buffers
    BY <2>1 DEF Geometries, Buffers
  <2>3. Good(x[1], c)
    BY <2>1 DEF Good
  <2> QED BY <2>1, <2>2, <2>3
<1>2. ASSUME NEW i \in 1..Len(p),
             x = <<[p[i] EXCEPT !.shows = c, !.mixed = @ \/ p[i].shows # c], RemoveAt(p, i)>>
      PROVE  /\ x[1] \in Buffers /\ Good(x[1], c)
             /\ x[2] \in Seq(Buffers) /\ \A j \in 1..Len(x[2]) : Good(x[2][j], c)
             /\ Len(x[2]) <= Len(p)
  <2>1. x[1] = [p[i] EXCEPT !.shows = c, !.mixed = @ \/ p[i].shows # c] /\ x[2] = RemoveAt(p, i)
    BY <1>2
  <2>2. p[i] \in Buffers /\ Good(p[i], c)
    OBVIOUS
  <2>3. x[1] \in Buffers
    BY <2>1, <2>2 DEF Buffers
  <2>4. Good(x[1], c)
    BY <2>1, <2>2 DEF Buffers, Good
  <2>5. x[2] \in Seq(Buffers) /\ Len(x[2]) <= Len(p) /\ \A j \in 1..Len(x[2]) : \E k \in 1..Len(p) : x[2][j] = p[k]
    <3> DEFINE y == RemoveAt(p, i)
    <3>1. y \in Seq(Buffers) /\ Len(y) <= Len(p)
          /\ \A j \in 1..Len(y) : \E k \in 1..Len(p) : y[j] = p[k]
      BY RestOfPool
    <3> QED BY <2>1, <3>1
  <2> QED BY <2>3, <2>4, <2>5
<1>3. \/ x = <<[made |-> c[1], shows |-> c, mixed |-> FALSE, old |-> FALSE], p>>
      \/ \E i \in 1..Len(p) :
           x = <<[p[i] EXCEPT !.shows = c, !.mixed = @ \/ p[i].shows # c], RemoveAt(p, i)>>
  <2>1. DOMAIN p = 1..Len(p)
    OBVIOUS
  <2> QED BY <2>1 DEF Scaled
<1> QED BY <1>1, <1>2, <1>3

\* A buffer that goes back to the pool (returnPooled) was fresh, and the pool holds two.
LEMMA PooledIs ==
  ASSUME BufferTypes, BuffersInv, NEW b \in Buffers \cup {None}, b # None => Fresh(b), Pooled(b)
  PROVE  /\ pool' \in Seq(Buffers) /\ \A i \in 1..Len(pool') : Fresh(pool'[i])
         /\ Len(pool) <= 2 => Len(pool') <= 2
<1>1. CASE UNCHANGED pool
  BY <1>1 DEF BufferTypes, BuffersInv
<1>2. CASE pool' = Append(pool, b) /\ b # None /\ Len(pool) # 2
  <2>1. b \in Buffers /\ Fresh(b)
    BY <1>2
  <2>2. Append(pool, b) \in Seq(Buffers) /\ Len(Append(pool, b)) = Len(pool) + 1 /\ Len(pool) \in Nat
        /\ Append(pool, b)[Len(pool) + 1] = b
        /\ \A i \in 1..Len(pool) : Append(pool, b)[i] = pool[i]
    BY <2>1 DEF BufferTypes
  <2>3. \A i \in 1..Len(pool) : Fresh(pool[i])
    BY DEF BuffersInv
  <2>4. ASSUME NEW i \in 1..Len(Append(pool, b)) PROVE Fresh(Append(pool, b)[i])
    <3>1. i \in 1..Len(pool) \/ i = Len(pool) + 1
      BY <2>2
    <3> QED BY <2>1, <2>2, <2>3, <3>1
  <2>5. Len(pool) <= 2 => Len(Append(pool, b)) <= 2
    <3>1. Len(pool) \in Nat /\ Len(Append(pool, b)) = Len(pool) + 1 /\ Len(pool) # 2
      BY <1>2, <2>2
    <3>2. \A n \in Nat : n # 2 /\ n <= 2 => n + 1 <= 2
      OBVIOUS
    <3>3. Len(pool) <= 2 => Len(pool) + 1 <= 2
      BY <3>1, <3>2
    <3> QED BY <3>1, <3>3
  <2> QED BY <1>2, <2>2, <2>4, <2>5
<1> QED BY <1>1, <1>2 DEF Pooled

\* A new geometry empties the pool, so that no later buffer holds an older picture.
LEMMA FrameKept ==
  ASSUME BufferTypes, BuffersInv, Frame
  PROVE  BufferTypes' /\ BuffersInv' /\ (Len(pool) <= 2 => Len(pool') <= 2)
<1>1. /\ video = "read" /\ canvas' = (IF dirty THEN <<pane, picture>> ELSE canvas)
      /\ doing' = Out(doing) /\ UNCHANGED <<loop, pane, picture>> /\ loop # "off"
  BY DEF Frame, Alive
<1>2. PICK x \in Scaled(PoolNow, canvas') :
        /\ pool' = x[2]
        /\ IF mailbox = None
           THEN mailbox' = x[1] /\ UNCHANGED <<hand, video>>
           ELSE mailbox' = Out(mailbox) /\ hand' = x[1] /\ video' = "full"
  BY DEF Frame
<1>3. canvas' \in Geometries
  BY <1>1 DEF BufferTypes, Geometries
<1>4. PoolNow \in Seq(Buffers) /\ \A i \in 1..Len(PoolNow) : Good(PoolNow[i], canvas')
  <2>1. CASE dirty
    <3>1. PoolNow = <<>>
      BY <2>1 DEF PoolNow
    <3> QED BY <3>1
  <2>2. CASE ~dirty
    <3>1. PoolNow = pool /\ canvas' = canvas
      BY <1>1, <2>2 DEF PoolNow
    <3> QED BY <3>1 DEF BufferTypes, BuffersInv, Good, Fresh
  <2> QED BY <2>1, <2>2
<1>5. /\ x[1] \in Buffers /\ Good(x[1], canvas')
      /\ x[2] \in Seq(Buffers) /\ \A i \in 1..Len(x[2]) : Good(x[2][i], canvas')
      /\ Len(x[2]) <= Len(PoolNow)
  BY <1>3, <1>4, ScaledIs
<1>6. ASSUME NEW b \in Buffers \cup {None}, b # None => Fresh(b)
      PROVE  Out(b) \in Buffers \cup {None} /\ (Out(b) # None => Good(Out(b), canvas'))
  <2>1. CASE dirty /\ b # None
    <3>1. Out(b) = [b EXCEPT !.old = TRUE] /\ b \in Buffers
      BY <2>1 DEF Out
    <3> QED BY <3>1 DEF Buffers, Good
  <2>2. CASE ~dirty \/ b = None
    <3>1. Out(b) = b
      BY <2>2 DEF Out
    <3>2. b # None => canvas' = canvas
      BY <1>1, <2>2
    <3> QED BY <1>6, <3>1, <3>2 DEF Good, Fresh
  <2> QED BY <2>1, <2>2
<1>7. hand = None /\ doing \in Buffers \cup {None} /\ mailbox \in Buffers \cup {None}
      /\ (doing # None => Fresh(doing)) /\ (mailbox # None => Fresh(mailbox))
  BY <1>1 DEF BufferTypes, BuffersInv
<1>8. /\ doing' \in Buffers \cup {None} /\ (doing' # None => Good(doing', canvas'))
      /\ mailbox' \in Buffers \cup {None} /\ (mailbox' # None => Good(mailbox', canvas'))
      /\ hand' \in Buffers \cup {None} /\ (hand' # None => Good(hand', canvas'))
  <2>1. Out(doing) \in Buffers \cup {None} /\ (Out(doing) # None => Good(Out(doing), canvas'))
        /\ Out(mailbox) \in Buffers \cup {None}
        /\ (Out(mailbox) # None => Good(Out(mailbox), canvas'))
    BY <1>6, <1>7
  <2> QED BY <1>1, <1>2, <1>5, <1>7, <2>1
<1>9. BufferTypes'
  BY <1>1, <1>2, <1>3, <1>5, <1>8 DEF BufferTypes
<1>10. video' \in {"read", "full"} /\ (video' # "full" => hand' = None) /\ loop' # "off"
  BY <1>1, <1>2, <1>7
<1>11. \A b \in {doing', hand', mailbox'} : b # None => b.old \/ (b.shows = canvas' /\ ~b.mixed)
  BY <1>8 DEF Good
<1>12. \A i \in 1..Len(pool') : pool'[i].old \/ (pool'[i].shows = canvas' /\ ~pool'[i].mixed)
  BY <1>2, <1>5 DEF Good
<1>13. Len(pool) <= 2 => Len(pool') <= 2
  <2>1. Len(<<>>) = 0 /\ Len(PoolNow) \in Nat /\ Len(x[2]) \in Nat
    BY <1>4, <1>5
  <2>2. PoolNow = <<>> \/ PoolNow = pool
    BY DEF PoolNow
  <2> QED BY <1>2, <1>5, <2>1, <2>2
<1> QED BY <1>9, <1>10, <1>11, <1>12, <1>13 DEF BuffersInv, Fresh

\* Whoever has a buffer, the loop, the demuxer or the mailbox, it is fresh.
LEMMA BuffersKept ==
  ASSUME LoopRuns, BufferTypes, BuffersInv, [Next]_vars PROVE BufferTypes' /\ BuffersInv'
<1> USE DEF sizeVars, frameVars, loopVars
<1>1. CASE UNCHANGED <<loop, doing, hand, mailbox, pool, canvas, pane, picture, video>>
  BY <1>1 DEF BufferTypes, BuffersInv, Fresh
<1>2. CASE \/ LinkStep \/ DeviceStep \/ DeviceLost \/ Notice \/ Panic \/ AudioEnds \/ RestoreStep
           \/ SinkStep
  BY <1>1, <1>2 DEF LinkStep, DeviceStep, DeviceLost, Notice, Panic, AudioEnds, RestoreStep,
     RestoreStops, RestoreWrites, Die, SinkStep, SinkSuspends, SinkResumes
<1>3. ASSUME NEW e \in Event, Send(e)
      PROVE  UNCHANGED <<loop, doing, hand, mailbox, pool, canvas, pane, picture, video>>
  BY <1>3 DEF Send
<1>4. CASE VideoStarts \/ VideoEnds \/ Rotate
  BY <1>4 DEF VideoStarts, VideoEnds, Rotate, BufferTypes, BuffersInv, Fresh, Geometries
<1>5. ASSUME NEW e \in Event, Arrive(e) PROVE BufferTypes' /\ BuffersInv'
  BY <1>5 DEF Arrive, BufferTypes, BuffersInv, Fresh
<1>6. CASE Evict
  <2>1. Pooled(mailbox) /\ mailbox' = None /\ video' = "again" /\ video = "full"
        /\ UNCHANGED <<loop, hand, doing, canvas, pane, picture>>
    BY <1>6 DEF Evict
  <2>2. pool' \in Seq(Buffers) /\ \A i \in 1..Len(pool') : Fresh(pool'[i])
    BY <2>1, PooledIs DEF BufferTypes, BuffersInv
  <2> QED BY <2>1, <2>2 DEF BufferTypes, BuffersInv, Fresh
<1>7. CASE DeliverAgain
  BY <1>7 DEF DeliverAgain, BufferTypes, BuffersInv, Fresh
<1>8. CASE Begin \/ PostQuit
  BY <1>8 DEF Begin, PostQuit, BufferTypes, BuffersInv, Fresh
<1>9. CASE Shutdown
  BY <1>9 DEF Shutdown, BufferTypes, BuffersInv, Fresh
<1>10. CASE Written
  <2>1. Pooled(doing) /\ doing' = None /\ UNCHANGED <<hand, mailbox, canvas, pane, picture, video>>
        /\ loop' = "wait"
    BY <1>10 DEF Written
  <2>2. pool' \in Seq(Buffers) /\ \A i \in 1..Len(pool') : Fresh(pool'[i])
    BY <2>1, PooledIs DEF BufferTypes, BuffersInv
  <2>3. pool = <<>> /\ doing = None => UNCHANGED pool
    BY <2>1 DEF Pooled
  <2> QED BY <2>1, <2>2, <2>3 DEF BufferTypes, BuffersInv, Fresh
<1>11. CASE TakeEvent \/ TakeWake
  <2>1. UNCHANGED <<hand, mailbox, canvas, pane, picture, video, pool>> /\ doing' \in {doing, None}
        /\ loop' # "off"
    BY <1>11 DEF TakeEvent, TakeWake, Leave, Paint, Pooled
  <2> QED BY <2>1 DEF BufferTypes, BuffersInv, Fresh
<1>12. CASE TakeLoss
  BY <1>12 DEF TakeLoss, Leave, BufferTypes, BuffersInv, Fresh
<1>13. CASE TakeFrame
  <2>1. mailbox # None /\ mailbox' = None /\ UNCHANGED <<hand, canvas, pane, picture, video>>
        /\ loop' # "off"
        /\ \/ doing' = mailbox /\ UNCHANGED pool
           \/ doing' = None /\ Pooled(mailbox)
    BY <1>13 DEF TakeFrame, Paint
  <2>2. pool' \in Seq(Buffers) /\ \A i \in 1..Len(pool') : Fresh(pool'[i])
    BY <2>1, PooledIs DEF BufferTypes, BuffersInv
  <2> QED BY <2>1, <2>2 DEF BufferTypes, BuffersInv, Fresh
<1> QED
  BY <1>1, <1>2, <1>3, <1>4, <1>5, <1>6, <1>7, <1>8, <1>9, <1>10, <1>11, <1>12, <1>13, FrameKept
     DEF Next, DemuxStep, LoopStep, vars

(***************************************************************************)
(* The remaining types.                                                    *)
(***************************************************************************)
Flags == asked \in BOOLEAN /\ running \in BOOLEAN /\ board \in BOOLEAN /\ wake \in BOOLEAN
         /\ dirty \in BOOLEAN /\ held \in BOOLEAN

LoopTypes ==
  /\ display \in {"tui", "headless"}
  /\ loop \in {"off", "wait", "post", "write", "leave", "left"}
  /\ lost \in {"no", "lost", "error"}
  /\ restore \in {"no", "stopping", "done"} /\ crashed \in {"no", "panic", "dead"}
  /\ screen \in {"shell", "alt"}
  /\ video \in {"off", "header", "read", "full", "again", "ended"}
  /\ audio \in {"off", "on", "ended"}
  /\ grid \in Panes /\ pane \in Panes
  /\ surprises \in 0..MaxSurprises /\ kept \in 0..ReplayMax
  /\ status \in {"none", "quit", "lost", "error"}
  /\ events \in Seq(Event) /\ Len(events) <= Room
  /\ pool \in Seq(Buffers) /\ Len(pool) <= 2

\* The event queue never exceeds its room.
LEMMA Grows ==
  ASSUME NEW q \in Seq(Event), NEW n \in Nat, Len(q) < n, NEW e \in Event
  PROVE  Append(q, e) \in Seq(Event) /\ Len(Append(q, e)) <= n
<1>1. Len(q) \in Nat /\ Len(Append(q, e)) = Len(q) + 1 /\ Append(q, e) \in Seq(Event)
  OBVIOUS
<1> QED BY <1>1

\* Nor when it gets shorter.
LEMMA Shrinks ==
  ASSUME NEW q \in Seq(Event), NEW n \in Nat, Len(q) <= n, q # <<>>
  PROVE  Tail(q) \in Seq(Event) /\ Len(Tail(q)) <= n
<1>1. Len(q) \in Nat /\ Len(Tail(q)) = Len(q) - 1 /\ Tail(q) \in Seq(Event)
  OBVIOUS
<1> QED BY <1>1

\* What Shutdown leaves.
LEMMA NothingLeft ==
  ASSUME NEW n \in Nat
  PROVE  <<>> \in Seq(Event) /\ <<>> \in Seq(Buffers) /\ Len(<<>>) <= n /\ Len(<<>>) <= 2
OBVIOUS

\* The Booleans of the session stay Booleans.
LEMMA FlagsKept == Flags /\ [Next]_vars => Flags'
BY ZenonT(60)
   DEF Flags, Next, vars, LinkStep, DeviceStep, DeviceLost, DemuxStep, VideoStarts, VideoEnds,
   Frame, Evict, DeliverAgain, AudioEnds, Put, Rotate, Notice, Panic, LoopStep, Begin, PostQuit, Written,
   Shutdown, TakeEvent, Resized, Leave, Paint, TakeFrame, TakeWake, TakeLoss, RestoreStep,
   RestoreStops, RestoreWrites, Die, Arrive, Send, SinkStep, SinkSuspends, SinkResumes, queueVars, sizeVars,
   screenVars, noticeVars, soundVars

\* And the other types are kept, the pool's two buffers and the queue's room with them.
LEMMA TypesKept ==
  ASSUME TerminalAssumption, LoopTypes, BufferTypes, BuffersInv, SizeTypes, [Next]_vars
  PROVE  LoopTypes'
<1> USE DEF LoopTypes, Surprise, loopVars, queueVars, frameVars, sizeVars, screenVars, noticeVars,
            endVars, calm, soundVars, TerminalAssumption
<1>1. CASE UNCHANGED vars
  BY <1>1 DEF vars
<1>2. CASE LinkStep \/ DeviceStep \/ DeviceLost
  BY <1>2 DEF LinkStep, DeviceStep, DeviceLost
<1>3. CASE VideoStarts \/ VideoEnds \/ DeliverAgain
  BY <1>3 DEF VideoStarts, VideoEnds, DeliverAgain
<1>4. CASE Frame
  <2>1. pool' \in Seq(Buffers) /\ Len(pool') <= 2
    BY <1>4, FrameKept DEF BufferTypes
  <2> QED BY <1>4, <2>1 DEF Frame
<1>5. CASE Evict
  <2>1. pool' \in Seq(Buffers) /\ Len(pool') <= 2
    BY <1>5, PooledIs DEF Evict, BufferTypes, BuffersInv
  <2> QED BY <1>5, <2>1 DEF Evict
<1>6. CASE AudioEnds \/ Notice
  BY <1>6, SMTT(20) DEF AudioEnds, Notice, Put
<1>7. CASE Rotate \/ Panic \/ RestoreStep \/ SinkStep
  BY <1>7 DEF Rotate, Panic, RestoreStep, RestoreStops, RestoreWrites, Die, SinkStep,
     SinkSuspends, SinkResumes
<1>8. CASE Begin
  BY <1>8 DEF Begin
<1>9. CASE PostQuit
  <2>1. events' \in Seq(Event) /\ Len(events') <= Room
    BY <1>9, Grows DEF PostQuit, Event
  <2> QED BY <1>9, <2>1 DEF PostQuit
<1>10. CASE Written
  <2>1. pool' \in Seq(Buffers) /\ Len(pool') <= 2
    BY <1>10, PooledIs DEF Written, BufferTypes, BuffersInv
  <2> QED BY <1>10, <2>1 DEF Written
<1>11. CASE Shutdown
  <2>1. events' \in Seq(Event) /\ Len(events') <= Room /\ pool' \in Seq(Buffers) /\ Len(pool') <= 2
    BY <1>11, NothingLeft DEF Shutdown
  <2> QED BY <1>11, <2>1 DEF Shutdown
<1>12. CASE TakeEvent
  <2>1. events' \in Seq(Event) /\ Len(events') <= Room
    BY <1>12, Shrinks DEF TakeEvent
  <2>2. UNCHANGED pool
    BY <1>12 DEF TakeEvent, Leave, Paint, Pooled
  <2>3. loop' \in {"leave", "post", "write", "wait"} /\ status' \in {status, "quit"} /\ grid' \in {grid, pane}
    BY <1>12 DEF TakeEvent, Leave, Paint, Resized
  <2>4. UNCHANGED <<display, lost, restore, crashed, screen, video, audio, pane, surprises, kept>>
    BY <1>12 DEF TakeEvent
  <2> QED BY <2>1, <2>2, <2>3, <2>4
<1>13. CASE TakeFrame
  <2>1. pool' \in Seq(Buffers) /\ Len(pool') <= 2
    BY <1>13, PooledIs DEF TakeFrame, Paint, BufferTypes, BuffersInv
  <2> QED BY <1>13, <2>1 DEF TakeFrame, Paint
<1>14. CASE TakeWake
  <2>1. UNCHANGED pool
    BY <1>14 DEF TakeWake, Paint, Pooled
  <2> QED BY <1>14, <2>1 DEF TakeWake, Paint
<1>15. CASE TakeLoss
  BY <1>15 DEF TakeLoss, Leave
<1>16. ASSUME NEW e \in Event, Arrive(e) PROVE LoopTypes'
  <2>1. surprises' \in 0..MaxSurprises
    <3>1. surprises < MaxSurprises /\ surprises' = surprises + 1
      BY <1>16 DEF Arrive
    <3> QED BY <3>1
  <2>2. pane' \in Panes /\ UNCHANGED <<display, loop, lost, restore, crashed, screen, video, audio, grid,
                                     kept, status, events, pool>>
    BY <1>16 DEF Arrive
  <2> QED BY <2>1, <2>2
<1>17. ASSUME NEW e \in Event, Send(e) PROVE LoopTypes'
  <2>1. events' \in Seq(Event) /\ Len(events') <= Room
    BY <1>17, Grows DEF Send
  <2> QED BY <1>17, <2>1 DEF Send
<1> QED
  BY <1>1, <1>2, <1>3, <1>4, <1>5, <1>6, <1>7, <1>8, <1>9, <1>10, <1>11, <1>12, <1>13, <1>14,
     <1>15, <1>16, <1>17 DEF Next, DemuxStep, LoopStep

(***************************************************************************)
(* The theorems.                                                           *)
(***************************************************************************)
\* The inductive invariant.
IInv ==
  /\ LoopRuns /\ LinkInv /\ LinkFlags /\ ScreenInv /\ SizeTypes /\ SizesInv
  /\ BufferTypes /\ BuffersInv /\ Flags /\ LoopTypes

\* A run that has just been started: no link, no terminal, nothing in the queue.
LEMMA InitIInv == TerminalAssumption /\ Init => IInv
<1> SUFFICES ASSUME TerminalAssumption, Init PROVE IInv
  OBVIOUS
<1>1. LinkInv
  BY LinkStart DEF Init
<1>2. LoopRuns /\ ScreenInv
  BY DEF Init, LoopRuns, ScreenInv
<1>3. LinkFlags
  BY DEF Init, LinkInit, LinkFlags
<1>4. Flags
  BY DEF Init, Flags
<1>5. pane \in Panes /\ display \in {"tui", "headless"} /\ picture \in Pictures
  BY DEF Init, TerminalAssumption
<1>6. SizeTypes /\ SizesInv
  BY DEF Init, SizeTypes, SizesInv
<1>7. BufferTypes /\ BuffersInv
  BY <1>5, NothingLeft DEF Init, BufferTypes, BuffersInv, Geometries
<1>8. LoopTypes
  BY <1>5, NothingLeft DEF Init, LoopTypes, TerminalAssumption
<1> QED BY <1>1, <1>2, <1>3, <1>4, <1>6, <1>7, <1>8 DEF IInv

\* The invariant the others follow from: the link's pairs and places (link.go), the screen
\* (app.go, tui.go), the sizes and the buffers (stream.go).
THEOREM Inductive == Spec => []IInv
<1>1. Init => IInv
  BY InitIInv, TerminalAssumption
<1>2. IInv /\ [Next]_vars => IInv'
  <2> SUFFICES ASSUME IInv, [Next]_vars PROVE IInv'
    OBVIOUS
  <2>1. LinkInv' /\ ScreenInv' /\ SizeTypes' /\ SizesInv'
    BY LinkKept, ScreenKept, SizesKept DEF IInv
  <2>2. BufferTypes' /\ BuffersInv'
    BY BuffersKept DEF IInv
  <2>3. LoopTypes' /\ Flags'
    BY TypesKept, FlagsKept, TerminalAssumption DEF IInv
  <2>4. LinkFlags' /\ LoopRuns'
    <3>1. CASE UNCHANGED vars
      BY <3>1 DEF IInv, vars, linkVars, loopVars, LinkFlags, LoopRuns
    <3>2. CASE Next
      BY <3>2, LinkOrNot, LoopRunsKept, LinkFlagsKept DEF IInv, linkVars, LinkFlags
    <3> QED BY <3>1, <3>2
  <2> QED BY <2>1, <2>2, <2>3, <2>4 DEF IInv
<1> QED BY <1>1, <1>2, PTL DEF Spec

\* The types hold for any terminals and pictures; the event queue keeps to its room and the
\* pool to two buffers (returnPooled, app.events).
THEOREM TypeCorrect == Spec => []TypeOK
<1>1. IInv => TypeOK
  BY DEF IInv, TypeOK, LinkTypeOK, LinkInv, LinkTypes, LinkFlags, SizeTypes, BufferTypes, Flags, LoopTypes
<1> QED BY <1>1, Inductive, PTL

\* Whatever fails, exits, is unplugged or times out during start, connect and stop, a session
\* that is over leaves no listener, no adb mapping, no open socket and no server (link.go).
THEOREM NothingLeftBehindCorrect == Spec => []NothingLeftBehind
<1>1. IInv => NothingLeftBehind
  BY DEF IInv, LinkInv, LinkTypes, Places, Closed, NothingLeftBehind
<1> QED BY <1>1, Inductive, PTL

\* Through adb reverse and adb forward, for any wanted sockets, each socket is joined to the
\* server's socket of its kind (session.connect, dialForward).
THEOREM SocketsPairedCorrect == Spec => []SocketsPaired
<1>1. IInv => SocketsPaired
  <2> SUFFICES ASSUME IInv, NEW k \in Kinds
               PROVE  /\ host[k] \in Kinds => host[k] = k
                      /\ step \in {"untunnel", "up"} /\ k \in want => host[k] = k
    BY DEF SocketsPaired
  <2>1. host[k] \in Kinds => host[k] = k
    BY DEF IInv, LinkInv, Pairs
  <2>2. ASSUME step \in {"untunnel", "up"}, k \in want PROVE host[k] = k
    <3>1. joined = want /\ Missing = {} /\ Bringing
      BY <2>2 DEF IInv, LinkInv, Places, Complete, Bringing
    <3>2. k \in joined \cap OpenSockets
      BY <2>2, <3>1 DEF Missing, OpenSockets
    <3> QED BY <3>1, <3>2 DEF IInv, LinkInv, Pairs
  <2> QED BY <2>1, <2>2
<1> QED BY <1>1, Inductive, PTL

\* Nothing is painted on the shell's screen; however a run ends the terminal is given back
\* and the notices are printed (app.run, terminalRestorer, noticeBoard).
THEOREM TerminalGivenBackCorrect == Spec => []TerminalGivenBack
<1>1. IInv => TerminalGivenBack
  BY DEF IInv, ScreenInv, TerminalGivenBack
<1> QED BY <1>1, Inductive, PTL

\* When no resize is on its way, the grid and the canvas are of the terminal's size, for any
\* sizes and any number of resizes and rotations (onResize, stream.runVideo).
THEOREM GeometrySettlesCorrect == Spec => []GeometrySettles
<1>1. IInv => GeometrySettles
  <2>1. SizeTypes => DOMAIN events = 1..Len(events)
    BY DEF SizeTypes
  <2> QED BY <2>1 DEF IInv, SizesInv, Resizing, GeometrySettles
<1> QED BY <1>1, Inductive, PTL

\* No buffer that was in the pool since its last reset shows an older picture beside the new
\* one (resetPool, takePooled).
THEOREM BlackBarsCorrect == Spec => []BlackBars
<1>1. IInv => BlackBars
  BY DEF IInv, BuffersInv, Fresh, BlackBars
<1> QED BY <1>1, Inductive, PTL
=============================================================================
