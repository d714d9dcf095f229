-------------------------- MODULE UrmaPingpongProofs --------------------------
(***************************************************************************)
(* For any setups and any number of faults, and whichever waits run out:   *)
(* the teardown of urma_pingpong by completions only is safe, and a pong   *)
(* under way has a place to land.                                          *)
(***************************************************************************)
EXTENDS UrmaPingpong, TLAPS

\* The other node, and there is no third.
LEMMA Pair ==
  ASSUME NEW n \in Nodes
  PROVE  /\ Peer(n) \in Nodes /\ Peer(n) # n /\ Peer(Peer(n)) = n
         /\ \A m \in Nodes : m = n \/ m = Peer(n)
<1>1. \A k \in Nodes : \E m \in Nodes : m # k
  BY NodesAssumption
<1>2. \A k \in Nodes : Peer(k) \in Nodes /\ Peer(k) # k
  BY <1>1 DEF Peer
<1> QED
  BY <1>2, NodesAssumption

\* The ends are the clients and the servers, each of one node.
LEMMA EndPairs ==
  /\ \A n \in Nodes : Client(n) \in Ends /\ Server(n) \in Ends
  /\ \A e \in Ends : e[1] \in Nodes /\ (e = Client(e[1]) \/ e = Server(e[1]))
  /\ \A n \in Nodes : Client(n)[1] = n /\ Server(n)[1] = n
  /\ \A n, m \in Nodes :
        /\ Client(n) # Server(m)
        /\ n # m => Client(n) # Client(m) /\ Server(n) # Server(m)
  BY DEF Ends, Client, Server

\* Each end sends to one end of the other node.
LEMMA DestPairs ==
  /\ \A n \in Nodes : Dest(Client(n)) = Server(Peer(n)) /\ Dest(Server(n)) = Client(Peer(n))
  /\ \A e \in Ends : Dest(e) \in Ends /\ Dest(e) # e /\ Dest(Dest(e)) = e
<1>1. \A n \in Nodes : Dest(Client(n)) = Server(Peer(n)) /\ Dest(Server(n)) = Client(Peer(n))
  BY EndPairs DEF Dest
<1> QED
  BY <1>1, EndPairs, Pair

-------------------------------------------------------------------------------
(* The strengthening.                                                      *)

Recs == [ctx : {"send", "recv"}, ok : BOOLEAN]

\* The records of a queue.
Recorded(q) == {q[i] : i \in DOMAIN q}

Types ==
    /\ setup \in Setups
    /\ up \in [Nodes -> {"off", "running", "exited", "killed"}]
    /\ cli \in [Nodes -> {"off", "info", "import", "msg", "recv", "send", "wait"} \cup CliEnded]
    /\ http \in [Nodes -> {"off", "serving", "ended", "failed"}]
    /\ echo \in [Nodes -> {"off", "arm", "recv", "send"} \cup EchoEnded]
    /\ imported \in [Nodes -> BOOLEAN] /\ done \in [Nodes -> BOOLEAN]
    /\ stop \in [Nodes -> BOOLEAN]
    /\ res \in [Ends -> {"none", "live", "freed"}]
    /\ buf \in [Ends -> {"idle", "posted", "filled"}]
    /\ msg \in [Ends -> {"none", "sent", "landed", "acked", "refused"}]
    /\ cq \in [Ends -> Seq(Recs)]
    /\ faults \in 0 .. MaxFaults

\* What owns a set, and that a process which has not been started has no task.
SetsGood ==
    /\ \A n \in Nodes : ~setup.hook =>
          /\ res[Client(n)] = "live" <=> up[n] = "running" /\ cli[n] \notin {"off"} \cup CliEnded
          /\ res[Server(n)] = "live" <=> up[n] = "running" /\ echo[n] \notin {"off"} \cup EchoEnded
    /\ \A e \in Ends : res[e] # "live" => cq[e] = <<>>
    /\ \A n \in Nodes :
          /\ up[n] = "off" => cli[n] = "off" /\ http[n] = "off"
          /\ http[n] = "off" => echo[n] = "off"
          /\ up[n] = "exited" => cli[n] \in CliEnded

\* A filled buffer is a message that landed, and a record says what happened.
MessagesGood ==
    \A e \in Ends :
        /\ buf[Dest(e)] = "filled" <=> msg[e] \in {"landed", "acked"}
        /\ \A r \in Recorded(cq[e]) :
              /\ r.ctx = "recv" => buf[e] = "filled"
              /\ r.ctx = "send" /\ r.ok => msg[e] = "acked"

\* The order in which a client gets ready, and what it has done by then.
ClientGood ==
    \A n \in Nodes :
        /\ cli[n] \in {"off", "info", "import", "msg", "recv"} =>
              buf[Client(n)] = "idle" /\ msg[Client(n)] = "none"
        /\ cli[n] = "msg" => setup.hook
        /\ cli[n] \in {"recv", "send", "wait"} => ~setup.hook /\ imported[Peer(n)]
        /\ cli[n] = "send" => buf[Client(n)] # "idle" /\ msg[Client(n)] = "none"
        /\ cli[n] = "done" /\ ~setup.hook => buf[Client(n)] = "filled"
        /\ msg[Client(n)] # "none" => /\ buf[Client(n)] # "idle" /\ imported[Peer(n)]
                                      /\ ~setup.hook /\ cli[n] \in {"wait"} \cup CliEnded

\* The same of a server: a pong answers a ping.
ServerGood ==
    \A n \in Nodes :
        /\ echo[n] \in {"off", "arm"} => buf[Server(n)] = "idle" /\ msg[Server(n)] = "none"
        /\ echo[n] \in {"arm", "recv", "send"} => ~setup.hook
        /\ echo[n] = "recv" => msg[Server(n)] = "none"
        /\ echo[n] = "ok" /\ ~setup.hook => msg[Server(n)] = "acked"
        /\ msg[Server(n)] # "none" => buf[Server(n)] = "filled"

\* All of it.
PingpongInv == Types /\ SetsGood /\ MessagesGood /\ ClientGood /\ ServerGood

\* What a poll and an arrival do to a queue.
LEMMA QueueFacts ==
  /\ <<>> \in Seq(Recs) /\ Recorded(<<>>) = {}
  /\ \A q \in Seq(Recs) : q # <<>> =>
        /\ Head(q) \in Recorded(q) /\ Head(q) \in Recs
        /\ Tail(q) \in Seq(Recs) /\ Recorded(Tail(q)) \subseteq Recorded(q)
  /\ \A q \in Seq(Recs), r \in Recs :
        Append(q, r) \in Seq(Recs) /\ Recorded(Append(q, r)) = Recorded(q) \cup {r}
<1>1. <<>> \in Seq(Recs) /\ Recorded(<<>>) = {}
  BY DEF Recorded
<1>2. ASSUME NEW q \in Seq(Recs), q # <<>>
      PROVE  /\ Head(q) \in Recorded(q) /\ Head(q) \in Recs
             /\ Tail(q) \in Seq(Recs) /\ Recorded(Tail(q)) \subseteq Recorded(q)
  <2>1. Len(q) \in Nat /\ Len(q) >= 1 /\ DOMAIN q = 1 .. Len(q)
    BY <1>2
  <2>2. Head(q) \in Recorded(q) /\ Head(q) \in Recs /\ Tail(q) \in Seq(Recs)
    BY <1>2, <2>1 DEF Recorded
  <2>3. \A i \in DOMAIN Tail(q) : i + 1 \in DOMAIN q /\ Tail(q)[i] = q[i + 1]
    BY <1>2, <2>1
  <2> QED
    BY <2>2, <2>3 DEF Recorded
<1>3. ASSUME NEW q \in Seq(Recs), NEW r \in Recs
      PROVE  Append(q, r) \in Seq(Recs) /\ Recorded(Append(q, r)) = Recorded(q) \cup {r}
  <2>1. /\ Append(q, r) \in Seq(Recs) /\ DOMAIN q = 1 .. Len(q) /\ Len(q) \in Nat
        /\ DOMAIN Append(q, r) = 1 .. Len(q) + 1
    OBVIOUS
  <2>2. /\ \A i \in DOMAIN q : i \in DOMAIN Append(q, r) /\ Append(q, r)[i] = q[i]
        /\ Len(q) + 1 \in DOMAIN Append(q, r) /\ Append(q, r)[Len(q) + 1] = r
    BY <2>1
  <2>3. \A i \in DOMAIN Append(q, r) : i \in DOMAIN q \/ i = Len(q) + 1
    BY <2>1
  <2> QED
    BY <2>1, <2>2, <2>3 DEF Recorded
<1> QED
  BY <1>1, <1>2, <1>3

\* Two processes that have not been started satisfy it.
LEMMA InitPingpong == Init => PingpongInv
  BY SetupsAssumption, FaultsAssumption, Pair, EndPairs, DestPairs, QueueFacts
  DEF Init, PingpongInv, Types, SetsGood, MessagesGood, ClientGood, ServerGood,
      CliEnded, EchoEnded

-------------------------------------------------------------------------------
(* What the parts of the steps do.                                         *)

\* Dropping a set empties its queue.
LEMMA FreeFacts ==
  ASSUME Types, NEW e \in Ends, Free(e)
  PROVE  /\ res' \in [Ends -> {"none", "live", "freed"}] /\ cq' \in [Ends -> Seq(Recs)]
         /\ res'[e] # "live" /\ cq'[e] = <<>>
         /\ \A f \in Ends \ {e} : res'[f] = res[f] /\ cq'[f] = cq[f]
         /\ \A f \in Ends : Recorded(cq'[f]) \subseteq Recorded(cq[f])
<1>1. res' \in [Ends -> {"none", "live", "freed"}] /\ res'[e] # "live"
  BY DEF Types, Free
<1>2. cq' \in [Ends -> Seq(Recs)] /\ cq'[e] = <<>>
  BY QueueFacts DEF Types, Free
<1>3. \A f \in Ends \ {e} : res'[f] = res[f] /\ cq'[f] = cq[f]
  BY DEF Types, Free
<1> QED
  BY <1>1, <1>2, <1>3, QueueFacts

\* A record is added to the queue of a live set.
LEMMA ArriveFacts ==
  ASSUME Types, NEW e \in Ends, NEW ctx \in {"send", "recv"}, NEW ok \in BOOLEAN,
         Arrive(e, ctx, ok)
  PROVE  /\ cq' \in [Ends -> Seq(Recs)]
         /\ \A f \in Ends \ {e} : cq'[f] = cq[f]
         /\ res[e] # "live" => cq'[e] = cq[e]
         /\ \A r \in Recorded(cq'[e]) : r \in Recorded(cq[e]) \/ (r.ctx = ctx /\ r.ok = ok)
<1> DEFINE new == [ctx |-> ctx, ok |-> ok]
<1>1. new \in Recs /\ new.ctx = ctx /\ new.ok = ok
  BY DEF Recs
<1> HIDE DEF new
<1>2. CASE res[e] = "live"
  <2>1. cq' = [cq EXCEPT ![e] = Append(@, new)]
    BY <1>2 DEF Arrive, new
  <2>2. cq[e] \in Seq(Recs)
    BY DEF Types
  <2>3. Append(cq[e], new) \in Seq(Recs)
        /\ Recorded(Append(cq[e], new)) = Recorded(cq[e]) \cup {new}
    BY <2>2, <1>1, QueueFacts
  <2>4. /\ cq' \in [Ends -> Seq(Recs)] /\ cq'[e] = Append(cq[e], new)
        /\ \A f \in Ends \ {e} : cq'[f] = cq[f]
    BY <2>1, <2>3 DEF Types
  <2> QED
    BY <1>1, <1>2, <2>3, <2>4
<1>3. CASE res[e] # "live"
  BY <1>3 DEF Arrive, Types
<1> QED
  BY <1>2, <1>3

\* The queues lose records at most: the messages stay told.
LEMMA FewerRecords ==
  ASSUME Types, MessagesGood, UNCHANGED <<buf, msg>>,
         \A e \in Ends : Recorded(cq'[e]) \subseteq Recorded(cq[e])
  PROVE  MessagesGood'
  BY DestPairs DEF MessagesGood

\* A client that ends, one that is content having its pong.
LEMMA ClientEnds ==
  ASSUME PingpongInv, NEW n \in Nodes, NEW how \in CliEnded, EndClient(n, how),
         Running(n), cli[n] # "off", how = "done" => setup.hook \/ buf[Client(n)] = "filled",
         UNCHANGED <<setup, up, echo, http, buf, msg>>,
         imported' \in [Nodes -> BOOLEAN], \A m \in Nodes : imported[m] => imported'[m],
         done' \in [Nodes -> BOOLEAN], faults' \in 0 .. MaxFaults
  PROVE  PingpongInv'
<1> USE EndPairs DEF PingpongInv
<1>1. Free(Client(n)) /\ cli' = [cli EXCEPT ![n] = how] /\ stop' \in [Nodes -> BOOLEAN]
  BY DEF EndClient, Types
<1>2. /\ res' \in [Ends -> {"none", "live", "freed"}] /\ cq' \in [Ends -> Seq(Recs)]
      /\ res'[Client(n)] # "live" /\ cq'[Client(n)] = <<>>
      /\ \A f \in Ends \ {Client(n)} : res'[f] = res[f] /\ cq'[f] = cq[f]
      /\ \A f \in Ends : Recorded(cq'[f]) \subseteq Recorded(cq[f])
  BY <1>1, FreeFacts
<1>3. Types'
  BY <1>1, <1>2 DEF Types, CliEnded, EchoEnded
<1>4. SetsGood'
  BY <1>1, <1>2 DEF SetsGood, Types, Running, CliEnded, EchoEnded
<1>5. MessagesGood'
  BY <1>2, FewerRecords
<1>6. ClientGood'
  BY <1>1, Pair DEF ClientGood, Types, CliEnded
<1>7. ServerGood'
  BY DEF ServerGood
<1> QED
  BY <1>3, <1>4, <1>5, <1>6, <1>7

\* A server whose echo ends, one that is content knowing its pong consumed.
LEMMA EchoEnds ==
  ASSUME PingpongInv, NEW n \in Nodes, NEW how \in EchoEnded, EndEcho(n, how),
         Running(n), echo[n] # "off", how = "ok" => setup.hook \/ msg[Server(n)] = "acked",
         UNCHANGED <<setup, up, cli, http, imported, stop, buf, msg>>,
         faults' \in 0 .. MaxFaults
  PROVE  PingpongInv'
<1> USE EndPairs DEF PingpongInv
<1>1. Free(Server(n)) /\ echo' = [echo EXCEPT ![n] = how] /\ done' \in [Nodes -> BOOLEAN]
  BY DEF EndEcho, Types
<1>2. /\ res' \in [Ends -> {"none", "live", "freed"}] /\ cq' \in [Ends -> Seq(Recs)]
      /\ res'[Server(n)] # "live" /\ cq'[Server(n)] = <<>>
      /\ \A f \in Ends \ {Server(n)} : res'[f] = res[f] /\ cq'[f] = cq[f]
      /\ \A f \in Ends : Recorded(cq'[f]) \subseteq Recorded(cq[f])
  BY <1>1, FreeFacts
<1>3. Types'
  BY <1>1, <1>2 DEF Types, CliEnded, EchoEnded
<1>4. SetsGood'
  BY <1>1, <1>2 DEF SetsGood, Types, Running, CliEnded, EchoEnded
<1>5. MessagesGood'
  BY <1>2, FewerRecords
<1>6. ClientGood'
  BY Pair DEF ClientGood
<1>7. ServerGood'
  BY <1>1 DEF ServerGood, Types, EchoEnded
<1> QED
  BY <1>3, <1>4, <1>5, <1>6, <1>7

\* A poll that takes a record and goes on.
LEMMA PollTakes ==
  ASSUME PingpongInv, NEW e \in Ends, cq[e] # <<>>, cq' = [cq EXCEPT ![e] = Tail(@)]
  PROVE  /\ cq' \in [Ends -> Seq(Recs)]
         /\ \A f \in Ends : Recorded(cq'[f]) \subseteq Recorded(cq[f])
         /\ \A f \in Ends : res[f] # "live" => cq'[f] = <<>>
<1>1. cq[e] \in Seq(Recs) /\ res[e] = "live"
  BY DEF PingpongInv, Types, SetsGood
<1>2. Tail(cq[e]) \in Seq(Recs) /\ Recorded(Tail(cq[e])) \subseteq Recorded(cq[e])
  BY <1>1, QueueFacts
<1>3. /\ cq' \in [Ends -> Seq(Recs)] /\ cq'[e] = Tail(cq[e])
      /\ \A f \in Ends \ {e} : cq'[f] = cq[f]
  BY <1>2 DEF PingpongInv, Types
<1> QED
  BY <1>1, <1>2, <1>3 DEF PingpongInv, SetsGood

\* A record of another operation is discarded.
LEMMA PollDiscards ==
  ASSUME PingpongInv, NEW e \in Ends, cq[e] # <<>>, cq' = [cq EXCEPT ![e] = Tail(@)],
         UNCHANGED <<setup, up, cli, echo, http, imported, done, stop, res, buf, msg, faults>>
  PROVE  PingpongInv'
<1>1. /\ cq' \in [Ends -> Seq(Recs)]
      /\ \A f \in Ends : Recorded(cq'[f]) \subseteq Recorded(cq[f])
      /\ \A f \in Ends : res[f] # "live" => cq'[f] = <<>>
  BY PollTakes
<1>2. Types'
  BY <1>1 DEF PingpongInv, Types
<1>3. SetsGood'
  BY <1>1 DEF PingpongInv, SetsGood
<1>4. MessagesGood'
  BY <1>1, FewerRecords DEF PingpongInv
<1> QED
  BY <1>2, <1>3, <1>4 DEF PingpongInv, ClientGood, ServerGood

\* What the record at the head of a queue says.
LEMMA PolledRecord ==
  ASSUME PingpongInv, NEW e \in Ends, cq[e] # <<>>, NEW ctx \in {"send", "recv"},
         Outcome(Head(cq[e]), ctx) = "found"
  PROVE  IF ctx = "recv" THEN buf[e] = "filled" ELSE msg[e] = "acked"
<1>1. Head(cq[e]) \in Recorded(cq[e]) /\ Head(cq[e]) \in Recs
  BY QueueFacts DEF PingpongInv, Types
<1>2. Head(cq[e]).ok /\ Head(cq[e]).ctx = ctx
  BY <1>1 DEF Outcome, Recs
<1> QED
  BY <1>1, <1>2 DEF PingpongInv, MessagesGood

-------------------------------------------------------------------------------
(* The steps.                                                              *)

\* Every step keeps it.
LEMMA PingpongStep ==
  ASSUME PingpongInv, Next
  PROVE  PingpongInv'
<1> USE FaultsAssumption, Pair, EndPairs, DestPairs DEF PingpongInv
<1>1. ASSUME NEW n \in Nodes, StartProcess(n) PROVE PingpongInv'
  <2>1. /\ up[n] = "off" /\ up' = [up EXCEPT ![n] = "running"]
        /\ UNCHANGED <<setup, echo, http, imported, done, buf, msg>>
    BY <1>1 DEF StartProcess
  <2>2. /\ cli[n] = "off" /\ echo[n] = "off" /\ (~setup.hook => res[Client(n)] # "live")
        /\ res[Client(n)] # "live" => cq[Client(n)] = <<>>
    BY <2>1 DEF SetsGood
  <2>3. CASE NoFault /\ cli' = [cli EXCEPT ![n] = "info"] /\ res' = Created(Client(n))
             /\ UNCHANGED <<stop, cq>>
    <3>1. /\ res' \in [Ends -> {"none", "live", "freed"}]
          /\ ~setup.hook => res'[Client(n)] = "live"
          /\ setup.hook => res' = res
          /\ \A f \in Ends \ {Client(n)} : res'[f] = res[f]
      BY <2>3 DEF Created, Types
    <3>2. Types'
      BY <2>1, <2>3, <3>1 DEF Types, NoFault, CliEnded, EchoEnded
    <3>3. SetsGood'
      BY <2>1, <2>2, <2>3, <3>1 DEF SetsGood, Types, CliEnded, EchoEnded
    <3>4. MessagesGood'
      BY <2>1, <2>3 DEF MessagesGood
    <3>5. ClientGood'
      BY <2>1, <2>2, <2>3 DEF ClientGood, Types, CliEnded
    <3>6. ServerGood'
      BY <2>1 DEF ServerGood
    <3> QED
      BY <3>2, <3>3, <3>4, <3>5, <3>6
  <2>4. CASE Fault /\ EndClient(n, "failed")
    <3>1. Free(Client(n)) /\ cli' = [cli EXCEPT ![n] = "failed"] /\ stop' \in [Nodes -> BOOLEAN]
      BY <2>4 DEF EndClient, Types
    <3>2. /\ res' \in [Ends -> {"none", "live", "freed"}] /\ cq' \in [Ends -> Seq(Recs)]
          /\ res'[Client(n)] # "live" /\ cq'[Client(n)] = <<>>
          /\ \A f \in Ends \ {Client(n)} : res'[f] = res[f] /\ cq'[f] = cq[f]
          /\ \A f \in Ends : Recorded(cq'[f]) \subseteq Recorded(cq[f])
      BY <3>1, FreeFacts
    <3>3. Types'
      BY <2>1, <2>4, <3>1, <3>2 DEF Types, Fault, CliEnded, EchoEnded
    <3>4. SetsGood'
      <4>1. \A f \in Ends : res'[f] # "live" => cq'[f] = <<>>
        BY <3>2 DEF SetsGood
      <4>2. /\ cli'[n] = "failed" /\ \A m \in Nodes \ {n} : cli'[m] = cli[m] /\ up'[m] = up[m]
            /\ up'[n] = "running" /\ echo'[n] = "off"
        BY <2>1, <2>2, <3>1 DEF Types
      <4>3. /\ \A m \in Nodes \ {n} : res'[Client(m)] = res[Client(m)]
            /\ \A m \in Nodes : res'[Server(m)] = res[Server(m)]
        BY <3>2
      <4>4. ~setup.hook => res[Server(n)] # "live"
        BY <2>1 DEF SetsGood
      <4>5. ASSUME NEW m \in Nodes, ~setup.hook
            PROVE  res'[Client(m)] = "live" <=> up'[m] = "running" /\ cli'[m] \notin {"off"} \cup CliEnded
        <5>1. CASE m = n
          BY <5>1, <3>2, <4>2 DEF CliEnded
        <5>2. CASE m # n
          BY <5>2, <4>2, <4>3, <4>5 DEF SetsGood
        <5> QED
          BY <5>1, <5>2
      <4>6. ASSUME NEW m \in Nodes, ~setup.hook
            PROVE  res'[Server(m)] = "live" <=> up'[m] = "running" /\ echo'[m] \notin {"off"} \cup EchoEnded
        <5>1. CASE m = n
          BY <5>1, <4>2, <4>3, <4>4, <4>6
        <5>2. CASE m # n
          BY <5>2, <2>1, <4>2, <4>3, <4>6 DEF SetsGood
        <5> QED
          BY <5>1, <5>2
      <4>7. ASSUME NEW m \in Nodes
            PROVE  /\ up'[m] = "off" => cli'[m] = "off" /\ http'[m] = "off"
                   /\ http'[m] = "off" => echo'[m] = "off"
                   /\ up'[m] = "exited" => cli'[m] \in CliEnded
        <5>1. CASE m = n
          BY <5>1, <4>2
        <5>2. CASE m # n
          BY <5>2, <2>1, <4>2 DEF SetsGood
        <5> QED
          BY <5>1, <5>2
      <4> QED
        BY <2>1, <4>1, <4>5, <4>6, <4>7 DEF SetsGood
    <3>5. MessagesGood'
      BY <2>1, <3>2, FewerRecords
    <3>6. ClientGood'
      BY <2>1, <2>2, <3>1 DEF ClientGood, Types, CliEnded
    <3>7. ServerGood'
      BY <2>1 DEF ServerGood
    <3> QED
      BY <3>3, <3>4, <3>5, <3>6, <3>7
  <2> QED
    BY <1>1, <2>3, <2>4 DEF StartProcess
<1>2. ASSUME NEW n \in Nodes, Exchange(n) PROVE PingpongInv'
  <2>1. /\ Running(n) /\ cli[n] \in {"info", "import"}
        /\ UNCHANGED <<setup, up, echo, http, done, buf, msg, faults>>
        /\ imported' \in [Nodes -> BOOLEAN]
        /\ \A m \in Nodes : imported[m] => imported'[m]
        /\ cli[n] = "import" => imported'[Peer(n)]
    BY <1>2 DEF Exchange, Types
  <2>2. CASE EndClient(n, "failed")
    <3>1. done' \in [Nodes -> BOOLEAN] /\ faults' \in 0 .. MaxFaults
      BY <2>1 DEF Types
    <3> QED
      BY <2>1, <2>2, <3>1, ClientEnds DEF CliEnded
  <2>3. CASE Goto(n, After(cli[n]))
    <3>1. /\ cli' = [cli EXCEPT ![n] = After(cli[n])] /\ UNCHANGED <<stop, res, cq>>
          /\ \/ cli[n] = "info" /\ After(cli[n]) = "import"
             \/ cli[n] = "import" /\ setup.hook /\ After(cli[n]) = "msg"
             \/ cli[n] = "import" /\ ~setup.hook /\ After(cli[n]) = "recv"
      BY <2>1, <2>3 DEF Goto, After
    <3>2. Types'
      BY <2>1, <3>1 DEF Types, CliEnded, EchoEnded
    <3>3. SetsGood'
      BY <2>1, <3>1 DEF SetsGood, Types, Running, CliEnded, EchoEnded
    <3>4. MessagesGood'
      BY <2>1, <3>1 DEF MessagesGood
    <3>5. ClientGood'
      BY <2>1, <3>1 DEF ClientGood, Types, CliEnded
    <3>6. ServerGood'
      BY <2>1 DEF ServerGood
    <3> QED
      BY <3>2, <3>3, <3>4, <3>5, <3>6
  <2> QED
    BY <1>2, <2>2, <2>3 DEF Exchange
<1>3. ASSUME NEW n \in Nodes, HookRound(n) PROVE PingpongInv'
  <2>1. /\ done' \in [Nodes -> BOOLEAN] /\ imported' \in [Nodes -> BOOLEAN]
        /\ setup.hook /\ faults' \in 0 .. MaxFaults
    BY <1>3 DEF HookRound, Types, ClientGood
  <2> QED
    BY <1>3, <2>1, ClientEnds DEF HookRound, CliEnded
<1>4. ASSUME NEW n \in Nodes, PostRecv(n) PROVE PingpongInv'
  <2>1. Types'
    BY <1>4 DEF PostRecv, Running, After, Goto, Types, CliEnded, EchoEnded
  <2>2. SetsGood'
    BY <1>4 DEF PostRecv, Running, After, Goto, Types, SetsGood, CliEnded, EchoEnded
  <2>3. MessagesGood'
    BY <1>4 DEF PostRecv, Running, After, Goto, Types, MessagesGood, SetsGood, ClientGood,
       ServerGood, CliEnded, EchoEnded
  <2>4. ClientGood'
    BY <1>4 DEF PostRecv, Running, After, Goto, Types, ClientGood, MessagesGood, SetsGood,
       CliEnded, EchoEnded
  <2>5. ServerGood'
    BY <1>4 DEF PostRecv, Running, After, Goto, Types, ServerGood, MessagesGood, SetsGood,
       CliEnded, EchoEnded
  <2> QED
    BY <2>1, <2>2, <2>3, <2>4, <2>5
<1>5. ASSUME NEW n \in Nodes, PostPing(n) PROVE PingpongInv'
  <2>1. Types'
    BY <1>5 DEF PostPing, Running, After, Goto, Types, CliEnded, EchoEnded
  <2>2. SetsGood'
    BY <1>5 DEF PostPing, Running, After, Goto, Types, SetsGood, CliEnded, EchoEnded
  <2>3. MessagesGood'
    BY <1>5 DEF PostPing, Running, After, Goto, Types, MessagesGood, SetsGood, ClientGood,
       ServerGood, CliEnded, EchoEnded
  <2>4. ClientGood'
    BY <1>5 DEF PostPing, Running, After, Goto, Types, ClientGood, MessagesGood, SetsGood,
       CliEnded, EchoEnded
  <2>5. ServerGood'
    BY <1>5 DEF PostPing, Running, After, Goto, Types, ServerGood, MessagesGood, SetsGood,
       CliEnded, EchoEnded
  <2> QED
    BY <2>1, <2>2, <2>3, <2>4, <2>5
<1>6. ASSUME NEW n \in Nodes, WaitPong(n) PROVE PingpongInv'
  <2>1. /\ Running(n) /\ cli[n] = "wait" /\ cq[Client(n)] # <<>>
        /\ UNCHANGED <<setup, up, echo, http, imported, done, buf, msg, faults>>
    BY <1>6 DEF WaitPong, Polls
  <2>2. /\ done' \in [Nodes -> BOOLEAN] /\ imported' \in [Nodes -> BOOLEAN]
        /\ faults' \in 0 .. MaxFaults
    BY <2>1 DEF Types
  <2>3. CASE Outcome(Head(cq[Client(n)]), "recv") = "found" /\ EndClient(n, "done")
    <3>1. buf[Client(n)] = "filled"
      BY <2>1, <2>3, PolledRecord
    <3> QED
      BY <2>1, <2>2, <2>3, <3>1, ClientEnds DEF CliEnded
  <2>4. CASE EndClient(n, "failed")
    BY <2>1, <2>2, <2>4, ClientEnds DEF CliEnded
  <2>5. CASE cq' = [cq EXCEPT ![Client(n)] = Tail(@)] /\ UNCHANGED <<cli, stop, res>>
    BY <2>1, <2>5, PollDiscards
  <2> QED
    BY <1>6, <2>3, <2>4, <2>5 DEF WaitPong, Polls
<1>7. ASSUME NEW n \in Nodes, PongTimeout(n) PROVE PingpongInv'
  <2>1. /\ done' \in [Nodes -> BOOLEAN] /\ imported' \in [Nodes -> BOOLEAN]
        /\ faults' \in 0 .. MaxFaults
    BY <1>7 DEF PongTimeout, Types
  <2> QED
    BY <1>7, <2>1, ClientEnds DEF PongTimeout, RunsOut, CliEnded
<1>8. ASSUME NEW n \in Nodes, ClientFault(n) PROVE PingpongInv'
  <2>1. /\ done' \in [Nodes -> BOOLEAN] /\ imported' \in [Nodes -> BOOLEAN]
        /\ faults' \in 0 .. MaxFaults
    BY <1>8 DEF ClientFault, Fault, Types
  <2> QED
    BY <1>8, <2>1, ClientEnds DEF ClientFault, CliEnded
<1>9. ASSUME NEW n \in Nodes, StartServer(n) PROVE PingpongInv'
  <2>1. /\ Running(n) /\ http[n] = "off" /\ echo[n] = "off"
        /\ UNCHANGED <<setup, up, cli, imported, done, stop, buf, msg, cq>>
    BY <1>9 DEF StartServer, SetsGood
  <2>2. /\ buf[Server(n)] = "idle" /\ msg[Server(n)] = "none"
        /\ (~setup.hook => res[Server(n)] # "live")
    BY <2>1 DEF ServerGood, SetsGood
  <2>3. /\ http' \in [Nodes -> {"off", "serving", "ended", "failed"}]
        /\ http'[n] # "off" /\ \A m \in Nodes \ {n} : http'[m] = http[m]
        /\ faults' \in 0 .. MaxFaults
    <3>1. /\ http' = [http EXCEPT ![n] = "serving"] \/ http' = [http EXCEPT ![n] = "failed"]
          /\ faults' = faults \/ (faults < MaxFaults /\ faults' = faults + 1)
      BY <1>9 DEF StartServer, NoFault, Fault
    <3>2. faults' \in 0 .. MaxFaults
      BY <3>1 DEF Types
    <3>3. CASE http' = [http EXCEPT ![n] = "serving"]
      BY <3>2, <3>3 DEF Types
    <3>4. CASE http' = [http EXCEPT ![n] = "failed"]
      BY <3>2, <3>4 DEF Types
    <3> QED
      BY <3>1, <3>3, <3>4
  <2>4. \/ echo' = [echo EXCEPT ![n] = "failed"] /\ res' = res
        \/ echo' = [echo EXCEPT ![n] = "ok"] /\ setup.hook /\ res' = res
        \/ echo' = [echo EXCEPT ![n] = "arm"] /\ ~setup.hook
              /\ res' = [res EXCEPT ![Server(n)] = "live"]
    BY <1>9 DEF StartServer, Created
  <2>5. /\ res' \in [Ends -> {"none", "live", "freed"}]
        /\ \A f \in Ends \ {Server(n)} : res'[f] = res[f]
        /\ ~setup.hook => (res'[Server(n)] = "live" <=> echo'[n] = "arm")
        /\ setup.hook => res' = res
    <3>1. CASE res' = res /\ echo'[n] # "arm"
      BY <2>2, <3>1 DEF Types
    <3>2. CASE ~setup.hook /\ res' = [res EXCEPT ![Server(n)] = "live"] /\ echo'[n] = "arm"
      BY <3>2 DEF Types
    <3> QED
      BY <2>4, <3>1, <3>2 DEF Types
  <2>6. /\ echo' \in [Nodes -> {"off", "arm", "recv", "send"} \cup EchoEnded]
        /\ echo'[n] \in {"failed", "ok", "arm"} /\ (echo'[n] = "ok" => setup.hook)
        /\ (echo'[n] = "arm" => ~setup.hook) /\ \A m \in Nodes \ {n} : echo'[m] = echo[m]
    <3>1. CASE echo' = [echo EXCEPT ![n] = "failed"]
      BY <3>1 DEF Types, EchoEnded
    <3>2. CASE echo' = [echo EXCEPT ![n] = "ok"] /\ setup.hook
      BY <3>2 DEF Types, EchoEnded
    <3>3. CASE echo' = [echo EXCEPT ![n] = "arm"] /\ ~setup.hook
      BY <3>3 DEF Types, EchoEnded
    <3> QED
      BY <2>4, <3>1, <3>2, <3>3
  <2>7. Types'
    BY <2>1, <2>3, <2>5, <2>6 DEF Types
  <2>8. SetsGood'
    <3>1. \A f \in Ends : res'[f] # "live" => cq'[f] = <<>>
      BY <2>1, <2>4 DEF SetsGood, Types
    <3> QED
      BY <2>1, <2>3, <2>5, <2>6, <3>1 DEF SetsGood, Running, EchoEnded
  <2>9. MessagesGood'
    BY <2>1 DEF MessagesGood
  <2>10. ClientGood'
    BY <2>1 DEF ClientGood
  <2>11. ServerGood'
    BY <2>1, <2>2, <2>6 DEF ServerGood
  <2> QED
    BY <2>7, <2>8, <2>9, <2>10, <2>11
<1>10. ASSUME NEW n \in Nodes, ArmEcho(n) PROVE PingpongInv'
  <2>1. Types'
    BY <1>10 DEF ArmEcho, Running, httpVars, Types, CliEnded, EchoEnded
  <2>2. SetsGood'
    BY <1>10 DEF ArmEcho, Running, httpVars, Types, SetsGood, CliEnded, EchoEnded
  <2>3. MessagesGood'
    BY <1>10 DEF ArmEcho, Running, httpVars, Types, MessagesGood, SetsGood, ClientGood,
       ServerGood, CliEnded, EchoEnded
  <2>4. ClientGood'
    BY <1>10 DEF ArmEcho, Running, httpVars, Types, ClientGood, MessagesGood, SetsGood,
       CliEnded, EchoEnded
  <2>5. ServerGood'
    BY <1>10 DEF ArmEcho, Running, httpVars, Types, ServerGood, MessagesGood, SetsGood,
       CliEnded, EchoEnded
  <2> QED
    BY <2>1, <2>2, <2>3, <2>4, <2>5
<1>11. ASSUME NEW n \in Nodes, WaitPing(n) PROVE PingpongInv'
  <2>1. /\ Running(n) /\ echo[n] = "recv" /\ cq[Server(n)] # <<>>
        /\ UNCHANGED <<setup, up, cli, http, imported, stop, buf, faults>>
    BY <1>11 DEF WaitPing, Polls
  <2>2. CASE EndEcho(n, "failed") /\ UNCHANGED msg
    <3>1. faults' \in 0 .. MaxFaults
      BY <2>1 DEF Types
    <3> QED
      BY <2>1, <2>2, <3>1, EchoEnds DEF EchoEnded
  <2>3. CASE /\ Outcome(Head(cq[Server(n)]), "recv") = "found"
             /\ echo' = [echo EXCEPT ![n] = "send"]
             /\ msg' = [msg EXCEPT ![Server(n)] = "sent"]
             /\ cq' = [cq EXCEPT ![Server(n)] = Tail(@)]
             /\ UNCHANGED <<done, res>>
    <3>1. buf[Server(n)] = "filled" /\ msg[Server(n)] = "none" /\ ~setup.hook
      BY <2>1, <2>3, PolledRecord DEF ServerGood
    <3>2. /\ cq' \in [Ends -> Seq(Recs)]
          /\ \A f \in Ends : Recorded(cq'[f]) \subseteq Recorded(cq[f])
          /\ \A f \in Ends : res[f] # "live" => cq'[f] = <<>>
      BY <2>1, <2>3, PollTakes
    <3>3. /\ msg' \in [Ends -> {"none", "sent", "landed", "acked", "refused"}]
          /\ msg'[Server(n)] = "sent" /\ \A f \in Ends \ {Server(n)} : msg'[f] = msg[f]
      BY <2>3 DEF Types
    <3>4. Types'
      BY <2>1, <2>3, <3>2, <3>3 DEF Types, EchoEnded
    <3>5. SetsGood'
      BY <2>1, <2>3, <3>2 DEF SetsGood, Types, EchoEnded
    <3>6. MessagesGood'
      <4>1. ASSUME NEW f \in Ends
            PROVE  buf'[Dest(f)] = "filled" <=> msg'[f] \in {"landed", "acked"}
        BY <2>1, <3>1, <3>3 DEF MessagesGood
      <4>2. ASSUME NEW f \in Ends, NEW r \in Recorded(cq'[f])
            PROVE  /\ r.ctx = "recv" => buf'[f] = "filled"
                   /\ r.ctx = "send" /\ r.ok => msg'[f] = "acked"
        <5>1. r \in Recorded(cq[f])
          BY <3>2, <4>2
        <5> QED
          BY <2>1, <3>1, <3>3, <5>1 DEF MessagesGood
      <4> QED
        BY <4>1, <4>2 DEF MessagesGood
    <3>7. ClientGood'
      BY <2>1, <3>3 DEF ClientGood
    <3>8. ServerGood'
      BY <2>1, <2>3, <3>1, <3>3 DEF ServerGood, Types
    <3> QED
      BY <3>4, <3>5, <3>6, <3>7, <3>8
  <2>4. CASE cq' = [cq EXCEPT ![Server(n)] = Tail(@)] /\ UNCHANGED <<echo, done, res, msg>>
    BY <2>1, <2>4, PollDiscards
  <2> QED
    BY <1>11, <2>2, <2>3, <2>4 DEF WaitPing, Polls, SendPong
<1>12. ASSUME NEW n \in Nodes, WaitConsumed(n) PROVE PingpongInv'
  <2>1. /\ Running(n) /\ echo[n] = "send" /\ cq[Server(n)] # <<>>
        /\ UNCHANGED <<setup, up, cli, http, imported, stop, buf, msg, faults>>
    BY <1>12 DEF WaitConsumed, Polls
  <2>2. faults' \in 0 .. MaxFaults
    BY <2>1 DEF Types
  <2>3. CASE Outcome(Head(cq[Server(n)]), "send") = "found" /\ EndEcho(n, "ok")
    <3>1. msg[Server(n)] = "acked"
      BY <2>1, <2>3, PolledRecord
    <3> QED
      BY <2>1, <2>2, <2>3, <3>1, EchoEnds DEF EchoEnded
  <2>4. CASE EndEcho(n, "failed")
    BY <2>1, <2>2, <2>4, EchoEnds DEF EchoEnded
  <2>5. CASE cq' = [cq EXCEPT ![Server(n)] = Tail(@)] /\ UNCHANGED <<echo, done, res>>
    BY <2>1, <2>5, PollDiscards
  <2> QED
    BY <1>12, <2>3, <2>4, <2>5 DEF WaitConsumed, Polls
<1>13. ASSUME NEW n \in Nodes, EchoTimeout(n) PROVE PingpongInv'
  <2>1. faults' \in 0 .. MaxFaults
    BY <1>13 DEF EchoTimeout, Types
  <2> QED
    BY <1>13, <2>1, EchoEnds DEF EchoTimeout, RunsOut, EchoEnded
<1>14. ASSUME NEW n \in Nodes, EchoFault(n) PROVE PingpongInv'
  <2>1. faults' \in 0 .. MaxFaults
    BY <1>14 DEF EchoFault, Fault, Types
  <2> QED
    BY <1>14, <2>1, EchoEnds DEF EchoFault, EchoEnded
<1>15. ASSUME NEW n \in Nodes, EndServe(n) PROVE PingpongInv'
  <2>1. Types'
    BY <1>15 DEF EndServe, Serving, Running, endVars, Types, CliEnded, EchoEnded
  <2>2. SetsGood'
    BY <1>15 DEF EndServe, Serving, Running, endVars, Types, SetsGood, CliEnded, EchoEnded
  <2>3. MessagesGood'
    BY <1>15 DEF EndServe, Serving, Running, endVars, Types, MessagesGood, SetsGood, ClientGood,
       ServerGood, CliEnded, EchoEnded
  <2>4. ClientGood'
    BY <1>15 DEF EndServe, Serving, Running, endVars, Types, ClientGood, MessagesGood, SetsGood,
       CliEnded, EchoEnded
  <2>5. ServerGood'
    BY <1>15 DEF EndServe, Serving, Running, endVars, Types, ServerGood, MessagesGood, SetsGood,
       CliEnded, EchoEnded
  <2> QED
    BY <2>1, <2>2, <2>3, <2>4, <2>5
<1>16. ASSUME NEW n \in Nodes, EndProcess(n) PROVE PingpongInv'
  <2>1. Types'
    BY <1>16 DEF EndProcess, Running, httpVars, endVars, CliEnded, EchoEnded, Types
  <2>2. SetsGood'
    BY <1>16 DEF EndProcess, Running, httpVars, endVars, CliEnded, EchoEnded, Types, SetsGood
  <2>3. MessagesGood'
    BY <1>16 DEF EndProcess, Running, httpVars, endVars, CliEnded, EchoEnded, Types,
       MessagesGood, SetsGood, ClientGood, ServerGood
  <2>4. ClientGood'
    BY <1>16 DEF EndProcess, Running, httpVars, endVars, CliEnded, EchoEnded, Types, ClientGood,
       MessagesGood, SetsGood
  <2>5. ServerGood'
    BY <1>16 DEF EndProcess, Running, httpVars, endVars, CliEnded, EchoEnded, Types, ServerGood,
       MessagesGood, SetsGood
  <2> QED
    BY <2>1, <2>2, <2>3, <2>4, <2>5
<1>17. ASSUME NEW n \in Nodes, Kill(n) PROVE PingpongInv'
  <2>1. Types'
    BY <1>17, QueueFacts DEF Kill, Running, httpVars, Fault, Types, CliEnded, EchoEnded
  <2>2. SetsGood'
    BY <1>17, QueueFacts DEF Kill, Running, httpVars, Fault, Types, SetsGood, CliEnded,
       EchoEnded
  <2>3. MessagesGood'
    BY <1>17, QueueFacts DEF Kill, Running, httpVars, Fault, Types, MessagesGood, SetsGood,
       ClientGood, ServerGood, CliEnded, EchoEnded
  <2>4. ClientGood'
    BY <1>17, QueueFacts DEF Kill, Running, httpVars, Fault, Types, ClientGood, MessagesGood,
       SetsGood, CliEnded, EchoEnded
  <2>5. ServerGood'
    BY <1>17, QueueFacts DEF Kill, Running, httpVars, Fault, Types, ServerGood, MessagesGood,
       SetsGood, CliEnded, EchoEnded
  <2> QED
    BY <2>1, <2>2, <2>3, <2>4, <2>5
<1>18. ASSUME NEW e \in Ends, Deliver(e) PROVE PingpongInv'
  <2>1. /\ msg[e] = "sent" /\ res[Dest(e)] = "live" /\ buf[Dest(e)] = "posted"
        /\ msg' = [msg EXCEPT ![e] = "landed"] /\ buf' = [buf EXCEPT ![Dest(e)] = "filled"]
        /\ UNCHANGED <<setup, up, cli, echo, http, imported, done, stop, res, faults>>
    BY <1>18 DEF Deliver, HasPlace, httpVars
  <2>2. /\ cq' \in [Ends -> Seq(Recs)]
        /\ \A f \in Ends \ {Dest(e)} : cq'[f] = cq[f]
        /\ \A r \in Recorded(cq'[Dest(e)]) : r \in Recorded(cq[Dest(e)]) \/ r.ctx = "recv"
    BY <1>18, ArriveFacts DEF Deliver
  <2>3. /\ msg'[e] = "landed" /\ \A f \in Ends \ {e} : msg'[f] = msg[f]
        /\ buf'[Dest(e)] = "filled" /\ \A f \in Ends \ {Dest(e)} : buf'[f] = buf[f]
    BY <2>1 DEF Types
  <2>4. Types'
    BY <2>1, <2>2 DEF Types
  <2>5. SetsGood'
    <3>1. ASSUME NEW f \in Ends, res'[f] # "live" PROVE cq'[f] = <<>>
      <4>1. res[f] # "live" /\ f # Dest(e)
        BY <2>1, <3>1
      <4>2. cq'[f] = cq[f]
        BY <2>2, <4>1
      <4> QED
        BY <4>1, <4>2 DEF SetsGood
    <3> QED
      BY <2>1, <3>1 DEF SetsGood, CliEnded, EchoEnded
  <2>6. MessagesGood'
    <3>1. ASSUME NEW f \in Ends PROVE buf'[Dest(f)] = "filled" <=> msg'[f] \in {"landed", "acked"}
      BY <2>1, <2>3 DEF MessagesGood
    <3>2. ASSUME NEW f \in Ends, NEW r \in Recorded(cq'[f])
          PROVE  /\ r.ctx = "recv" => buf'[f] = "filled"
                 /\ r.ctx = "send" /\ r.ok => msg'[f] = "acked"
      BY <2>1, <2>2, <2>3, <3>2 DEF MessagesGood
    <3> QED
      BY <3>1, <3>2 DEF MessagesGood
  <2>7. ClientGood'
    BY <2>1, <2>3 DEF ClientGood
  <2>8. ServerGood'
    BY <2>1, <2>3 DEF ServerGood
  <2> QED
    BY <2>4, <2>5, <2>6, <2>7, <2>8
<1>19. ASSUME NEW e \in Ends, Acknowledge(e) PROVE PingpongInv'
  <2>1. /\ msg[e] = "landed" /\ msg' = [msg EXCEPT ![e] = "acked"]
        /\ UNCHANGED <<setup, up, cli, echo, http, imported, done, stop, res, buf, faults>>
    BY <1>19 DEF Acknowledge, httpVars
  <2>2. /\ cq' \in [Ends -> Seq(Recs)]
        /\ \A f \in Ends \ {e} : cq'[f] = cq[f]
        /\ res[e] # "live" => cq'[e] = cq[e]
        /\ \A r \in Recorded(cq'[e]) : r \in Recorded(cq[e]) \/ (r.ctx = "send" /\ r.ok = TRUE)
    BY <1>19, ArriveFacts DEF Acknowledge
  <2>3. msg'[e] = "acked" /\ \A f \in Ends \ {e} : msg'[f] = msg[f]
    BY <2>1 DEF Types
  <2>4. Types'
    BY <2>1, <2>2 DEF Types
  <2>5. SetsGood'
    <3>1. \A f \in Ends : res'[f] # "live" => cq'[f] = <<>>
      BY <2>1, <2>2 DEF SetsGood
    <3> QED
      BY <2>1, <3>1 DEF SetsGood, CliEnded, EchoEnded
  <2>6. MessagesGood'
    <3>1. ASSUME NEW f \in Ends PROVE buf'[Dest(f)] = "filled" <=> msg'[f] \in {"landed", "acked"}
      BY <2>1, <2>3 DEF MessagesGood
    <3>2. ASSUME NEW f \in Ends, NEW r \in Recorded(cq'[f])
          PROVE  /\ r.ctx = "recv" => buf'[f] = "filled"
                 /\ r.ctx = "send" /\ r.ok => msg'[f] = "acked"
      <4>1. CASE r \in Recorded(cq[f])
        BY <2>1, <2>3, <4>1 DEF MessagesGood
      <4>2. CASE f = e /\ r.ctx = "send" /\ r.ok = TRUE
        BY <2>3, <4>2
      <4> QED
        BY <2>2, <3>2, <4>1, <4>2
    <3> QED
      BY <3>1, <3>2 DEF MessagesGood
  <2>7. ClientGood'
    BY <2>1, <2>3 DEF ClientGood
  <2>8. ServerGood'
    BY <2>1, <2>3 DEF ServerGood
  <2> QED
    BY <2>4, <2>5, <2>6, <2>7, <2>8
<1>20. ASSUME NEW e \in Ends, Refuse(e) PROVE PingpongInv'
  <2>1. /\ msg[e] = "sent" /\ msg' = [msg EXCEPT ![e] = "refused"]
        /\ UNCHANGED <<setup, up, cli, echo, http, imported, done, stop, res, buf, faults>>
    BY <1>20 DEF Refuse, httpVars
  <2>2. /\ cq' \in [Ends -> Seq(Recs)]
        /\ \A f \in Ends \ {e} : cq'[f] = cq[f]
        /\ res[e] # "live" => cq'[e] = cq[e]
        /\ \A r \in Recorded(cq'[e]) : r \in Recorded(cq[e]) \/ (r.ctx = "send" /\ r.ok = FALSE)
    BY <1>20, ArriveFacts DEF Refuse
  <2>3. msg'[e] = "refused" /\ \A f \in Ends \ {e} : msg'[f] = msg[f]
    BY <2>1 DEF Types
  <2>4. Types'
    BY <2>1, <2>2 DEF Types
  <2>5. SetsGood'
    <3>1. \A f \in Ends : res'[f] # "live" => cq'[f] = <<>>
      BY <2>1, <2>2 DEF SetsGood
    <3> QED
      BY <2>1, <3>1 DEF SetsGood, CliEnded, EchoEnded
  <2>6. MessagesGood'
    <3>1. ASSUME NEW f \in Ends PROVE buf'[Dest(f)] = "filled" <=> msg'[f] \in {"landed", "acked"}
      BY <2>1, <2>3 DEF MessagesGood
    <3>2. ASSUME NEW f \in Ends, NEW r \in Recorded(cq'[f])
          PROVE  /\ r.ctx = "recv" => buf'[f] = "filled"
                 /\ r.ctx = "send" /\ r.ok => msg'[f] = "acked"
      <4>1. CASE r \in Recorded(cq[f])
        BY <2>1, <2>3, <4>1 DEF MessagesGood
      <4>2. CASE f = e /\ r.ctx = "send" /\ r.ok = FALSE
        BY <2>3, <4>2
      <4> QED
        BY <2>2, <3>2, <4>1, <4>2
    <3> QED
      BY <3>1, <3>2 DEF MessagesGood
  <2>7. ClientGood'
    BY <2>1, <2>3 DEF ClientGood
  <2>8. ServerGood'
    BY <2>1, <2>3 DEF ServerGood
  <2> QED
    BY <2>4, <2>5, <2>6, <2>7, <2>8
<1> QED
  BY <1>1, <1>2, <1>3, <1>4, <1>5, <1>6, <1>7, <1>8, <1>9, <1>10, <1>11, <1>12, <1>13, <1>14,
     <1>15, <1>16, <1>17, <1>18, <1>19, <1>20 DEF Next, TaskStep, Timeout

\* Nothing of it can change in a step of the world outside.
LEMMA PingpongStutter == ASSUME PingpongInv, UNCHANGED vars PROVE PingpongInv'
  BY DEF PingpongInv, Types, SetsGood, MessagesGood, ClientGood, ServerGood, vars, httpVars,
         endVars

\* The strengthening is an invariant of urma_pingpong.
LEMMA PingpongHolds == Spec => []PingpongInv
<1>1. Init => PingpongInv
  BY InitPingpong
<1>2. PingpongInv /\ [Next]_vars => PingpongInv'
  BY PingpongStep, PingpongStutter
<1> QED
  BY <1>1, <1>2, PTL DEF Spec

-------------------------------------------------------------------------------
(* The theorems.                                                           *)

\* Every state has the types of the code's, a set is live exactly while the task
\* that created it needs it, and only a live one has records.
THEOREM TypeCorrect == Spec => []TypeOK
<1>1. PingpongInv => TypeOK
  BY DEF PingpongInv, Types, SetsGood, TypeOK, Running, Recs
<1> QED
  BY <1>1, PingpongHolds, PTL

\* "no bye": a client and a server of urma_pingpong that are content need nothing
\* more of each other's resources, in every order of records and whatever failed.
THEOREM TeardownIsSafe == Spec => []SafeTeardown
<1>1. ASSUME PingpongInv, ~setup.hook, NEW n \in Nodes, cli[n] = "done"
      PROVE  buf[Client(n)] = "filled" /\ msg[Client(n)] \in {"landed", "acked"}
  <2> DEFINE s == Server(Peer(n))
  <2>1. Dest(s) = Client(n) /\ Dest(Client(n)) = s /\ s \in Ends /\ Client(n) \in Ends
    BY Pair, EndPairs, DestPairs
  <2>2. buf[Client(n)] = "filled"
    BY <1>1 DEF PingpongInv, ClientGood
  <2>3. msg[s] \in {"landed", "acked"}
    BY <2>1, <2>2, <1>1 DEF PingpongInv, MessagesGood
  <2>4. buf[s] = "filled"
    BY <2>3, <1>1, Pair DEF PingpongInv, ServerGood
  <2> QED
    BY <2>1, <2>2, <2>4, <1>1 DEF PingpongInv, MessagesGood
<1>2. ASSUME PingpongInv, ~setup.hook, NEW n \in Nodes, echo[n] = "ok"
      PROVE  msg[Server(n)] = "acked" /\ buf[Client(Peer(n))] = "filled"
  <2>1. msg[Server(n)] = "acked"
    BY <1>2 DEF PingpongInv, ServerGood
  <2> QED
    BY <2>1, <1>2, EndPairs, DestPairs DEF PingpongInv, MessagesGood
<1>3. PingpongInv => SafeTeardown
  BY <1>1, <1>2 DEF SafeTeardown
<1> QED
  BY <1>3, PingpongHolds, PTL

\* The server never receives a ping before its client was announced, and a pong
\* under way meets a posted buffer unless its receiver has given up.
THEOREM PongHasPlace == Spec => []PongGoesHome
<1>1. ASSUME PingpongInv, NEW n \in Nodes, buf[Server(n)] = "filled"
      PROVE  imported[n]
  <2> DEFINE c == Client(Peer(n))
  <2>1. Dest(c) = Server(n) /\ c \in Ends /\ Peer(n) \in Nodes /\ Peer(Peer(n)) = n
    BY Pair, EndPairs, DestPairs
  <2>2. msg[c] # "none"
    BY <2>1, <1>1 DEF PingpongInv, MessagesGood
  <2> QED
    BY <2>1, <2>2, <1>1 DEF PingpongInv, ClientGood
<1>2. ASSUME PingpongInv, NEW n \in Nodes, msg[Server(n)] = "sent"
      PROVE  \/ HasPlace(Client(Peer(n)))
             \/ cli[Peer(n)] \in {"failed", "timeout"} \/ up[Peer(n)] = "killed"
  <2> DEFINE p == Peer(n)
             c == Client(p)
  <2>1. /\ Dest(c) = Server(n) /\ Dest(Server(n)) = c /\ c \in Ends /\ Server(n) \in Ends
        /\ p \in Nodes
    BY Pair, EndPairs, DestPairs
  <2>2. buf[Server(n)] = "filled" /\ msg[c] # "none"
    BY <2>1, <1>2 DEF PingpongInv, ServerGood, MessagesGood
  <2>3. cli[p] \in {"wait", "done", "failed", "timeout"} /\ buf[c] # "idle"
    BY <2>1, <2>2, <1>2 DEF PingpongInv, ClientGood, CliEnded
  <2>4. buf[c] = "posted"
    <3>1. buf[c] # "filled"
      BY <2>1, <1>2 DEF PingpongInv, MessagesGood
    <3>2. buf[c] \in {"idle", "posted", "filled"}
      BY <2>1, <1>2 DEF PingpongInv, Types
    <3> QED
      BY <2>3, <3>1, <3>2
  <2>5. ~setup.hook
    BY <2>1, <2>2, <1>2 DEF PingpongInv, ClientGood
  <2>6. CASE cli[p] = "done"
    BY <2>1, <2>4, <2>5, <2>6, <1>2 DEF PingpongInv, ClientGood
  <2>7. CASE cli[p] = "wait"
    <3>1. up[p] \in {"running", "killed"}
      <4>1. up[p] \in {"off", "running", "exited", "killed"}
        BY <2>1, <1>2 DEF PingpongInv, Types
      <4>2. up[p] # "off" /\ up[p] # "exited"
        BY <2>1, <2>7, <1>2 DEF PingpongInv, SetsGood, CliEnded
      <4> QED
        BY <4>1, <4>2
    <3>2. up[p] = "running" => res[c] = "live"
      BY <2>1, <2>5, <2>7, <1>2 DEF PingpongInv, SetsGood, CliEnded
    <3> QED
      BY <2>4, <3>1, <3>2 DEF HasPlace
  <2> QED
    BY <2>3, <2>6, <2>7
<1>3. PingpongInv => PongGoesHome
  BY <1>1, <1>2 DEF PongGoesHome
<1> QED
  BY <1>3, PingpongHolds, PTL
===============================================================================
