----------------------------- MODULE UrmaPingpong -----------------------------
(***************************************************************************)
(* examples/urma_pingpong.rs: two processes, each with a client that sends *)
(* one ping and a server that echoes one pong.  After the handshake over   *)
(* HTTP nobody tells the other anything: each end frees its resources when *)
(* its own completion queue says that the message has been consumed.       *)
(*                                                                         *)
(* The client and the server of a process have resources of their own; an  *)
(* end is one of them.  A request and its handler are one step.  The       *)
(* fabric and the handlers (threads of the runtime) interleave with every  *)
(* step of a task.                                                         *)
(***************************************************************************)
EXTENDS Integers, Sequences

CONSTANTS Nodes,     \* the two of them
          Setups,    \* [hook, loopback]: --tcp-hook, both on one machine
          Prompt,    \* no wait of wait_cr runs out while the peer process runs
          MaxFaults  \* bound on kills and on errors from outside the protocol

ASSUME NodesAssumption == \E a, b \in Nodes : a # b /\ Nodes = {a, b}
ASSUME SetupsAssumption == \A s \in Setups : s.hook \in BOOLEAN
ASSUME PromptAssumption == Prompt \in BOOLEAN
ASSUME FaultsAssumption == MaxFaults \in Nat

VARIABLES setup,
          up,        \* the process: "off", "running", "exited" or "killed"
          cli,       \* where the client task is
          http,      \* the HTTP server: "off", "serving", "ended" or "failed"
          echo,      \* where the echo round is
          imported,  \* SrvState.imported is filled
          done,      \* SrvState.done has a permit
          stop,      \* the process's stop channel has been written
          res,       \* of an end: its UrmaRes, "none", "live" or "freed"
          buf,       \* of an end: its landing buffer, "idle", "posted" or "filled"
          msg,       \* of an end: its SEND, "none", "sent", "landed", "acked" or "refused"
          cq,        \* of an end: the records not polled yet
          faults

httpVars == <<http, imported, done, stop>>
endVars == <<res, buf, msg, cq>>
vars == <<setup, up, cli, echo, httpVars, endVars, faults>>

Peer(n) == CHOOSE m \in Nodes : m # n

Client(n) == <<n, "client">>
Server(n) == <<n, "server">>
Ends == {Client(n) : n \in Nodes} \cup {Server(n) : n \in Nodes}

\* Pings go to the server of the other node, pongs to its client.
Dest(e) == IF e = Client(e[1]) THEN Server(Peer(e[1])) ELSE Client(Peer(e[1]))

Running(n) == up[n] = "running"

Serving(n) == Running(n) /\ http[n] = "serving"

CliEnded == {"done", "failed", "timeout"}
EchoEnded == {"ok", "failed", "timeout"}

Init ==
    /\ setup \in Setups
    /\ up = [n \in Nodes |-> "off"]
    /\ cli = [n \in Nodes |-> "off"] /\ echo = [n \in Nodes |-> "off"]
    /\ http = [n \in Nodes |-> "off"] /\ imported = [n \in Nodes |-> FALSE]
    /\ done = [n \in Nodes |-> FALSE] /\ stop = [n \in Nodes |-> FALSE]
    /\ res = [e \in Ends |-> "none"] /\ buf = [e \in Ends |-> "idle"]
    /\ msg = [e \in Ends |-> "none"] /\ cq = [e \in Ends |-> <<>>]
    /\ faults = 0

Fault == faults < MaxFaults /\ faults' = faults + 1
NoFault == UNCHANGED faults

-------------------------------------------------------------------------------
(* The library and the fabric.                                             *)

\* res_opt: nothing in tcp-hook mode.
Created(e) == IF setup.hook THEN res ELSE [res EXCEPT ![e] = "live"]

\* The UrmaRes of the end is dropped, its records with it.
Free(e) ==
    /\ res' = [res EXCEPT ![e] = IF @ = "live" THEN "freed" ELSE @]
    /\ cq' = [cq EXCEPT ![e] = <<>>]

Arrive(e, ctx, ok) ==
    cq' = IF res[e] = "live" THEN [cq EXCEPT ![e] = Append(@, [ctx |-> ctx, ok |-> ok])] ELSE cq

HasPlace(e) == res[e] = "live" /\ buf[e] = "posted"

\* A SEND consumes the receive buffer its destination has posted.
Deliver(e) ==
    /\ msg[e] = "sent" /\ HasPlace(Dest(e))
    /\ msg' = [msg EXCEPT ![e] = "landed"]
    /\ buf' = [buf EXCEPT ![Dest(e)] = "filled"]
    /\ Arrive(Dest(e), "recv", TRUE)
    /\ UNCHANGED <<setup, up, cli, echo, httpVars, res, faults>>

\* The sender's record of a message that was consumed.
Acknowledge(e) ==
    /\ msg[e] = "landed"
    /\ msg' = [msg EXCEPT ![e] = "acked"]
    /\ Arrive(e, "send", TRUE)
    /\ UNCHANGED <<setup, up, cli, echo, httpVars, res, buf, faults>>

\* Without a buffer the sender may run out of RNR retries.
Refuse(e) ==
    /\ msg[e] = "sent" /\ ~HasPlace(Dest(e))
    /\ msg' = [msg EXCEPT ![e] = "refused"]
    /\ Arrive(e, "send", FALSE)
    /\ UNCHANGED <<setup, up, cli, echo, httpVars, res, buf, faults>>

\* What wait_cr makes of a record.  A slip in it: any success will do.
AnySuccess(cr, expected) == IF cr.ok THEN "found" ELSE "error"
Outcome(cr, expected) ==
    IF ~cr.ok THEN "error" ELSE IF cr.ctx = expected THEN "found" ELSE "discard"

\* One poll of wait_cr that finds a record.
Polls(e, expected, found, error) ==
    /\ cq[e] # <<>>
    /\ LET seen == Outcome(Head(cq[e]), expected)
       IN \/ seen = "found" /\ found
          \/ seen = "error" /\ error
          \/ /\ seen = "discard" /\ cq' = [cq EXCEPT ![e] = Tail(@)]
             /\ UNCHANGED <<cli, echo, http, done, stop, res, msg>>

\* POLL_RETRIES polls have passed; a record may still arrive after the last.
RunsOut(n) == Running(n) /\ (Prompt => up[Peer(n)] = "off")

-------------------------------------------------------------------------------
(* The client task.                                                        *)

\* combined's cli block: the set goes with client_run, an error writes the stop
\* channel.  Slips in it: the channel is forgotten, the set is kept.
EndClientSilently(n, how) ==
    /\ cli' = [cli EXCEPT ![n] = how] /\ UNCHANGED stop /\ Free(Client(n))
EndClientKeeping(n, how) ==
    /\ cli' = [cli EXCEPT ![n] = how]
    /\ stop' = [stop EXCEPT ![n] = (how # "done")]
    /\ UNCHANGED <<res, cq>>
EndClient(n, how) ==
    /\ cli' = [cli EXCEPT ![n] = how]
    /\ stop' = [stop EXCEPT ![n] = (how # "done")]
    /\ Free(Client(n))

\* The order of client_run.  A slip in it: the ping goes before its buffer.
AfterSendFirst(place) ==
    CASE place = "info" -> "import" [] place = "import" -> IF setup.hook THEN "msg" ELSE "send"
      [] place = "send" -> "recv" [] place = "recv" -> "wait"
After(place) ==
    CASE place = "info" -> "import" [] place = "import" -> IF setup.hook THEN "msg" ELSE "recv"
      [] place = "recv" -> "send" [] place = "send" -> "wait"

Goto(n, place) == cli' = [cli EXCEPT ![n] = place] /\ UNCHANGED <<stop, res, cq>>

\* The process begins with its client, which creates its resources.
StartProcess(n) ==
    /\ up[n] = "off"
    /\ up' = [up EXCEPT ![n] = "running"]
    /\ \/ /\ NoFault /\ cli' = [cli EXCEPT ![n] = "info"] /\ res' = Created(Client(n))
          /\ UNCHANGED <<stop, cq>>
       \/ Fault /\ EndClient(n, "failed")
    /\ UNCHANGED <<setup, echo, http, imported, done, buf, msg>>

\* exchange_desc: GET /info and POST /import, once the peer's server listens,
\* then check_loopback.
Exchange(n) ==
    /\ Running(n) /\ cli[n] \in {"info", "import"} /\ Serving(Peer(n))
    /\ imported' = IF cli[n] = "import" THEN [imported EXCEPT ![Peer(n)] = TRUE] ELSE imported
    /\ IF cli[n] = "import" /\ setup.loopback /\ ~setup.hook
       THEN EndClient(n, "failed")
       ELSE Goto(n, After(cli[n]))
    /\ UNCHANGED <<setup, up, echo, http, done, buf, msg, faults>>

\* The data plane of tcp-hook; post_msg leaves a permit.  A slip in it: none.
HookRoundSilent(n) ==
    /\ Running(n) /\ cli[n] = "msg" /\ Serving(Peer(n))
    /\ EndClient(n, "done")
    /\ UNCHANGED <<setup, up, echo, http, imported, done, buf, msg, faults>>
HookRound(n) ==
    /\ Running(n) /\ cli[n] = "msg" /\ Serving(Peer(n))
    /\ done' = [done EXCEPT ![Peer(n)] = TRUE]
    /\ EndClient(n, "done")
    /\ UNCHANGED <<setup, up, echo, http, imported, buf, msg, faults>>

\* import_peer and post_recv.
PostRecv(n) ==
    /\ Running(n) /\ cli[n] = "recv"
    /\ buf' = [buf EXCEPT ![Client(n)] = "posted"]
    /\ Goto(n, After("recv"))
    /\ UNCHANGED <<setup, up, echo, http, imported, done, msg, faults>>

PostPing(n) ==
    /\ Running(n) /\ cli[n] = "send"
    /\ msg' = [msg EXCEPT ![Client(n)] = "sent"]
    /\ Goto(n, After("send"))
    /\ UNCHANGED <<setup, up, echo, http, imported, done, buf, faults>>

WaitPong(n) ==
    /\ Running(n) /\ cli[n] = "wait"
    /\ Polls(Client(n), "recv",
             EndClient(n, "done") /\ UNCHANGED <<echo, http, done, msg>>,
             EndClient(n, "failed") /\ UNCHANGED <<echo, http, done, msg>>)
    /\ UNCHANGED <<setup, up, imported, buf, faults>>

PongTimeout(n) ==
    /\ RunsOut(n) /\ cli[n] = "wait"
    /\ EndClient(n, "timeout")
    /\ UNCHANGED <<setup, up, echo, http, imported, done, buf, msg, faults>>

\* An error from outside the protocol: an import, a connection that breaks.
ClientFault(n) ==
    /\ Running(n) /\ cli[n] \notin {"off"} \cup CliEnded
    /\ Fault /\ EndClient(n, "failed")
    /\ UNCHANGED <<setup, up, echo, http, imported, done, buf, msg>>

-------------------------------------------------------------------------------
(* The server task.                                                        *)

\* The echo block: the HTTP server is released, and the set dropped, however
\* the round ends.  A slip in it: only a good round releases it.
EndEchoQuietly(n, how) ==
    /\ echo' = [echo EXCEPT ![n] = how]
    /\ done' = IF how = "ok" THEN [done EXCEPT ![n] = TRUE] ELSE done
    /\ Free(Server(n))
EndEcho(n, how) ==
    /\ echo' = [echo EXCEPT ![n] = how]
    /\ done' = [done EXCEPT ![n] = TRUE]
    /\ Free(Server(n))

\* res_opt and bind; without resources the echo is over at once.
StartServer(n) ==
    /\ Running(n) /\ http[n] = "off"
    /\ \/ /\ NoFault /\ http' = [http EXCEPT ![n] = "serving"]
          /\ echo' = [echo EXCEPT ![n] = IF setup.hook THEN "ok" ELSE "arm"]
          /\ res' = Created(Server(n))
       \/ /\ Fault /\ http' = [http EXCEPT ![n] = "failed"]
          /\ echo' = [echo EXCEPT ![n] = "failed"] /\ UNCHANGED res
    /\ UNCHANGED <<setup, up, cli, imported, done, stop, buf, msg, cq>>

\* post_recv, on the first poll of the echo block.
ArmEcho(n) ==
    /\ Running(n) /\ echo[n] = "arm"
    /\ echo' = [echo EXCEPT ![n] = "recv"]
    /\ buf' = [buf EXCEPT ![Server(n)] = "posted"]
    /\ UNCHANGED <<setup, up, cli, httpVars, res, msg, cq, faults>>

\* The ping has arrived: import_peer and post_send.
SendPong(n) ==
    IF imported[n]
    THEN /\ echo' = [echo EXCEPT ![n] = "send"]
         /\ msg' = [msg EXCEPT ![Server(n)] = "sent"]
         /\ cq' = [cq EXCEPT ![Server(n)] = Tail(@)]
         /\ UNCHANGED <<done, res>>
    ELSE EndEcho(n, "failed") /\ UNCHANGED msg

WaitPing(n) ==
    /\ Running(n) /\ echo[n] = "recv"
    /\ Polls(Server(n), "recv",
             SendPong(n) /\ UNCHANGED <<cli, http, stop>>,
             EndEcho(n, "failed") /\ UNCHANGED <<cli, http, stop, msg>>)
    /\ UNCHANGED <<setup, up, imported, buf, faults>>

WaitConsumed(n) ==
    /\ Running(n) /\ echo[n] = "send"
    /\ Polls(Server(n), "send",
             EndEcho(n, "ok") /\ UNCHANGED <<cli, http, stop, msg>>,
             EndEcho(n, "failed") /\ UNCHANGED <<cli, http, stop, msg>>)
    /\ UNCHANGED <<setup, up, imported, buf, faults>>

EchoTimeout(n) ==
    /\ RunsOut(n) /\ echo[n] \in {"recv", "send"}
    /\ EndEcho(n, "timeout")
    /\ UNCHANGED <<setup, up, cli, http, imported, stop, buf, msg, faults>>

\* An error from outside the protocol: post_recv, a poll, import_peer, post_send.
EchoFault(n) ==
    /\ Running(n) /\ echo[n] \in {"arm", "recv", "send"}
    /\ Fault /\ EndEcho(n, "failed")
    /\ UNCHANGED <<setup, up, cli, http, imported, stop, buf, msg>>

\* graceful_shutdown.
EndServe(n) ==
    /\ Serving(n) /\ (done[n] \/ stop[n])
    /\ http' = [http EXCEPT ![n] = "ended"]
    /\ UNCHANGED <<setup, up, cli, echo, imported, done, stop, endVars, faults>>

-------------------------------------------------------------------------------
(* The process.                                                            *)

\* join! of the two tasks, the server's itself a join! of serve and echo.
EndProcess(n) ==
    /\ Running(n) /\ cli[n] \in CliEnded
    /\ http[n] \in {"ended", "failed"} /\ echo[n] \in EchoEnded
    /\ up' = [up EXCEPT ![n] = "exited"]
    /\ UNCHANGED <<setup, cli, echo, httpVars, endVars, faults>>

Kill(n) ==
    /\ Running(n) /\ Fault
    /\ up' = [up EXCEPT ![n] = "killed"]
    /\ res' = [e \in Ends |-> IF e[1] = n /\ res[e] = "live" THEN "freed" ELSE res[e]]
    /\ cq' = [e \in Ends |-> IF e[1] = n THEN <<>> ELSE cq[e]]
    /\ UNCHANGED <<setup, cli, echo, httpVars, buf, msg>>

\* cli.and(srv)
ExitOk(n) == up[n] = "exited" /\ cli[n] = "done" /\ http[n] = "ended" /\ echo[n] = "ok"

-------------------------------------------------------------------------------
TaskStep(n) ==
    \/ Exchange(n) \/ HookRound(n) \/ PostRecv(n) \/ PostPing(n) \/ WaitPong(n)
    \/ StartServer(n) \/ ArmEcho(n) \/ WaitPing(n) \/ WaitConsumed(n)
    \/ EndServe(n) \/ EndProcess(n)

Timeout(n) == PongTimeout(n) \/ EchoTimeout(n)

Next ==
    \/ \E n \in Nodes : StartProcess(n) \/ TaskStep(n) \/ Timeout(n) \/ ClientFault(n)
                        \/ EchoFault(n) \/ Kill(n)
    \/ \E e \in Ends : Deliver(e) \/ Acknowledge(e) \/ Refuse(e)

Spec == Init /\ [][Next]_vars

\* Each task of a running process is polled, and the fabric delivers what it
\* can; nobody is obliged to start a process.
Fairness ==
    /\ \A n \in Nodes :
          /\ WF_vars(Exchange(n) \/ HookRound(n) \/ PostRecv(n) \/ PostPing(n) \/ WaitPong(n))
          /\ WF_vars(StartServer(n) \/ ArmEcho(n) \/ WaitPing(n) \/ WaitConsumed(n))
          /\ WF_vars(EndServe(n)) /\ WF_vars(EndProcess(n))
    /\ \A e \in Ends : WF_vars(Deliver(e)) /\ WF_vars(Acknowledge(e))
FairSpec == Spec /\ Fairness

-------------------------------------------------------------------------------
(* Properties.                                                             *)

\* Types, and what owns a set: one is live exactly while the task that created
\* it is between its creation and its last record, and only a live one has
\* records to poll.
TypeOK ==
    /\ setup \in Setups
    /\ up \in [Nodes -> {"off", "running", "exited", "killed"}]
    /\ cli \in [Nodes -> {"off", "info", "import", "msg", "recv", "send", "wait"} \cup CliEnded]
    /\ http \in [Nodes -> {"off", "serving", "ended", "failed"}]
    /\ echo \in [Nodes -> {"off", "arm", "recv", "send"} \cup EchoEnded]
    /\ {imported, done, stop} \subseteq [Nodes -> BOOLEAN]
    /\ res \in [Ends -> {"none", "live", "freed"}]
    /\ buf \in [Ends -> {"idle", "posted", "filled"}]
    /\ msg \in [Ends -> {"none", "sent", "landed", "acked", "refused"}]
    /\ \A e \in Ends : /\ cq[e] \in Seq([ctx : {"send", "recv"}, ok : BOOLEAN])
                       /\ res[e] # "live" => cq[e] = <<>>
    /\ faults \in 0 .. MaxFaults
    /\ \A n \in Nodes : ~setup.hook =>
          /\ res[Client(n)] = "live" <=> Running(n) /\ cli[n] \notin {"off"} \cup CliEnded
          /\ res[Server(n)] = "live" <=> Running(n) /\ echo[n] \notin {"off"} \cup EchoEnded

\* "no bye: local side relies on its recv completion, the peer on its send
\* completion; each tears down safely".  A client that is content has its pong,
\* and its ping has been consumed; a server that is content knows that its pong
\* lies in the peer's buffer, whatever records were polled on the way.
SafeTeardown ==
    ~setup.hook => \A n \in Nodes :
        /\ cli[n] = "done" => /\ buf[Client(n)] = "filled"
                              /\ msg[Client(n)] \in {"landed", "acked"}
        /\ echo[n] = "ok" => /\ msg[Server(n)] = "acked"
                             /\ buf[Client(Peer(n))] = "filled"

\* "the pong always has a place to land (otherwise RNR)" and "peer info must be
\* ready": a ping that has landed comes from an announced peer, and a pong under
\* way meets a posted buffer unless its receiver has given up.
PongGoesHome ==
    \A n \in Nodes :
        /\ buf[Server(n)] = "filled" => imported[n]
        /\ msg[Server(n)] = "sent" =>
              \/ HasPlace(Client(Peer(n)))
              \/ cli[Peer(n)] \in {"failed", "timeout"} \/ up[Peer(n)] = "killed"

Undisturbed ==
    /\ faults = 0 /\ \A e \in Ends : msg[e] # "refused"
    /\ setup.hook \/ ~setup.loopback

InTime == \A n \in Nodes : cli[n] # "timeout" /\ echo[n] # "timeout"

\* Two processes that both run finish their two rounds and exit with success if
\* no wait runs out and nothing fails: nobody keeps a queue the other needs,
\* and every HTTP server is released.
HealthyEnds ==
    [](Undisturbed /\ InTime) /\ <>(\A n \in Nodes : up[n] # "off") =>
        <>(\A n \in Nodes : ExitOk(n))

\* "Notified on error too, or a failed round would hang the join": whatever
\* becomes of the peer, a process whose client is through ends, given that
\* wait_cr gives up.  (In tcp-hook mode a good client still leaves a server
\* that nothing but the peer's request ends.)
JoinEnds ==
    (\A n \in Nodes : WF_vars(Timeout(n))) =>
        \A n \in Nodes :
            (Running(n) /\ cli[n] \in CliEnded /\ (setup.hook => cli[n] = "failed"))
                ~> ~Running(n)

\* "The client retries connecting forever until the peer is up, so the two nodes
\* can be started in any order": two processes that are both started sooner or
\* later finish, however long one ran alone.
StartOrderFree ==
    [](Undisturbed) /\ <>(\A n \in Nodes : up[n] # "off") =>
        <>(\A n \in Nodes : ExitOk(n))
===============================================================================
