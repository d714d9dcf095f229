------------------------------ MODULE UrmaHello ------------------------------
(***************************************************************************)
(* examples/urma_hello.rs: two processes, each with a server task and a    *)
(* client task over one set of resources.  Each client reads the other     *)
(* side's memory, and a side frees its memory only after the other's bye.  *)
(*                                                                         *)
(* A request and its handler are one step, what the client does with the   *)
(* answer is another.  A refused connection is tried again and changes     *)
(* nothing; that the client's READ blocks the accept loop of its process   *)
(* for a while only delays requests.                                       *)
(***************************************************************************)
EXTENDS Integers, DeviceModes

CONSTANTS Nodes,      \* the two of them
          Setups,     \* [hook, loopback, dev]: how the two are started
          MaxFaults   \* bound on kills and on errors from outside the protocol

ASSUME NodesAssumption == \E a, b \in Nodes : a # b /\ Nodes = {a, b}
ASSUME SetupsAssumption == \A s \in Setups : s.hook \in BOOLEAN
ASSUME FaultsAssumption == MaxFaults \in Nat

VARIABLES setup,   \* --tcp-hook, whether both run on one machine, -d of each
          up,      \* the process: "off", "running", "exited" or "killed"
          cli,     \* where the client task is
          answer,  \* the answer to its last request, not looked at yet
          got,     \* does it hold the peer's message?
          srv,     \* the server task: "off", "serving" or "ended"
          end,     \* SrvEnd, or "BindError"
          done,    \* SrvState.done has a permit
          abort,   \* SrvState.abort has a permit
          stop,    \* the process's stop channel has been written
          desc,    \* the DescSlot is filled
          res,     \* the UrmaRes: "none", "live" or "freed"
          faults

procVars == <<up, srv, end>>
noticeVars == <<done, abort, stop>>
dataVars == <<got, desc, res>>
vars == <<setup, up, cli, answer, got, srv, end, done, abort, stop, desc, res, faults>>

Peer(n) == CHOOSE m \in Nodes : m # n

Serving(n) == up[n] = "running" /\ srv[n] = "serving"

Running(n, place) == up[n] = "running" /\ cli[n] = place

Init ==
    /\ setup \in Setups
    /\ up = [n \in Nodes |-> "off"]
    /\ cli = [n \in Nodes |-> "info"] /\ answer = [n \in Nodes |-> "none"]
    /\ got = [n \in Nodes |-> FALSE]
    /\ srv = [n \in Nodes |-> "off"] /\ end = [n \in Nodes |-> "none"]
    /\ done = [n \in Nodes |-> FALSE] /\ abort = [n \in Nodes |-> FALSE]
    /\ stop = [n \in Nodes |-> FALSE]
    /\ desc = [n \in Nodes |-> setup.hook] /\ res = [n \in Nodes |-> "none"]
    /\ faults = 0

\* combined: both tasks are started; the listener may fail to bind.
StartProcess(n) ==
    /\ up[n] = "off"
    /\ up' = [up EXCEPT ![n] = "running"]
    /\ \/ srv' = [srv EXCEPT ![n] = "serving"] /\ UNCHANGED <<end, faults>>
       \/ /\ faults < MaxFaults /\ faults' = faults + 1
          /\ srv' = [srv EXCEPT ![n] = "ended"] /\ end' = [end EXCEPT ![n] = "BindError"]
    /\ UNCHANGED <<setup, cli, answer, noticeVars, dataVars>>

-------------------------------------------------------------------------------
(* The client task.                                                        *)

Goto(n, place) ==
    /\ cli' = [cli EXCEPT ![n] = place]
    /\ answer' = [answer EXCEPT ![n] = "none"]

\* client_run returns an error: combined stops the own server first.  A slip in
\* it: the stop channel is not written.
FailUnheard(n) == Goto(n, "aborting") /\ UNCHANGED stop
Fail(n) == Goto(n, "aborting") /\ stop' = [stop EXCEPT ![n] = TRUE]

\* GET /info, POST /import, GET /msg (tcp-hook) and POST /bye, handled by the
\* peer's server: get_info answers 503 until the descriptor is there, post_bye
\* leaves a permit.
Request(n) ==
    /\ \E place \in {"info", "import", "bye"} \cup (IF setup.hook THEN {"data"} ELSE {}) :
          Running(n, place)
    /\ answer[n] = "none" /\ Serving(Peer(n))
    /\ answer' = [answer EXCEPT ![n] =
                     IF cli[n] = "info" /\ ~desc[Peer(n)] THEN "unavailable" ELSE "ok"]
    /\ done' = IF cli[n] = "bye" THEN [done EXCEPT ![Peer(n)] = TRUE] ELSE done
    /\ UNCHANGED <<setup, procVars, cli, abort, stop, dataVars, faults>>

Answered(n, place) == Running(n, place) /\ answer[n] # "none" /\ answer[n] # "broken"

Fits(n) == check_mode_support(setup.dev[n].cap, setup.dev[n].bonding)

\* Slips in ensure_resources: the descriptor is published before the set is
\* created, and the set is created only once the peer has published its own.
EnsurePublishedFirst(n) ==
    /\ desc' = [desc EXCEPT ![n] = TRUE]
    /\ res' = IF desc[n] \/ ~Fits(n) THEN res ELSE [res EXCEPT ![n] = "live"]
EnsureAfterPeer(n) ==
    IF desc[n] \/ answer[n] # "ok" THEN UNCHANGED <<desc, res>>
    ELSE desc' = [desc EXCEPT ![n] = TRUE] /\ res' = [res EXCEPT ![n] = "live"]

\* What ensure_resources leaves behind: the set is created once, and only then
\* published; a device without the mode fails before either.
EnsureResources(n) ==
    IF desc[n] \/ ~Fits(n) THEN UNCHANGED <<desc, res>>
    ELSE desc' = [desc EXCEPT ![n] = TRUE] /\ res' = [res EXCEPT ![n] = "live"]

\* Any answer of the peer lets this side create its resources; a 200 ends the
\* loop with the peer's descriptor.
GotInfo(n) ==
    /\ Answered(n, "info")
    /\ EnsureResources(n)
    /\ IF desc[n] \/ Fits(n)
       THEN /\ Goto(n, IF answer[n] = "ok" THEN "import" ELSE "info")
            /\ UNCHANGED stop
       ELSE Fail(n)
    /\ UNCHANGED <<setup, procVars, got, done, abort, faults>>

\* The /import notice is answered; check_loopback.
GotImport(n) ==
    /\ Answered(n, "import")
    /\ IF setup.loopback /\ ~setup.hook THEN Fail(n) ELSE Goto(n, "data") /\ UNCHANGED stop
    /\ UNCHANGED <<setup, procVars, done, abort, dataVars, faults>>

\* import_peer and post_read.
PostRead(n) ==
    /\ Running(n, "data") /\ ~setup.hook
    /\ Goto(n, "reading")
    /\ UNCHANGED <<setup, procVars, noticeVars, dataVars, faults>>

\* wait_read: the READ succeeds while the memory it names is registered.
WaitRead(n) ==
    /\ Running(n, "reading")
    /\ IF res[Peer(n)] = "live"
       THEN Goto(n, "bye") /\ got' = [got EXCEPT ![n] = TRUE] /\ UNCHANGED stop
       ELSE Fail(n) /\ UNCHANGED got
    /\ UNCHANGED <<setup, procVars, done, abort, desc, res, faults>>

\* The data plane of tcp-hook.
GotMsg(n) ==
    /\ Answered(n, "data")
    /\ Goto(n, "bye") /\ got' = [got EXCEPT ![n] = TRUE]
    /\ UNCHANGED <<setup, procVars, noticeVars, desc, res, faults>>

GotByeReply(n) ==
    /\ Answered(n, "bye")
    /\ Goto(n, "done")
    /\ UNCHANGED <<setup, procVars, noticeVars, dataVars, faults>>

\* The connection broke with the request under way.
LoseAnswer(n) ==
    /\ up[n] = "running" /\ answer[n] = "broken"
    /\ Fail(n)
    /\ UNCHANGED <<setup, procVars, done, abort, dataVars, faults>>

\* The best-effort POST /abort.
PostAbort(n) ==
    /\ Running(n, "aborting")
    /\ Goto(n, "failed")
    /\ abort' = IF Serving(Peer(n)) THEN [abort EXCEPT ![Peer(n)] = TRUE] ELSE abort
    /\ UNCHANGED <<setup, procVars, done, stop, dataVars, faults>>

\* An error from outside the protocol: a resource, an import, a READ.
ClientFault(n) ==
    /\ up[n] = "running" /\ cli[n] \notin {"done", "aborting", "failed"}
    /\ faults < MaxFaults /\ faults' = faults + 1
    /\ Fail(n)
    /\ UNCHANGED <<setup, procVars, done, abort, dataVars>>

-------------------------------------------------------------------------------
(* The server task and the process.                                        *)

EndServer(n, e) ==
    /\ Serving(n)
    /\ srv' = [srv EXCEPT ![n] = "ended"] /\ end' = [end EXCEPT ![n] = e]
    /\ UNCHANGED <<setup, up, cli, answer, noticeVars, dataVars, faults>>

\* The select! takes any branch that is ready.
EndOnNotice(n) ==
    \/ done[n] /\ EndServer(n, "Bye")
    \/ abort[n] /\ EndServer(n, "Aborted")
    \/ stop[n] /\ EndServer(n, "Stopped")

\* BYE_TIMEOUT runs from the moment the server listens.
ByeTimeout(n) == EndServer(n, "Timeout")

\* A slip in the join: the process leaves with its client.
LeaveWithClient(n) == up[n] = "running" /\ cli[n] \in {"done", "failed"}

\* join! of the two tasks.
BothJoined(n) ==
    up[n] = "running" /\ cli[n] \in {"done", "failed"} /\ srv[n] = "ended"

\* The frame of combined, and the resources with it.
EndProcess(n) ==
    /\ BothJoined(n)
    /\ up' = [up EXCEPT ![n] = "exited"]
    /\ res' = [res EXCEPT ![n] = IF @ = "live" THEN "freed" ELSE @]
    /\ UNCHANGED <<setup, cli, answer, srv, end, noticeVars, got, desc, faults>>

\* A request of the peer that is under way may be answered or break.
Kill(n) ==
    /\ up[n] = "running"
    /\ faults < MaxFaults /\ faults' = faults + 1
    /\ up' = [up EXCEPT ![n] = "killed"]
    /\ res' = [res EXCEPT ![n] = IF @ = "live" THEN "freed" ELSE @]
    /\ \/ UNCHANGED answer
       \/ answer[Peer(n)] # "none" /\ answer' = [answer EXCEPT ![Peer(n)] = "broken"]
    /\ UNCHANGED <<setup, cli, srv, end, noticeVars, got, desc>>

\* cli.and(srv).  A slip in it: the timeout is reported, but is no error.
ExitOkAnyway(n) == up[n] = "exited" /\ cli[n] = "done" /\ end[n] \in {"Bye", "Timeout"}
ExitOk(n) == up[n] = "exited" /\ cli[n] = "done" /\ end[n] \in {"Bye", "Stopped"}

-------------------------------------------------------------------------------
ClientStep(n) ==
    \/ Request(n) \/ GotInfo(n) \/ GotImport(n) \/ PostRead(n) \/ WaitRead(n)
    \/ GotMsg(n) \/ GotByeReply(n) \/ LoseAnswer(n) \/ PostAbort(n)

Next == \E n \in Nodes :
    \/ StartProcess(n) \/ ClientStep(n) \/ ClientFault(n)
    \/ EndOnNotice(n) \/ ByeTimeout(n) \/ EndProcess(n) \/ Kill(n)

Spec == Init /\ [][Next]_vars

\* The runtime polls every task that can go on; nobody is obliged to start a
\* process, and nothing below rests on BYE_TIMEOUT running out.
Fairness == \A n \in Nodes :
    WF_vars(ClientStep(n)) /\ WF_vars(EndOnNotice(n)) /\ WF_vars(EndProcess(n))
FairSpec == Spec /\ Fairness

-------------------------------------------------------------------------------
(* Properties.                                                             *)

\* Types, and what the DescSlot stands for: a descriptor published by a running
\* process names memory that is registered.
TypeOK ==
    /\ setup \in Setups
    /\ up \in [Nodes -> {"off", "running", "exited", "killed"}]
    /\ cli \in [Nodes -> {"info", "import", "data", "reading", "bye", "done", "aborting",
                          "failed"}]
    /\ answer \in [Nodes -> {"none", "ok", "unavailable", "broken"}]
    /\ srv \in [Nodes -> {"off", "serving", "ended"}]
    /\ end \in [Nodes -> {"none", "Bye", "Aborted", "Stopped", "Timeout", "BindError"}]
    /\ {got, done, abort, stop, desc} \subseteq [Nodes -> BOOLEAN]
    /\ res \in [Nodes -> {"none", "live", "freed"}]
    /\ faults \in 0 .. MaxFaults
    /\ \A n \in Nodes : up[n] = "running" /\ ~setup.hook => (desc[n] <=> res[n] = "live")

\* combined: "freed only after the server saw the peer's bye (or gave up)".  A
\* READ under way finds its memory registered, unless the owner was killed, its
\* client failed, or it had waited BYE_TIMEOUT.
MemoryOutlivesRead ==
    \A n \in Nodes : Running(n, "reading") =>
        \/ res[Peer(n)] = "live"
        \/ up[Peer(n)] = "killed" \/ end[Peer(n)] \in {"Stopped", "Timeout"}

\* A node that reports success has read the other's message and has let the
\* other read its own, whatever notices and faults crossed.
HonestOk == \A n \in Nodes : ExitOk(n) => got[n] /\ got[Peer(n)]

\* The preflights and mode choices that everything above starts from, over all
\* that a device may advertise (they are constant: looked at once).
ModeChoicesAgree == (\A n \in Nodes : up[n] = "off") => ModesAgree

Healthy ==
    /\ faults = 0 /\ \A n \in Nodes : end[n] # "Timeout"
    /\ setup.hook \/ (~setup.loopback /\ \A n \in Nodes : Fits(n))

\* Neither side waits for the other for ever: once both processes run, in
\* whichever order they were started and created their resources, and as long
\* as nothing fails and no wait for a bye has run out, both end with success.
HealthyEnds ==
    [](Healthy) /\ <>(\A n \in Nodes : up[n] # "off") =>
        <>(\A n \in Nodes : ExitOk(n))

\* "Tell the server task to exit so join! doesn't hang": the notices alone end
\* the two joins, without waiting for BYE_TIMEOUT.  A process whose client has
\* failed comes to its end; and a server is released by the other's client,
\* by its bye when that succeeds, by its abort when it fails.  (Of an abort
\* posted before the server listens, or by a client killed first, nothing is
\* promised.)
JoinDoesNotHang ==
    \A n \in Nodes :
        /\ Running(n, "aborting") ~> up[n] # "running"
        /\ (Serving(n) /\ cli[Peer(n)] = "done") ~> ~Serving(n)
        /\ (Serving(n) /\ Running(Peer(n), "aborting"))
               ~> (~Serving(n) \/ up[Peer(n)] = "killed")
===============================================================================
