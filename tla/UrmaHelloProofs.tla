---------------------------- MODULE UrmaHelloProofs ----------------------------
(***************************************************************************)
(* For any setups, any capability records and any number of faults: a node *)
(* of urma_hello that reports success has read the other's message and has *)
(* been read itself, and memory is not freed under a READ of a peer that   *)
(* was served.  A mode choice that passes a preflight is one the device    *)
(* offers, whatever it advertises.                                         *)
(***************************************************************************)
EXTENDS UrmaHello, WellFoundedInduction, TLAPS

\* The other node, and there is no third.
LEMMA Pair ==
  ASSUME NEW n \in Nodes
  PROVE  /\ Peer(n) \in Nodes /\ Peer(n) # n /\ Peer(Peer(n)) = n
         /\ \A m \in Nodes : m = n \/ m = Peer(n)
<1>1. \A k \in Nodes : \E m \in Nodes : m # k
  BY NodesAssumption
<1>2. \A k \in Nodes : Peer(k) \in Nodes /\ Peer(k) # k
  BY <1>1 DEF Peer
<1> QED
  BY <1>2, NodesAssumption

-------------------------------------------------------------------------------
(* The strengthening.                                                      *)

Types ==
    /\ setup \in Setups
    /\ up \in [Nodes -> {"off", "running", "exited", "killed"}]
    /\ cli \in [Nodes -> {"info", "import", "data", "reading", "bye", "done", "aborting",
                          "failed"}]
    /\ answer \in [Nodes -> {"none", "ok", "unavailable", "broken"}]
    /\ srv \in [Nodes -> {"off", "serving", "ended"}]
    /\ end \in [Nodes -> {"none", "Bye", "Aborted", "Stopped", "Timeout", "BindError"}]
    /\ got \in [Nodes -> BOOLEAN] /\ done \in [Nodes -> BOOLEAN]
    /\ abort \in [Nodes -> BOOLEAN] /\ stop \in [Nodes -> BOOLEAN]
    /\ desc \in [Nodes -> BOOLEAN]
    /\ res \in [Nodes -> {"none", "live", "freed"}]
    /\ faults \in 0 .. MaxFaults

\* The DescSlot stands for the resources, and before the start there is neither.
DescGood ==
    \A n \in Nodes :
        /\ up[n] = "running" /\ ~setup.hook => (desc[n] <=> res[n] = "live")
        /\ up[n] = "off" => (desc[n] <=> setup.hook) /\ res[n] # "live" /\ end[n] = "none"

\* How a server ended is what it was told.
EndsGood ==
    \A n \in Nodes :
        /\ srv[n] = "serving" => end[n] = "none"
        /\ srv[n] = "ended" => end[n] # "none"
        /\ up[n] = "exited" => srv[n] = "ended"
        /\ end[n] = "Bye" => done[n]
        /\ end[n] = "Aborted" => abort[n]
        /\ end[n] = "Stopped" => stop[n]

\* What a notice says of the client that gave it.
NoticesGood ==
    \A n \in Nodes :
        /\ done[n] => got[Peer(n)] /\ cli[Peer(n)] \in {"bye", "done", "aborting", "failed"}
        /\ abort[n] => cli[Peer(n)] \in {"aborting", "failed"}
        /\ stop[n] => cli[n] \in {"aborting", "failed"}

PastInfo == {"import", "data", "reading", "bye", "done"}

\* What a client that has come so far knows of its peer.
ClientGood ==
    \A n \in Nodes :
        /\ cli[n] \in {"bye", "done"} => got[n]
        /\ cli[n] = "reading" => ~setup.hook
        /\ cli[n] \in PastInfo \/ answer[n] # "none" =>
              up[Peer(n)] # "off" /\ end[Peer(n)] # "BindError"
        /\ cli[n] \in PastInfo \/ answer[n] = "ok" => desc[Peer(n)]

\* All of it.
HelloInv == Types /\ DescGood /\ EndsGood /\ NoticesGood /\ ClientGood

\* Two processes that have not been started satisfy it.
\* Two processes that have not been started satisfy it.
\* Two processes that have not been started satisfy it.
LEMMA InitHello == Init => HelloInv
  BY SetupsAssumption, FaultsAssumption, Pair
  DEF Init, HelloInv, Types, DescGood, EndsGood, NoticesGood, ClientGood, PastInfo

Places == {"info", "import", "data", "reading", "bye", "done", "aborting", "failed"}

\* Both ways a client moves on keep its types.
LEMMA MoveTypes ==
  ASSUME Types, NEW n \in Nodes, NEW place \in Places,
         (Goto(n, place) /\ UNCHANGED stop) \/ Fail(n)
  PROVE  /\ cli' \in [Nodes -> Places]
         /\ answer' \in [Nodes -> {"none", "ok", "unavailable", "broken"}]
         /\ stop' \in [Nodes -> BOOLEAN]
<1>1. \E p \in Places : cli' = [cli EXCEPT ![n] = p] /\ answer' = [answer EXCEPT ![n] = "none"]
  BY DEF Places, Goto, Fail
<1>2. stop' = stop \/ stop' = [stop EXCEPT ![n] = TRUE]
  BY DEF Fail
<1>3. cli' \in [Nodes -> Places] /\ answer' \in [Nodes -> {"none", "ok", "unavailable", "broken"}]
  BY <1>1 DEF Types, Places
<1>4. stop' \in [Nodes -> BOOLEAN]
  BY <1>2 DEF Types
<1> QED
  BY <1>3, <1>4

\* Every step of the two processes keeps the strengthening.
LEMMA HelloStep ==
  ASSUME HelloInv, Next
  PROVE  HelloInv'
<1> USE FaultsAssumption, Pair DEF HelloInv
<1>1. ASSUME NEW n \in Nodes, StartProcess(n) PROVE HelloInv'
  <2>1. Types'
    BY <1>1 DEF StartProcess, noticeVars, dataVars, Types
  <2>2. DescGood'
    BY <1>1 DEF StartProcess, noticeVars, dataVars, Types, DescGood
  <2>3. EndsGood'
    BY <1>1 DEF StartProcess, noticeVars, dataVars, Types, EndsGood, DescGood
  <2>4. NoticesGood'
    BY <1>1 DEF StartProcess, noticeVars, dataVars, Types, NoticesGood, ClientGood
  <2>5. ClientGood'
    BY <1>1 DEF StartProcess, noticeVars, dataVars, Types, ClientGood, EndsGood, DescGood,
       PastInfo
  <2> QED
    BY <2>1, <2>2, <2>3, <2>4, <2>5 DEF HelloInv
<1>2. ASSUME NEW n \in Nodes, Request(n) PROVE HelloInv'
  <2>1. Types'
    BY <1>2 DEF Request, procVars, dataVars, Running, Serving, Types
  <2>2. DescGood'
    BY <1>2 DEF Request, procVars, dataVars, Running, Serving, Types, DescGood
  <2>3. EndsGood'
    BY <1>2 DEF Request, procVars, dataVars, Running, Serving, Types, EndsGood, DescGood
  <2>4. NoticesGood'
    BY <1>2 DEF Request, procVars, dataVars, Running, Serving, Types, NoticesGood, ClientGood
  <2>5. ClientGood'
    BY <1>2 DEF Request, procVars, dataVars, Running, Serving, Types, ClientGood, EndsGood,
       DescGood, PastInfo
  <2> QED
    BY <2>1, <2>2, <2>3, <2>4, <2>5 DEF HelloInv
<1>3. ASSUME NEW n \in Nodes, GotInfo(n) PROVE HelloInv'
  <2>1. \E place \in Places : (Goto(n, place) /\ UNCHANGED stop) \/ Fail(n)
    BY <1>3 DEF GotInfo, Places
  <2>2. /\ cli' \in [Nodes -> Places]
        /\ answer' \in [Nodes -> {"none", "ok", "unavailable", "broken"}]
        /\ stop' \in [Nodes -> BOOLEAN]
    BY <2>1, MoveTypes
  <2>3. UNCHANGED <<setup, up, srv, end, got, done, abort, faults>>
    BY <1>3 DEF GotInfo, procVars
  <2>4. desc' \in [Nodes -> BOOLEAN] /\ res' \in [Nodes -> {"none", "live", "freed"}]
    BY <1>3 DEF GotInfo, EnsureResources, Types
  <2>5. Types'
    BY <2>2, <2>3, <2>4 DEF Types, Places
  <2>6. DescGood'
    BY <1>3 DEF GotInfo, procVars, Answered, Running, Goto, Fail, EnsureResources, Types,
       DescGood
  <2>7. EndsGood'
    BY <1>3 DEF GotInfo, procVars, Answered, Running, Goto, Fail, EnsureResources, Types,
       EndsGood, DescGood
  <2>8. NoticesGood'
    BY <1>3 DEF GotInfo, procVars, Answered, Running, Goto, Fail, EnsureResources, Types,
       NoticesGood, ClientGood
  <2>9. ClientGood'
    BY <1>3 DEF GotInfo, procVars, Answered, Running, Goto, Fail, EnsureResources, Types,
       ClientGood, EndsGood, DescGood, PastInfo
  <2> QED
    BY <2>5, <2>6, <2>7, <2>8, <2>9 DEF HelloInv
<1>4. ASSUME NEW n \in Nodes, GotImport(n) PROVE HelloInv'
  <2>1. \E place \in Places : (Goto(n, place) /\ UNCHANGED stop) \/ Fail(n)
    BY <1>4 DEF GotImport, Places
  <2>2. /\ cli' \in [Nodes -> Places]
        /\ answer' \in [Nodes -> {"none", "ok", "unavailable", "broken"}]
        /\ stop' \in [Nodes -> BOOLEAN]
    BY <2>1, MoveTypes
  <2>3. UNCHANGED <<setup, up, srv, end, got, done, abort, desc, res, faults>>
    BY <1>4 DEF GotImport, procVars, dataVars
  <2>4. Types'
    BY <2>2, <2>3 DEF Types, Places
  <2>5. DescGood'
    BY <1>4 DEF GotImport, procVars, dataVars, Answered, Running, Goto, Fail, Types, DescGood
  <2>6. EndsGood'
    BY <1>4 DEF GotImport, procVars, dataVars, Answered, Running, Goto, Fail, Types, EndsGood,
       DescGood
  <2>7. NoticesGood'
    BY <1>4 DEF GotImport, procVars, dataVars, Answered, Running, Goto, Fail, Types,
       NoticesGood, ClientGood
  <2>8. ClientGood'
    BY <1>4 DEF GotImport, procVars, dataVars, Answered, Running, Goto, Fail, Types, ClientGood,
       EndsGood, DescGood, PastInfo
  <2> QED
    BY <2>4, <2>5, <2>6, <2>7, <2>8 DEF HelloInv
<1>5. ASSUME NEW n \in Nodes, PostRead(n) PROVE HelloInv'
  <2>1. Types'
    BY <1>5 DEF PostRead, procVars, noticeVars, dataVars, Running, Goto, Types
  <2>2. DescGood'
    BY <1>5 DEF PostRead, procVars, noticeVars, dataVars, Running, Goto, Types, DescGood
  <2>3. EndsGood'
    BY <1>5 DEF PostRead, procVars, noticeVars, dataVars, Running, Goto, Types, EndsGood,
       DescGood
  <2>4. NoticesGood'
    BY <1>5 DEF PostRead, procVars, noticeVars, dataVars, Running, Goto, Types, NoticesGood,
       ClientGood
  <2>5. ClientGood'
    BY <1>5 DEF PostRead, procVars, noticeVars, dataVars, Running, Goto, Types, ClientGood,
       EndsGood, DescGood, PastInfo
  <2> QED
    BY <2>1, <2>2, <2>3, <2>4, <2>5 DEF HelloInv
<1>6. ASSUME NEW n \in Nodes, WaitRead(n) PROVE HelloInv'
  <2>1. \E place \in Places : (Goto(n, place) /\ UNCHANGED stop) \/ Fail(n)
    BY <1>6 DEF WaitRead, Places
  <2>2. /\ cli' \in [Nodes -> Places]
        /\ answer' \in [Nodes -> {"none", "ok", "unavailable", "broken"}]
        /\ stop' \in [Nodes -> BOOLEAN]
    BY <2>1, MoveTypes
  <2>3. UNCHANGED <<setup, up, srv, end, done, abort, desc, res, faults>>
    BY <1>6 DEF WaitRead, procVars
  <2>4. got' \in [Nodes -> BOOLEAN]
    <3>1. got' = [got EXCEPT ![n] = TRUE] \/ got' = got
      BY <1>6 DEF WaitRead
    <3> QED
      BY <3>1 DEF Types
  <2>5. Types'
    BY <2>2, <2>3, <2>4 DEF Types, Places
  <2>6. DescGood'
    BY <1>6 DEF WaitRead, procVars, Running, Goto, Fail, Types, DescGood
  <2>7. EndsGood'
    BY <1>6 DEF WaitRead, procVars, Running, Goto, Fail, Types, EndsGood, DescGood
  <2>8. NoticesGood'
    BY <1>6 DEF WaitRead, procVars, Running, Goto, Fail, Types, NoticesGood, ClientGood
  <2>9. ClientGood'
    BY <1>6 DEF WaitRead, procVars, Running, Goto, Fail, Types, ClientGood, EndsGood, DescGood,
       PastInfo
  <2> QED
    BY <2>5, <2>6, <2>7, <2>8, <2>9 DEF HelloInv
<1>7. ASSUME NEW n \in Nodes, GotMsg(n) PROVE HelloInv'
  <2>1. Types'
    BY <1>7 DEF GotMsg, procVars, noticeVars, Answered, Running, Goto, Types
  <2>2. DescGood'
    BY <1>7 DEF GotMsg, procVars, noticeVars, Answered, Running, Goto, Types, DescGood
  <2>3. EndsGood'
    BY <1>7 DEF GotMsg, procVars, noticeVars, Answered, Running, Goto, Types, EndsGood, DescGood
  <2>4. NoticesGood'
    BY <1>7 DEF GotMsg, procVars, noticeVars, Answered, Running, Goto, Types, NoticesGood,
       ClientGood
  <2>5. ClientGood'
    BY <1>7 DEF GotMsg, procVars, noticeVars, Answered, Running, Goto, Types, ClientGood,
       EndsGood, DescGood, PastInfo
  <2> QED
    BY <2>1, <2>2, <2>3, <2>4, <2>5 DEF HelloInv
<1>8. ASSUME NEW n \in Nodes, GotByeReply(n) PROVE HelloInv'
  <2>1. Types'
    BY <1>8 DEF GotByeReply, procVars, noticeVars, dataVars, Answered, Running, Goto, Types
  <2>2. DescGood'
    BY <1>8 DEF GotByeReply, procVars, noticeVars, dataVars, Answered, Running, Goto, Types,
       DescGood
  <2>3. EndsGood'
    BY <1>8 DEF GotByeReply, procVars, noticeVars, dataVars, Answered, Running, Goto, Types,
       EndsGood, DescGood
  <2>4. NoticesGood'
    BY <1>8 DEF GotByeReply, procVars, noticeVars, dataVars, Answered, Running, Goto, Types,
       NoticesGood, ClientGood
  <2>5. ClientGood'
    BY <1>8 DEF GotByeReply, procVars, noticeVars, dataVars, Answered, Running, Goto, Types,
       ClientGood, EndsGood, DescGood, PastInfo
  <2> QED
    BY <2>1, <2>2, <2>3, <2>4, <2>5 DEF HelloInv
<1>9. ASSUME NEW n \in Nodes, LoseAnswer(n) PROVE HelloInv'
  <2>1. Types'
    BY <1>9 DEF LoseAnswer, procVars, dataVars, Fail, Goto, Types
  <2>2. DescGood'
    BY <1>9 DEF LoseAnswer, procVars, dataVars, Fail, Goto, Types, DescGood
  <2>3. EndsGood'
    BY <1>9 DEF LoseAnswer, procVars, dataVars, Fail, Goto, Types, EndsGood, DescGood
  <2>4. NoticesGood'
    BY <1>9 DEF LoseAnswer, procVars, dataVars, Fail, Goto, Types, NoticesGood, ClientGood
  <2>5. ClientGood'
    BY <1>9 DEF LoseAnswer, procVars, dataVars, Fail, Goto, Types, ClientGood, EndsGood,
       DescGood, PastInfo
  <2> QED
    BY <2>1, <2>2, <2>3, <2>4, <2>5 DEF HelloInv
<1>10. ASSUME NEW n \in Nodes, PostAbort(n) PROVE HelloInv'
  <2>1. Types'
    BY <1>10 DEF PostAbort, procVars, dataVars, Running, Serving, Goto, Types
  <2>2. DescGood'
    BY <1>10 DEF PostAbort, procVars, dataVars, Running, Serving, Goto, Types, DescGood
  <2>3. EndsGood'
    BY <1>10 DEF PostAbort, procVars, dataVars, Running, Serving, Goto, Types, EndsGood,
       DescGood
  <2>4. NoticesGood'
    BY <1>10 DEF PostAbort, procVars, dataVars, Running, Serving, Goto, Types, NoticesGood,
       ClientGood
  <2>5. ClientGood'
    BY <1>10 DEF PostAbort, procVars, dataVars, Running, Serving, Goto, Types, ClientGood,
       EndsGood, DescGood, PastInfo
  <2> QED
    BY <2>1, <2>2, <2>3, <2>4, <2>5 DEF HelloInv
<1>11. ASSUME NEW n \in Nodes, ClientFault(n) PROVE HelloInv'
  <2>1. Types'
    BY <1>11 DEF ClientFault, procVars, dataVars, Fail, Goto, Types
  <2>2. DescGood'
    BY <1>11 DEF ClientFault, procVars, dataVars, Fail, Goto, Types, DescGood
  <2>3. EndsGood'
    BY <1>11 DEF ClientFault, procVars, dataVars, Fail, Goto, Types, EndsGood, DescGood
  <2>4. NoticesGood'
    BY <1>11 DEF ClientFault, procVars, dataVars, Fail, Goto, Types, NoticesGood, ClientGood
  <2>5. ClientGood'
    BY <1>11 DEF ClientFault, procVars, dataVars, Fail, Goto, Types, ClientGood, EndsGood,
       DescGood, PastInfo
  <2> QED
    BY <2>1, <2>2, <2>3, <2>4, <2>5 DEF HelloInv
<1>12. ASSUME NEW n \in Nodes, EndOnNotice(n) PROVE HelloInv'
  <2>1. Types'
    BY <1>12 DEF EndOnNotice, EndServer, noticeVars, dataVars, Serving, Types
  <2>2. DescGood'
    BY <1>12 DEF EndOnNotice, EndServer, noticeVars, dataVars, Serving, Types, DescGood
  <2>3. EndsGood'
    BY <1>12 DEF EndOnNotice, EndServer, noticeVars, dataVars, Serving, Types, EndsGood,
       DescGood
  <2>4. NoticesGood'
    BY <1>12 DEF EndOnNotice, EndServer, noticeVars, dataVars, Serving, Types, NoticesGood,
       ClientGood
  <2>5. ClientGood'
    BY <1>12 DEF EndOnNotice, EndServer, noticeVars, dataVars, Serving, Types, ClientGood,
       EndsGood, DescGood, PastInfo
  <2> QED
    BY <2>1, <2>2, <2>3, <2>4, <2>5 DEF HelloInv
<1>13. ASSUME NEW n \in Nodes, ByeTimeout(n) PROVE HelloInv'
  <2>1. Types'
    BY <1>13 DEF ByeTimeout, EndServer, noticeVars, dataVars, Serving, Types
  <2>2. DescGood'
    BY <1>13 DEF ByeTimeout, EndServer, noticeVars, dataVars, Serving, Types, DescGood
  <2>3. EndsGood'
    BY <1>13 DEF ByeTimeout, EndServer, noticeVars, dataVars, Serving, Types, EndsGood, DescGood
  <2>4. NoticesGood'
    BY <1>13 DEF ByeTimeout, EndServer, noticeVars, dataVars, Serving, Types, NoticesGood,
       ClientGood
  <2>5. ClientGood'
    BY <1>13 DEF ByeTimeout, EndServer, noticeVars, dataVars, Serving, Types, ClientGood,
       EndsGood, DescGood, PastInfo
  <2> QED
    BY <2>1, <2>2, <2>3, <2>4, <2>5 DEF HelloInv
<1>14. ASSUME NEW n \in Nodes, EndProcess(n) PROVE HelloInv'
  <2>1. Types'
    BY <1>14 DEF EndProcess, noticeVars, BothJoined, Types
  <2>2. DescGood'
    BY <1>14 DEF EndProcess, noticeVars, BothJoined, Types, DescGood
  <2>3. EndsGood'
    BY <1>14 DEF EndProcess, noticeVars, BothJoined, Types, EndsGood, DescGood
  <2>4. NoticesGood'
    BY <1>14 DEF EndProcess, noticeVars, BothJoined, Types, NoticesGood, ClientGood
  <2>5. ClientGood'
    BY <1>14 DEF EndProcess, noticeVars, BothJoined, Types, ClientGood, EndsGood, DescGood,
       PastInfo
  <2> QED
    BY <2>1, <2>2, <2>3, <2>4, <2>5 DEF HelloInv
<1>15. ASSUME NEW n \in Nodes, Kill(n) PROVE HelloInv'
  <2>1. Types'
    BY <1>15 DEF Kill, noticeVars, Types
  <2>2. DescGood'
    BY <1>15 DEF Kill, noticeVars, Types, DescGood
  <2>3. EndsGood'
    BY <1>15 DEF Kill, noticeVars, Types, EndsGood, DescGood
  <2>4. NoticesGood'
    BY <1>15 DEF Kill, noticeVars, Types, NoticesGood, ClientGood
  <2>5. ClientGood'
    BY <1>15 DEF Kill, noticeVars, Types, ClientGood, EndsGood, DescGood, PastInfo
  <2> QED
    BY <2>1, <2>2, <2>3, <2>4, <2>5 DEF HelloInv
<1> QED
  BY <1>1, <1>2, <1>3, <1>4, <1>5, <1>6, <1>7, <1>8, <1>9, <1>10, <1>11, <1>12, <1>13, <1>14,
       <1>15 DEF Next, ClientStep

\* Nothing of it can change in a step of the world outside.
LEMMA HelloStutter == ASSUME HelloInv, UNCHANGED vars PROVE HelloInv'
  BY DEF HelloInv, Types, DescGood, EndsGood, NoticesGood, ClientGood, vars

\* The strengthening is an invariant of urma_hello.
LEMMA HelloHolds == Spec => []HelloInv
<1>1. Init => HelloInv
  BY InitHello
<1>2. HelloInv /\ [Next]_vars => HelloInv'
  BY HelloStep, HelloStutter
<1> QED
  BY <1>1, <1>2, PTL DEF Spec

-------------------------------------------------------------------------------
(* The theorems.                                                           *)

\* Every state of the two processes has the types of the code's, and a published
\* descriptor names resources that are there.
THEOREM TypeCorrect == Spec => []TypeOK
<1>1. HelloInv => TypeOK
  BY DEF HelloInv, Types, DescGood, TypeOK
<1> QED
  BY <1>1, HelloHolds, PTL

\* combined frees the memory only once the peer has said bye, has aborted or was
\* given up: a READ under way (client_run) finds it registered otherwise.
THEOREM ReadFindsMemory == Spec => []MemoryOutlivesRead
<1>1. ASSUME HelloInv, NEW n \in Nodes, Running(n, "reading")
      PROVE  \/ res[Peer(n)] = "live"
             \/ up[Peer(n)] = "killed" \/ end[Peer(n)] \in {"Stopped", "Timeout"}
  <2> DEFINE p == Peer(n)
  <2>1. p \in Nodes /\ Peer(p) = n
    BY Pair
  <2>2. ~setup.hook /\ desc[p] /\ up[p] # "off" /\ end[p] # "BindError"
    BY <1>1 DEF HelloInv, ClientGood, PastInfo, Running
  <2>3. ~done[p] /\ ~abort[p]
    BY <1>1, <2>1 DEF HelloInv, NoticesGood, Running
  <2>4. CASE up[p] = "running"
    BY <2>1, <2>2, <2>4, <1>1 DEF HelloInv, DescGood
  <2>5. CASE up[p] = "exited"
    BY <2>1, <2>2, <2>3, <2>5, <1>1 DEF HelloInv, EndsGood, Types
  <2> QED
    BY <2>1, <2>2, <2>4, <2>5, <1>1 DEF HelloInv, Types
<1>2. HelloInv => MemoryOutlivesRead
  BY <1>1 DEF MemoryOutlivesRead
<1> QED
  BY <1>2, HelloHolds, PTL

\* cli.and(srv) is honest: a process that exits with success has read the peer's
\* message and has been read by the peer.
THEOREM SuccessIsHonest == Spec => []HonestOk
<1>1. ASSUME HelloInv, NEW n \in Nodes, ExitOk(n)
      PROVE  got[n] /\ got[Peer(n)]
  <2>1. cli[n] = "done" /\ end[n] \in {"Bye", "Stopped"}
    BY <1>1 DEF ExitOk
  <2>2. got[n] /\ ~stop[n]
    BY <1>1, <2>1 DEF HelloInv, ClientGood, NoticesGood
  <2>3. done[n]
    BY <1>1, <2>1, <2>2 DEF HelloInv, EndsGood
  <2> QED
    BY <1>1, <2>2, <2>3 DEF HelloInv, NoticesGood
<1>2. HelloInv => HonestOk
  BY <1>1 DEF HonestOk
<1> QED
  BY <1>2, HelloHolds, PTL

-------------------------------------------------------------------------------
(* DeviceModes: what a bit field of liburma says of the set it stands for. *)

\* Three bits can say any set of three.
LEMMA FieldOfBits ==
  ASSUME NEW x \in BOOLEAN, NEW y \in BOOLEAN, NEW z \in BOOLEAN
  PROVE  \E w \in 0 .. 7 :
            /\ HasBit(w, 0) <=> x
            /\ HasBit(w, 1) <=> y
            /\ HasBit(w, 2) <=> z
<1> DEFINE w == (IF x THEN 1 ELSE 0) + (IF y THEN 2 ELSE 0) + (IF z THEN 4 ELSE 0)
<1>1. 2^0 = 1 /\ 2^1 = 2 /\ 2^2 = 4
  OBVIOUS
<1>2. w \in 0 .. 7
  OBVIOUS
<1>3. /\ HasBit(w, 0) <=> x
      /\ HasBit(w, 1) <=> y
      /\ HasBit(w, 2) <=> z
  BY <1>1 DEF HasBit
<1> HIDE DEF w
<1> QED
  BY <1>2, <1>3

LEMMA ModeWord ==
  ASSUME NEW S \in SUBSET Modes
  PROVE  \A m \in Modes : HasBit(Word(S, Modes, ModeBit), ModeBit(m)) <=> m \in S
<1>1. ModeBit("RM") = 0 /\ ModeBit("RC") = 1 /\ ModeBit("UM") = 2
  BY DEF ModeBit
<1>2. PICK w \in 0 .. 7 : /\ HasBit(w, 0) <=> "RM" \in S
                          /\ HasBit(w, 1) <=> "RC" \in S
                          /\ HasBit(w, 2) <=> "UM" \in S
  BY FieldOfBits
<1>3. \A m \in Modes : HasBit(w, ModeBit(m)) <=> m \in S
  BY <1>1, <1>2 DEF Modes
<1> QED
  BY <1>3 DEF Word

LEMMA TpWord ==
  ASSUME NEW S \in SUBSET Tps
  PROVE  TpTypes(Word(S, Tps, TpBit)) = S
<1>1. TpBit("RTP") = 0 /\ TpBit("CTP") = 1 /\ TpBit("UTP") = 2
  BY DEF TpBit
<1>2. PICK w \in 0 .. 7 : /\ HasBit(w, 0) <=> "RTP" \in S
                          /\ HasBit(w, 1) <=> "CTP" \in S
                          /\ HasBit(w, 2) <=> "UTP" \in S
  BY FieldOfBits
<1>3. \A tp \in Tps : HasBit(w, TpBit(tp)) <=> tp \in S
  BY <1>1, <1>2 DEF Tps
<1>4. \A tp \in Tps : HasBit(Word(S, Tps, TpBit), TpBit(tp)) <=> tp \in S
  BY <1>3 DEF Word
<1> QED
  BY <1>4 DEF TpTypes

\* The lowest slot that serves a tp type.
LEMMA LowestSlot ==
  ASSUME NEW cap, NEW n \in Nat, DOMAIN cap.priority_tp = 1 .. n, NEW tp,
         NEW i \in 1 .. n, tp \in cap.priority_tp[i]
  PROVE  LET slot == priority_for(cap, tp)
         IN /\ slot + 1 \in 1 .. n /\ tp \in cap.priority_tp[slot + 1]
            /\ \A k \in 1 .. slot : tp \notin cap.priority_tp[k]
<1> DEFINE Slots == {k \in 1 .. n : tp \in cap.priority_tp[k]}
           low == CHOOSE k \in Slots : \A l \in Slots : k <= l
<1>1. i \in Slots
  OBVIOUS
<1>2. \E k \in Slots : \A l \in Slots : k <= l
  <2> HIDE DEF Slots
  <2>0. Slots \subseteq Nat
    BY DEF Slots
  <2>1. PICK k \in Slots : \A l \in Slots : <<l, k>> \notin OpToRel(<, Nat)
    BY <2>0, <1>1, NatLessThanWellFounded, WFMin
  <2>2. \A l \in Slots : ~(l < k)
    BY <2>0, <2>1 DEF OpToRel
  <2> QED
    BY <2>0, <2>2
<1>3. low \in Slots /\ \A l \in Slots : low <= l
  BY <1>2
<1>4. priority_for(cap, tp) = low - 1
  BY <1>1 DEF priority_for
<1> HIDE DEF low
<1> QED
  BY <1>3, <1>4

\* from_raw reads what the device advertises.
LEMMA ReadsTheDevice ==
  ASSUME NEW adv \in Advertised
  PROVE  LET cap == from_raw(RawOf(adv))
         IN /\ \A m \in Modes : supports_mode(cap, m) <=> m \in adv.modes
            /\ cap.ctp_en = adv.ctp
            /\ \A m \in Modes : cap.tp_cap[m] = adv.tps[m]
            /\ cap.multi_path = adv.multi
            /\ DOMAIN cap.priority_tp = 1 .. 3
<1> DEFINE raw == RawOf(adv)
           cap == from_raw(raw)
<1>1. /\ adv.modes \in SUBSET Modes /\ adv.ctp \in BOOLEAN
      /\ adv.tps \in [Modes -> SUBSET Tps] /\ adv.multi \in SUBSET {"RM", "RC"}
  BY DEF Advertised
<1>2. /\ raw.trans_mode = Word(adv.modes, Modes, ModeBit)
      /\ raw.feature = 5 + (IF adv.ctp THEN 2^CtpEnBit ELSE 0) + 2^20
      /\ raw.tp_cap = [m \in Modes |-> Word(adv.tps[m], Tps, TpBit)]
      /\ raw.tp_feature = Word(adv.multi, Modes, ModeBit)
      /\ DOMAIN raw.priority_info = 1 .. 3
  BY DEF RawOf
<1> HIDE DEF raw
<1>3. /\ cap.trans_modes = raw.trans_mode
      /\ cap.ctp_en = HasBit(raw.feature, CtpEnBit)
      /\ cap.tp_cap = [m \in Modes |-> TpTypes(raw.tp_cap[m])]
      /\ cap.multi_path = MultiPathModes(raw.tp_feature)
      /\ DOMAIN cap.priority_tp = DOMAIN raw.priority_info
  BY DEF from_raw
<1> HIDE DEF cap
<1>4. \A m \in Modes : supports_mode(cap, m) <=> m \in adv.modes
  BY <1>1, <1>2, <1>3, ModeWord DEF supports_mode
<1>5. cap.ctp_en = adv.ctp
  <2>1. 2^18 = 262144 /\ 2^20 = 1048576
    OBVIOUS
  <2> QED
    BY <1>1, <1>2, <1>3, <2>1 DEF HasBit, CtpEnBit
<1>6. \A m \in Modes : cap.tp_cap[m] = adv.tps[m]
  <2> SUFFICES ASSUME NEW m \in Modes
               PROVE  cap.tp_cap[m] = adv.tps[m]
    OBVIOUS
  <2>1. cap.tp_cap[m] = TpTypes(Word(adv.tps[m], Tps, TpBit))
    BY <1>2, <1>3
  <2> QED
    BY <1>1, <2>1, TpWord
<1>7. cap.multi_path = adv.multi
  <2>1. \A m \in {"RM", "RC"} : HasBit(raw.tp_feature, ModeBit(m)) <=> m \in adv.multi
    BY <1>1, <1>2, ModeWord DEF Modes
  <2> QED
    BY <1>1, <1>3, <2>1 DEF MultiPathModes
<1> QED
  BY <1>2, <1>3, <1>4, <1>5, <1>6, <1>7 DEF cap, raw

LEMMA ChoicesFit == ModesAgree
<1> SUFFICES ASSUME NEW adv \in Advertised
             PROVE  LET cap == from_raw(RawOf(adv))
                    IN /\ supported_combos(cap) = Usable(adv)
                       /\ \A bonding \in BOOLEAN :
                            /\ check_mode_support(cap, bonding)
                                   = preflight(cap, "RM", "CTP", bonding, bonding).ok
                            /\ \A c \in Modes \X Tps, asked \in BOOLEAN :
                                  LET p == preflight(cap, c[1], c[2], asked, bonding)
                                  IN p.ok => /\ c \in Usable(adv)
                                             /\ p.multi_path => c[1] \in adv.multi
                       /\ \A tp \in Tps :
                            LET slot == resolve_priority(cap, NoSlot, tp)
                            IN (\E i \in DOMAIN cap.priority_tp : tp \in cap.priority_tp[i])
                                   => tp \in cap.priority_tp[slot + 1]
  BY DEF ModesAgree
<1> DEFINE cap == from_raw(RawOf(adv))
<1>1. /\ \A m \in Modes : supports_mode(cap, m) <=> m \in adv.modes
      /\ cap.ctp_en = adv.ctp
      /\ \A m \in Modes : cap.tp_cap[m] = adv.tps[m]
      /\ cap.multi_path = adv.multi
      /\ DOMAIN cap.priority_tp = 1 .. 3
  BY ReadsTheDevice
<1> HIDE DEF cap
<1>2. \A c \in Modes \X Tps : supports(cap, c[1], c[2]) <=> c \in Usable(adv)
  BY <1>1 DEF supports, Usable
<1>3. supported_combos(cap) = Usable(adv)
  BY <1>2 DEF supported_combos, Usable
<1>4. ASSUME NEW bonding \in BOOLEAN
      PROVE  check_mode_support(cap, bonding)
                 = preflight(cap, "RM", "CTP", bonding, bonding).ok
  BY DEF check_mode_support, preflight, supports, supports_multi_path
<1>5. ASSUME NEW bonding \in BOOLEAN, NEW c \in Modes \X Tps, NEW asked \in BOOLEAN,
             preflight(cap, c[1], c[2], asked, bonding).ok
      PROVE  /\ c \in Usable(adv)
             /\ preflight(cap, c[1], c[2], asked, bonding).multi_path => c[1] \in adv.multi
  <2>1. supports(cap, c[1], c[2]) /\ (asked => supports_multi_path(cap, c[1]))
    BY <1>5 DEF preflight
  <2>2. preflight(cap, c[1], c[2], asked, bonding).multi_path => supports_multi_path(cap, c[1])
    BY <2>1 DEF preflight
  <2> QED
    BY <1>1, <1>2, <2>1, <2>2 DEF supports_multi_path
<1>6. ASSUME NEW tp \in Tps, NEW i \in DOMAIN cap.priority_tp, tp \in cap.priority_tp[i]
      PROVE  tp \in cap.priority_tp[resolve_priority(cap, NoSlot, tp) + 1]
  <2>1. /\ priority_for(cap, tp) + 1 \in 1 .. 3
        /\ tp \in cap.priority_tp[priority_for(cap, tp) + 1]
    BY <1>1, <1>6, 3 \in Nat, LowestSlot
  <2>2. resolve_priority(cap, NoSlot, tp) = priority_for(cap, tp)
    BY <2>1 DEF resolve_priority, NoSlot
  <2> QED
    BY <2>1, <2>2
<1> QED
  BY <1>3, <1>4, <1>5, <1>6 DEF cap

\* supports, supported_combos, the preflights of the examples and the priority
\* slot agree with one another and with what the device advertises, for every
\* combination of modes, tp types, CTP gate and multi-path bits.
THEOREM ChoicesAreOffered == Spec => []ModeChoicesAgree
<1>1. ModeChoicesAgree
  BY ChoicesFit DEF ModeChoicesAgree
<1> QED
  BY <1>1, PTL
===============================================================================
