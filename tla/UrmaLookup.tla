------------------------------ MODULE UrmaLookup ------------------------------
(***************************************************************************)
(* examples/urma_lookup.rs: a master hands out a record directory over     *)
(* HTTP, the clients read one another's records directly, and two barriers *)
(* at the master separate writing from reading and reading from teardown.  *)
(*                                                                         *)
(* Each element of Clients is one start of the client program, so a client *)
(* that is started again is another element.  A request is its stage at    *)
(* the master; its route is where its client is (pc).  A client's first    *)
(* record and directory are set when the master computes them and used     *)
(* only after the answer has been received.                                *)
(***************************************************************************)
EXTENDS Integers, Sequences, FiniteSets, Functions

CONSTANTS Clients,  \* every start of the client program there may be
          Count,    \* -r: the records each of them holds
          Plans,    \* [expect, users, kills, crashes], see below
          None

(* A plan is what happens around the program: the --clients of the master, the *)
(* clients that may be started, and bounds on the clients that are killed and  *)
(* on the crashes of the master, each of which may be followed by a restart.   *)

ASSUME CountAssumption == Count \in [Clients -> Nat \ {0}]
ASSUME ClientsAssumption == IsFiniteSet(Clients)
ASSUME PlansAssumption ==
    \A p \in Plans :
        /\ DOMAIN p = {"expect", "users", "kills", "crashes"}
        /\ p.expect \in Nat \ {0} /\ p.users \subseteq Clients
        /\ p.kills \in Nat /\ p.crashes \in Nat
ASSUME NoneAssumption == None \notin Nat

VARIABLES plan,      \* the plan chosen at the start
          master,    \* the master process
          starts,    \* how often the master was started
          kills,     \* clients killed so far
          clients,   \* MasterState.clients, in the order of the pushes
          next_rid,  \* MasterState.next_rid
          arrived,   \* arrivals at each barrier since it last released
          pc,        \* where each client is; a dead client stays where it died
          dead,      \* clients that ended with an error or were killed
          first,     \* the start of the range assigned to each client
          req,       \* the stage of each client's request
          dir,       \* the directory the master answered each client
          at         \* the next record id of each client's walk

clientVars == <<pc, dead, at>>
masterVars == <<master, starts, clients, next_rid, arrived, first, dir>>
vars == <<plan, master, starts, kills, clients, next_rid, arrived,
          pc, dead, first, req, dir, at>>

Barriers == {"readying", "finishing"}
Places == Barriers \cup
          {"start", "registering", "writing", "importing", "reading", "exit"}
Stages == {"none", "counted", "waiting", "released", "answered", "broken"}

Alive(c) == c \notin dead

\* The memory other clients read: it exists from before the registration until
\* the client returns from run_client, by an error or not.
Mem(c) == CASE c \in dead \/ pc[c] \in {"start", "exit"} -> "gone"
            [] Alive(c) /\ pc[c] \in {"registering", "writing"} -> "unwritten"
            [] OTHER -> "written"

-------------------------------------------------------------------------------
(* The directory.                                                          *)

\* A slip in the range test: ids that start at 1.
RecordsFromOne(c) == first[c] + 1 .. first[c] + Count[c]
Records(c) == first[c] .. first[c] + Count[c] - 1

Total(owners) == SumFunction([i \in DOMAIN owners |-> Count[owners[i]]])

\* The entry a client takes for its own.
IsMine(c, o) == first[o] = first[c] /\ Count[o] = Count[c]

Owners(c) == {dir[c][i] : i \in DOMAIN dir[c]}

\* The entries whose range holds a record; the code takes the first.
HoldersOf(c, rid) == {i \in DOMAIN dir[c] : rid \in Records(dir[c][i])}
OwnerOf(c, rid) ==
    dir[c][CHOOSE i \in HoldersOf(c, rid) : \A j \in HoldersOf(c, rid) : i <= j]

-------------------------------------------------------------------------------
Init ==
    /\ plan \in Plans
    /\ master = "down" /\ starts = 0 /\ kills = 0
    /\ clients = <<>> /\ next_rid = 0 /\ arrived = [b \in Barriers |-> 0]
    /\ pc = [c \in Clients |-> "start"] /\ dead = {}
    /\ first = [c \in Clients |-> None] /\ req = [c \in Clients |-> "none"]
    /\ dir = [c \in Clients |-> <<>>] /\ at = [c \in Clients |-> 0]

\* The `?' of a failing step: run_client returns, the transport is dropped.
Fail(c) == dead' = dead \cup {c} /\ UNCHANGED <<pc, at>>

Goto(c, p) == pc' = [pc EXCEPT ![c] = p] /\ UNCHANGED dead

Start(c) ==
    /\ pc[c] = "start" /\ c \in plan.users
    /\ Goto(c, "registering")
    /\ UNCHANGED <<plan, kills, masterVars, req, at>>

\* A request reaches its handler only at a master that serves: send_retry tries
\* a refused connection again, which changes nothing.
Requests(c) == Alive(c) /\ req[c] = "none" /\ master = "serving"

\* What fetch_add leaves behind.  Slips in it: ids counted by client, and a gap
\* after each range.
NextRidByClient(c) == next_rid + 1
NextRidWithGap(c) == next_rid + Count[c] + 1
NextRid(c) == next_rid + Count[c]

\* m_register runs without an await, but two of them may run at once: one step
\* for fetch_add, one for the push.
RegisterCount(c) ==
    /\ Requests(c) /\ pc[c] = "registering"
    /\ first' = [first EXCEPT ![c] = next_rid]
    /\ next_rid' = NextRid(c)
    /\ req' = [req EXCEPT ![c] = "counted"]
    /\ UNCHANGED <<plan, kills, master, starts, clients, arrived, dir, clientVars>>

RegisterPush(c) ==
    /\ req[c] = "counted"
    /\ clients' = Append(clients, c)
    /\ req' = [req EXCEPT ![c] = "answered"]
    /\ UNCHANGED <<plan, kills, master, starts, next_rid, arrived, first, dir,
                   clientVars>>

WaitingAt(b) == {d \in Clients : pc[d] = b /\ req[d] = "waiting"}

\* Slips in the test: a party more, and one less.
IsOneTooMany(b) == arrived[b] = plan.expect
IsLastButOne(b) == arrived[b] + 2 >= plan.expect
IsLastArrival(b) == arrived[b] + 1 = plan.expect

\* What the leader does to the master.  A slip in it: no shutdown.
NoShutdown(b) == master
LeaderOrders(b) == IF b = "finishing" THEN "stopping" ELSE master

\* Barrier::wait counts the arrival; an arrival whose client is gone stays
\* counted.  The last one releases all and goes on without an await: at the
\* done barrier it is the leader that sends the shutdown.
Arrive(c) ==
    LET b == pc[c] IN
    /\ Requests(c) /\ b \in Barriers
    /\ IF IsLastArrival(b)
       THEN /\ arrived' = [arrived EXCEPT ![b] = 0]
            /\ req' = [d \in Clients |->
                          IF d \in WaitingAt(b) \cup {c} THEN "released" ELSE req[d]]
            /\ master' = LeaderOrders(b)
       ELSE /\ arrived' = [arrived EXCEPT ![b] = @ + 1]
            /\ req' = [req EXCEPT ![c] = "waiting"]
            /\ UNCHANGED master
    /\ UNCHANGED <<plan, kills, starts, clients, next_rid, first, dir, clientVars>>

\* The rest of the handler: m_ready clones the directory only now.
Reply(c) ==
    /\ req[c] = "released"
    /\ req' = [req EXCEPT ![c] = "answered"]
    /\ dir' = IF pc[c] = "readying" THEN [dir EXCEPT ![c] = clients] ELSE dir
    /\ UNCHANGED <<plan, kills, master, starts, clients, next_rid, arrived, first,
                   clientVars>>

NextPlace(p) == CASE p = "registering" -> "writing"
                  [] p = "readying" -> "importing"
                  [] p = "finishing" -> "exit"

Receive(c) ==
    /\ Alive(c) /\ req[c] = "answered"
    /\ req' = [req EXCEPT ![c] = "none"]
    /\ Goto(c, NextPlace(pc[c]))
    /\ UNCHANGED <<plan, kills, masterVars, at>>

\* The connection broke with the request under way: not a connect error, so
\* send_retry does not repeat it.
LoseReply(c) ==
    /\ Alive(c) /\ req[c] = "broken"
    /\ Fail(c)
    /\ UNCHANGED <<plan, kills, masterVars, req>>

WriteRecords(c) ==
    /\ Alive(c) /\ pc[c] = "writing"
    /\ Goto(c, "readying")
    /\ UNCHANGED <<plan, kills, masterVars, req, at>>

\* Importing an owner that is gone may fail; without the exchange of the blobs
\* it need not.
ImportMayFail(c) == \E o \in Owners(c) : ~IsMine(c, o) /\ Mem(o) = "gone"

ImportOwners(c) ==
    /\ Alive(c) /\ pc[c] = "importing"
    /\ \/ Goto(c, "reading") /\ UNCHANGED at
       \/ ImportMayFail(c) /\ Fail(c)
    /\ UNCHANGED <<plan, kills, masterVars, req>>

\* The records the walk still has to look at.  It skips the client's own, but
\* only after it has looked their owner up.
ToFetch(c) ==
    {rid \in at[c] .. Total(dir[c]) - 1 : rid \notin Records(c) \/ HoldersOf(c, rid) = {}}
IsNext(c, rid) == rid \in ToFetch(c) /\ \A r \in ToFetch(c) : rid <= r

\* A READ returns what lies in the owner's memory, written or not.
ReadMaySucceed(c, rid) == HoldersOf(c, rid) # {} /\ Mem(OwnerOf(c, rid)) # "gone"

\* Without an owner, or with one that is gone; over HTTP an owner that does not
\* know its range yet answers 404.
ReadMayFail(c, rid) == HoldersOf(c, rid) # {} => Mem(OwnerOf(c, rid)) # "written"

\* One turn of the walk.
ReadRecord(c) ==
    /\ Alive(c) /\ pc[c] = "reading"
    /\ \E rid \in ToFetch(c) :
        /\ IsNext(c, rid)
        /\ \/ /\ ReadMaySucceed(c, rid)
              /\ at' = [at EXCEPT ![c] = rid + 1] /\ UNCHANGED <<pc, dead>>
           \/ ReadMayFail(c, rid) /\ Fail(c)
    /\ UNCHANGED <<plan, kills, masterVars, req>>

\* A slip in it: the client leaves without the done barrier.
FinishAndExit(c) ==
    /\ Alive(c) /\ pc[c] = "reading" /\ ToFetch(c) = {}
    /\ Goto(c, "exit")
    /\ UNCHANGED <<plan, kills, masterVars, req, at>>

FinishWalk(c) ==
    /\ Alive(c) /\ pc[c] = "reading" /\ ToFetch(c) = {}
    /\ Goto(c, "finishing")
    /\ UNCHANGED <<plan, kills, masterVars, req, at>>

\* A client that is killed, or fails for a reason outside the protocol.
Die(c) ==
    /\ Alive(c) /\ pc[c] \notin {"start", "exit"}
    /\ kills < plan.kills
    /\ kills' = kills + 1
    /\ Fail(c)
    /\ UNCHANGED <<plan, masterVars, req>>

-------------------------------------------------------------------------------
(* The master process.                                                     *)

MasterStart ==
    /\ master = "down" /\ starts <= plan.crashes
    /\ master' = "serving" /\ starts' = starts + 1
    /\ UNCHANGED <<plan, kills, clients, next_rid, arrived, first, dir, req,
                   clientVars>>

\* The state is in memory only; every connection breaks.
MasterCrash ==
    /\ master \in {"serving", "stopping"} /\ starts <= plan.crashes
    /\ master' = "down"
    /\ clients' = <<>> /\ next_rid' = 0 /\ arrived' = [b \in Barriers |-> 0]
    /\ req' = [c \in Clients |-> IF req[c] = "none" THEN "none" ELSE "broken"]
    /\ UNCHANGED <<plan, kills, starts, first, dir, clientVars>>

\* with_graceful_shutdown: no new connection, and the end once every request
\* under way has been answered.
MasterExit ==
    /\ master = "stopping"
    /\ \A c \in Clients : Alive(c) => req[c] \in {"none", "broken"}
    /\ master' = "exited"
    /\ UNCHANGED <<plan, kills, starts, clients, next_rid, arrived, first, dir, req,
                   clientVars>>

-------------------------------------------------------------------------------
ClientStep(c) ==
    \/ RegisterCount(c) \/ RegisterPush(c) \/ Arrive(c) \/ Reply(c)
    \/ Receive(c) \/ LoseReply(c) \/ WriteRecords(c) \/ ImportOwners(c)
    \/ ReadRecord(c) \/ FinishWalk(c)

Next ==
    \/ \E c \in Clients : Start(c) \/ ClientStep(c) \/ Die(c)
    \/ MasterStart \/ MasterCrash \/ MasterExit

Spec == Init /\ [][Next]_vars

\* Every request is served and every client goes on; nobody is obliged to
\* start, and nothing is obliged to fail.
Fairness == (\A c \in Clients : WF_vars(ClientStep(c))) /\ WF_vars(MasterExit)
FairSpec == Spec /\ Fairness

-------------------------------------------------------------------------------
(* Properties.                                                             *)

\* Every state has the shape the code's types give it, and a barrier never
\* holds as many arrivals as release it.
TypeOK ==
    /\ plan \in Plans
    /\ master \in {"down", "serving", "stopping", "exited"}
    /\ starts \in 0 .. plan.crashes + 1 /\ kills \in 0 .. plan.kills
    /\ clients \in Seq(Clients) /\ next_rid \in Nat
    /\ arrived \in [Barriers -> Nat] /\ \A b \in Barriers : arrived[b] < plan.expect
    /\ pc \in [Clients -> Places] /\ dead \subseteq Clients
    /\ first \in [Clients -> Nat \cup {None}] /\ req \in [Clients -> Stages]
    /\ dir \in [Clients -> Seq(Clients)] /\ at \in [Clients -> Nat]

\* The run --clients describes: the master once, and no more clients than it
\* was told to expect.
Planned ==
    /\ starts <= 1
    /\ Cardinality({c \in Clients : pc[c] # "start"}) <= plan.expect

\* m_register hands out ranges with one fetch_add: within a directory, however
\* many clients registered at once, no record has two owners.
RangesDisjoint ==
    \A c \in Clients : \A i, j \in DOMAIN dir[c] :
        i # j => Records(dir[c][i]) \cap Records(dir[c][j]) = {}

\* The walk of run_client goes by the sum of the counts: the directory of a
\* planned run has every client once and an owner for every record up to it,
\* although a range is assigned in one step and entered in another.
DirectoryCovers ==
    Planned => \A c \in Clients :
        pc[c] \in {"importing", "reading", "finishing"} =>
            /\ Owners(c) = {d \in Clients : pc[d] # "start"}
            /\ Len(dir[c]) = plan.expect
            /\ \A rid \in 0 .. Total(dir[c]) - 1 : Cardinality(HoldersOf(c, rid)) = 1

ReadsNext(c, o) ==
    /\ Alive(c) /\ pc[c] = "reading"
    /\ \E rid \in ToFetch(c) :
        IsNext(c, rid) /\ HoldersOf(c, rid) # {} /\ o = OwnerOf(c, rid)

\* The ready barrier (m_ready: "avoids reading half-written data"): in a
\* planned run no client reads a record its owner has not written.
ReadsWritten ==
    Planned => \A c, o \in Clients : ReadsNext(c, o) => Mem(o) # "unwritten"

\* The done barrier (m_done: only then "is it safe to destroy local
\* resources"): in a planned run the memory of an owner that did not fail is
\* there as long as somebody still has to read from it.
MemoryOutlivesReaders ==
    Planned => \A c, o \in Clients :
        /\ Alive(c) /\ pc[c] \in {"importing", "reading"}
        /\ o \in Owners(c) /\ Alive(o)
        => Mem(o) = "written"

\* Nothing failed so far but what the protocol made fail.
Calm == Planned /\ kills = 0 /\ (starts = 1 => master # "down")

\* In a planned run a client ends with an error only after a fault: no record
\* is without an owner, no read and no request fails.
FailsOnlyByFault == Calm => dead = {}

Started == {c \in Clients : pc[c] # "start"}

\* Once the expected number of clients and the master have been started, and
\* nothing fails, every client is released and exits, and so does the master.
HealthyEnds ==
    <>[](Calm /\ starts = 1 /\ Cardinality(Started) = plan.expect) =>
        <>(master = "exited" /\ \A c \in Started : pc[c] = "exit")

\* The rounds the barriers implement, whatever fails, whoever is surplus and
\* however often the master is started.
Level(p) == CASE p = "start" -> 0
              [] p \in {"registering", "writing"} -> 1
              [] p = "readying" -> 2
              [] p \in {"importing", "reading"} -> 3
              [] p = "finishing" -> 4
              [] p = "exit" -> 5

Rounds == INSTANCE LookupRounds WITH expect <- plan.expect,
                                    level <- [c \in Clients |-> Level(pc[c])]

\* urma_lookup implements LookupRounds: no read before `expect' clients have
\* written, no teardown before `expect' clients have finished.
RoundsSpec == Rounds!Spec
===============================================================================
