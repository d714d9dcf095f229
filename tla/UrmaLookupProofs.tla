--------------------------- MODULE UrmaLookupProofs ---------------------------
(***************************************************************************)
(* For any number of clients, any plan and any number of crashes and       *)
(* restarts: urma_lookup implements the rounds of LookupRounds, no         *)
(* directory gives a record two owners, and in a planned run the           *)
(* directory is complete, READs find written memory and nobody fails       *)
(* without a fault.                                                        *)
(*                                                                         *)
(* None is inductive.  The rounds need that a barrier counts exactly the   *)
(* requests that wait at it (BarrierCounts) and that whoever has been      *)
(* released was released with `expect' clients at that place (Passed).     *)
(* The ranges need that a range is below next_rid and apart from all       *)
(* others from the fetch_add on, although its owner is entered later       *)
(* (Entered, Pending).  The directory needs that a master that has not     *)
(* been started again leaves no id out (Remembers), and that the sum of    *)
(* the counts is the number of ids (TotalIsCovered).                       *)
(***************************************************************************)
EXTENDS UrmaLookup, FiniteSetTheorems, FunctionTheorems, TLAPS

-------------------------------------------------------------------------------
(* What the sum of the community modules is.  SumFunction takes its        *)
(* indices away one at a time, in an order its CHOOSE decides; whatever    *)
(* follows the same recursion is that sum: the two agree on every set of   *)
(* indices, since a smallest set on which they did not would have a        *)
(* smaller one.                                                            *)

\* The index a fold takes away first.
SomeOf(s) == CHOOSE x \in s : TRUE

\* The recursion of SumFunction(f), for g the sums over the sets of indices.
SumStep(f, g, s) == IF s = {} THEN 0 ELSE f[SomeOf(s)] + g[s \ {SomeOf(s)}]

LEMMA SumUnfolds ==
    ASSUME NEW f
    PROVE  SumFunction(f) =
              (CHOOSE g : g = [s \in SUBSET (DOMAIN f) |-> SumStep(f, g, s)])[DOMAIN f]
  BY DEF SumFunction, SumFunctionOnSet, FoldFunctionOnSet, MapThenFoldSet, SumStep, SomeOf

LEMMA SumByParts ==
    ASSUME NEW f, IsFiniteSet(DOMAIN f), NEW g,
           g = [s \in SUBSET (DOMAIN f) |-> SumStep(f, g, s)]
    PROVE  SumFunction(f) = g[DOMAIN f]
<1> DEFINE D == DOMAIN f
           h == CHOOSE k : k = [s \in SUBSET D |-> SumStep(f, k, s)]
<1>1. h = [s \in SUBSET D |-> SumStep(f, h, s)]
  OBVIOUS
<1>2. SumFunction(f) = h[D]
  BY SumUnfolds
<1> HIDE DEF h
<1> DEFINE Bad == {s \in SUBSET D : h[s] # g[s]}
<1>3. Bad = {}
  <2> SUFFICES ASSUME Bad # {} PROVE FALSE
    OBVIOUS
  <2>1. Bad \subseteq FiniteSubsetsOf(D)
    BY FS_FiniteSubsetsOfFinite
  <2>2. PICK s \in Bad : \A t \in Bad : <<t, s>> \notin StrictSubsetOrdering(D)
    <3> HIDE DEF Bad
    <3> QED
      BY <2>1, FS_StrictSubsetOrderingWellFounded, WFMin
  <2>3. s # {} /\ SomeOf(s) \in s
    <3>1. s = {} => h[s] = 0 /\ g[s] = 0
      BY <1>1 DEF SumStep
    <3> QED
      BY <3>1 DEF SomeOf
  <2>4. s \ {SomeOf(s)} \notin Bad
    <3> DEFINE t == s \ {SomeOf(s)}
    <3>1. t \subseteq s /\ t # s /\ s \in SUBSET D /\ t \in SUBSET D
      BY <2>3
    <3> HIDE DEF t
    <3>2. <<t, s>> \in StrictSubsetOrdering(D)
      BY <3>1 DEF StrictSubsetOrdering
    <3>3. t \notin Bad
      BY <2>2, <3>2
    <3> QED
      BY <3>3 DEF t
  <2>5. h[s] = f[SomeOf(s)] + h[s \ {SomeOf(s)}] /\ g[s] = f[SomeOf(s)] + g[s \ {SomeOf(s)}]
    BY <1>1, <2>3 DEF SumStep
  <2> QED
    BY <2>4, <2>5
<1> QED
  BY <1>2, <1>3

-------------------------------------------------------------------------------
(* The strengthening.                                                      *)

\* A request is at the place of its client.
RequestsGood ==
    \A c \in Clients :
        /\ req[c] = "counted" => pc[c] = "registering"
        /\ req[c] \in {"waiting", "released"} => pc[c] \in Barriers
        /\ req[c] # "none" => pc[c] \in {"registering"} \cup Barriers

BarrierCounts == \A b \in Barriers : arrived[b] = Cardinality(WaitingAt(b))

Behind(b) == {d \in Clients : Level(pc[d]) >= Level(b)}

\* c has been released from barrier b, lately or long ago.
Released(c, b) ==
    \/ pc[c] = b /\ req[c] \in {"released", "answered"}
    \/ Level(pc[c]) > Level(b)

Passed ==
    \A b \in Barriers : \A c \in Clients :
        Released(c, b) => Cardinality(Behind(b)) >= plan.expect

\* The barriers.
RoundsInv == TypeOK /\ RequestsGood /\ BarrierCounts /\ Passed

Apart(a, b) ==
    \/ first[a] + Count[a] <= first[b]
    \/ first[b] + Count[b] <= first[a]

\* c has been given a range and will not be given another.
Entered(c) ==
    /\ first[c] \in Nat
    /\ req[c] # "counted"
    /\ ~ (pc[c] \in {"start", "registering"} /\ req[c] = "none")

Disjoint(owners) ==
    /\ \A i \in DOMAIN owners : Entered(owners[i])
    /\ \A i, j \in DOMAIN owners : i # j => Apart(owners[i], owners[j])

\* Between its fetch_add and its push.
Pending(c) ==
    /\ first[c] \in Nat /\ first[c] + Count[c] <= next_rid
    /\ \A i \in DOMAIN clients : Apart(c, clients[i])
    /\ \A d \in Clients : req[d] = "counted" /\ d # c => Apart(c, d)

\* The ranges.
RangesInv ==
    /\ Disjoint(clients)
    /\ \A i \in DOMAIN clients : first[clients[i]] + Count[clients[i]] <= next_rid
    /\ \A c \in Clients : req[c] = "counted" => Pending(c)
    /\ \A c \in Clients : Disjoint(dir[c])

-------------------------------------------------------------------------------
(* The barriers.                                                           *)

\* Every stage of a request has its place, and every value its type.
LEMMA TypeStep == ASSUME TypeOK, RequestsGood, Next PROVE TypeOK'
<1> USE PlansAssumption, CountAssumption DEF TypeOK, masterVars, clientVars
<1>1. ASSUME NEW c \in Clients, Start(c) PROVE TypeOK'
  BY <1>1 DEF Start, Goto, Places
<1>2. ASSUME NEW c \in Clients, RegisterCount(c) PROVE TypeOK'
  <2>1. next_rid \in Nat /\ Count[c] \in Nat
    OBVIOUS
  <2>2. next_rid' \in Nat
    BY <1>2, <2>1 DEF RegisterCount, NextRid
  <2>3. first' \in [Clients -> Nat \cup {None}] /\ req' \in [Clients -> Stages]
    BY <1>2, <2>1 DEF RegisterCount, Stages
  <2> QED
    BY <1>2, <2>2, <2>3 DEF RegisterCount
<1>3. ASSUME NEW c \in Clients, RegisterPush(c) PROVE TypeOK'
  BY <1>3 DEF RegisterPush, Stages
<1>4. ASSUME NEW c \in Clients, Arrive(c) PROVE TypeOK'
  <2> DEFINE b == pc[c]
  <2>1. b \in Barriers /\ plan.expect \in Nat \ {0}
    BY <1>4 DEF Arrive
  <2>a. /\ arrived \in [Barriers -> Nat]
        /\ \A x \in Barriers : arrived[x] \in Nat /\ arrived[x] < plan.expect
    OBVIOUS
  <2>b. \/ /\ arrived[b] + 1 = plan.expect
           /\ arrived' = [arrived EXCEPT ![b] = 0]
        \/ /\ arrived[b] + 1 # plan.expect
           /\ arrived' = [arrived EXCEPT ![b] = @ + 1]
    BY <1>4 DEF Arrive, IsLastArrival
  <2> HIDE DEF b, TypeOK
  <2>2. arrived' \in [Barriers -> Nat] /\ \A x \in Barriers : arrived'[x] < plan.expect
    BY <2>1, <2>a, <2>b
  <2> USE DEF b, TypeOK
  <2>3. req' \in [Clients -> Stages] /\ master' \in {"down", "serving", "stopping", "exited"}
    BY <1>4 DEF Arrive, Stages, LeaderOrders
  <2> QED
    BY <1>4, <2>2, <2>3 DEF Arrive
<1>5. ASSUME NEW c \in Clients, Reply(c) PROVE TypeOK'
  BY <1>5 DEF Reply, Stages
<1>6. ASSUME NEW c \in Clients, Receive(c) PROVE TypeOK'
  <2>1. NextPlace(pc[c]) \in Places
    BY <1>6 DEF Receive, RequestsGood, NextPlace, Places, Barriers
  <2> QED
    BY <1>6, <2>1 DEF Receive, Goto, Stages
<1>7. ASSUME NEW c \in Clients, LoseReply(c) \/ WriteRecords(c) \/ FinishWalk(c) PROVE TypeOK'
  BY <1>7 DEF LoseReply, WriteRecords, FinishWalk, Fail, Goto, Places, Barriers
<1>8. ASSUME NEW c \in Clients, ImportOwners(c) PROVE TypeOK'
  BY <1>8 DEF ImportOwners, Fail, Goto, Places
<1>9. ASSUME NEW c \in Clients, ReadRecord(c) PROVE TypeOK'
  <2>1. PICK rid \in ToFetch(c) :
             \/ at' = [at EXCEPT ![c] = rid + 1] /\ UNCHANGED <<pc, dead>>
             \/ Fail(c)
    BY <1>9 DEF ReadRecord
  <2>2. rid + 1 \in Nat
    BY DEF ToFetch
  <2>3. at' \in [Clients -> Nat]
    BY <1>9, <2>1, <2>2 DEF ReadRecord, Fail
  <2>4. pc' = pc /\ dead' \subseteq Clients
    BY <2>1 DEF Fail
  <2> QED
    BY <1>9, <2>3, <2>4 DEF ReadRecord
<1>10. ASSUME NEW c \in Clients, Die(c) PROVE TypeOK'
  BY <1>10 DEF Die, Fail
<1>11. CASE MasterStart
  BY <1>11 DEF MasterStart
<1>12. CASE MasterCrash
  BY <1>12 DEF MasterCrash, Stages
<1>13. CASE MasterExit
  BY <1>13 DEF MasterExit
<1> QED
  BY <1>1, <1>2, <1>3, <1>4, <1>5, <1>6, <1>7, <1>8, <1>9, <1>10, <1>11, <1>12, <1>13
     DEF Next, ClientStep

\* How far a step takes the clients: nowhere, or one of them one place on.
LEMMA PlacesStep ==
    ASSUME TypeOK, RequestsGood, Next
    PROVE  \/ pc' = pc
           \/ \E c \in Clients :
                 \/ /\ pc[c] \in {"start", "writing", "importing", "reading"} /\ req' = req
                    /\ pc' = [pc EXCEPT ![c] =
                                 CASE pc[c] = "start" -> "registering"
                                   [] pc[c] = "writing" -> "readying"
                                   [] pc[c] = "importing" -> "reading"
                                   [] pc[c] = "reading" -> "finishing"]
                 \/ /\ req[c] = "answered" /\ req' = [req EXCEPT ![c] = "none"]
                    /\ pc' = [pc EXCEPT ![c] = NextPlace(pc[c])]
<1> USE DEF masterVars, clientVars, Goto, Fail
<1>1. ASSUME NEW c \in Clients,
             \/ Start(c) \/ WriteRecords(c) \/ ImportOwners(c) \/ FinishWalk(c)
      PROVE  \/ pc' = pc
             \/ /\ pc[c] \in {"start", "writing", "importing", "reading"} /\ req' = req
                /\ pc' = [pc EXCEPT ![c] =
                             CASE pc[c] = "start" -> "registering"
                               [] pc[c] = "writing" -> "readying"
                               [] pc[c] = "importing" -> "reading"
                               [] pc[c] = "reading" -> "finishing"]
  BY <1>1 DEF Start, WriteRecords, ImportOwners, FinishWalk
<1>2. ASSUME NEW c \in Clients, Receive(c)
      PROVE  /\ req[c] = "answered" /\ req' = [req EXCEPT ![c] = "none"]
             /\ pc' = [pc EXCEPT ![c] = NextPlace(pc[c])]
  BY <1>2 DEF Receive
<1>3. ASSUME NEW c \in Clients,
             \/ RegisterCount(c) \/ RegisterPush(c) \/ Arrive(c) \/ Reply(c)
             \/ LoseReply(c) \/ ReadRecord(c) \/ Die(c)
      PROVE  pc' = pc
  BY <1>3 DEF RegisterCount, RegisterPush, Arrive, Reply, LoseReply, ReadRecord, Die
<1>4. ASSUME MasterStart \/ MasterCrash \/ MasterExit PROVE pc' = pc
  BY <1>4 DEF MasterStart, MasterCrash, MasterExit
<1> QED
  BY <1>1, <1>2, <1>3, <1>4 DEF Next, ClientStep

LEMMA RequestsStep == ASSUME TypeOK, RequestsGood, Next PROVE RequestsGood'
<1>1. CASE pc' # pc
  <2> USE DEF RequestsGood, TypeOK, Barriers
  <2>1. PICK c \in Clients :
             \/ pc[c] \in {"start", "writing", "importing", "reading"} /\ req' = req
                /\ \A d \in Clients : d # c => pc'[d] = pc[d]
             \/ req' = [req EXCEPT ![c] = "none"]
                /\ \A d \in Clients : d # c => pc'[d] = pc[d]
    BY <1>1, PlacesStep
  <2> QED
    BY <2>1
<1>2. CASE pc' = pc
  <2> USE DEF RequestsGood, TypeOK, masterVars, clientVars
  <2>1. ASSUME NEW c \in Clients, RegisterCount(c) PROVE RequestsGood'
    BY <1>2, <2>1 DEF RegisterCount
  <2>2. ASSUME NEW c \in Clients, RegisterPush(c) \/ Reply(c) PROVE RequestsGood'
    BY <1>2, <2>2 DEF RegisterPush, Reply
  <2>3. ASSUME NEW c \in Clients, Arrive(c) PROVE RequestsGood'
    BY <1>2, <2>3 DEF Arrive, WaitingAt
  <2>4. ASSUME NEW c \in Clients, Receive(c) PROVE RequestsGood'
    BY <1>2, <2>4 DEF Receive
  <2>5. ASSUME NEW c \in Clients,
               \/ Start(c) \/ LoseReply(c) \/ WriteRecords(c) \/ ImportOwners(c)
               \/ ReadRecord(c) \/ FinishWalk(c) \/ Die(c)
        PROVE  req' = req
    BY <2>5 DEF Start, LoseReply, WriteRecords, ImportOwners, ReadRecord, FinishWalk, Die
  <2>6. ASSUME MasterStart \/ MasterExit PROVE req' = req
    BY <2>6 DEF MasterStart, MasterExit
  <2>7. CASE MasterCrash
    BY <1>2, <2>7 DEF MasterCrash
  <2> QED
    BY <1>2, <2>1, <2>2, <2>3, <2>4, <2>5, <2>6, <2>7 DEF Next, ClientStep
<1> QED
  BY <1>1, <1>2

LEMMA WaitingFinite == \A b : IsFiniteSet(WaitingAt(b))
  BY FS_Subset, ClientsAssumption DEF WaitingAt

LEMMA BarrierStep ==
    ASSUME TypeOK, RequestsGood, BarrierCounts, Next PROVE BarrierCounts'
<1>1. ASSUME NEW c \in Clients, Arrive(c) PROVE BarrierCounts'
  <2> SUFFICES ASSUME NEW b \in Barriers PROVE arrived'[b] = Cardinality(WaitingAt(b)')
    BY DEF BarrierCounts
  <2>1. /\ pc' = pc /\ req[c] = "none" /\ pc[c] \in Barriers /\ arrived[b] \in Nat
        /\ arrived[b] = Cardinality(WaitingAt(b))
    BY <1>1 DEF Arrive, clientVars, Requests, TypeOK, BarrierCounts
  <2>2. CASE b # pc[c]
    <3>1. arrived'[b] = arrived[b] /\ WaitingAt(b)' = WaitingAt(b)
      BY <1>1, <2>1, <2>2 DEF Arrive, TypeOK, WaitingAt
    <3> QED
      BY <3>1, <2>1
  <2>3. CASE b = pc[c] /\ IsLastArrival(b)
    <3>1. arrived'[b] = 0 /\ WaitingAt(b)' = {}
      BY <1>1, <2>1, <2>3 DEF Arrive, TypeOK, WaitingAt
    <3> QED
      BY <3>1, FS_EmptySet
  <2>4. CASE b = pc[c] /\ ~IsLastArrival(b)
    <3>1. arrived'[b] = arrived[b] + 1 /\ WaitingAt(b)' = WaitingAt(b) \cup {c}
      BY <1>1, <2>1, <2>4 DEF Arrive, TypeOK, WaitingAt
    <3>2. c \notin WaitingAt(b)
      BY <2>1 DEF WaitingAt
    <3>3. Cardinality(WaitingAt(b) \cup {c}) = Cardinality(WaitingAt(b)) + 1
      <4> HIDE DEF WaitingAt
      <4> QED
        BY <3>2, WaitingFinite, FS_AddElement
    <3> QED
      BY <3>1, <3>3, <2>1, <2>4
  <2> QED
    BY <2>2, <2>3, <2>4
<1>2. CASE MasterCrash
  <2>1. \A b \in Barriers : arrived'[b] = 0 /\ WaitingAt(b)' = {}
    BY <1>2 DEF MasterCrash, WaitingAt
  <2> QED
    BY <2>1, FS_EmptySet DEF BarrierCounts
<1>3. ASSUME arrived' = arrived, \A b \in Barriers : WaitingAt(b)' = WaitingAt(b)
      PROVE  BarrierCounts'
  BY <1>3 DEF BarrierCounts
<1>4. ASSUME ~MasterCrash, ~ \E c \in Clients : Arrive(c)
      PROVE  /\ arrived' = arrived
             /\ \A d \in Clients : req'[d] = "waiting" <=> req[d] = "waiting"
  <2> USE DEF TypeOK, masterVars
  <2>1. ASSUME NEW c \in Clients, RegisterCount(c) \/ RegisterPush(c) \/ Reply(c) \/ Receive(c)
        PROVE  arrived' = arrived /\ \A d \in Clients : req'[d] = "waiting" <=> req[d] = "waiting"
    BY <2>1 DEF RegisterCount, RegisterPush, Reply, Receive, Requests
  <2>2. ASSUME NEW c \in Clients,
               \/ Start(c) \/ LoseReply(c) \/ WriteRecords(c) \/ ImportOwners(c)
               \/ ReadRecord(c) \/ FinishWalk(c) \/ Die(c)
        PROVE  arrived' = arrived /\ req' = req
    BY <2>2 DEF Start, LoseReply, WriteRecords, ImportOwners, ReadRecord, FinishWalk, Die
  <2>3. ASSUME MasterStart \/ MasterExit PROVE arrived' = arrived /\ req' = req
    BY <2>3 DEF MasterStart, MasterExit
  <2> QED
    BY <1>4, <2>1, <2>2, <2>3 DEF Next, ClientStep
<1>5. ASSUME \A d \in Clients : req'[d] = "waiting" <=> req[d] = "waiting"
      PROVE  \A b \in Barriers : WaitingAt(b)' = WaitingAt(b)
  <2>1. \A d \in Clients : req[d] = "waiting" => pc'[d] = pc[d]
    BY PlacesStep DEF TypeOK, RequestsGood, Barriers
  <2> QED
    BY <1>5, <2>1 DEF WaitingAt
<1> QED
  BY <1>1, <1>2, <1>3, <1>4, <1>5

LEMMA LevelBounds == \A p \in Places : Level(p) \in 0 .. 5
  BY DEF Places, Barriers, Level

\* The levels of LookupRounds never fall, and rise by one at most.
LEMMA LevelStep ==
    ASSUME TypeOK, RequestsGood, Next, NEW d \in Clients
    PROVE  Level(pc'[d]) \in {Level(pc[d]), Level(pc[d]) + 1}
<1>1. pc[d] \in Places /\ Level(pc[d]) \in 0 .. 5
  BY LevelBounds DEF TypeOK
<1>2. CASE pc'[d] = pc[d]
  BY <1>1, <1>2
<1>3. CASE pc'[d] # pc[d]
  <2>1. \/ pc[d] = "start" /\ pc'[d] = "registering"
        \/ pc[d] = "writing" /\ pc'[d] = "readying"
        \/ pc[d] = "importing" /\ pc'[d] = "reading"
        \/ pc[d] = "reading" /\ pc'[d] = "finishing"
        \/ req[d] = "answered" /\ pc'[d] = NextPlace(pc[d])
    BY <1>3, PlacesStep DEF TypeOK
  <2>2. req[d] = "answered" => pc[d] \in {"registering", "readying", "finishing"}
    BY DEF RequestsGood, Barriers
  <2> QED
    BY <2>1, <2>2 DEF Level, NextPlace
<1> QED
  BY <1>2, <1>3

LEMMA BehindGrows ==
    ASSUME TypeOK, RequestsGood, Next, NEW b \in Barriers
    PROVE  Behind(b) \subseteq Behind(b)'
<1> SUFFICES ASSUME NEW d \in Clients, Level(pc[d]) >= Level(b)
             PROVE  Level(pc'[d]) >= Level(b)
  BY DEF Behind
<1>1. Level(pc[d]) \in 0 .. 5 /\ Level(b) \in 0 .. 5
  BY LevelBounds DEF TypeOK, Places
<1> QED
  BY <1>1, LevelStep

\* As many of more clients.
LEMMA Enough ==
    ASSUME NEW S, NEW T, S \subseteq T, T \subseteq Clients, NEW n \in Nat,
           Cardinality(S) >= n
    PROVE  Cardinality(T) >= n
<1>1. IsFiniteSet(T) /\ IsFiniteSet(S)
  BY FS_Subset, ClientsAssumption
<1>2. Cardinality(S) <= Cardinality(T) /\ Cardinality(S) \in Nat /\ Cardinality(T) \in Nat
  BY <1>1, FS_Subset, FS_CardinalityType
<1> QED
  BY <1>2

\* Nobody is released but by the last arrival of a barrier.
LEMMA NotReleased ==
    ASSUME TypeOK, RequestsGood, Next, NEW b \in Barriers, NEW d \in Clients,
           Released(d, b)',
           \A c \in Clients : Arrive(c) => ~(b = pc[c] /\ IsLastArrival(b))
    PROVE  Released(d, b)
<1>1. /\ pc[d] \in Places /\ pc'[d] \in Places /\ req[d] \in Stages
      /\ Level(pc[d]) \in 0 .. 5 /\ Level(pc'[d]) \in 0 .. 5 /\ Level(b) \in {2, 4}
  <2>1. pc[d] \in Places /\ pc'[d] \in Places /\ req[d] \in Stages
    BY TypeStep DEF TypeOK
  <2> QED
    BY <2>1, LevelBounds DEF Level, Barriers
<1>2. CASE /\ pc'[d] = pc[d]
           /\ req'[d] \in {"released", "answered"} => req[d] \in {"released", "answered"}
  BY <1>1, <1>2 DEF Released
<1>3. CASE pc'[d] # pc[d]
  <2>1. \/ pc[d] = "start" /\ pc'[d] = "registering"
        \/ pc[d] = "writing" /\ pc'[d] = "readying" /\ req' = req
        \/ pc[d] = "importing" /\ pc'[d] = "reading"
        \/ pc[d] = "reading" /\ pc'[d] = "finishing" /\ req' = req
        \/ req[d] = "answered" /\ pc'[d] = NextPlace(pc[d])
    BY <1>3, PlacesStep DEF TypeOK
  <2>2. /\ req[d] = "answered" => pc[d] \in {"registering", "readying", "finishing"}
        /\ pc[d] \in {"writing", "reading"} => req[d] = "none"
    BY DEF RequestsGood, Barriers
  <2> QED
    BY <2>1, <2>2, <1>1 DEF Released, Level, NextPlace, Barriers
<1>4. CASE pc'[d] = pc[d] /\ req[d] \notin {"released", "answered"}
           /\ req'[d] \in {"released", "answered"}
  <2>1. PICK c \in Clients : \/ RegisterPush(c) /\ d = c
                             \/ Arrive(c) /\ IsLastArrival(pc[c]) /\ d \in WaitingAt(pc[c]) \cup {c}
    <3> USE DEF TypeOK, masterVars
    <3>1. ASSUME NEW c \in Clients,
                 \/ Start(c) \/ LoseReply(c) \/ WriteRecords(c) \/ ImportOwners(c)
                 \/ ReadRecord(c) \/ FinishWalk(c) \/ Die(c) \/ MasterStart \/ MasterExit
          PROVE  req' = req
      BY <3>1 DEF Start, LoseReply, WriteRecords, ImportOwners, ReadRecord, FinishWalk, Die,
                  MasterStart, MasterExit
    <3>2. ASSUME NEW c \in Clients, RegisterCount(c) \/ Reply(c) \/ Receive(c) PROVE FALSE
      BY <3>2, <1>4 DEF RegisterCount, Reply, Receive
    <3>3. ASSUME MasterCrash PROVE FALSE
      BY <3>3, <1>4 DEF MasterCrash
    <3>4. ASSUME NEW c \in Clients, RegisterPush(c) PROVE d = c
      BY <3>4, <1>4 DEF RegisterPush
    <3>5. ASSUME NEW c \in Clients, Arrive(c)
          PROVE  IsLastArrival(pc[c]) /\ d \in WaitingAt(pc[c]) \cup {c}
      BY <3>5, <1>4 DEF Arrive
    <3> QED
      BY <1>4, <3>1, <3>2, <3>3, <3>4, <3>5 DEF Next, ClientStep
  <2>2. CASE RegisterPush(c) /\ d = c
    BY <2>2, <1>1, <1>4 DEF RegisterPush, RequestsGood, Released, Barriers
  <2>3. CASE Arrive(c) /\ d \in WaitingAt(pc[c]) \cup {c} /\ pc[c] # b
    BY <2>3, <1>1, <1>4 DEF WaitingAt, Released
  <2> QED
    BY <2>1, <2>2, <2>3
<1> QED
  BY <1>2, <1>3, <1>4

\* The last arrival finds `expect' clients at its barrier, itself among them.
LEMMA ReleaseFull ==
    ASSUME TypeOK, BarrierCounts, NEW c \in Clients, Arrive(c), IsLastArrival(pc[c])
    PROVE  Cardinality(Behind(pc[c])) >= plan.expect
<1> DEFINE b == pc[c]
<1>1. /\ b \in Barriers /\ c \notin WaitingAt(b) /\ plan.expect \in Nat
      /\ arrived[b] + 1 = plan.expect /\ arrived[b] = Cardinality(WaitingAt(b))
  BY PlansAssumption DEF Arrive, Requests, WaitingAt, TypeOK, IsLastArrival, BarrierCounts
<1>2. Cardinality(WaitingAt(b) \cup {c}) = Cardinality(WaitingAt(b)) + 1
  <2> HIDE DEF WaitingAt, b
  <2> QED
    BY <1>1, WaitingFinite, FS_AddElement
<1>3. WaitingAt(b) \cup {c} \subseteq Behind(b)
  <2>1. Level(b) >= Level(b)
    BY <1>1, LevelBounds DEF Places
  <2> QED
    BY <2>1 DEF WaitingAt, Behind
<1>4. Cardinality(WaitingAt(b) \cup {c}) >= plan.expect /\ Behind(b) \subseteq Clients
  BY <1>1, <1>2 DEF Behind
<1> HIDE DEF b
<1>5. Cardinality(Behind(b)) >= plan.expect
  BY <1>1, <1>3, <1>4, Enough
<1> QED
  BY <1>5 DEF b

LEMMA PassedStep ==
    ASSUME TypeOK, RequestsGood, BarrierCounts, Passed, Next PROVE Passed'
<1> SUFFICES ASSUME NEW b \in Barriers, NEW d \in Clients, Released(d, b)'
             PROVE  Cardinality(Behind(b)') >= plan.expect
  <2>1. plan' = plan
    BY DEF Next, ClientStep, Start, RegisterCount, RegisterPush, Arrive, Reply, Receive,
           LoseReply, WriteRecords, ImportOwners, ReadRecord, FinishWalk, Die, MasterStart,
           MasterCrash, MasterExit
  <2> QED
    BY <2>1 DEF Passed
<1>1. Cardinality(Behind(b)) >= plan.expect
  <2>1. CASE \E c \in Clients : Arrive(c) /\ b = pc[c] /\ IsLastArrival(b)
    BY <2>1, ReleaseFull
  <2>2. CASE \A c \in Clients : Arrive(c) => ~(b = pc[c] /\ IsLastArrival(b))
    BY <2>2, NotReleased DEF Passed
  <2> QED
    BY <2>1, <2>2
<1>2. Behind(b) \subseteq Behind(b)' /\ Behind(b)' \subseteq Clients /\ plan.expect \in Nat
  BY BehindGrows, PlansAssumption DEF Behind, TypeOK
<1> QED
  BY <1>1, <1>2, Enough

LEMMA RoundsInductive == Spec => []RoundsInv
<1>1. Init => RoundsInv
  <2> SUFFICES ASSUME Init PROVE RoundsInv
    OBVIOUS
  <2> USE PlansAssumption DEF Init
  <2>1. TypeOK
    BY DEF TypeOK, Places, Barriers, Stages
  <2>2. RequestsGood
    BY DEF RequestsGood
  <2>3. \A b \in Barriers : WaitingAt(b) = {} /\ arrived[b] = 0
    BY DEF WaitingAt
  <2>4. BarrierCounts
    BY <2>3, FS_EmptySet DEF BarrierCounts
  <2>5. Passed
    BY DEF Passed, Released, Level, Barriers
  <2> QED
    BY <2>1, <2>2, <2>4, <2>5 DEF RoundsInv
<1>2. RoundsInv /\ [Next]_vars => RoundsInv'
  <2>1. ASSUME RoundsInv, Next PROVE RoundsInv'
    BY <2>1, TypeStep, RequestsStep, BarrierStep, PassedStep DEF RoundsInv
  <2>2. ASSUME RoundsInv, UNCHANGED vars PROVE RoundsInv'
    BY <2>2 DEF vars, RoundsInv, TypeOK, RequestsGood, BarrierCounts, WaitingAt, Passed,
                Released, Behind
  <2> QED
    BY <2>1, <2>2
<1> QED
  BY <1>1, <1>2, PTL DEF Spec

\* Whatever fails and however often the master starts again, every state keeps
\* its types, and no barrier ever holds the arrivals that should release it.
THEOREM TypeCorrect == Spec => []TypeOK
<1>1. RoundsInv => TypeOK
  BY DEF RoundsInv
<1> QED
  BY <1>1, RoundsInductive, PTL

\* The instance brings a copy of FiniteSets with it.
LEMMA SameCardinality == \A S : Rounds!Cardinality(S) = Cardinality(S)
  BY DEF Cardinality, Rounds!Cardinality

\* A client passes the ready barrier only with `expect' clients that have
\* written, the done barrier only with `expect' clients that have finished: the
\* program with its master implements LookupRounds, which has none.
THEOREM ImplementsRounds == Spec => RoundsSpec
<1> DEFINE lv == [c \in Clients |-> Level(pc[c])]
<1>1. Init => Rounds!Init
  BY PlansAssumption DEF Init, Rounds!Init, Rounds!Out, Level
<1>2. RoundsInv /\ [Next]_vars => [Rounds!Next]_<<plan.expect, lv>>
  <2> SUFFICES ASSUME RoundsInv, Next PROVE Rounds!Next \/ UNCHANGED <<plan.expect, lv>>
    <3>1. ASSUME UNCHANGED vars PROVE UNCHANGED <<plan.expect, lv>>
      BY <3>1 DEF vars
    <3> QED
      BY <3>1
  <2>1. plan' = plan
    BY DEF Next, ClientStep, Start, RegisterCount, RegisterPush, Arrive, Reply, Receive,
           LoseReply, WriteRecords, ImportOwners, ReadRecord, FinishWalk, Die, MasterStart,
           MasterCrash, MasterExit
  <2>2. CASE pc' = pc
    BY <2>1, <2>2
  <2>3. ASSUME pc' # pc PROVE Rounds!Next \/ lv' = lv
    <3>1. PICK c \in Clients :
             \/ /\ pc[c] \in {"start", "writing", "importing", "reading"}
                /\ pc' = [pc EXCEPT ![c] =
                             CASE pc[c] = "start" -> "registering"
                               [] pc[c] = "writing" -> "readying"
                               [] pc[c] = "importing" -> "reading"
                               [] pc[c] = "reading" -> "finishing"]
             \/ req[c] = "answered" /\ pc' = [pc EXCEPT ![c] = NextPlace(pc[c])]
      BY <2>3, PlacesStep DEF RoundsInv
    <3>2. req[c] = "answered" => pc[c] \in {"registering", "readying", "finishing"}
      BY DEF RoundsInv, RequestsGood, Barriers
    <3>3. lv' = [lv EXCEPT ![c] = Level(pc'[c])] /\ lv[c] = Level(pc[c])
      BY <3>1 DEF RoundsInv, TypeOK
    <3>4. ASSUME Level(pc'[c]) = Level(pc[c]) PROVE lv' = lv
      BY <3>3, <3>4
    <3>9. ASSUME NEW l \in 1 .. 5, lv[c] = l - 1, Level(pc'[c]) = l PROVE Rounds!MoveTo(c, l)
      BY <2>1, <3>3, <3>9 DEF Rounds!MoveTo
    <3>5. CASE pc[c] \in {"start", "writing", "reading"}
      <4>1. \/ pc[c] = "start" /\ lv[c] = 0 /\ Level(pc'[c]) = 1
            \/ pc[c] = "writing" /\ lv[c] = 1 /\ Level(pc'[c]) = 2
            \/ pc[c] = "reading" /\ lv[c] = 3 /\ Level(pc'[c]) = 4
        BY <3>1, <3>2, <3>3, <3>5 DEF RoundsInv, TypeOK, Level
      <4> QED
        BY <3>9, <4>1 DEF Rounds!Next, Rounds!Join, Rounds!Write, Rounds!Finish,
           Rounds!Joined, Rounds!Written, Rounds!Finished
    <3>6. CASE pc[c] \in {"importing", "registering"}
      BY <3>1, <3>2, <3>4, <3>6 DEF RoundsInv, TypeOK, Level, NextPlace
    <3>7. CASE pc[c] = "readying"
      <4>1. lv[c] = 2 /\ Level(pc'[c]) = 3 /\ Released(c, "readying")
        BY <3>1, <3>3, <3>7 DEF RoundsInv, TypeOK, Level, NextPlace, Released
      <4>2. Cardinality(Behind("readying")) >= plan.expect
        BY <4>1 DEF RoundsInv, Passed, Barriers
      <4>3. Behind("readying") = Rounds!Reached(2)
        BY DEF Behind, Rounds!Reached, Level
      <4>4. Rounds!MoveTo(c, Rounds!Reading)
        BY <3>9, <4>1 DEF Rounds!Reading
      <4>5. Rounds!Read(c)
        BY <4>2, <4>3, <4>4, SameCardinality DEF Rounds!Read, Rounds!Written
      <4> QED
        BY <4>5 DEF Rounds!Next
    <3>8. CASE pc[c] = "finishing"
      <4>1. lv[c] = 4 /\ Level(pc'[c]) = 5 /\ Released(c, "finishing")
        BY <3>1, <3>3, <3>8 DEF RoundsInv, TypeOK, Level, NextPlace, Released
      <4>2. Cardinality(Behind("finishing")) >= plan.expect
        BY <4>1 DEF RoundsInv, Passed, Barriers
      <4>3. Behind("finishing") = Rounds!Reached(4)
        BY DEF Behind, Rounds!Reached, Level
      <4>4. Rounds!MoveTo(c, Rounds!Left)
        BY <3>9, <4>1 DEF Rounds!Left
      <4>5. Rounds!Leave(c)
        BY <4>2, <4>3, <4>4, SameCardinality DEF Rounds!Leave, Rounds!Finished
      <4> QED
        BY <4>5 DEF Rounds!Next
    <3> QED
      BY <3>1, <3>2, <3>5, <3>6, <3>7, <3>8
  <2> QED
    BY <2>1, <2>2, <2>3
<1> QED
  BY <1>1, <1>2, RoundsInductive, PTL DEF Spec, RoundsSpec, Rounds!Spec, Rounds!vars

-------------------------------------------------------------------------------
(* The ranges.                                                             *)

\* A range once given is never given again, nor changed.
LEMMA EnteredStays ==
    ASSUME TypeOK, RequestsGood, Next
    PROVE  \A o \in Clients : Entered(o) => Entered(o)' /\ first'[o] = first[o]
<1> SUFFICES ASSUME NEW o \in Clients, Entered(o) PROVE Entered(o)' /\ first'[o] = first[o]
  OBVIOUS
<1>1. ~(pc'[o] \in {"start", "registering"} /\ req'[o] = "none")
  <2>1. pc[o] = "start" => req[o] = "none"
    BY DEF RequestsGood, TypeOK, Stages, Barriers
  <2>2. pc[o] = "registering" /\ req[o] = "answered" => NextPlace(pc[o]) = "writing"
    BY DEF NextPlace
  <2>3. CASE pc'[o] = pc[o]
    <3>1. ASSUME pc[o] = "registering", req'[o] = "none" PROVE req[o] = "none"
      <4> USE DEF TypeOK, masterVars, clientVars
      <4>1. ASSUME NEW c \in Clients,
                   RegisterCount(c) \/ RegisterPush(c) \/ Arrive(c) \/ Reply(c)
            PROVE  req[o] = "none"
        BY <3>1, <4>1 DEF RegisterCount, RegisterPush, Arrive, Reply
      <4>2. ASSUME NEW c \in Clients, Receive(c) PROVE c # o
        BY <3>1, <2>3, <4>2 DEF Receive, Goto, NextPlace
      <4>3. ASSUME NEW c \in Clients, Receive(c) PROVE req[o] = "none"
        BY <3>1, <4>2, <4>3 DEF Receive
      <4>4. ASSUME NEW c \in Clients,
                   \/ Start(c) \/ LoseReply(c) \/ WriteRecords(c) \/ ImportOwners(c)
                   \/ ReadRecord(c) \/ FinishWalk(c) \/ Die(c) \/ MasterStart \/ MasterExit
            PROVE  req' = req
        BY <4>4 DEF Start, LoseReply, WriteRecords, ImportOwners, ReadRecord, FinishWalk, Die,
                    MasterStart, MasterExit
      <4>5. ASSUME MasterCrash PROVE req[o] = "none"
        BY <3>1, <4>5 DEF MasterCrash
      <4> QED
        BY <3>1, <4>1, <4>3, <4>4, <4>5 DEF Next, ClientStep
    <3> QED
      BY <2>1, <2>3, <3>1 DEF Entered
  <2>4. CASE pc'[o] # pc[o]
    <3>1. \/ pc[o] = "start" \/ pc'[o] \in {"readying", "reading", "finishing"}
          \/ req[o] = "answered" /\ pc'[o] = NextPlace(pc[o])
      BY <2>4, PlacesStep DEF TypeOK
    <3>2. req[o] = "answered" => pc[o] \in {"registering", "readying", "finishing"}
      BY DEF RequestsGood, Barriers
    <3> QED
      BY <2>1, <3>1, <3>2 DEF Entered, NextPlace
  <2> QED
    BY <2>3, <2>4
<1>2. req'[o] # "counted" /\ first'[o] = first[o]
  <2> USE DEF TypeOK, masterVars, clientVars
  <2>1. ASSUME NEW c \in Clients, RegisterCount(c) PROVE req'[o] # "counted" /\ first'[o] = first[o]
    <3>1. c # o
      BY <2>1 DEF Entered, RegisterCount, Requests
    <3> QED
      BY <2>1, <3>1 DEF RegisterCount, Entered
  <2>2. ASSUME NEW c \in Clients, RegisterPush(c) \/ Reply(c) \/ Receive(c) \/ Arrive(c)
        PROVE  req'[o] # "counted" /\ first'[o] = first[o]
    BY <2>2 DEF RegisterPush, Reply, Receive, Arrive, Entered
  <2>3. ASSUME NEW c \in Clients,
               \/ Start(c) \/ LoseReply(c) \/ WriteRecords(c) \/ ImportOwners(c)
               \/ ReadRecord(c) \/ FinishWalk(c) \/ Die(c) \/ MasterStart \/ MasterExit
        PROVE  req' = req /\ first' = first
    BY <2>3 DEF Start, LoseReply, WriteRecords, ImportOwners, ReadRecord, FinishWalk, Die,
                MasterStart, MasterExit
  <2>4. ASSUME MasterCrash PROVE req'[o] # "counted" /\ first'[o] = first[o]
    BY <2>4 DEF MasterCrash
  <2> QED
    BY <2>1, <2>2, <2>3, <2>4 DEF Next, ClientStep, Entered
<1> QED
  BY <1>1, <1>2 DEF Entered

LEMMA RangesStep ==
    ASSUME TypeOK, RequestsGood, RangesInv, Next PROVE RangesInv'
<1> USE CountAssumption
<1>1. /\ clients \in Seq(Clients) /\ \A c \in Clients : dir[c] \in Seq(Clients)
      /\ \A i \in DOMAIN clients : clients[i] \in Clients
      /\ next_rid \in Nat /\ \A c \in Clients : Count[c] \in Nat \ {0}
  BY DEF TypeOK
<1>2. \A o \in Clients : Entered(o) =>
         /\ first'[o] = first[o] /\ first[o] \in Nat /\ req'[o] # "counted"
         /\ ~(pc'[o] \in {"start", "registering"} /\ req'[o] = "none")
  BY EnteredStays DEF Entered
<1>3. ASSUME clients' = clients PROVE Disjoint(clients)'
  <2>1. \A i \in DOMAIN clients : clients[i] \in Clients /\ Entered(clients[i])
    BY <1>1 DEF RangesInv, Disjoint
  <2>2. \A i, j \in DOMAIN clients : i # j => Apart(clients[i], clients[j])
    BY DEF RangesInv, Disjoint
  <2> QED
    BY <1>2, <1>3, <2>1, <2>2 DEF Disjoint, Entered, Apart
<1>4. ASSUME NEW d \in Clients, dir'[d] = dir[d] PROVE Disjoint(dir[d])'
  <2>1. \A i \in DOMAIN dir[d] : dir[d][i] \in Clients /\ Entered(dir[d][i])
    BY <1>1, <1>4 DEF RangesInv, Disjoint
  <2>2. \A i, j \in DOMAIN dir[d] : i # j => Apart(dir[d][i], dir[d][j])
    BY <1>4 DEF RangesInv, Disjoint
  <2> QED
    BY <1>2, <1>4, <2>1, <2>2 DEF Disjoint, Entered, Apart
<1>5. \A i \in DOMAIN clients : first'[clients[i]] = first[clients[i]]
  BY <1>1, <1>2 DEF RangesInv, Disjoint
<1>6. ASSUME NEW c \in Clients, RegisterCount(c) PROVE RangesInv'
  <2>1. /\ next_rid' = next_rid + Count[c] /\ clients' = clients /\ dir' = dir
        /\ first' = [first EXCEPT ![c] = next_rid] /\ req' = [req EXCEPT ![c] = "counted"]
        /\ req[c] # "counted"
    BY <1>6 DEF RegisterCount, Requests, NextRid
  <2>2. first'[c] = next_rid
    BY <2>1 DEF TypeOK
  <2>3. \A i \in DOMAIN clients : /\ first'[clients[i]] \in Nat
                                  /\ first'[clients[i]] + Count[clients[i]] <= next_rid
    BY <1>1, <1>5 DEF RangesInv, Disjoint, Entered
  <2>4. Pending(c)'
    <3>1. \A d \in Clients : req'[d] = "counted" /\ d # c =>
              first'[d] = first[d] /\ first[d] \in Nat /\ first[d] + Count[d] <= next_rid
      BY <2>1 DEF RangesInv, Pending, TypeOK
    <3> QED
      BY <1>1, <2>1, <2>2, <2>3, <3>1 DEF Pending, Apart
  <2>5. ASSUME NEW d \in Clients, d # c, req'[d] = "counted" PROVE Pending(d)'
    <3>1. Pending(d) /\ first'[d] = first[d]
      BY <2>1, <2>5 DEF RangesInv, TypeOK
    <3>2. \A e \in Clients : req'[e] = "counted" /\ e # d => Apart(d, e)'
      <4> SUFFICES ASSUME NEW e \in Clients, req'[e] = "counted", e # d PROVE Apart(d, e)'
        OBVIOUS
      <4>1. CASE e = c
        BY <1>1, <2>2, <3>1, <4>1 DEF Pending, Apart
      <4>2. CASE e # c
        BY <2>1, <3>1, <4>2 DEF Pending, Apart, TypeOK
      <4> QED
        BY <4>1, <4>2
    <3>3. \A i \in DOMAIN clients' : Apart(d, clients[i])'
      BY <1>5, <2>1, <3>1 DEF Pending, Apart
    <3>4. first'[d] \in Nat /\ first'[d] + Count[d] <= next_rid'
      BY <1>1, <2>1, <3>1 DEF Pending
    <3> QED
      BY <3>2, <3>3, <3>4 DEF Pending
  <2> QED
    BY <1>1, <1>3, <1>4, <2>1, <2>3, <2>4, <2>5 DEF RangesInv
<1>7. ASSUME NEW c \in Clients, RegisterPush(c) PROVE RangesInv'
  <2>1. /\ clients' = Append(clients, c) /\ next_rid' = next_rid /\ dir' = dir /\ first' = first
        /\ req' = [req EXCEPT ![c] = "answered"] /\ req[c] = "counted" /\ pc' = pc
    BY <1>7 DEF RegisterPush, clientVars
  <2>2. Pending(c) /\ Entered(c)'
    BY <2>1 DEF RangesInv, Pending, Entered, TypeOK
  <2>3. DOMAIN clients' = 1 .. Len(clients) + 1 /\ DOMAIN clients = 1 .. Len(clients)
        /\ clients'[Len(clients) + 1] = c /\ \A i \in DOMAIN clients : clients'[i] = clients[i]
    BY <1>1, <2>1
  <2>4. ASSUME NEW i \in DOMAIN clients'
        PROVE  i \in DOMAIN clients \/ (clients'[i] = c /\ i = Len(clients) + 1)
    <3>1. Len(clients) \in Nat /\ i \in 1 .. Len(clients) + 1
      BY <1>1, <2>3
    <3>2. i \in 1 .. Len(clients) \/ i = Len(clients) + 1
      BY <3>1
    <3> QED
      BY <2>3, <3>2
  <2>5. \A i \in DOMAIN clients' : /\ Entered(clients[i])'
                                   /\ (first[clients[i]] + Count[clients[i]] <= next_rid)'
    <3> SUFFICES ASSUME NEW i \in DOMAIN clients'
                 PROVE  /\ Entered(clients[i])'
                        /\ (first[clients[i]] + Count[clients[i]] <= next_rid)'
      OBVIOUS
    <3>1. CASE i \in DOMAIN clients
      <4>1. Entered(clients[i])' /\ clients'[i] = clients[i]
        <5>1. clients[i] \in Clients /\ Entered(clients[i]) /\ clients'[i] = clients[i]
          BY <1>1, <2>3, <3>1 DEF RangesInv, Disjoint
        <5> QED
          BY <1>2, <5>1 DEF Entered
      <4> QED
        BY <2>1, <3>1, <4>1 DEF RangesInv
    <3>2. CASE clients'[i] = c
      BY <2>1, <2>2, <3>2 DEF Pending, Entered
    <3> QED
      BY <2>4, <3>1, <3>2
  <2>6. \A i, j \in DOMAIN clients' : i # j => Apart(clients[i], clients[j])'
    <3> SUFFICES ASSUME NEW i \in DOMAIN clients', NEW j \in DOMAIN clients', i # j
                 PROVE  Apart(clients[i], clients[j])'
      OBVIOUS
    <3>1. CASE i \in DOMAIN clients /\ j \in DOMAIN clients
      BY <2>1, <2>3, <3>1 DEF RangesInv, Disjoint, Apart
    <3>2. CASE i \in DOMAIN clients /\ clients'[j] = c
      BY <2>1, <2>2, <2>3, <3>2 DEF Pending, Apart
    <3>3. CASE clients'[i] = c /\ j \in DOMAIN clients
      BY <2>1, <2>2, <2>3, <3>3 DEF Pending, Apart
    <3> QED
      BY <2>4, <3>1, <3>2, <3>3
  <2>7. ASSUME NEW d \in Clients, req'[d] = "counted" PROVE Pending(d)'
    <3>1. Pending(d) /\ d # c
      BY <2>1, <2>7 DEF RangesInv, TypeOK
    <3>2. Apart(d, c)
      BY <2>1, <3>1 DEF Pending
    <3>3. \A i \in DOMAIN clients' : Apart(d, clients[i])'
      BY <2>1, <2>3, <2>4, <3>1, <3>2 DEF Pending, Apart
    <3> QED
      BY <2>1, <3>1, <3>3 DEF Pending, Apart, TypeOK
  <2> QED
    BY <1>4, <2>1, <2>5, <2>6, <2>7 DEF RangesInv, Disjoint
<1>8. ASSUME NEW c \in Clients, Reply(c) PROVE RangesInv'
  <2>1. /\ clients' = clients /\ next_rid' = next_rid /\ first' = first
        /\ \A d \in Clients : req'[d] = "counted" => req[d] = "counted"
        /\ \A d \in Clients : dir'[d] = dir[d] \/ dir'[d] = clients
    BY <1>8 DEF Reply, TypeOK
  <2>2. ASSUME NEW d \in Clients PROVE Disjoint(dir[d])'
    BY <1>3, <1>4, <2>1 DEF Disjoint, Apart, Entered
  <2> QED
    BY <1>3, <2>1, <2>2 DEF RangesInv, Pending, Apart
<1>9. CASE MasterCrash
  <2>1. clients' = <<>> /\ dir' = dir /\ \A c \in Clients : req'[c] # "counted"
    BY <1>9 DEF MasterCrash
  <2>2. DOMAIN clients' = {}
    BY <2>1
  <2> QED
    BY <1>4, <2>1, <2>2 DEF RangesInv, Disjoint
<1>10. ASSUME NEW c \in Clients,
              \/ Start(c) \/ Arrive(c) \/ Receive(c) \/ LoseReply(c) \/ WriteRecords(c)
              \/ ImportOwners(c) \/ ReadRecord(c) \/ FinishWalk(c) \/ Die(c)
       PROVE  RangesInv'
  <2>1. /\ clients' = clients /\ next_rid' = next_rid /\ first' = first /\ dir' = dir
        /\ \A d \in Clients : req'[d] = "counted" => req[d] = "counted"
    BY <1>10 DEF Start, Arrive, Receive, LoseReply, WriteRecords, ImportOwners, ReadRecord,
                 FinishWalk, Die, masterVars, TypeOK
  <2> QED
    BY <1>3, <1>4, <2>1 DEF RangesInv, Pending, Apart
<1>11. CASE MasterStart \/ MasterExit
  <2>1. /\ clients' = clients /\ next_rid' = next_rid /\ first' = first /\ dir' = dir
        /\ req' = req
    BY <1>11 DEF MasterStart, MasterExit
  <2> QED
    BY <1>3, <1>4, <2>1 DEF RangesInv, Pending, Apart
<1> QED
  BY <1>6, <1>7, <1>8, <1>9, <1>10, <1>11 DEF Next, ClientStep

LEMMA RangesInductive == Spec => [](RoundsInv /\ RangesInv)
<1>1. Init => RangesInv
  BY DEF Init, RangesInv, Disjoint
<1>2. RoundsInv /\ RangesInv /\ [Next]_vars => RangesInv'
  <2>1. ASSUME RoundsInv, RangesInv, Next PROVE RangesInv'
    BY <2>1, RangesStep DEF RoundsInv
  <2>2. ASSUME RangesInv, UNCHANGED vars PROVE RangesInv'
    BY <2>2 DEF vars, RangesInv, Disjoint, Entered, Apart, Pending
  <2> QED
    BY <2>1, <2>2
<1> QED
  BY <1>1, <1>2, RoundsInductive, PTL DEF Spec

LEMMA ApartRecords ==
    ASSUME NEW a \in Clients, NEW b \in Clients, Apart(a, b), first[a] \in Nat, first[b] \in Nat
    PROVE  Records(a) \cap Records(b) = {}
<1>1. Count[a] \in Nat /\ Count[b] \in Nat
  BY CountAssumption
<1> QED
  BY <1>1 DEF Apart, Records

\* Registrations that run at once, clients that die and masters that start
\* again never put a record into two ranges of one directory.
THEOREM RangesStayDisjoint == Spec => []RangesDisjoint
<1>1. RoundsInv /\ RangesInv => RangesDisjoint
  <2> SUFFICES ASSUME RoundsInv, RangesInv, NEW c \in Clients,
                      NEW i \in DOMAIN dir[c], NEW j \in DOMAIN dir[c], i # j
               PROVE  Records(dir[c][i]) \cap Records(dir[c][j]) = {}
    BY DEF RangesDisjoint
  <2>1. dir[c][i] \in Clients /\ dir[c][j] \in Clients
    BY DEF RoundsInv, TypeOK
  <2> QED
    BY <2>1, ApartRecords DEF RangesInv, Disjoint, Entered
<1> QED
  BY <1>1, RangesInductive, PTL

-------------------------------------------------------------------------------
(* What the barriers are for.                                              *)

\* With no more clients than the barrier expects, the first one released leaves
\* nobody behind.
LEMMA EveryoneBehind ==
    ASSUME RoundsInv, Planned, NEW b \in Barriers, NEW c \in Clients, Released(c, b)
    PROVE  Behind(b) = Started
<1>1. /\ plan.expect \in Nat /\ \A d \in Clients : Level(pc[d]) \in 0 .. 5
      /\ Level(b) \in 0 .. 5 /\ Level(b) > 0
  BY PlansAssumption, LevelBounds DEF RoundsInv, TypeOK, Places, Barriers, Level
<1>2. Behind(b) \subseteq Started /\ Started \subseteq Clients
  <2>1. \A d \in Clients : pc[d] = "start" => Level(pc[d]) = 0
    BY DEF Level
  <2> QED
    BY <1>1, <2>1 DEF Behind, Started
<1>3. Cardinality(Behind(b)) >= plan.expect /\ Cardinality(Started) <= plan.expect
  BY DEF RoundsInv, Passed, Planned, Started
<1>4. IsFiniteSet(Started)
  BY <1>2, FS_Subset, ClientsAssumption
<1>5. IsFiniteSet(Behind(b)) /\ Cardinality(Behind(b)) <= Cardinality(Started)
  BY <1>2, <1>4, FS_Subset
<1>6. Cardinality(Behind(b)) = Cardinality(Started)
  BY <1>1, <1>3, <1>4, <1>5, FS_CardinalityType
<1> QED
  BY <1>2, <1>4, <1>6, FS_Subset

\* The ready barrier keeps the READs from the records of an owner that has not
\* written: in a planned run, whatever fails, nobody reads before all have.
THEOREM ReadsComeAfterWrites == Spec => []ReadsWritten
<1>1. RoundsInv => ReadsWritten
  <2> SUFFICES ASSUME RoundsInv, Planned, NEW c \in Clients, NEW o \in Clients,
                      ReadsNext(c, o), Mem(o) = "unwritten"
               PROVE  FALSE
    BY DEF ReadsWritten
  <2>1. pc[c] = "reading" /\ pc[o] \in {"registering", "writing"}
    BY DEF ReadsNext, Mem
  <2>2. Released(c, "readying")
    BY <2>1 DEF Released, Level
  <2>3. o \in Behind("readying")
    BY <2>1, <2>2, EveryoneBehind DEF Barriers, Started
  <2> QED
    BY <2>1, <2>3 DEF Behind, Level
<1> QED
  BY <1>1, RoundsInductive, PTL

\* The done barrier keeps the memory of every owner alive until nobody has to
\* read from it: in a planned run an owner that did not fail has its records
\* written and has not returned while another client imports or reads.
THEOREM MemoryStaysForReaders == Spec => []MemoryOutlivesReaders
<1>1. RoundsInv /\ RangesInv => MemoryOutlivesReaders
  <2> SUFFICES ASSUME RoundsInv, RangesInv, Planned, NEW c \in Clients, NEW o \in Clients,
                      pc[c] \in {"importing", "reading"}, o \in Owners(c), Alive(o)
               PROVE  Mem(o) = "written"
    BY DEF MemoryOutlivesReaders
  <2>1. Released(c, "readying") /\ Level(pc[c]) = 3
    BY DEF Released, Level
  <2>2. pc[o] # "start"
    <3>1. Entered(o)
      BY DEF Owners, RangesInv, Disjoint
    <3>2. req[o] # "none" => pc[o] # "start"
      BY DEF RoundsInv, RequestsGood, Barriers
    <3> QED
      BY <3>1, <3>2 DEF Entered
  <2>3. pc[o] \notin {"registering", "writing"}
    <3>1. o \in Behind("readying")
      BY <2>1, <2>2, EveryoneBehind DEF Barriers, Started
    <3> QED
      BY <3>1 DEF Behind, Level
  <2>4. pc[o] # "exit"
    <3> SUFFICES ASSUME pc[o] = "exit" PROVE FALSE
      OBVIOUS
    <3>1. Released(o, "finishing")
      BY DEF Released, Level
    <3>2. c \in Behind("finishing")
      BY <3>1, EveryoneBehind DEF Barriers, Started
    <3> QED
      BY <2>1, <3>2 DEF Behind, Level
  <2> QED
    BY <2>2, <2>3, <2>4 DEF Mem, Alive
<1> QED
  BY <1>1, RangesInductive, PTL

-------------------------------------------------------------------------------
(* The directory of a planned run.                                         *)

\* The client has no range, and may be given one.
Waits(o) == pc[o] \in {"start", "registering"} /\ req[o] = "none"

\* A master that has not been started again forgets no registration and leaves
\* no id out, and every open request is one it knows.
Remembers ==
    /\ \A o \in Clients : Waits(o) \/ first[o] \in Nat
    /\ \A o \in Clients : req[o] \notin {"none", "broken"} => master # "down"
    /\ starts = 0 =>
        master = "down" /\ next_rid = 0 /\ \A o \in Clients : Waits(o)
    /\ starts <= 1 /\ master # "down" =>
        /\ \A o \in Clients : req[o] # "broken"
        /\ \A o \in Clients : Entered(o) => \E i \in DOMAIN clients : clients[i] = o
        /\ \A rid \in 0 .. next_rid - 1 : \E o \in Clients :
               (Entered(o) \/ req[o] = "counted") /\ rid \in Records(o)

Answered(c) ==
    \/ pc[c] = "readying" /\ req[c] = "answered"
    \/ Level(pc[c]) >= 3

Covered(owners) == UNION {Records(owners[i]) : i \in DOMAIN owners}

\* Everyone is in the directory, and together they have all ids up to some n.
Complete(c) ==
    /\ Owners(c) = Started
    /\ \E n \in Nat : Covered(dir[c]) = 0 .. n - 1

DirectoryInv == Planned => \A c \in Clients : Answered(c) => Complete(c)

\* What a step does that neither assigns ids nor starts or stops the memory of
\* the master.
LEMMA OtherSteps ==
    ASSUME TypeOK, RequestsGood, Next, ~MasterStart, ~MasterCrash,
           \A c \in Clients : ~RegisterCount(c) /\ ~RegisterPush(c)
    PROVE  /\ starts' = starts /\ next_rid' = next_rid /\ clients' = clients
           /\ first' = first /\ (master' = "down" <=> master = "down")
           /\ \A o \in Clients :
                /\ req'[o] = "broken" => req[o] = "broken"
                /\ req'[o] = "counted" <=> req[o] = "counted"
                /\ Waits(o)' <=> Waits(o)
                /\ req'[o] \notin {"none", "broken"} =>
                       req[o] \notin {"none", "broken"} \/ master # "down"
<1> DEFINE Quiet ==
              /\ starts' = starts /\ next_rid' = next_rid /\ clients' = clients
              /\ first' = first /\ (master' = "down" <=> master = "down")
              /\ \A o \in Clients :
                   /\ req'[o] = "broken" => req[o] = "broken"
                   /\ req'[o] = "counted" <=> req[o] = "counted"
                   /\ Waits(o)' <=> Waits(o)
                   /\ req'[o] \notin {"none", "broken"} =>
                          req[o] \notin {"none", "broken"} \/ master # "down"
<1>1. ASSUME NEW c \in Clients, Arrive(c) PROVE Quiet
  <2>1. /\ starts' = starts /\ next_rid' = next_rid /\ clients' = clients
        /\ first' = first /\ pc' = pc /\ master = "serving"
        /\ pc[c] \in Barriers /\ req[c] = "none"
    BY <1>1 DEF Arrive, Requests, clientVars
  <2>2. master' \in {"serving", "stopping"}
    BY <1>1, <2>1 DEF Arrive, LeaderOrders
  <2>3. \A o \in Clients : \/ req'[o] = req[o]
                           \/ /\ o \in WaitingAt(pc[c]) \cup {c}
                              /\ req'[o] \in {"waiting", "released"}
    BY <1>1 DEF Arrive, TypeOK
  <2>4. \A o \in Clients : \/ req'[o] = req[o]
                           \/ /\ pc[o] \in Barriers /\ req[o] \in {"none", "waiting"}
                              /\ req'[o] \in {"waiting", "released"}
    BY <2>1, <2>3 DEF WaitingAt
  <2> QED
    BY <2>1, <2>2, <2>4 DEF Barriers, Waits
<1>2. ASSUME NEW c \in Clients, Reply(c) \/ Receive(c) PROVE Quiet
  BY <1>2 DEF Reply, Receive, RequestsGood, NextPlace, Barriers, TypeOK, masterVars, clientVars,
              Waits, Goto
<1>3. ASSUME NEW c \in Clients,
             \/ Start(c) \/ LoseReply(c) \/ WriteRecords(c) \/ ImportOwners(c)
             \/ ReadRecord(c) \/ FinishWalk(c) \/ Die(c)
      PROVE  Quiet
  BY <1>3 DEF Start, LoseReply, WriteRecords, ImportOwners, ReadRecord, FinishWalk, Die,
              TypeOK, masterVars, clientVars, Waits, Goto, Fail
<1>4. CASE MasterExit
  BY <1>4 DEF MasterExit, clientVars, Waits
<1>5. Quiet
  BY <1>1, <1>2, <1>3, <1>4 DEF Next, ClientStep
<1> QED
  BY <1>5

LEMMA RemembersStep ==
    ASSUME RoundsInv, RangesInv, Remembers, Next PROVE Remembers'
<1> USE CountAssumption DEF RoundsInv
<1>1. \A o \in Clients : Entered(o) => Entered(o)' /\ first'[o] = first[o]
  BY EnteredStays
<1>2. CASE /\ ~MasterStart /\ ~MasterCrash
           /\ \A c \in Clients : ~RegisterCount(c) /\ ~RegisterPush(c)
  <2>1. /\ starts' = starts /\ next_rid' = next_rid /\ clients' = clients
        /\ first' = first /\ (master' = "down" <=> master = "down")
        /\ \A o \in Clients :
             /\ req'[o] = "broken" => req[o] = "broken"
             /\ req'[o] = "counted" <=> req[o] = "counted"
             /\ Waits(o)' <=> Waits(o)
             /\ req'[o] \notin {"none", "broken"} =>
                    req[o] \notin {"none", "broken"} \/ master # "down"
    BY <1>2, OtherSteps
  <2>2. \A o \in Clients : (Entered(o)' <=> Entered(o)) /\ Records(o)' = Records(o)
    BY <2>1 DEF Entered, Records, Waits
  <2> QED
    BY <2>1, <2>2 DEF Remembers
<1>3. ASSUME NEW c \in Clients, RegisterCount(c) PROVE Remembers'
  <2>1. /\ next_rid' = next_rid + Count[c] /\ clients' = clients /\ pc' = pc
        /\ first' = [first EXCEPT ![c] = next_rid] /\ req' = [req EXCEPT ![c] = "counted"]
        /\ req[c] = "none" /\ pc[c] = "registering" /\ master = "serving" /\ master' = master
        /\ starts' = starts /\ next_rid \in Nat /\ Count[c] \in Nat
        /\ first'[c] = next_rid /\ req'[c] = "counted"
    BY <1>3 DEF RegisterCount, Requests, NextRid, clientVars, TypeOK
  <2>2. \A o \in Clients : o # c => /\ first'[o] = first[o] /\ req'[o] = req[o]
                                    /\ Waits(o)' = Waits(o) /\ Records(o)' = Records(o)
    BY <2>1 DEF TypeOK, Waits, Records
  <2>3. \A o \in Clients : Entered(o)' => o # c /\ Entered(o)
    BY <2>1, <2>2 DEF Entered, Waits
  <2>4. ~Entered(c) /\ starts # 0
    BY <2>1 DEF Entered, Remembers
  <2>5. ASSUME starts' <= 1, NEW rid \in 0 .. next_rid' - 1
        PROVE  \E o \in Clients : (Entered(o)' \/ req'[o] = "counted") /\ rid \in Records(o)'
    <3>1. CASE rid \in 0 .. next_rid - 1
      <4>1. PICK o \in Clients : (Entered(o) \/ req[o] = "counted") /\ rid \in Records(o)
        BY <2>1, <2>5, <3>1 DEF Remembers
      <4>2. o # c
        BY <2>1, <2>4, <4>1
      <4> QED
        BY <1>1, <2>2, <4>1, <4>2
    <3>2. CASE rid \notin 0 .. next_rid - 1
      <4>1. rid \in Records(c)'
        BY <2>1, <3>2 DEF Records
      <4> QED
        BY <2>1, <4>1
    <3> QED
      BY <3>1, <3>2
  <2>6. \A o \in Clients : Waits(o)' \/ first'[o] \in Nat
    BY <2>1, <2>2 DEF Remembers
  <2>7. \A o \in Clients : starts <= 1 => req'[o] # "broken"
    BY <2>1, <2>2 DEF Remembers
  <2>8. ASSUME starts' <= 1, NEW o \in Clients, Entered(o)'
        PROVE  \E i \in DOMAIN clients' : clients'[i] = o
    BY <2>1, <2>3, <2>8 DEF Remembers
  <2> QED
    BY <2>1, <2>4, <2>5, <2>6, <2>7, <2>8 DEF Remembers
<1>4. ASSUME NEW c \in Clients, RegisterPush(c) PROVE Remembers'
  <2>1. /\ clients' = Append(clients, c) /\ next_rid' = next_rid /\ first' = first
        /\ req' = [req EXCEPT ![c] = "answered"] /\ req[c] = "counted" /\ pc' = pc
        /\ starts' = starts /\ master' = master /\ req'[c] = "answered"
        /\ clients \in Seq(Clients) /\ Entered(c)' /\ first[c] \in Nat
    BY <1>4 DEF RegisterPush, clientVars, TypeOK, RangesInv, Pending, Entered
  <2>2. \A o \in Clients : /\ Waits(o)' = Waits(o) /\ Records(o)' = Records(o)
                           /\ o # c => req'[o] = req[o]
    BY <2>1 DEF Waits, Records, TypeOK
  <2>3. /\ DOMAIN clients' = 1 .. Len(clients) + 1 /\ DOMAIN clients = 1 .. Len(clients)
        /\ clients'[Len(clients) + 1] = c /\ Len(clients) \in Nat
        /\ \A i \in DOMAIN clients : clients'[i] = clients[i] /\ i \in DOMAIN clients'
    BY <2>1
  <2>4. starts # 0 /\ master # "down"
    BY <2>1 DEF Remembers, Waits
  <2>5. ASSUME starts' <= 1, NEW o \in Clients, Entered(o)'
        PROVE  \E i \in DOMAIN clients' : clients'[i] = o
    <3>1. CASE o = c
      BY <2>3, <3>1
    <3>2. CASE o # c
      <4>1. Entered(o)
        BY <2>1, <2>2, <2>5, <3>2 DEF Entered
      <4>2. PICK i \in DOMAIN clients : clients[i] = o
        BY <2>1, <2>4, <2>5, <4>1 DEF Remembers
      <4> QED
        BY <2>3, <4>2
    <3> QED
      BY <3>1, <3>2
  <2>6. ASSUME starts' <= 1, NEW rid \in 0 .. next_rid' - 1
        PROVE  \E o \in Clients : (Entered(o)' \/ req'[o] = "counted") /\ rid \in Records(o)'
    <3>1. PICK o \in Clients : (Entered(o) \/ req[o] = "counted") /\ rid \in Records(o)
      BY <2>1, <2>4, <2>6 DEF Remembers
    <3> QED
      BY <1>1, <2>1, <2>2, <3>1
  <2>7. \A o \in Clients : Waits(o)' \/ first'[o] \in Nat
    BY <2>1, <2>2 DEF Remembers
  <2>8. \A o \in Clients : starts <= 1 => req'[o] # "broken"
    BY <2>1, <2>2, <2>4 DEF Remembers
  <2> QED
    BY <2>1, <2>4, <2>5, <2>6, <2>7, <2>8 DEF Remembers
<1>5. CASE MasterStart
  <2>1. /\ master' = "serving" /\ starts' = starts + 1 /\ next_rid' = next_rid
        /\ clients' = clients /\ first' = first /\ req' = req /\ pc' = pc /\ starts \in Nat
    BY <1>5, PlansAssumption DEF MasterStart, clientVars, TypeOK
  <2>2. \A o \in Clients : (Waits(o)' <=> Waits(o)) /\ (Entered(o)' <=> Entered(o))
    BY <2>1 DEF Waits, Entered
  <2>3. \A o \in Clients : Waits(o) => ~Entered(o) /\ req[o] # "broken"
    BY DEF Waits, Entered
  <2>4. ASSUME starts = 0
        PROVE  next_rid' = 0 /\ \A o \in Clients : ~Entered(o)' /\ req'[o] # "broken"
    BY <2>1, <2>2, <2>3, <2>4 DEF Remembers
  <2>5. \A rid \in 0 .. 0 - 1 : FALSE
    OBVIOUS
  <2> QED
    BY <2>1, <2>2, <2>4, <2>5 DEF Remembers
<1>6. CASE MasterCrash
  <2>1. /\ master' = "down" /\ first' = first /\ pc' = pc /\ starts' = starts /\ master # "down"
        /\ \A o \in Clients : req'[o] = IF req[o] = "none" THEN "none" ELSE "broken"
    BY <1>6 DEF MasterCrash, clientVars, TypeOK
  <2>2. \A o \in Clients : Waits(o)' = Waits(o)
    BY <2>1 DEF Waits
  <2> QED
    BY <2>1, <2>2 DEF Remembers
<1> QED
  BY <1>2, <1>3, <1>4, <1>5, <1>6

\* A plan holds for a step only if it held before.
LEMMA PlannedBefore ==
    ASSUME RoundsInv, Next, Planned' PROVE Planned /\ Started \subseteq Started'
<1>1. plan' = plan /\ starts' \in {starts, starts + 1} /\ starts \in Nat /\ plan.expect \in Nat
  BY PlansAssumption
     DEF Next, ClientStep, Start, RegisterCount, RegisterPush, Arrive, Reply, Receive,
         LoseReply, WriteRecords, ImportOwners, ReadRecord, FinishWalk, Die, MasterStart,
         MasterCrash, MasterExit, masterVars, RoundsInv, TypeOK
<1>2. Started \subseteq Started'
  <2> SUFFICES ASSUME NEW d \in Clients, pc[d] # "start" PROVE pc'[d] # "start"
    BY DEF Started
  <2>1. pc[d] \in Places /\ pc'[d] \in Places
    BY TypeStep DEF RoundsInv, TypeOK
  <2>2. Level(pc'[d]) \in {Level(pc[d]), Level(pc[d]) + 1}
    BY LevelStep DEF RoundsInv
  <2> QED
    BY <2>1, <2>2 DEF Level, Places, Barriers
<1>3. IsFiniteSet(Started') /\ IsFiniteSet(Started)
  BY FS_Subset, ClientsAssumption DEF Started
<1>4. /\ Cardinality(Started) <= Cardinality(Started') /\ Cardinality(Started) \in Nat
      /\ Cardinality(Started') \in Nat
  BY <1>2, <1>3, FS_Subset, FS_CardinalityType
<1>5. Cardinality(Started') <= plan.expect /\ starts' <= 1
  BY <1>1 DEF Planned, Started
<1>6. Cardinality(Started) <= plan.expect
  BY <1>1, <1>4, <1>5
<1> QED
  BY <1>1, <1>2, <1>5, <1>6 DEF Planned, Started

\* Once the ready barrier of a planned run has released someone, everybody has
\* been started, and there are as many as are expected.
LEMMA AllStarted ==
    ASSUME RoundsInv, Planned, NEW b \in Barriers, NEW c \in Clients, Released(c, b)
    PROVE  Cardinality(Started) = plan.expect
<1>1. Cardinality(Behind(b)) >= plan.expect /\ Behind(b) = Started
  BY EveryoneBehind DEF RoundsInv, Passed
<1>2. IsFiniteSet(Started)
  BY FS_Subset, ClientsAssumption DEF Started
<1>3. Cardinality(Started) \in Nat /\ Cardinality(Started) <= plan.expect /\ plan.expect \in Nat
  BY <1>2, FS_CardinalityType, PlansAssumption DEF Planned, Started, RoundsInv, TypeOK
<1> QED
  BY <1>1, <1>3

\* An answer of the ready barrier is complete: everybody is past the
\* registration, so everybody has been pushed and no id is missing.
LEMMA ReplyComplete ==
    ASSUME RoundsInv, RangesInv, Remembers, Planned, NEW c \in Clients,
           Reply(c), pc[c] = "readying"
    PROVE  /\ {clients[i] : i \in DOMAIN clients} = Started
           /\ Covered(clients) = 0 .. next_rid - 1
<1> USE CountAssumption
<1>1. req[c] = "released" /\ master # "down" /\ starts <= 1
  BY DEF Reply, Remembers, Planned
<1>2. Behind("readying") = Started
  BY <1>1, EveryoneBehind DEF Released, Barriers
<1>3. \A o \in Clients : /\ pc[o] = "start" => Waits(o)
                         /\ req[o] = "counted" => pc[o] = "registering"
  BY DEF RoundsInv, RequestsGood, Waits, Barriers
<1>4. \A o \in Clients : o \in Started => pc[o] \notin {"start", "registering"}
  BY <1>2 DEF Behind, Level
<1>5. \A o \in Clients : o \in Started <=> Entered(o)
  BY <1>3, <1>4 DEF Entered, Waits, Remembers, Started
<1>6. \A o \in Clients : Entered(o) => \E i \in DOMAIN clients : clients[i] = o
  BY <1>1 DEF Remembers
<1>7. \A i \in DOMAIN clients : clients[i] \in Clients /\ Entered(clients[i])
  BY DEF RangesInv, Disjoint, RoundsInv, TypeOK
<1>8. {clients[i] : i \in DOMAIN clients} = Started
  BY <1>5, <1>6, <1>7 DEF Started
<1>9. ASSUME NEW rid \in 0 .. next_rid - 1 PROVE rid \in Covered(clients)
  <2>1. PICK o \in Clients : (Entered(o) \/ req[o] = "counted") /\ rid \in Records(o)
    BY <1>1 DEF Remembers
  <2>2. Entered(o)
    BY <1>3, <1>4, <2>1 DEF Started
  <2> QED
    BY <1>6, <2>1, <2>2 DEF Covered
<1>10. ASSUME NEW i \in DOMAIN clients PROVE Records(clients[i]) \subseteq 0 .. next_rid - 1
  <2>1. /\ first[clients[i]] \in Nat /\ Count[clients[i]] \in Nat /\ next_rid \in Nat
        /\ first[clients[i]] + Count[clients[i]] <= next_rid
    BY <1>7 DEF Entered, RangesInv, RoundsInv, TypeOK
  <2> QED
    BY <2>1 DEF Records
<1>11. Covered(clients) \subseteq 0 .. next_rid - 1
  BY <1>10 DEF Covered
<1> QED
  BY <1>8, <1>9, <1>11

LEMMA DirectoryStep ==
    ASSUME RoundsInv, RangesInv, Remembers, DirectoryInv, Next PROVE DirectoryInv'
<1> SUFFICES ASSUME Planned', NEW c \in Clients, Answered(c)' PROVE Complete(c)'
  BY DEF DirectoryInv
<1>1. Planned /\ Started \subseteq Started' /\ plan' = plan
  <2>1. plan' = plan
    BY DEF Next, ClientStep, Start, RegisterCount, RegisterPush, Arrive, Reply, Receive,
           LoseReply, WriteRecords, ImportOwners, ReadRecord, FinishWalk, Die, MasterStart,
           MasterCrash, MasterExit
  <2> QED
    BY <2>1, PlannedBefore
<1>2. pc[c] \in Places /\ pc'[c] \in Places /\ req[c] \in Stages
  BY TypeStep DEF RoundsInv, TypeOK
<1>3. /\ clients \in Seq(Clients) /\ dir[c] \in Seq(Clients) /\ next_rid \in Nat
      /\ \A o \in Clients : Entered(o) => first'[o] = first[o]
  BY EnteredStays DEF RoundsInv, TypeOK
<1>4. ASSUME Released(c, "readying") PROVE Started' = Started
  <2>1. Cardinality(Started) = plan.expect
    BY <1>1, <1>4, AllStarted DEF Barriers
  <2>2. IsFiniteSet(Started')
    BY FS_Subset, ClientsAssumption DEF Started
  <2>3. Cardinality(Started') <= plan.expect
    BY <1>1 DEF Planned, Started
  <2>4. /\ IsFiniteSet(Started) /\ Cardinality(Started) <= Cardinality(Started')
        /\ Cardinality(Started) = Cardinality(Started') => Started = Started'
    BY <1>1, <2>2, FS_Subset
  <2>5. Cardinality(Started') \in Nat /\ plan.expect \in Nat
    BY <2>2, FS_CardinalityType, PlansAssumption DEF RoundsInv, TypeOK
  <2> QED
    BY <2>1, <2>3, <2>4, <2>5
<1>5. CASE Answered(c)
  <2>1. Released(c, "readying")
    BY <1>2, <1>5 DEF Answered, Released, Level, Places, Barriers
  <2>2. dir'[c] = dir[c]
    <3>1. ASSUME NEW d \in Clients, Reply(d) PROVE dir'[c] = dir[c]
      <4>1. req[d] = "released" /\ (pc[d] = "readying" => dir' = [dir EXCEPT ![d] = clients])
            /\ (pc[d] # "readying" => dir' = dir)
        BY <3>1 DEF Reply
      <4>2. pc[d] = "readying" => d # c
        BY <1>5, <4>1 DEF Answered, Level
      <4> QED
        BY <4>1, <4>2 DEF RoundsInv, TypeOK
    <3>2. ASSUME NEW d \in Clients,
                 \/ Start(d) \/ RegisterCount(d) \/ RegisterPush(d) \/ Arrive(d) \/ Receive(d)
                 \/ LoseReply(d) \/ WriteRecords(d) \/ ImportOwners(d) \/ ReadRecord(d)
                 \/ FinishWalk(d) \/ Die(d)
          PROVE  dir' = dir
      BY <3>2 DEF Start, RegisterCount, RegisterPush, Arrive, Receive, LoseReply, WriteRecords,
                  ImportOwners, ReadRecord, FinishWalk, Die, masterVars
    <3>3. ASSUME MasterStart \/ MasterCrash \/ MasterExit PROVE dir' = dir
      BY <3>3 DEF MasterStart, MasterCrash, MasterExit
    <3> QED
      BY <3>1, <3>2, <3>3 DEF Next, ClientStep
  <2>3. Complete(c)
    BY <1>1, <1>5 DEF DirectoryInv
  <2>4. \A i \in DOMAIN dir[c] : Records(dir[c][i])' = Records(dir[c][i])
    <3>1. \A i \in DOMAIN dir[c] : dir[c][i] \in Clients /\ Entered(dir[c][i])
      BY <1>3 DEF RangesInv, Disjoint
    <3> QED
      BY <1>3, <2>2, <3>1 DEF Records
  <2>5. Owners(c)' = Owners(c) /\ Covered(dir[c])' = Covered(dir[c])
    BY <2>2, <2>4 DEF Owners, Covered
  <2> QED
    BY <1>4, <2>1, <2>3, <2>5 DEF Complete
<1>6. CASE ~Answered(c)
  <2>1. Reply(c) /\ pc[c] = "readying"
    <3>1. /\ req[c] = "answered" => pc[c] \in {"registering", "readying", "finishing"}
          /\ pc[c] = "writing" => req[c] = "none"
          /\ req[c] = "counted" => pc[c] = "registering"
      BY DEF RoundsInv, RequestsGood, Barriers
    <3>2. \/ pc'[c] = pc[c]
          \/ pc[c] = "start" /\ pc'[c] = "registering"
          \/ pc[c] = "writing" /\ pc'[c] = "readying" /\ req' = req
          \/ pc[c] = "importing" \/ pc[c] = "reading"
          \/ req[c] = "answered" /\ pc'[c] = NextPlace(pc[c])
      BY PlacesStep DEF RoundsInv, TypeOK
    <3>3. pc'[c] = "readying" /\ req'[c] = "answered" /\ pc[c] = "readying"
      <4>1. pc[c] \notin {"importing", "reading", "finishing", "exit"}
        BY <1>6 DEF Answered, Level
      <4>2. ~(pc[c] = "readying" /\ req[c] = "answered")
        BY <1>6 DEF Answered
      <4>3. \/ pc'[c] = pc[c]
            \/ pc'[c] = "registering"
            \/ pc'[c] = "readying" /\ pc[c] = "writing" /\ req'[c] = "none"
            \/ pc'[c] = "writing"
        BY <3>1, <3>2, <4>1, <4>2 DEF NextPlace
      <4>4. pc'[c] \in {"start", "registering", "writing", "readying"}
        BY <1>2, <4>1, <4>3 DEF Places, Barriers
      <4>5. ~(Level(pc'[c]) >= 3)
        BY <4>4 DEF Level
      <4>6. pc'[c] = "readying" /\ req'[c] = "answered"
        BY <4>5 DEF Answered
      <4> QED
        BY <4>3, <4>6
    <3>4. req[c] # "answered"
      BY <1>6, <3>3 DEF Answered
    <3>5. ASSUME NEW d \in Clients,
                 \/ Start(d) \/ LoseReply(d) \/ WriteRecords(d) \/ ImportOwners(d)
                 \/ ReadRecord(d) \/ FinishWalk(d) \/ Die(d) \/ MasterStart \/ MasterExit
          PROVE  req' = req
      BY <3>5 DEF Start, LoseReply, WriteRecords, ImportOwners, ReadRecord, FinishWalk, Die,
                  MasterStart, MasterExit
    <3>6. ASSUME NEW d \in Clients, RegisterCount(d) \/ Arrive(d) \/ Receive(d) PROVE FALSE
      BY <3>3, <3>4, <3>6 DEF RegisterCount, Arrive, Receive, RoundsInv, TypeOK
    <3>7. ASSUME NEW d \in Clients, RegisterPush(d) PROVE FALSE
      BY <3>1, <3>3, <3>4, <3>7 DEF RegisterPush, RoundsInv, TypeOK
    <3>8. ASSUME MasterCrash PROVE FALSE
      BY <3>3, <3>8 DEF MasterCrash
    <3>9. ASSUME NEW d \in Clients, Reply(d) PROVE d = c
      BY <3>3, <3>4, <3>9 DEF Reply, RoundsInv, TypeOK
    <3> QED
      BY <3>3, <3>4, <3>5, <3>6, <3>7, <3>8, <3>9 DEF Next, ClientStep
  <2>2. /\ {clients[i] : i \in DOMAIN clients} = Started
        /\ Covered(clients) = 0 .. next_rid - 1
    BY <1>1, <2>1, ReplyComplete
  <2>3. dir'[c] = clients /\ first' = first /\ Released(c, "readying")
    BY <2>1 DEF Reply, RoundsInv, TypeOK, Released
  <2>4. Owners(c)' = Started /\ Covered(dir[c])' = Covered(clients)
    BY <2>2, <2>3 DEF Owners, Covered, Records
  <2> QED
    BY <1>3, <1>4, <2>2, <2>3, <2>4 DEF Complete
<1> QED
  BY <1>5, <1>6

\* The sum of the counts is the number of ids, as no id is counted twice.
LEMMA TotalIsCovered ==
    ASSUME NEW owners \in Seq(Clients), Disjoint(owners), NEW n \in Nat,
           Covered(owners) = 0 .. n - 1
    PROVE  Total(owners) = n
<1> DEFINE D == DOMAIN owners
           f == [i \in D |-> Count[owners[i]]]
           U(s) == UNION {Records(owners[i]) : i \in s}
           g == [s \in SUBSET D |-> Cardinality(U(s))]
<1>1. IsFiniteSet(D) /\ DOMAIN f = D
  BY FS_Interval
<1>2. \A i \in D : /\ owners[i] \in Clients /\ first[owners[i]] \in Nat
                   /\ Count[owners[i]] \in Nat \ {0}
  BY CountAssumption DEF Disjoint, Entered
<1>3. \A i \in D : /\ IsFiniteSet(Records(owners[i]))
                   /\ Cardinality(Records(owners[i])) = Count[owners[i]]
  <2> SUFFICES ASSUME NEW i \in D
               PROVE  /\ IsFiniteSet(Records(owners[i]))
                      /\ Cardinality(Records(owners[i])) = Count[owners[i]]
    OBVIOUS
  <2> DEFINE a == first[owners[i]]
             b == first[owners[i]] + Count[owners[i]] - 1
  <2>1. a \in Int /\ b \in Int /\ b - a + 1 = Count[owners[i]] /\ ~(a > b)
    <3>1. first[owners[i]] \in Nat /\ Count[owners[i]] \in Nat \ {0}
      BY <1>2
    <3> HIDE DEF f, g, U
    <3> QED
      BY <3>1
  <2>2. Records(owners[i]) = a .. b
    BY DEF Records
  <2> HIDE DEF a, b
  <2> QED
    BY <2>1, <2>2, FS_Interval
<1>4. \A i, j \in D : i # j => Records(owners[i]) \cap Records(owners[j]) = {}
  <2> SUFFICES ASSUME NEW i \in D, NEW j \in D, i # j
               PROVE  Records(owners[i]) \cap Records(owners[j]) = {}
    OBVIOUS
  <2> QED
    BY <1>2, ApartRecords DEF Disjoint
<1>5. \A s \in SUBSET D : IsFiniteSet(U(s)) /\ Cardinality(U(s)) \in Nat
  <2> SUFFICES ASSUME NEW s \in SUBSET D PROVE IsFiniteSet(U(s))
    BY FS_CardinalityType
  <2>1. U(s) \subseteq 0 .. n - 1 /\ IsFiniteSet(0 .. n - 1)
    BY FS_Interval DEF Covered
  <2> QED
    BY <2>1, FS_Subset
<1>6. ASSUME NEW s \in SUBSET D PROVE g[s] = SumStep(f, g, s)
  <2>1. CASE s = {}
    <3>1. U({}) = {} /\ g[{}] = Cardinality(U({}))
      OBVIOUS
    <3> QED
      BY <2>1, <3>1, FS_EmptySet DEF SumStep
  <2>2. CASE s # {}
    <3> DEFINE x == SomeOf(s)
               t == s \ {x}
    <3>1. x \in s /\ x \in D /\ t \in SUBSET D
      BY <2>2 DEF SomeOf
    <3>2. U(s) = U(t) \cup Records(owners[x])
      BY <3>1
    <3>3. U(t) \cap Records(owners[x]) = {}
      BY <1>4, <3>1
    <3>4. Cardinality(U(s)) = Cardinality(U(t)) + Count[owners[x]]
      <4>1. IsFiniteSet(U(t)) /\ IsFiniteSet(Records(owners[x])) /\ Cardinality(U(t)) \in Nat
            /\ Cardinality(Records(owners[x])) = Count[owners[x]] /\ Count[owners[x]] \in Nat
        BY <1>2, <1>3, <1>5, <3>1
      <4> HIDE DEF U, t, x
      <4>2. Cardinality(U(t) \cup Records(owners[x])) =
                Cardinality(U(t)) + Cardinality(Records(owners[x]))
                    - Cardinality(U(t) \cap Records(owners[x]))
        BY <4>1, FS_Union
      <4> QED
        <5>1. Cardinality(U(t) \cap Records(owners[x])) = 0
          BY <3>3, FS_EmptySet
        <5> QED
          BY <3>2, <4>1, <4>2, <5>1
    <3>5. g[s] = Cardinality(U(s)) /\ g[t] = Cardinality(U(t)) /\ f[x] = Count[owners[x]]
      BY <3>1
    <3>6. Cardinality(U(t)) \in Nat /\ Count[owners[x]] \in Nat
      BY <1>2, <1>5, <3>1
    <3>7. g[s] = f[x] + g[t]
      <4> HIDE DEF U, t, x, f, g
      <4> QED
        BY <3>4, <3>5, <3>6
    <3> HIDE DEF g, f, U
    <3> QED
      BY <2>2, <3>7 DEF SumStep
  <2> QED
    BY <2>1, <2>2
<1>7. g = [s \in SUBSET (DOMAIN f) |-> SumStep(f, g, s)]
  <2>1. g = [s \in SUBSET D |-> g[s]]
    OBVIOUS
  <2> HIDE DEF g, f
  <2> QED
    BY <1>1, <1>6, <2>1
<1>8. SumFunction(f) = g[D]
  <2> HIDE DEF g, f
  <2> QED
    BY <1>1, <1>7, SumByParts
<1>9. g[D] = Cardinality(0 .. n - 1)
  BY DEF Covered
<1>10. Cardinality(0 .. n - 1) = n
  BY FS_Interval
<1> QED
  BY <1>8, <1>9, <1>10 DEF Total

LEMMA DirectoryInductive == Spec => [](RoundsInv /\ RangesInv /\ Remembers /\ DirectoryInv)
<1>1. Init => Remembers /\ DirectoryInv
  <2> SUFFICES ASSUME Init PROVE Remembers /\ DirectoryInv
    OBVIOUS
  <2>1. \A c \in Clients : Waits(c) /\ pc[c] = "start" /\ req[c] = "none"
    BY DEF Init, Waits
  <2>2. Remembers
    BY <2>1 DEF Init, Remembers
  <2>3. \A c \in Clients : ~Answered(c)
    BY <2>1 DEF Answered, Level
  <2> QED
    BY <2>2, <2>3 DEF DirectoryInv
<1>2. RoundsInv /\ RangesInv /\ Remembers /\ DirectoryInv /\ [Next]_vars
      => Remembers' /\ DirectoryInv'
  <2>1. ASSUME RoundsInv, RangesInv, Remembers, DirectoryInv, Next
        PROVE  Remembers' /\ DirectoryInv'
    BY <2>1, RemembersStep, DirectoryStep
  <2>2. ASSUME Remembers, DirectoryInv, UNCHANGED vars PROVE Remembers' /\ DirectoryInv'
    <3>1. Remembers'
      BY <2>2 DEF vars, Remembers, Entered, Waits, Records
    <3>2. DirectoryInv'
      BY <2>2 DEF vars, DirectoryInv, Planned, Answered, Complete, Owners, Covered, Records,
                  Started
    <3> QED
      BY <3>1, <3>2
  <2> QED
    BY <2>1, <2>2
<1> QED
  BY <1>1, <1>2, RangesInductive, PTL DEF Spec

\* Every record of a complete directory has one entry.
LEMMA OneHolder ==
    ASSUME RoundsInv, RangesInv, NEW c \in Clients, Complete(c),
           NEW rid \in 0 .. Total(dir[c]) - 1
    PROVE  \E i \in DOMAIN dir[c] : HoldersOf(c, rid) = {i}
<1>1. /\ dir[c] \in Seq(Clients) /\ Disjoint(dir[c])
      /\ \A i \in DOMAIN dir[c] : dir[c][i] \in Clients
  BY DEF RoundsInv, TypeOK, RangesInv
<1>2. PICK n \in Nat : Covered(dir[c]) = 0 .. n - 1
  BY DEF Complete
<1>3. Total(dir[c]) = n
  BY <1>1, <1>2, TotalIsCovered
<1>4. PICK i \in DOMAIN dir[c] : rid \in Records(dir[c][i])
  BY <1>2, <1>3 DEF Covered
<1>5. ASSUME NEW j \in DOMAIN dir[c], rid \in Records(dir[c][j]) PROVE j = i
  BY <1>1, <1>4, <1>5, ApartRecords DEF Disjoint, Entered
<1> QED
  BY <1>4, <1>5 DEF HoldersOf

LEMMA OwnersMany ==
    ASSUME RoundsInv, RangesInv, NEW c \in Clients
    PROVE  Len(dir[c]) = Cardinality(Owners(c))
<1> DEFINE d == dir[c]
           D == 1 .. Len(dir[c])
<1>1. /\ d \in Seq(Clients) /\ DOMAIN d = D /\ Len(d) \in Nat
      /\ \A i \in D : d[i] \in Clients
  BY DEF RoundsInv, TypeOK
<1>2. \A i, j \in D : i # j => d[i] # d[j]
  <2>1. Disjoint(d)
    BY DEF RangesInv
  <2> HIDE DEF d, D
  <2>2. \A i \in D : first[d[i]] \in Nat /\ Count[d[i]] \in Nat \ {0}
    BY <1>1, <2>1, CountAssumption DEF Disjoint, Entered
  <2>3. ASSUME NEW i \in D, NEW j \in D, i # j, d[i] = d[j] PROVE FALSE
    <3>1. Apart(d[i], d[i])
      BY <1>1, <2>1, <2>3 DEF Disjoint
    <3> QED
      BY <2>2, <3>1 DEF Apart
  <2> QED
    BY <2>3
<1>3. d \in [D -> Owners(c)]
  BY <1>1 DEF Owners
<1>4. d \in Surjection(D, Owners(c))
  BY <1>1, <1>3, Fun_IsSurj DEF Owners
<1>5. d \in Injection(D, Owners(c))
  BY <1>2, <1>3, Fun_IsInj
<1>6. IsFiniteSet(D) /\ Cardinality(D) = Len(d)
  <2>1. 1 \in Int /\ Len(d) \in Int
    BY <1>1
  <2>2. /\ IsFiniteSet(1 .. Len(d))
        /\ Cardinality(1 .. Len(d)) = IF 1 > Len(d) THEN 0 ELSE Len(d) - 1 + 1
    BY <2>1, FS_Interval
  <2> QED
    BY <1>1, <2>2
<1> QED
  BY <1>4, <1>5, <1>6, FS_Surjection

\* In a planned run (one start of the master, no more clients than it expects)
\* a client that leaves the ready barrier has every client in its directory,
\* once, and one owner for every record the walk goes over.
THEOREM DirectoryIsComplete == Spec => []DirectoryCovers
<1>1. RoundsInv /\ RangesInv /\ DirectoryInv => DirectoryCovers
  <2> SUFFICES ASSUME RoundsInv, RangesInv, DirectoryInv, Planned, NEW c \in Clients,
                      pc[c] \in {"importing", "reading", "finishing"}
               PROVE  /\ Owners(c) = Started
                      /\ Len(dir[c]) = plan.expect
                      /\ \A rid \in 0 .. Total(dir[c]) - 1 : Cardinality(HoldersOf(c, rid)) = 1
    BY DEF DirectoryCovers, Started
  <2>1. Answered(c) /\ Released(c, "readying")
    BY DEF Answered, Released, Level
  <2>2. Complete(c)
    BY <2>1 DEF DirectoryInv
  <2>3. Len(dir[c]) = plan.expect
    BY <2>1, <2>2, AllStarted, OwnersMany DEF Complete, Barriers
  <2>4. ASSUME NEW rid \in 0 .. Total(dir[c]) - 1 PROVE Cardinality(HoldersOf(c, rid)) = 1
    <3>1. PICK i \in DOMAIN dir[c] : HoldersOf(c, rid) = {i}
      BY <2>2, OneHolder
    <3> QED
      BY <3>1, FS_Singleton
  <2> QED
    BY <2>2, <2>3, <2>4 DEF Complete
<1> QED
  BY <1>1, DirectoryInductive, PTL

\* What the barriers protect: as long as nobody is killed and the master stays,
\* no client of a planned run ends with an error, by a request, an import or a
\* READ.
THEOREM ErrorsNeedAFault == Spec => []FailsOnlyByFault
<1> DEFINE Inv == RoundsInv /\ RangesInv /\ Remembers /\ DirectoryInv
<1>1. Init => FailsOnlyByFault
  BY DEF Init, FailsOnlyByFault
<1>2. Inv /\ MemoryOutlivesReaders /\ FailsOnlyByFault /\ [Next]_vars => FailsOnlyByFault'
  <2> SUFFICES ASSUME Inv, MemoryOutlivesReaders, FailsOnlyByFault, [Next]_vars, Calm'
               PROVE  dead' = {}
    BY DEF FailsOnlyByFault
  <2>1. CASE UNCHANGED vars
    BY <2>1 DEF vars, FailsOnlyByFault, Calm, Planned
  <2>2. CASE Next
    <3>1. Planned
      BY <2>2, PlannedBefore DEF Calm
    <3>2. kills = 0 /\ (starts = 1 => master # "down") /\ \A c \in Clients : ~Die(c)
      <4>1. kills' = 0 /\ starts' <= 1 /\ (starts' = 1 => master' # "down")
            /\ kills \in Nat /\ starts \in Nat
        BY PlansAssumption DEF Calm, Planned, RoundsInv, TypeOK
      <4>2. \A c \in Clients : ~Die(c)
        BY <4>1 DEF Die
      <4>3. ASSUME NEW c \in Clients,
                   \/ Start(c) \/ RegisterCount(c) \/ RegisterPush(c) \/ Arrive(c) \/ Reply(c)
                   \/ Receive(c) \/ LoseReply(c) \/ WriteRecords(c) \/ ImportOwners(c)
                   \/ ReadRecord(c) \/ FinishWalk(c)
            PROVE  kills' = kills /\ starts' = starts /\ (master' = master \/ master # "down")
        BY <4>3 DEF Start, RegisterCount, RegisterPush, Arrive, Requests, Reply, Receive,
                    LoseReply, WriteRecords, ImportOwners, ReadRecord, FinishWalk, masterVars
      <4>4. ASSUME MasterCrash \/ MasterExit
            PROVE  kills' = kills /\ starts' = starts /\ master # "down"
        BY <4>4 DEF MasterCrash, MasterExit
      <4>5. ASSUME MasterStart PROVE kills' = kills /\ starts # 1
        BY <4>1, <4>5 DEF MasterStart
      <4> QED
        BY <2>2, <4>1, <4>2, <4>3, <4>4, <4>5 DEF Next, ClientStep
    <3>3. dead = {}
      BY <3>1, <3>2 DEF FailsOnlyByFault, Calm
    <3>4. ASSUME NEW c \in Clients, LoseReply(c) PROVE FALSE
      <4>1. req[c] = "broken" /\ starts \in Nat /\ starts <= 1 /\ ~Waits(c)
        BY <3>1, <3>4, PlansAssumption DEF LoseReply, Planned, RoundsInv, TypeOK, Waits
      <4> QED
        BY <3>2, <4>1 DEF Remembers
    <3>5. ASSUME NEW c \in Clients, ImportOwners(c) PROVE dead' = dead
      <4>1. pc[c] = "importing" /\ Alive(c)
        BY <3>5 DEF ImportOwners
      <4>2. \A o \in Owners(c) : o \in Clients /\ Mem(o) = "written"
        BY <3>1, <3>3, <4>1 DEF MemoryOutlivesReaders, Owners, Alive, RoundsInv, TypeOK
      <4>3. ~ImportMayFail(c)
        BY <4>2 DEF ImportMayFail
      <4> QED
        BY <3>5, <4>3 DEF ImportOwners, Goto
    <3>6. ASSUME NEW c \in Clients, ReadRecord(c) PROVE dead' = dead
      <4>1. pc[c] = "reading" /\ Alive(c) /\ Complete(c) /\ at[c] \in Nat
        BY <3>1, <3>6 DEF ReadRecord, DirectoryInv, Answered, Level, RoundsInv, TypeOK
      <4>2. PICK rid \in ToFetch(c) : UNCHANGED dead \/ ReadMayFail(c, rid)
        BY <3>6 DEF ReadRecord
      <4>3. rid \in at[c] .. Total(dir[c]) - 1
        BY DEF ToFetch
      <4>4. rid \in 0 .. Total(dir[c]) - 1
        BY <4>1, <4>3
      <4>5. PICK i \in DOMAIN dir[c] : HoldersOf(c, rid) = {i}
        BY <4>1, <4>4, OneHolder
      <4>6. OwnerOf(c, rid) = dir[c][i]
        <5>1. i \in Nat
          BY DEF RoundsInv, TypeOK
        <5>2. \E k \in HoldersOf(c, rid) : \A j \in HoldersOf(c, rid) : k <= j
          BY <4>5, <5>1
        <5>3. (CHOOSE k \in HoldersOf(c, rid) : \A j \in HoldersOf(c, rid) : k <= j)
                  \in HoldersOf(c, rid)
          BY <5>2
        <5> QED
          BY <4>5, <5>3 DEF OwnerOf
      <4>7. Mem(OwnerOf(c, rid)) = "written"
        BY <3>1, <3>3, <4>1, <4>6 DEF MemoryOutlivesReaders, Owners, Alive, RoundsInv, TypeOK
      <4>8. ~ReadMayFail(c, rid)
        BY <4>5, <4>7 DEF ReadMayFail
      <4> QED
        BY <4>2, <4>8
    <3>7. ASSUME NEW c \in Clients,
                 \/ Start(c) \/ RegisterCount(c) \/ RegisterPush(c) \/ Arrive(c) \/ Reply(c)
                 \/ Receive(c) \/ WriteRecords(c) \/ FinishWalk(c)
          PROVE  dead' = dead
      BY <3>7 DEF Start, RegisterCount, RegisterPush, Arrive, Reply, Receive, WriteRecords,
                  FinishWalk, clientVars, Goto
    <3>8. ASSUME MasterStart \/ MasterCrash \/ MasterExit PROVE dead' = dead
      BY <3>8 DEF MasterStart, MasterCrash, MasterExit, clientVars
    <3> QED
      BY <2>2, <3>2, <3>3, <3>4, <3>5, <3>6, <3>7, <3>8 DEF Next, ClientStep
  <2> QED
    BY <2>1, <2>2
<1> QED
  BY <1>1, <1>2, DirectoryInductive, MemoryStaysForReaders, PTL DEF Spec
===============================================================================
