----------------------- MODULE UrmaResourcesProofs -----------------------
(***************************************************************************)
(* For any number of threads, handles and allocations, with constructors   *)
(* that may fail at every C call: callers that keep to the documented      *)
(* priorities and give Jetty::new a CQ of its own context never see a C    *)
(* object outlive one it was created from, leak one or delete one twice,   *)
(* or lose the library before their thread ends.                           *)
(*                                                                         *)
(* ParentsOutlive is not inductive.  The strengthening says what the       *)
(* ownership graph looks like (Structure), what a constructor under way    *)
(* may rely on (MakesGood), and that the C objects and what they were      *)
(* created from follow from the two (Mirror).                              *)
(***************************************************************************)
EXTENDS UrmaResources, TLAPS

\* What the callers of the layer do: every example passes --priority 0..=15
\* or a slot of the device, and the context its CQ was made from.
CallersConform == /\ ~MixContexts
                  /\ \A p \in Priorities : p <= MaxPriority

-----------------------------------------------------------------------------
(* The ownership graph. *)

StateType ==
    /\ node \in [Nodes -> [kind   : Kinds \cup {"free", "abandoned"},
                           thread : Threads \cup {None},
                           keeps  : Nodes \cup {None}]]
    /\ own \in [Handles -> Nodes \cup {None}]
    /\ cache \in [Threads -> Nodes \cup {None}]
    /\ exited \in [Threads -> BOOLEAN]
    /\ make \in [Threads -> [kind  : Kinds \cup {"none"},
                             node  : Nodes \cup {None},
                             to    : Handles \cup {None},
                             ctx   : Nodes \cup {None},
                             keeps : Nodes \cup {None},
                             undo  : 0..2]]
    /\ drop \in [Threads -> [node : Nodes \cup {None}, at : 1..3]]

\* A node of kind k may keep node p of thread t alive.
GoodParent(k, p, t) ==
    /\ k \in Kinds
    /\ k = "urma" => p = None
    /\ k # "urma" => p \in Nodes /\ node[p].thread = t
    /\ k \in {"context"} => node[p].kind = "urma"
    /\ k \in {"cq", "seg", "buf", "peer"} => node[p].kind = "context"
    /\ k = "jetty" => node[p].kind = "cq"

NodesGood ==
    \A n \in Nodes :
        \/ node[n] = Free
        \/ /\ node[n].thread \in Threads
           /\ GoodParent(node[n].kind, node[n].keeps, node[n].thread)

RefsGood ==
    /\ \A h \in Handles : own[h] # None => node[own[h]] # Free
    /\ \A t \in Threads : cache[t] # None => /\ node[cache[t]].kind = "urma"
                                             /\ node[cache[t]].thread = t

DropsGood ==
    \A t \in Threads :
        drop[t].node # None =>
            /\ node[drop[t].node].thread = t
            /\ ~Owned(drop[t].node)

\* The context that a constructor of kind k which keeps p was given.
GoodContext(k, c, p) ==
    /\ k \in {"cq", "seg", "buf", "peer"} => c = p
    /\ k = "jetty" => c = node[p].keeps

\* The constructor t is in has a slot and a handle of its own, and what its
\* value will keep stays owned: t, whose handle it borrows, is busy.
MakeGood(t) ==
    /\ make[t].node \in Nodes /\ node[make[t].node] = Free
    /\ \A s \in Threads : make[s].node = make[t].node => s = t
    /\ make[t].to # None => /\ own[make[t].to] = None
                            /\ \A s \in Threads : make[s].to = make[t].to => s = t
    /\ make[t].to = None => make[t].kind = "urma"
    /\ make[t].kind = "urma" => cache[t] = None
    /\ GoodParent(make[t].kind, make[t].keeps, t)
    /\ make[t].keeps # None => Owned(make[t].keeps)
    /\ GoodContext(make[t].kind, make[t].ctx, make[t].keeps)
    /\ drop[t] = NoDrop
    /\ ~exited[t]

MakesGood == \A t \in Threads : make[t] = NoMake \/ MakeGood(t)

Structure == StateType /\ NodesGood /\ RefsGood /\ DropsGood /\ MakesGood

-----------------------------------------------------------------------------
(* The C objects mirror the graph. *)

\* How far the destructor of n has got: 1 if it is not running.
At(n) == IF node[n].thread # None /\ drop[node[n].thread].node = n
         THEN drop[node[n].thread].at ELSE 1

\* A node of kind k whose destructor is at its a-th call still has object o.
Has(k, a, o) ==
    \/ k = "urma" /\ o = "lib" /\ a = 1
    \/ k = "context" /\ o = "ctx" /\ a = 1
    \/ k = "cq" /\ ((o = "jfc" /\ a = 1) \/ (o = "jfce" /\ a <= 2))
    \/ k = "jetty" /\ ((o = "jetty" /\ a = 1) \/ (o = "jfr" /\ a <= 2))
    \/ k \in {"seg", "buf"} /\ o = "tseg" /\ a = 1
    \/ k = "buf" /\ o = "mem"
    \/ k = "peer" /\ ((o = "tjetty" /\ a = 1) \/ (o = "iseg" /\ a <= 2))

\* The first call of a constructor of kind k has created object o.
First(k, o) ==
    \/ k = "cq" /\ o = "jfce"
    \/ k = "jetty" /\ o = "jfr"
    \/ k = "buf" /\ o = "mem"
    \/ k = "peer" /\ o = "iseg"

\* A constructor is under way for slot n, and it still has object o.
Making(n, o) == \E t \in Threads : /\ make[t].node = n
                                   /\ First(make[t].kind, o)
                                   /\ make[t].undo <= 1

\* What object o of a node n of kind k that keeps p was created from; c is the
\* context that a CQ p keeps.
From(k, o, n, p, c) ==
    CASE o \in {"lib", "mem"} -> {}
      [] o = "ctx" -> {<<"lib", p>>}
      [] o \in {"jfce", "iseg", "tjetty"} -> {<<"ctx", p>>}
      [] o = "jfc" -> {<<"ctx", p>>, <<"jfce", n>>}
      [] o = "jfr" -> {<<"ctx", c>>, <<"jfc", p>>}
      [] o = "jetty" -> {<<"ctx", c>>, <<"jfc", p>>, <<"jfr", n>>}
      [] o = "tseg" /\ k = "seg" -> {<<"ctx", p>>}
      [] o = "tseg" /\ k # "seg" -> {<<"ctx", p>>, <<"mem", n>>}

LiveGood ==
    /\ live \subseteq Objects
    /\ \A n \in Nodes, o \in ObjKinds :
           <<o, n>> \in live <=> Has(node[n].kind, At(n), o) \/ Making(n, o)

UsesGood ==
    /\ uses = [x \in live |-> uses[x]]
    /\ \A n \in Nodes, o \in ObjKinds :
           <<o, n>> \in live /\ node[n] # Free =>
               uses[<<o, n>>] = From(node[n].kind, o, n, node[n].keeps,
                                     node[node[n].keeps].keeps)
    /\ \A t \in Threads, o \in ObjKinds :
           make[t].kind # "none" /\ <<o, make[t].node>> \in live =>
               uses[<<o, make[t].node>>] =
                   From(make[t].kind, o, make[t].node, make[t].keeps,
                        node[make[t].keeps].keeps)

Mirror == LiveGood /\ UsesGood

IInv == Structure /\ Mirror

-----------------------------------------------------------------------------
(* The steps a constructor begins with. *)

\* Thread t is about to make the last call of a constructor of kind k.
Begins(t, h, k, c, p, made) ==
    /\ Idle(t)
    /\ Begin(t, h, k, c, p, made)
    /\ c \in Nodes \cup {None}
    /\ h # None => Vacant(h)
    /\ h = None => k = "urma"
    /\ k = "urma" => cache[t] = None
    /\ GoodParent(k, p, t)
    /\ p # None => Owned(p)
    /\ GoodContext(k, c, p)
    /\ DOMAIN made = {o \in ObjKinds : First(k, o)}
    /\ \A o \in DOMAIN made, n \in Nodes : made[o] = From(k, o, n, p, node[p].keeps)

\* Thread t gets one more handle of a value it has.
Shares(t, h, n) ==
    /\ Idle(t) /\ Vacant(h)
    /\ Owned(n) /\ node[n] # Free
    /\ own' = [own EXCEPT ![h] = n]
    /\ UNCHANGED <<node, cache, exited, make, drop, uses>>

\* A handle's node is owned by that handle.
LEMMA HeldIsOwned ==
  ASSUME NEW g \in Handles, own[g] # None
  PROVE  Owned(own[g])
  BY DEF Owned, OwnedBy

\* A constructor of a conforming caller shares a value or begins a new one.
LEMMA ConstructCases ==
  ASSUME CallersConform, Structure, NEW t \in Threads, Construct(t)
  PROVE  \/ \E h \in Handles, n \in Nodes : Shares(t, h, n)
         \/ \E h \in Handles \cup {None}, p \in Nodes \cup {None} :
               \E k, c, made : Begins(t, h, k, c, p, made)
<1> USE NoneAssumption, HeldIsOwned
<1> DEFINE ShareCase == \E h \in Handles, n \in Nodes : Shares(t, h, n)
           BeginCase == \E h \in Handles \cup {None}, p \in Nodes \cup {None} :
                            \E k, c, made : Begins(t, h, k, c, p, made)
<1>1. ASSUME NEW h \in Handles \cup {None}, Idle(t), cache[t] = None,
             h # None => Vacant(h), Begin(t, h, "urma", None, None, <<>>)
      PROVE  BeginCase
  <2>1. DOMAIN << >> = {o \in ObjKinds : First("urma", o)}
    BY DEF First
  <2>2. GoodParent("urma", None, t) /\ GoodContext("urma", None, None)
    BY DEF GoodParent, GoodContext, Kinds
  <2>3. Begins(t, h, "urma", None, None, << >>)
    BY <1>1, <2>1, <2>2 DEF Begins
  <2> QED
    BY <2>3
<1>2. ASSUME NEW g \in Handles, NEW o, Holds(t, g, o), o # "free"
      PROVE  /\ own[g] \in Nodes /\ Owned(own[g]) /\ node[own[g]] # Free
             /\ node[own[g]].thread = t /\ node[own[g]].kind = o
  BY <1>2 DEF Holds, Structure, StateType, Free
<1>3. CASE ProbeDevices(t)
  BY <1>1, <1>3 DEF ProbeDevices
<1>4. ASSUME NEW h \in Handles, UrmaInit(t, h) PROVE ShareCase \/ BeginCase
  <2>1. CASE cache[t] = None
    BY <1>1, <1>4, <2>1 DEF UrmaInit
  <2>2. CASE cache[t] # None
    <3>1. cache[t] \in Nodes /\ Owned(cache[t]) /\ node[cache[t]] # Free
      BY <2>2 DEF Structure, StateType, RefsGood, Owned, OwnedBy, Free
    <3>2. Shares(t, h, cache[t])
      BY <1>4, <2>2, <3>1 DEF UrmaInit, Shares
    <3> QED
      BY <3>1, <3>2
  <2> QED
    BY <2>1, <2>2
<1>5. ASSUME NEW h \in Handles, NEW g \in Handles, CloneHandle(t, g, h) PROVE ShareCase
  <2>1. own[g] \in Nodes /\ Owned(own[g]) /\ node[own[g]] # Free
    BY <1>2, <1>5 DEF CloneHandle
  <2>2. Shares(t, h, own[g])
    BY <1>5, <2>1 DEF CloneHandle, Shares
  <2> QED
    BY <2>1, <2>2
<1>6. ASSUME NEW h \in Handles, NEW g \in Handles, ContextCreate(t, g, h) PROVE BeginCase
  <2>1. /\ own[g] \in Nodes /\ Owned(own[g]) /\ node[own[g]].thread = t
        /\ node[own[g]].kind = "urma"
    BY <1>2, <1>6 DEF ContextCreate
  <2>2. DOMAIN << >> = {o \in ObjKinds : First("context", o)}
    BY DEF First
  <2>3. GoodParent("context", own[g], t) /\ GoodContext("context", None, own[g])
    BY <2>1 DEF GoodParent, GoodContext, Kinds
  <2>4. Begins(t, h, "context", None, own[g], << >>)
    BY <1>6, <2>1, <2>2, <2>3 DEF Begins, ContextCreate
  <2> QED
    BY <2>1, <2>4
<1>7. ASSUME NEW h \in Handles, NEW g \in Handles, NEW k \in {"cq", "seg", "buf", "peer"},
             NEW made, Idle(t), Vacant(h), Holds(t, g, "context"),
             Begin(t, h, k, own[g], own[g], made),
             DOMAIN made = {o \in ObjKinds : First(k, o)},
             \A o \in DOMAIN made :
                 \A n \in Nodes : made[o] = From(k, o, n, own[g], node[own[g]].keeps)
      PROVE  BeginCase
  <2>1. /\ own[g] \in Nodes /\ Owned(own[g]) /\ node[own[g]].thread = t
        /\ node[own[g]].kind = "context"
    BY <1>2, <1>7
  <2>2. GoodParent(k, own[g], t) /\ GoodContext(k, own[g], own[g])
    BY <1>7, <2>1 DEF GoodParent, GoodContext, Kinds
  <2>3. Begins(t, h, k, own[g], own[g], made)
    BY <1>7, <2>1, <2>2 DEF Begins
  <2> QED
    BY <2>1, <2>3
<1>8. ASSUME NEW h \in Handles, NEW g \in Handles, CqNew(t, g, h) PROVE BeginCase
  <2> DEFINE made == [jfce |-> {<<"ctx", own[g]>>}]
  <2>1. DOMAIN made = {"jfce"} /\ made["jfce"] = {<<"ctx", own[g]>>}
    OBVIOUS
  <2>2. Idle(t) /\ Vacant(h) /\ Holds(t, g, "context") /\ Begin(t, h, "cq", own[g], own[g], made)
    BY <1>8 DEF CqNew
  <2> HIDE DEF made
  <2>3. DOMAIN made = {o \in ObjKinds : First("cq", o)}
    BY <2>1 DEF First, ObjKinds
  <2>4. \A o \in DOMAIN made :
            \A n \in Nodes : made[o] = From("cq", o, n, own[g], node[own[g]].keeps)
    BY <2>1 DEF From
  <2> QED
    BY <1>7, <2>2, <2>3, <2>4
<1>9. ASSUME NEW h \in Handles, NEW g \in Handles, SegRegister(t, g, h) PROVE BeginCase
  <2>1. DOMAIN << >> = {o \in ObjKinds : First("seg", o)}
    BY DEF First
  <2>2. \A o \in DOMAIN << >> :
            \A n \in Nodes : << >>[o] = From("seg", o, n, own[g], node[own[g]].keeps)
    OBVIOUS
  <2> QED
    BY <1>7, <1>9, <2>1, <2>2 DEF SegRegister
<1>10. ASSUME NEW h \in Handles, NEW g \in Handles, BufNew(t, g, h) PROVE BeginCase
  <2> DEFINE made == [mem |-> {}]
  <2>1. DOMAIN made = {"mem"} /\ made["mem"] = {}
    OBVIOUS
  <2>2. Idle(t) /\ Vacant(h) /\ Holds(t, g, "context") /\ Begin(t, h, "buf", own[g], own[g], made)
    BY <1>10 DEF BufNew
  <2> HIDE DEF made
  <2>3. DOMAIN made = {o \in ObjKinds : First("buf", o)}
    BY <2>1 DEF First, ObjKinds
  <2>4. \A o \in DOMAIN made :
            \A n \in Nodes : made[o] = From("buf", o, n, own[g], node[own[g]].keeps)
    BY <2>1 DEF From
  <2> QED
    BY <1>7, <2>2, <2>3, <2>4
<1>11. ASSUME NEW h \in Handles, NEW g \in Handles, PeerImport(t, g, h) PROVE BeginCase
  <2> DEFINE made == [iseg |-> {<<"ctx", own[g]>>}]
  <2>1. DOMAIN made = {"iseg"} /\ made["iseg"] = {<<"ctx", own[g]>>}
    OBVIOUS
  <2>2. Idle(t) /\ Vacant(h) /\ Holds(t, g, "context") /\ Begin(t, h, "peer", own[g], own[g], made)
    BY <1>11 DEF PeerImport
  <2> HIDE DEF made
  <2>3. DOMAIN made = {o \in ObjKinds : First("peer", o)}
    BY <2>1 DEF First, ObjKinds
  <2>4. \A o \in DOMAIN made :
            \A n \in Nodes : made[o] = From("peer", o, n, own[g], node[own[g]].keeps)
    BY <2>1 DEF From
  <2> QED
    BY <1>7, <2>2, <2>3, <2>4
<1>12. ASSUME NEW h \in Handles, NEW g \in Handles, NEW q \in Handles,
              NEW prio \in Priorities, JettyNew(t, g, q, h, prio)
       PROVE BeginCase
  <2>1. prio <= MaxPriority /\ ~(prio > MaxPriority)
    BY PrioritiesAssumption DEF CallersConform, MaxPriority
  <2> DEFINE made == [jfr |-> {<<"ctx", own[g]>>, <<"jfc", own[q]>>}]
  <2>2. DOMAIN made = {"jfr"} /\ made["jfr"] = {<<"ctx", own[g]>>, <<"jfc", own[q]>>}
    OBVIOUS
  <2>3. /\ Idle(t) /\ Vacant(h) /\ Holds(t, g, "context") /\ Holds(t, q, "cq")
        /\ node[own[q]].keeps = own[g]
        /\ Begin(t, h, "jetty", own[g], own[q], made)
    BY <1>12, <2>1 DEF JettyNew, CallersConform
  <2> HIDE DEF made
  <2>4. /\ own[q] \in Nodes /\ Owned(own[q]) /\ node[own[q]].thread = t
        /\ node[own[q]].kind = "cq" /\ own[g] \in Nodes
    BY <1>2, <2>3
  <2>5. DOMAIN made = {o \in ObjKinds : First("jetty", o)}
    BY <2>2 DEF First, ObjKinds
  <2>6. \A o \in DOMAIN made :
            \A n \in Nodes : made[o] = From("jetty", o, n, own[q], node[own[q]].keeps)
    BY <2>2, <2>3 DEF From
  <2>7. GoodParent("jetty", own[q], t) /\ GoodContext("jetty", own[g], own[q])
    BY <2>3, <2>4 DEF GoodParent, GoodContext, Kinds
  <2>8. Begins(t, h, "jetty", own[g], own[q], made)
    BY <2>3, <2>4, <2>5, <2>6, <2>7 DEF Begins
  <2> QED
    BY <2>4, <2>8
<1> QED
  BY <1>3, <1>4, <1>5, <1>6, <1>8, <1>9, <1>10, <1>11, <1>12 DEF Construct

-----------------------------------------------------------------------------
(* Structure is inductive. *)

\* The error path of a constructor deletes what its first call created.
LEMMA UndoFacts ==
  /\ \A k \in {"urma", "context", "seg"} : DOMAIN UndoOrder[k] = {} /\ Len(UndoOrder[k]) = 0
  /\ \A k \in {"cq", "jetty", "buf", "peer"} :
         /\ DOMAIN UndoOrder[k] = {1} /\ Len(UndoOrder[k]) = 1
         /\ UndoOrder[k][1] \in ObjKinds
         /\ \A o \in ObjKinds : First(k, o) <=> o = UndoOrder[k][1]
<1>1. UndoOrder["urma"] = << >> /\ UndoOrder["context"] = << >> /\ UndoOrder["seg"] = << >>
  BY DEF UndoOrder
<1>2. DOMAIN << >> = {} /\ Len(<< >>) = 0
  OBVIOUS
<1>3. \A k \in {"urma", "context", "seg"} : UndoOrder[k] = << >>
  BY <1>1
<1>4. /\ UndoOrder["cq"] = <<"jfce">> /\ UndoOrder["jetty"] = <<"jfr">>
      /\ UndoOrder["buf"] = <<"mem">> /\ UndoOrder["peer"] = <<"iseg">>
  BY DEF UndoOrder, CqUndo, JettyUndo, BufUndo, PeerUndo
<1>5. \A x : DOMAIN <<x>> = {1} /\ Len(<<x>>) = 1 /\ <<x>>[1] = x
  OBVIOUS
<1>6. \A o \in ObjKinds : /\ First("cq", o) <=> o = "jfce"
                          /\ First("jetty", o) <=> o = "jfr"
                          /\ First("buf", o) <=> o = "mem"
                          /\ First("peer", o) <=> o = "iseg"
  BY DEF First
<1>7. \A k \in {"cq", "jetty", "buf", "peer"} :
         /\ DOMAIN UndoOrder[k] = {1} /\ Len(UndoOrder[k]) = 1
         /\ UndoOrder[k][1] \in ObjKinds
         /\ \A o \in ObjKinds : First(k, o) <=> o = UndoOrder[k][1]
  BY <1>4, <1>5, <1>6 DEF ObjKinds
<1> QED
  BY <1>2, <1>3, <1>7

\* The initial state has no node, no owner and nothing under way.
LEMMA InitStructure == Init => Structure
<1> SUFFICES ASSUME Init PROVE Structure
  OBVIOUS
<1> USE NoneAssumption DEF Init
<1>1. StateType
  <2>1. Free \in [kind : Kinds \cup {"free", "abandoned"}, thread : Threads \cup {None},
                 keeps : Nodes \cup {None}]
    BY DEF Free
  <2>2. NoDrop \in [node : Nodes \cup {None}, at : 1..3]
    BY DEF NoDrop
  <2>3. NoMake \in [kind : Kinds \cup {"none"}, node : Nodes \cup {None},
                    to : Handles \cup {None}, ctx : Nodes \cup {None},
                    keeps : Nodes \cup {None}, undo : 0..2]
    BY DEF NoMake
  <2>4. exited \in [Threads -> BOOLEAN]
    OBVIOUS
  <2> QED
    BY <2>1, <2>2, <2>3, <2>4 DEF StateType
<1>2. NodesGood
  BY DEF NodesGood
<1>3. RefsGood
  BY DEF RefsGood
<1>4. DropsGood
  BY DEF DropsGood, NoDrop
<1>5. MakesGood
  BY DEF MakesGood
<1> QED
  BY <1>1, <1>2, <1>3, <1>4, <1>5 DEF Structure

\* What a thread's constructor relies on is out of reach of the other threads:
\* a step of t leaves their nodes, and the owners of those, alone.
LEMMA OthersMakesGood ==
  ASSUME Structure, NEW t \in Threads,
         make'[t] = NoMake \/ MakeGood(t)',
         \A s \in Threads \ {t} : /\ make'[s] = make[s] /\ cache'[s] = cache[s]
                                  /\ drop'[s] = drop[s] /\ exited'[s] = exited[s],
         \A s \in Threads \ {t} : make[s].kind # "none" =>
             /\ node'[make[s].node] = Free
             /\ make[s].to # None => own'[make[s].to] = None,
         \A s \in Threads \ {t} : make[s].kind # "none" /\ make'[t] # NoMake =>
             /\ make'[t].node # make[s].node
             /\ make'[t].to # None => make'[t].to # make[s].to,
         \A n \in Nodes : node[n] # Free /\ node[n].thread # t =>
             node'[n] = node[n] /\ (Owned(n) => OwnedBy(n, own', node', cache'))
  PROVE  MakesGood'
<1> USE NoneAssumption
<1> SUFFICES ASSUME NEW s \in Threads, s # t, make[s] # NoMake PROVE MakeGood(s)'
  BY DEF MakesGood
<1> DEFINE m == make[s]
<1>1. MakeGood(s) /\ make'[s] = m /\ m \in [kind  : Kinds \cup {"none"},
              node : Nodes \cup {None}, to : Handles \cup {None}, ctx : Nodes \cup {None},
              keeps : Nodes \cup {None}, undo : 0..2]
  BY DEF Structure, StateType, MakesGood
<1>2. m.kind # "none"
  BY <1>1 DEF MakeGood, GoodParent, Kinds
<1>3. \A r \in Threads \ {t} : make'[r] = make[r]
  OBVIOUS
<1>4. \A r \in Threads : make'[r].node = m.node => r = s
  <2> SUFFICES ASSUME NEW r \in Threads, make'[r].node = m.node PROVE r = s
    OBVIOUS
  <2>1. CASE r = t
    BY <1>1, <1>2, <2>1 DEF MakeGood, NoMake
  <2>2. CASE r # t
    BY <1>1, <2>2 DEF MakeGood
  <2> QED
    BY <2>1, <2>2
<1>5. m.to # None => /\ own'[m.to] = None
                     /\ \A r \in Threads : make'[r].to = m.to => r = s
  <2> SUFFICES ASSUME m.to # None, NEW r \in Threads, make'[r].to = m.to PROVE r = s
    BY <1>2
  <2>1. CASE r = t
    BY <1>1, <1>2, <2>1 DEF MakeGood, NoMake
  <2>2. CASE r # t
    BY <1>1, <2>2 DEF MakeGood
  <2> QED
    BY <2>1, <2>2
<1>6. m.keeps # None => /\ node[m.keeps] # Free /\ node[m.keeps].thread = s
                        /\ m.keeps \in Nodes
  BY <1>1 DEF MakeGood, GoodParent, Free, Kinds
<1>7. m.keeps # None => /\ node'[m.keeps] = node[m.keeps]
                        /\ OwnedBy(m.keeps, own', node', cache')
  BY <1>1, <1>6 DEF MakeGood
<1>8. GoodParent(m.kind, m.keeps, s)' /\ GoodContext(m.kind, m.ctx, m.keeps)'
  BY <1>1, <1>7 DEF MakeGood, GoodParent, GoodContext, Kinds
<1> QED
  BY <1>1, <1>2, <1>4, <1>5, <1>7, <1>8 DEF MakeGood, Owned

\* A constructor starts on a slot and a handle that are nobody else's.
LEMMA BeginStructure ==
  ASSUME Structure, NEW t \in Threads, NEW h \in Handles \cup {None},
         NEW p \in Nodes \cup {None}, NEW k, NEW c, NEW made,
         Begins(t, h, k, c, p, made)
  PROVE  Structure'
<1> USE NoneAssumption
<1>1. PICK n \in Nodes :
         /\ Unused(n)
         /\ make' = [make EXCEPT ![t] = [kind |-> k, node |-> n, to |-> h, ctx |-> c,
                                         keeps |-> p, undo |-> 0]]
         /\ UNCHANGED <<node, own, cache, exited, drop>>
  BY DEF Begins, Begin
<1>2. k \in Kinds /\ c \in Nodes \cup {None}
  BY DEF Begins, GoodParent
<1>3. /\ make'[t] = [kind |-> k, node |-> n, to |-> h, ctx |-> c, keeps |-> p, undo |-> 0]
      /\ \A s \in Threads \ {t} : make'[s] = make[s]
  BY <1>1 DEF Structure, StateType
<1>4. StateType'
  BY <1>1, <1>2 DEF Structure, StateType
<1>5. NodesGood' /\ RefsGood' /\ DropsGood'
  BY <1>1 DEF Structure, NodesGood, GoodParent, RefsGood, DropsGood, Owned, OwnedBy
<1>6. MakeGood(t)'
  <2>1. node'[n] = Free /\ \A s \in Threads : make'[s].node = n => s = t
    BY <1>1, <1>3 DEF Unused
  <2>2. h # None => own'[h] = None /\ \A s \in Threads : make'[s].to = h => s = t
    BY <1>1, <1>3 DEF Begins, Vacant
  <2>3. GoodParent(k, p, t)' /\ GoodContext(k, c, p)' /\ (p # None => Owned(p)')
    BY <1>1 DEF Begins, GoodParent, GoodContext, Owned, OwnedBy
  <2>4. drop'[t] = NoDrop /\ ~exited'[t] /\ (k = "urma" => cache'[t] = None)
        /\ (h = None => k = "urma")
    BY <1>1 DEF Begins, Idle, AtRest
  <2> QED
    BY <1>3, <2>1, <2>2, <2>3, <2>4 DEF MakeGood
<1>7. MakesGood'
  <2>1. \A s \in Threads : make[s].kind # "none" =>
            /\ node[make[s].node] = Free
            /\ make[s].to # None => own[make[s].to] = None
    BY DEF Structure, MakesGood, MakeGood, NoMake
  <2>2. \A s \in Threads : n # make[s].node /\ (h # None => h # make[s].to)
    BY <1>1 DEF Begins, Vacant, Unused
  <2>3. \A m \in Nodes : Owned(m) => OwnedBy(m, own', node', cache')
    BY <1>1 DEF Owned
  <2> QED
    BY <1>1, <1>3, <1>6, <2>1, <2>2, <2>3, OthersMakesGood
<1> QED
  BY <1>4, <1>5, <1>7 DEF Structure

\* A handle more on a value in use.
LEMMA ShareStructure ==
  ASSUME Structure, NEW t \in Threads, NEW h \in Handles, NEW n \in Nodes, Shares(t, h, n)
  PROVE  Structure'
<1> USE NoneAssumption
<1>1. /\ own[h] = None /\ \A s \in Threads : make[s].to # h
      /\ node[n] # Free /\ Owned(n)
      /\ own' = [own EXCEPT ![h] = n]
      /\ make[t] = NoMake
      /\ UNCHANGED <<node, cache, exited, make, drop>>
  BY DEF Shares, Vacant, Idle, AtRest
<1>2. StateType'
  BY <1>1 DEF Structure, StateType
<1>3. NodesGood' /\ RefsGood'
  BY <1>1 DEF Structure, StateType, NodesGood, GoodParent, RefsGood
<1>4. DropsGood'
  BY <1>1 DEF Structure, StateType, DropsGood, Owned, OwnedBy
<1>5. MakesGood'
  <2>1. \A s \in Threads : make[s].kind # "none" =>
            /\ node[make[s].node] = Free
            /\ make[s].to # None => own[make[s].to] = None /\ make[s].to \in Handles
    BY DEF Structure, StateType, MakesGood, MakeGood, NoMake
  <2>2. \A s \in Threads : make[s].kind # "none" /\ make[s].to # None => own'[make[s].to] = None
    BY <1>1, <2>1 DEF Structure, StateType
  <2>3. \A m \in Nodes : Owned(m) => OwnedBy(m, own', node', cache')
    BY <1>1 DEF Owned, OwnedBy, Structure, StateType
  <2> QED
    BY <1>1, <2>1, <2>2, <2>3, OthersMakesGood
<1> QED
  BY <1>2, <1>3, <1>4, <1>5 DEF Structure

\* What a constructor under way relies on, in the words of its record.
LEMMA MakeFacts ==
  ASSUME Structure, NEW t \in Threads, make[t].kind # "none"
  PROVE  /\ MakeGood(t)
         /\ make[t].kind \in Kinds
         /\ make[t].node \in Nodes
         /\ make[t].to \in Handles \cup {None}
         /\ make[t].keeps \in Nodes \cup {None}
         /\ make[t].undo \in 0..2
         /\ node[make[t].node] = Free
         /\ make[t].keeps # make[t].node
         /\ \A s \in Threads \ {t} : make[s].node # make[t].node
<1> USE NoneAssumption
<1>1. MakeGood(t)
  BY DEF Structure, MakesGood, NoMake
<1>2. make[t].keeps # None => node[make[t].keeps] # Free
  BY <1>1 DEF MakeGood, GoodParent, Free, Kinds
<1> QED
  BY <1>1, <1>2 DEF MakeGood, GoodParent, Structure, StateType

\* The value of a constructor that succeeds: its parent is in use, so it is not
\* one a destructor has started on.
LEMMA CompleteStructure ==
  ASSUME Structure, NEW t \in Threads, CompleteNode(t)
  PROVE  Structure'
<1> USE NoneAssumption
<1> DEFINE m == make[t]
           n == m.node
           p == m.keeps
<1>1. /\ MakeGood(t) /\ m.kind \in Kinds /\ n \in Nodes /\ p \in Nodes \cup {None}
      /\ m.to \in Handles \cup {None} /\ node[n] = Free /\ p # n
  BY MakeFacts DEF CompleteNode
<1>2. /\ node' = [node EXCEPT ![n] = [kind |-> m.kind, thread |-> t, keeps |-> p]]
      /\ own' = IF m.to = None THEN own ELSE [own EXCEPT ![m.to] = n]
      /\ cache' = IF m.kind = "urma" THEN [cache EXCEPT ![t] = n] ELSE cache
      /\ make' = [make EXCEPT ![t] = NoMake]
      /\ UNCHANGED <<exited, drop>>
  BY DEF CompleteNode, Cached
<1>3. node[n].kind = "free" /\ node[n].keeps = None /\ node[n].thread = None
  BY <1>1 DEF Free
<1>4. /\ GoodParent(m.kind, p, t) /\ (p # None => Owned(p))
      /\ m.to # None => own[m.to] = None
      /\ m.kind = "urma" => cache[t] = None
  BY <1>1 DEF MakeGood
<1>5. make'[t] = NoMake /\ \A s \in Threads \ {t} : make'[s] = make[s]
  BY <1>2 DEF Structure, StateType
<1> HIDE DEF n, p
<1>6. StateType'
  <2>1. NoMake \in [kind : Kinds \cup {"none"}, node : Nodes \cup {None},
                    to : Handles \cup {None}, ctx : Nodes \cup {None},
                    keeps : Nodes \cup {None}, undo : 0..2]
    BY DEF NoMake
  <2> QED
    BY <1>1, <1>2, <2>1 DEF Structure, StateType
<1>7. NodesGood'
  BY <1>1, <1>2, <1>3, <1>4 DEF Structure, StateType, NodesGood, GoodParent, Free, Kinds
<1>8. RefsGood'
  <2>1. node'[n] # Free /\ node'[n].thread = t /\ node'[n].kind = m.kind
    BY <1>1, <1>2 DEF Structure, StateType, Free, Kinds
  <2>2. \A x \in Nodes : x # n => node'[x] = node[x]
    BY <1>2 DEF Structure, StateType
  <2>3. \A x \in Handles : own[x] # n
    BY <1>1 DEF Structure, StateType, RefsGood
  <2>4. \A s \in Threads : cache[s] # n
    BY <1>1, <1>3 DEF Structure, StateType, RefsGood
  <2> QED
    BY <1>1, <1>2, <2>1, <2>2, <2>3, <2>4 DEF Structure, StateType, RefsGood
<1>9. DropsGood'
  <2> SUFFICES ASSUME NEW s \in Threads, drop[s].node # None
               PROVE  node'[drop[s].node].thread = s /\ ~OwnedBy(drop[s].node, own', node', cache')
    BY <1>2 DEF DropsGood, Owned
  <2>1. drop[s].node \in Nodes /\ node[drop[s].node].thread = s /\ ~Owned(drop[s].node)
    BY DEF Structure, StateType, DropsGood
  <2>2. drop[s].node # n
    BY <1>3, <2>1
  <2>3. drop[s].node # p
    BY <1>4, <2>1
  <2> QED
    BY <1>1, <1>2, <2>1, <2>2, <2>3 DEF Structure, StateType, Owned, OwnedBy
<1>10. MakesGood'
  <2>1. \A s \in Threads \ {t} : make[s].kind # "none" =>
            /\ node[make[s].node] = Free /\ make[s].node # n /\ make[s].node \in Nodes
            /\ make[s].to # None => own[make[s].to] = None /\ make[s].to \in Handles
            /\ make[s].to # None => make[s].to # m.to
    BY <1>1 DEF Structure, StateType, MakesGood, MakeGood, NoMake, n
  <2>2. \A s \in Threads \ {t} : make[s].kind # "none" =>
            /\ node'[make[s].node] = Free
            /\ make[s].to # None => own'[make[s].to] = None
    BY <1>2, <2>1 DEF Structure, StateType
  <2>3. \A x \in Nodes : node[x] # Free => /\ node'[x] = node[x]
                                           /\ Owned(x) => OwnedBy(x, own', node', cache')
    <3> SUFFICES ASSUME NEW x \in Nodes, node[x] # Free
                 PROVE  node'[x] = node[x] /\ (Owned(x) => OwnedBy(x, own', node', cache'))
      OBVIOUS
    <3>1. node'[x] = node[x]
      BY <1>1, <1>2 DEF Structure, StateType
    <3>2. \A y \in Handles : own[y] = x => own'[y] = x
      BY <1>2, <1>4 DEF Structure, StateType
    <3>3. \A y \in Nodes : node[y].keeps = x => node'[y].keeps = x
      BY <1>2, <1>3 DEF Structure, StateType
    <3>4. \A s \in Threads : cache[s] = x => cache'[s] = x
      BY <1>2, <1>4 DEF Structure, StateType
    <3> QED
      BY <3>1, <3>2, <3>3, <3>4 DEF Owned, OwnedBy
  <2>4. \A s \in Threads \ {t} : /\ make'[s] = make[s] /\ cache'[s] = cache[s]
                                 /\ drop'[s] = drop[s] /\ exited'[s] = exited[s]
    BY <1>2, <1>5 DEF Structure, StateType
  <2> QED
    BY <1>5, <2>2, <2>3, <2>4, OthersMakesGood
<1> QED
  BY <1>6, <1>7, <1>8, <1>9, <1>10 DEF Structure

\* The error path of a constructor changes nothing but how far it is.
LEMMA FailStructure ==
  ASSUME Structure, NEW t \in Threads,
         LastCallFails(t) \/ UndoCall(t) \/ ReturnError(t)
  PROVE  Structure'
<1> USE NoneAssumption
<1> DEFINE m == make[t]
<1>1. m.kind # "none" /\ UNCHANGED <<node, own, cache, exited, drop>>
  BY DEF LastCallFails, UndoCall, ReturnError
<1>2. MakeGood(t) /\ m.kind \in Kinds /\ m.undo \in 0..2
  BY <1>1, MakeFacts
<1>3. \/ \E u \in 1..2 : make' = [make EXCEPT ![t].undo = u]
      \/ make' = [make EXCEPT ![t] = NoMake]
  <2>1. CASE UndoCall(t)
    <3>1. m.undo = 1
      BY <1>2, <2>1, UndoFacts DEF UndoCall, Kinds
    <3> QED
      BY <2>1, <3>1 DEF UndoCall
  <2> QED
    BY <2>1 DEF LastCallFails, ReturnError
<1>4. StateType'
  <2>1. NoMake \in [kind : Kinds \cup {"none"}, node : Nodes \cup {None},
                    to : Handles \cup {None}, ctx : Nodes \cup {None},
                    keeps : Nodes \cup {None}, undo : 0..2]
    BY DEF NoMake
  <2>2. \A u \in 1..2 : u \in 0..2
    OBVIOUS
  <2>3. make' \in [Threads -> [kind : Kinds \cup {"none"}, node : Nodes \cup {None},
                    to : Handles \cup {None}, ctx : Nodes \cup {None},
                    keeps : Nodes \cup {None}, undo : 0..2]]
    <3> DEFINE Makes == [kind : Kinds \cup {"none"}, node : Nodes \cup {None},
                         to : Handles \cup {None}, ctx : Nodes \cup {None},
                         keeps : Nodes \cup {None}, undo : 0..2]
    <3>1. make \in [Threads -> Makes]
      BY DEF Structure, StateType
    <3>2. \A u \in 0..2 : [m EXCEPT !.undo = u] \in Makes
      BY <3>1
    <3> HIDE DEF Makes
    <3>3. CASE make' = [make EXCEPT ![t] = NoMake]
      BY <2>1, <3>1, <3>3 DEF Makes
    <3>4. ASSUME NEW u \in 0..2, make' = [make EXCEPT ![t].undo = u]
          PROVE  make' \in [Threads -> Makes]
      <4>1. make' = [make EXCEPT ![t] = [m EXCEPT !.undo = u]]
        BY <3>4
      <4> QED
        BY <3>1, <3>2, <4>1
    <3> QED
      BY <1>3, <2>2, <3>3, <3>4 DEF Makes
  <2> QED
    BY <1>1, <2>3 DEF Structure, StateType
<1>5. NodesGood' /\ RefsGood' /\ DropsGood'
  BY <1>1 DEF Structure, NodesGood, GoodParent, RefsGood, DropsGood, Owned, OwnedBy
<1>6. /\ \A s \in Threads \ {t} : make'[s] = make[s]
      /\ \/ make'[t] = NoMake
         \/ \E u \in 1..2 : make'[t] = [m EXCEPT !.undo = u]
  BY <1>3 DEF Structure, StateType
<1>7. make'[t] # NoMake => /\ make'[t].kind = m.kind /\ make'[t].node = m.node
                           /\ make'[t].to = m.to /\ make'[t].ctx = m.ctx
                           /\ make'[t].keeps = m.keeps
  BY <1>6 DEF Structure, StateType
<1>8. make'[t] = NoMake \/ MakeGood(t)'
  <2> SUFFICES ASSUME make'[t] # NoMake PROVE MakeGood(t)'
    OBVIOUS
  <2>1. \A s \in Threads : make'[s].node = make[s].node /\ make'[s].to = make[s].to
    BY <1>6, <1>7
  <2>2. GoodParent(m.kind, m.keeps, t)' /\ GoodContext(m.kind, m.ctx, m.keeps)'
        /\ (m.keeps # None => Owned(m.keeps)')
    BY <1>1, <1>2, <1>6, <1>7 DEF MakeGood, GoodParent, GoodContext, Owned, OwnedBy
  <2> QED
    BY <1>1, <1>2, <1>7, <2>1, <2>2 DEF MakeGood, GoodParent, GoodContext
<1>9. MakesGood'
  <2>1. \A s \in Threads \ {t} : make[s].kind # "none" =>
            /\ node[make[s].node] = Free /\ make[s].node # m.node
            /\ make[s].to # None => own[make[s].to] = None
            /\ make[s].to # None => make[s].to # m.to
    BY <1>2 DEF Structure, MakesGood, MakeGood, NoMake
  <2>2. \A x \in Nodes : Owned(x) => OwnedBy(x, own', node', cache')
    BY <1>1 DEF Owned
  <2> QED
    BY <1>1, <1>6, <1>7, <1>8, <2>1, <2>2, OthersMakesGood
<1> QED
  BY <1>4, <1>5, <1>9 DEF Structure

\* Dropping an owner of n starts n's destructor only if that was the last one.
LEMMA DisownDrops ==
  ASSUME StateType, DropsGood, NEW t \in Threads, NEW n \in Nodes \cup {None},
         n # None => node'[n].thread = t,
         \A s \in Threads \ {t}, m \in Nodes :
              drop[s].node = m => /\ node'[m].thread = s
                                  /\ ~OwnedBy(m, own', node', cache'),
         Disown(t, n)
  PROVE  /\ DropsGood'
         /\ drop' \in [Threads -> [node : Nodes \cup {None}, at : 1..3]]
  BY NoneAssumption DEF StateType, DropsGood, Disown, Owned, NoDrop

\* Every destructor step, DropHandle and ThreadExit keep the graph well formed.
LEMMA DestructStructure ==
  ASSUME Structure, NEW t \in Threads,
         \/ \E h \in Handles : DropHandle(t, h)
         \/ Destruct(t)
         \/ ThreadExit(t)
  PROVE  Structure'
<1> USE NoneAssumption
<1>1. make' = make /\ make[t] = NoMake
  <2>1. drop[t].node # None => make[t] = NoMake
    BY DEF Structure, MakesGood, MakeGood, NoDrop
  <2> QED
    BY <2>1 DEF DropHandle, Destruct, DeleteObject, ReleaseFields, ThreadExit, Idle, AtRest
<1> DEFINE OthersApart ==
      /\ \A s \in Threads \ {t} : cache'[s] = cache[s] /\ drop'[s] = drop[s] /\ exited'[s] = exited[s]
      /\ \A n \in Nodes : node[n] = Free => node'[n] = Free
      /\ \A h \in Handles : own[h] = None => own'[h] = None
      /\ \A n \in Nodes : node[n] # Free /\ node[n].thread # t =>
             node'[n] = node[n] /\ (Owned(n) => OwnedBy(n, own', node', cache'))
<1>2. ASSUME OthersApart PROVE MakesGood'
  <2>1. \A s \in Threads : make[s].kind # "none" =>
            /\ node[make[s].node] = Free /\ make[s].node \in Nodes
            /\ make[s].to # None => own[make[s].to] = None /\ make[s].to \in Handles
    BY DEF Structure, StateType, MakesGood, MakeGood, NoMake
  <2>2. \A s \in Threads \ {t} : make[s].kind # "none" =>
            /\ node'[make[s].node] = Free
            /\ make[s].to # None => own'[make[s].to] = None
    BY <1>2, <2>1
  <2> QED
    BY <1>1, <1>2, <2>2, OthersMakesGood
<1> HIDE DEF OthersApart
<1>3. ASSUME NEW h \in Handles, DropHandle(t, h) PROVE Structure'
  <2> DEFINE n == own[h]
  <2>0. n \in Nodes /\ node[n].thread = t
    BY <1>3 DEF DropHandle, Structure, StateType
  <2>1. DropsGood' /\ drop' \in [Threads -> [node : Nodes \cup {None}, at : 1..3]]
    <3>1. ASSUME NEW s \in Threads \ {t}, NEW m \in Nodes, drop[s].node = m
          PROVE  node'[m].thread = s /\ ~OwnedBy(m, own', node', cache')
      <4>1. node[m].thread = s /\ ~Owned(m)
        BY <3>1, NoneAssumption DEF Structure, StateType, DropsGood
      <4> QED
        BY <3>1, <4>1, <1>3 DEF DropHandle, Structure, StateType, Owned, OwnedBy, Free
    <3> QED
      BY <1>3, <2>0, <3>1, DisownDrops DEF DropHandle, Structure
  <2>2. OthersApart
    <3>1. /\ own' = [own EXCEPT ![h] = None] /\ UNCHANGED <<node, cache, exited>>
          /\ \A s \in Threads \ {t} : drop'[s] = drop[s]
      BY <1>3 DEF DropHandle, Disown, Structure, StateType
    <3>2. \A x \in Nodes : node[x].thread # t /\ Owned(x) => OwnedBy(x, own', node', cache')
      BY <2>0, <3>1 DEF Structure, StateType, Owned, OwnedBy
    <3>3. \A g \in Handles : own[g] = None => own'[g] = None
      BY <3>1 DEF Structure, StateType
    <3> QED
      BY <3>1, <3>2, <3>3 DEF OthersApart
  <2>3. StateType' /\ NodesGood' /\ RefsGood'
    BY <1>1, <1>3, <2>0, <2>1 DEF DropHandle, Structure, StateType, NodesGood, GoodParent, RefsGood
  <2> QED
    BY <1>2, <2>1, <2>2, <2>3 DEF Structure
<1>4. ASSUME DeleteObject(t) PROVE Structure'
  <2>1. drop[t].at \in 1..2
    <3>1. \A k \in Kinds : Len(DropOrder[k]) \in 1..2
      BY DEF Kinds, DropOrder, UrmaDrop, ContextDrop, CqDrop, JettyDrop, SegDrop, PeerDrop
    <3>2. drop[t].node # None /\ drop[t].at <= Len(DropOrder[node[drop[t].node].kind])
      BY <1>4 DEF DeleteObject
    <3>3. node[drop[t].node].kind \in Kinds
      BY <3>2 DEF Structure, StateType, NodesGood, GoodParent, DropsGood, Free, Kinds
    <3>4. drop[t].at \in 1..3
      BY DEF Structure, StateType
    <3> DEFINE at  == drop[t].at
               len == Len(DropOrder[node[drop[t].node].kind])
    <3>5. len \in 1..2 /\ at \in 1..3 /\ at <= len
      BY <3>1, <3>2, <3>3, <3>4
    <3> HIDE DEF at, len
    <3>6. at \in 1..2
      BY <3>5
    <3> QED
      BY <3>6 DEF at
  <2>2. UNCHANGED <<node, own, cache, exited>>
    BY <1>4 DEF DeleteObject
  <2>3. drop' = [drop EXCEPT ![t].at = @ + 1]
    BY <1>4 DEF DeleteObject
  <2>4. StateType'
    BY <1>1, <2>1, <2>2, <2>3 DEF Structure, StateType
  <2>5. NodesGood' /\ RefsGood'
    BY <2>2 DEF Structure, NodesGood, GoodParent, RefsGood
  <2>6. \A s \in Threads : drop'[s].node = drop[s].node
    BY <2>3 DEF Structure, StateType
  <2>7. DropsGood'
    BY <2>2, <2>6 DEF Structure, DropsGood, Owned, OwnedBy
  <2>8. OthersApart
    <3>1. \A s \in Threads \ {t} : drop'[s] = drop[s]
      BY <2>3 DEF Structure, StateType
    <3> QED
      BY <2>2, <3>1 DEF OthersApart, Owned
  <2> QED
    BY <1>2, <2>4, <2>5, <2>7, <2>8 DEF Structure
<1>5. ASSUME ReleaseFields(t) PROVE Structure'
  <2> DEFINE n == drop[t].node
             p == node[n].keeps
  <2>0. /\ n \in Nodes /\ node[n].thread = t /\ ~Owned(n) /\ node[n] # Free
        /\ GoodParent(node[n].kind, p, t)
        /\ node' = [node EXCEPT ![n] = Free]
        /\ UNCHANGED <<own, cache, exited>>
        /\ Disown(t, p)
    BY <1>5 DEF ReleaseFields, Structure, StateType, DropsGood, NodesGood, Free
  <2>1. p \in Nodes \cup {None} /\ (p # None => p # n /\ node'[p].thread = t)
    BY <2>0 DEF Structure, StateType, GoodParent, Kinds, Owned, OwnedBy
  <2>2. DropsGood' /\ drop' \in [Threads -> [node : Nodes \cup {None}, at : 1..3]]
    <3>1. ASSUME NEW s \in Threads \ {t}, NEW m \in Nodes, drop[s].node = m
          PROVE  node'[m].thread = s /\ ~OwnedBy(m, own', node', cache')
      <4>1. node[m].thread = s /\ ~Owned(m)
        BY <3>1, NoneAssumption DEF Structure, StateType, DropsGood
      <4> QED
        BY <3>1, <4>1, <2>0 DEF Structure, StateType, Owned, OwnedBy, Free
    <3> QED
      BY <2>0, <2>1, <3>1, DisownDrops DEF Structure
  <2>3. NodesGood'
    BY <2>0 DEF Structure, StateType, NodesGood, GoodParent, Owned, OwnedBy, Kinds
  <2>4. RefsGood'
    BY <2>0 DEF Structure, StateType, RefsGood, Owned, OwnedBy
  <2>5. node' \in [Nodes -> [kind : Kinds \cup {"free", "abandoned"}, thread : Threads \cup {None},
                 keeps : Nodes \cup {None}]]
    BY <2>0 DEF Structure, StateType, Free
  <2>6. OthersApart
    <3>1. \A s \in Threads \ {t} : drop'[s] = drop[s]
      BY <2>0 DEF Disown, Structure, StateType
    <3>2. \A x \in Nodes : x # n => node'[x] = node[x]
      BY <2>0 DEF Structure, StateType
    <3>3. p # None => node[p].thread = t
      BY <2>0 DEF GoodParent, Kinds
    <3>4. \A x \in Nodes : x # p /\ Owned(x) => OwnedBy(x, own', node', cache')
      BY <2>0, <3>2 DEF Owned, OwnedBy
    <3>5. \A x \in Nodes : node[x].thread # t /\ Owned(x) => OwnedBy(x, own', node', cache')
      BY <2>1, <3>3, <3>4
    <3>6. node'[n] = Free
      BY <2>0 DEF Structure, StateType
    <3> QED
      BY <2>0, <3>1, <3>2, <3>5, <3>6 DEF OthersApart
  <2> QED
    BY <1>1, <1>2, <2>0, <2>2, <2>3, <2>4, <2>5, <2>6 DEF Structure, StateType
<1>6. ASSUME ThreadExit(t) PROVE Structure'
  <2>0. /\ cache[t] \in Nodes \cup {None}
        /\ cache[t] # None => node'[cache[t]].thread = t
        /\ UNCHANGED <<node, own>>
        /\ cache' = [cache EXCEPT ![t] = None]
        /\ exited' = [exited EXCEPT ![t] = TRUE]
        /\ Disown(t, cache[t])
    BY <1>6 DEF ThreadExit, Structure, StateType, RefsGood
  <2>1. DropsGood' /\ drop' \in [Threads -> [node : Nodes \cup {None}, at : 1..3]]
    <3>1. ASSUME NEW s \in Threads \ {t}, NEW m \in Nodes, drop[s].node = m
          PROVE  node'[m].thread = s /\ ~OwnedBy(m, own', node', cache')
      <4>1. node[m].thread = s /\ ~Owned(m)
        BY <3>1, NoneAssumption DEF Structure, StateType, DropsGood
      <4> QED
        BY <3>1, <4>1, <2>0 DEF Structure, StateType, Owned, OwnedBy, Free
    <3> QED
      BY <2>0, <3>1, DisownDrops DEF Structure
  <2>2. StateType'
    BY <1>1, <2>0, <2>1 DEF Structure, StateType
  <2>3. NodesGood' /\ RefsGood'
    BY <2>0 DEF Structure, StateType, NodesGood, GoodParent, RefsGood
  <2>4. OthersApart
    <3>1. \A s \in Threads \ {t} : /\ drop'[s] = drop[s] /\ cache'[s] = cache[s]
                                   /\ exited'[s] = exited[s]
      BY <2>0 DEF Disown, Structure, StateType
    <3>2. \A x \in Nodes : node[x].thread # t => cache[t] # x
      BY <2>0
    <3>3. \A x \in Nodes : node[x].thread # t /\ Owned(x) => OwnedBy(x, own', node', cache')
      BY <2>0, <3>1, <3>2 DEF Owned, OwnedBy
    <3> QED
      BY <2>0, <3>1, <3>3 DEF OthersApart
  <2> QED
    BY <1>2, <2>1, <2>2, <2>3, <2>4 DEF Structure
<1> QED
  BY <1>3, <1>4, <1>5, <1>6 DEF Destruct

-----------------------------------------------------------------------------
(* Mirror is inductive. *)

\* The position in the destructor of a node whose destructor is not running.
LEMMA OwnedAt ==
  ASSUME Structure, NEW n \in Nodes, Owned(n)
  PROVE  At(n) = 1
  BY NoneAssumption DEF At, Structure, StateType, NodesGood, DropsGood, Free

\* A slot holds the objects of its node, or of the constructor that has it.
LEMMA LiveCases ==
  ASSUME Structure, LiveGood
  PROVE  /\ \A n \in Nodes, o \in ObjKinds : node[n] # Free =>
                (<<o, n>> \in live <=> Has(node[n].kind, At(n), o))
         /\ \A n \in Nodes, o \in ObjKinds : node[n] = Free =>
                (<<o, n>> \in live <=> Making(n, o))
         /\ \A t \in Threads, o \in ObjKinds : make[t].kind # "none" =>
                (<<o, make[t].node>> \in live <=> First(make[t].kind, o) /\ make[t].undo <= 1)
<1> USE NoneAssumption
<1>1. \A n \in Nodes, o \in ObjKinds : Making(n, o) => node[n] = Free
  BY MakeFacts DEF Making, First
<1>2. \A n \in Nodes, o \in ObjKinds : node[n] = Free => ~Has(node[n].kind, At(n), o)
  BY DEF Has, Free
<1>3. ASSUME NEW t \in Threads, NEW o \in ObjKinds, make[t].kind # "none"
      PROVE  Making(make[t].node, o) <=> First(make[t].kind, o) /\ make[t].undo <= 1
  BY <1>3, MakeFacts DEF Making
<1> QED
  BY <1>1, <1>2, <1>3, MakeFacts DEF LiveGood

\* What was used for the objects of the other slots stays as it was when only
\* slot n changes and nothing keeps n.
LEMMA UsesKept ==
  ASSUME Structure, Mirror, NEW n \in Nodes,
         \A m \in Nodes \ {n} : node'[m] = node[m],
         \A m \in Nodes : node[m].keeps # n,
         \A s \in Threads : make[s].keeps # n
  PROVE  /\ \A m \in Nodes \ {n}, o \in ObjKinds : node[m] # Free /\ <<o, m>> \in live =>
                uses[<<o, m>>] = From(node'[m].kind, o, m, node'[m].keeps,
                                      node'[node'[m].keeps].keeps)
         /\ \A s \in Threads, o \in ObjKinds :
                make[s].kind # "none" /\ <<o, make[s].node>> \in live =>
                uses[<<o, make[s].node>>] = From(make[s].kind, o, make[s].node, make[s].keeps,
                                                 node'[make[s].keeps].keeps)
<1> USE NoneAssumption
<1>1. ASSUME NEW m \in Nodes \ {n}, NEW o \in ObjKinds, node[m] # Free, <<o, m>> \in live
      PROVE  uses[<<o, m>>] = From(node'[m].kind, o, m, node'[m].keeps,
                                   node'[node'[m].keeps].keeps)
  <2>1. node'[m] = node[m] /\ node[m].keeps # n
    BY <1>1
  <2>2. Has(node[m].kind, At(m), o)
    BY <1>1, LiveCases DEF Mirror
  <2>3. o \in {"jfr", "jetty"} => /\ node[m].keeps \in Nodes
                                  /\ node'[node[m].keeps] = node[node[m].keeps]
    BY <1>1, <2>1, <2>2 DEF Has, Structure, NodesGood, GoodParent
  <2>4. uses[<<o, m>>] = From(node[m].kind, o, m, node[m].keeps, node[node[m].keeps].keeps)
    BY <1>1 DEF Mirror, UsesGood
  <2> QED
    BY <2>1, <2>3, <2>4 DEF From, ObjKinds
<1>2. ASSUME NEW s \in Threads, NEW o \in ObjKinds, make[s].kind # "none",
             <<o, make[s].node>> \in live
      PROVE  uses[<<o, make[s].node>>] = From(make[s].kind, o, make[s].node, make[s].keeps,
                                              node'[make[s].keeps].keeps)
  <2>1. First(make[s].kind, o)
    BY <1>2, LiveCases DEF Mirror
  <2>2. o \in {"jfr", "jetty"} => /\ make[s].keeps \in Nodes
                                  /\ node'[make[s].keeps] = node[make[s].keeps]
    BY <1>2, <2>1, MakeFacts DEF First, MakeGood, GoodParent
  <2>3. uses[<<o, make[s].node>>] = From(make[s].kind, o, make[s].node, make[s].keeps,
                                         node[make[s].keeps].keeps)
    BY <1>2 DEF Mirror, UsesGood
  <2> QED
    BY <2>2, <2>3 DEF From, ObjKinds
<1> QED
  BY <1>1, <1>2

\* The first call of a constructor adds the object that its slot has from then on.
LEMMA BeginMirror ==
  ASSUME Structure, Structure', Mirror, NEW t \in Threads, NEW h \in Handles \cup {None},
         NEW p \in Nodes \cup {None}, NEW k, NEW c, NEW made,
         Begins(t, h, k, c, p, made)
  PROVE  Mirror'
<1> USE NoneAssumption
<1>1. PICK n \in Nodes :
         /\ Unused(n)
         /\ make' = [make EXCEPT ![t] = [kind |-> k, node |-> n, to |-> h, ctx |-> c,
                                         keeps |-> p, undo |-> 0]]
         /\ uses' = With(n, made)
         /\ UNCHANGED <<node, own, cache, exited, drop>>
  BY DEF Begins, Begin
<1>2. /\ make'[t] = [kind |-> k, node |-> n, to |-> h, ctx |-> c, keeps |-> p, undo |-> 0]
      /\ \A s \in Threads \ {t} : make'[s] = make[s] /\ make[s].node # n
      /\ make[t] = NoMake
  BY <1>1 DEF Structure, StateType, Unused, Begins, Idle, AtRest
<1>3. \A m \in Nodes : At(m)' = At(m)
  BY <1>1 DEF At
<1>4. live' = live \cup {<<o, n>> : o \in DOMAIN made}
  BY <1>1 DEF With, live
<1>5. \A o \in ObjKinds : <<o, n>> \notin live
  BY <1>1, LiveCases DEF Unused, Making, Mirror
<1>6. DOMAIN made = {o \in ObjKinds : First(k, o)} /\ k # "none"
  BY DEF Begins, GoodParent, Kinds
<1>7. \A o \in ObjKinds : Making(n, o)' <=> First(k, o)
  BY <1>2 DEF Making
<1>8. \A m \in Nodes \ {n}, o \in ObjKinds : Making(m, o)' <=> Making(m, o)
  BY <1>2 DEF Making, NoMake
<1>9. LiveGood'
  <2>1. live' \subseteq Objects
    BY <1>4, <1>6 DEF Mirror, LiveGood, Objects
  <2>2. \A o \in ObjKinds : <<o, n>> \in live' <=> Making(n, o)'
    BY <1>4, <1>5, <1>6, <1>7
  <2>3. \A m \in Nodes \ {n}, o \in ObjKinds :
            <<o, m>> \in live' <=> Has(node'[m].kind, At(m)', o) \/ Making(m, o)'
    BY <1>1, <1>3, <1>4, <1>8 DEF Mirror, LiveGood
  <2>4. \A o \in ObjKinds : ~Has(node'[n].kind, At(n)', o)
    BY <1>1 DEF Has, Unused, Free
  <2> QED
    BY <2>1, <2>2, <2>3, <2>4 DEF LiveGood
<1>10. UsesGood'
  <2>1. uses' = [x \in live' |-> uses'[x]]
    BY <1>1, <1>4 DEF With
  <2>2. \A m \in Nodes \ {n}, o \in ObjKinds : <<o, m>> \in live' =>
            <<o, m>> \in live /\ uses'[<<o, m>>] = uses[<<o, m>>]
    BY <1>1, <1>4 DEF With
  <2>3. \A m \in Nodes, o \in ObjKinds : <<o, m>> \in live' /\ node'[m] # Free =>
            uses'[<<o, m>>] = From(node'[m].kind, o, m, node'[m].keeps,
                                   node'[node'[m].keeps].keeps)
    BY <1>1, <2>2 DEF Mirror, UsesGood, Unused
  <2>4. ASSUME NEW s \in Threads, NEW o \in ObjKinds, make'[s].kind # "none",
               <<o, make'[s].node>> \in live'
        PROVE  uses'[<<o, make'[s].node>>] =
                   From(make'[s].kind, o, make'[s].node, make'[s].keeps,
                        node'[make'[s].keeps].keeps)
    <3>1. CASE s = t
      <4>1. o \in DOMAIN made /\ <<o, n>> \notin live /\ uses'[<<o, n>>] = made[o]
        BY <1>1, <1>2, <1>4, <1>5, <2>4, <3>1 DEF With
      <4>2. made[o] = From(k, o, n, p, node[p].keeps)
        BY <4>1 DEF Begins
      <4> QED
        BY <1>1, <1>2, <3>1, <4>1, <4>2
    <3>2. CASE s # t
      <4>1. make'[s] = make[s] /\ make[s].node \in Nodes \ {n}
        BY <1>2, <2>4, <3>2, MakeFacts
      <4> QED
        BY <1>1, <2>2, <2>4, <4>1 DEF Mirror, UsesGood
    <3> QED
      BY <3>1, <3>2
  <2> QED
    BY <2>1, <2>3, <2>4 DEF UsesGood
<1> QED
  BY <1>9, <1>10 DEF Mirror

\* The first and the last call of a constructor create the objects of its kind.
LEMMA LastCallFacts ==
  ASSUME NEW m, m.kind \in Kinds, m.node \in Nodes,
         GoodContext(m.kind, m.ctx, m.keeps)
  PROVE  /\ DOMAIN LastCall(m) \subseteq ObjKinds
         /\ \A o \in ObjKinds : o \in DOMAIN LastCall(m) => ~First(m.kind, o)
         /\ \A o \in ObjKinds : Has(m.kind, 1, o) <=> First(m.kind, o) \/ o \in DOMAIN LastCall(m)
         /\ \A o \in DOMAIN LastCall(m) :
                LastCall(m)[o] = From(m.kind, o, m.node, m.keeps, node[m.keeps].keeps)
<1> DEFINE L == LastCall(m)
           n == m.node
           p == m.keeps
<1>1. CASE m.kind = "urma"
  <2>1. L = [lib |-> {}]
    BY <1>1 DEF LastCall
  <2>2. DOMAIN L = {"lib"} /\ L["lib"] = {}
    BY <2>1
  <2>3. \A x \in ObjKinds : /\ First(m.kind, x) => x # "lib"
                            /\ Has(m.kind, 1, x) <=> First(m.kind, x) \/ x = "lib"
    BY <1>1 DEF First, Has
  <2>4. L["lib"] = From(m.kind, "lib", n, p, node[p].keeps)
    BY <1>1, <2>2 DEF From
  <2> QED
    BY <2>2, <2>3, <2>4 DEF ObjKinds
<1>2. CASE m.kind = "context"
  <2>1. L = [ctx |-> {<<"lib", p>>}]
    BY <1>2 DEF LastCall
  <2>2. DOMAIN L = {"ctx"} /\ L["ctx"] = {<<"lib", p>>}
    BY <2>1
  <2>3. \A x \in ObjKinds : /\ First(m.kind, x) => x # "ctx"
                            /\ Has(m.kind, 1, x) <=> First(m.kind, x) \/ x = "ctx"
    BY <1>2 DEF First, Has
  <2>4. L["ctx"] = From(m.kind, "ctx", n, p, node[p].keeps)
    BY <1>2, <2>2 DEF From
  <2> QED
    BY <2>2, <2>3, <2>4 DEF ObjKinds
<1>3. CASE m.kind = "cq"
  <2>1. L = [jfc |-> {<<"ctx", m.ctx>>, <<"jfce", n>>}] /\ m.ctx = p
    BY <1>3 DEF LastCall, GoodContext
  <2>2. DOMAIN L = {"jfc"} /\ L["jfc"] = {<<"ctx", p>>, <<"jfce", n>>}
    BY <2>1
  <2>3. \A x \in ObjKinds : /\ First(m.kind, x) => x # "jfc"
                            /\ Has(m.kind, 1, x) <=> First(m.kind, x) \/ x = "jfc"
    BY <1>3 DEF First, Has
  <2>4. L["jfc"] = From(m.kind, "jfc", n, p, node[p].keeps)
    BY <1>3, <2>2 DEF From
  <2> QED
    BY <2>2, <2>3, <2>4 DEF ObjKinds
<1>4. CASE m.kind = "jetty"
  <2>1. /\ L = [jetty |-> {<<"ctx", m.ctx>>, <<"jfc", p>>, <<"jfr", n>>}]
        /\ m.ctx = node[p].keeps
    BY <1>4 DEF LastCall, GoodContext
  <2>2. DOMAIN L = {"jetty"}
        /\ L["jetty"] = {<<"ctx", node[p].keeps>>, <<"jfc", p>>, <<"jfr", n>>}
    BY <2>1
  <2>3. \A x \in ObjKinds : /\ First(m.kind, x) => x # "jetty"
                            /\ Has(m.kind, 1, x) <=> First(m.kind, x) \/ x = "jetty"
    BY <1>4 DEF First, Has
  <2>4. L["jetty"] = From(m.kind, "jetty", n, p, node[p].keeps)
    BY <1>4, <2>2 DEF From
  <2> QED
    BY <2>2, <2>3, <2>4 DEF ObjKinds
<1>5. CASE m.kind = "seg"
  <2>1. L = [tseg |-> {<<"ctx", m.ctx>>}] /\ m.ctx = p
    BY <1>5 DEF LastCall, GoodContext
  <2>2. DOMAIN L = {"tseg"} /\ L["tseg"] = {<<"ctx", p>>}
    BY <2>1
  <2>3. \A x \in ObjKinds : /\ First(m.kind, x) => x # "tseg"
                            /\ Has(m.kind, 1, x) <=> First(m.kind, x) \/ x = "tseg"
    BY <1>5 DEF First, Has
  <2>4. L["tseg"] = From(m.kind, "tseg", n, p, node[p].keeps)
    BY <1>5, <2>2 DEF From
  <2> QED
    BY <2>2, <2>3, <2>4 DEF ObjKinds
<1>6. CASE m.kind = "buf"
  <2>1. L = [tseg |-> {<<"ctx", m.ctx>>, <<"mem", n>>}] /\ m.ctx = p
    BY <1>6 DEF LastCall, GoodContext
  <2>2. DOMAIN L = {"tseg"} /\ L["tseg"] = {<<"ctx", p>>, <<"mem", n>>}
    BY <2>1
  <2>3. \A x \in ObjKinds : /\ First(m.kind, x) => x # "tseg"
                            /\ Has(m.kind, 1, x) <=> First(m.kind, x) \/ x = "tseg"
    BY <1>6 DEF First, Has
  <2>4. L["tseg"] = From(m.kind, "tseg", n, p, node[p].keeps)
    BY <1>6, <2>2 DEF From
  <2> QED
    BY <2>2, <2>3, <2>4 DEF ObjKinds
<1>7. CASE m.kind = "peer"
  <2>1. L = [tjetty |-> {<<"ctx", m.ctx>>}] /\ m.ctx = p
    BY <1>7 DEF LastCall, GoodContext
  <2>2. DOMAIN L = {"tjetty"} /\ L["tjetty"] = {<<"ctx", p>>}
    BY <2>1
  <2>3. \A x \in ObjKinds : /\ First(m.kind, x) => x # "tjetty"
                            /\ Has(m.kind, 1, x) <=> First(m.kind, x) \/ x = "tjetty"
    BY <1>7 DEF First, Has
  <2>4. L["tjetty"] = From(m.kind, "tjetty", n, p, node[p].keeps)
    BY <1>7, <2>2 DEF From
  <2> QED
    BY <2>2, <2>3, <2>4 DEF ObjKinds
<1> QED
  BY <1>1, <1>2, <1>3, <1>4, <1>5, <1>6, <1>7 DEF Kinds

\* The value of a constructor that succeeds has all the objects of its kind.
LEMMA CompleteMirror ==
  ASSUME Structure, Structure', Mirror, NEW t \in Threads, CompleteNode(t)
  PROVE  Mirror'
<1> USE NoneAssumption
<1> DEFINE m == make[t]
           L == LastCall(m)
<1>0. PICK n \in Nodes, k \in Kinds, p \in Nodes \cup {None} :
          n = m.node /\ k = m.kind /\ p = m.keeps
  BY MakeFacts DEF CompleteNode
<1>1. /\ MakeGood(t) /\ k \in Kinds /\ n \in Nodes /\ p \in Nodes \cup {None}
      /\ node[n] = Free /\ p # n /\ \A s \in Threads \ {t} : make[s].node # n
      /\ k # "none" /\ m.undo = 0
  BY <1>0, MakeFacts DEF CompleteNode
<1>2. /\ node' = [node EXCEPT ![n] = [kind |-> k, thread |-> t, keeps |-> p]]
      /\ uses' = With(n, L)
      /\ make' = [make EXCEPT ![t] = NoMake]
      /\ UNCHANGED drop
  BY <1>0 DEF CompleteNode
<1>3. /\ drop[t] = NoDrop /\ GoodContext(k, m.ctx, p)
      /\ GoodParent(k, p, t)
  BY <1>0, <1>1 DEF MakeGood
<1>4. /\ DOMAIN L \subseteq ObjKinds
      /\ \A o \in ObjKinds : o \in DOMAIN L => ~First(k, o)
      /\ \A o \in ObjKinds : Has(k, 1, o) <=> First(k, o) \/ o \in DOMAIN L
      /\ \A o \in DOMAIN L : L[o] = From(k, o, n, p, node[p].keeps)
  BY <1>0, <1>1, <1>3, LastCallFacts
<1>5. make'[t] = NoMake /\ \A s \in Threads \ {t} : make'[s] = make[s]
  BY <1>2 DEF Structure, StateType
<1>6. /\ node'[n].kind = k /\ node'[n].thread = t /\ node'[n].keeps = p
      /\ \A x \in Nodes \ {n} : node'[x] = node[x]
  BY <1>1, <1>2 DEF Structure, StateType
<1>7. \A o \in ObjKinds : <<o, n>> \in live <=> First(k, o)
  <2>1. m.undo <= 1
    BY <1>1
  <2> QED
    BY <1>0, <1>1, <2>1, LiveCases DEF Mirror
<1> HIDE DEF L
<1>8. live' = live \cup {<<o, n>> : o \in DOMAIN L}
  BY <1>2 DEF With, live
<1>9. At(n)' = 1 /\ \A x \in Nodes \ {n} : At(x)' = At(x)
  BY <1>1, <1>2, <1>3, <1>6 DEF At, NoDrop
<1>10. /\ \A o \in ObjKinds : ~Making(n, o)'
       /\ \A x \in Nodes \ {n}, o \in ObjKinds : Making(x, o)' <=> Making(x, o)
  BY <1>0, <1>1, <1>5 DEF Making, NoMake
<1>11. LiveGood'
  <2>1. live' \subseteq Objects
    BY <1>1, <1>4, <1>8 DEF Mirror, LiveGood, Objects
  <2>2. \A o \in ObjKinds : <<o, n>> \in live' <=> Has(node'[n].kind, At(n)', o) \/ Making(n, o)'
    BY <1>4, <1>6, <1>7, <1>8, <1>9, <1>10
  <2>3. \A x \in Nodes \ {n}, o \in ObjKinds :
            <<o, x>> \in live' <=> Has(node'[x].kind, At(x)', o) \/ Making(x, o)'
    BY <1>6, <1>8, <1>9, <1>10 DEF Mirror, LiveGood
  <2> QED
    BY <2>1, <2>2, <2>3 DEF LiveGood
<1>12. UsesGood'
  <2>1. uses' = [x \in live' |-> uses'[x]]
    BY <1>2, <1>8 DEF With
  <2>2. \A x \in live : uses'[x] = uses[x]
    BY <1>2 DEF With
  <2>3. \A x \in Nodes : node[x].keeps # n
    BY <1>1 DEF Structure, NodesGood, GoodParent, Free, Kinds
  <2>4. \A s \in Threads : make[s].keeps # n
    BY <1>1 DEF Structure, MakesGood, MakeGood, NoMake, GoodParent, Free, Kinds
  <2>5. ASSUME NEW o \in ObjKinds, <<o, n>> \in live'
        PROVE  uses'[<<o, n>>] = From(k, o, n, p, node'[p].keeps)
    <3>1. o \in {"jfr", "jetty"} => p \in Nodes /\ node'[p] = node[p]
      <4>1. Has(k, 1, o)
        BY <1>4, <1>7, <1>8, <2>5
      <4> QED
        BY <1>1, <1>3, <1>6, <4>1 DEF Has, GoodParent
    <3>2. uses'[<<o, n>>] = From(k, o, n, p, node[p].keeps)
      <4>1. CASE o \in DOMAIN L
        <5>1. <<o, n>> \notin live /\ <<o, n>>[1] = o
          BY <1>4, <1>7, <4>1
        <5>2. uses'[<<o, n>>] = L[o]
          BY <1>2, <1>8, <2>5, <5>1 DEF With
        <5> QED
          BY <1>4, <4>1, <5>2
      <4>2. CASE o \notin DOMAIN L
        <5>1. <<o, n>> \in live
          BY <1>8, <2>5, <4>2
        <5>2. uses[<<o, make[t].node>>] =
                  From(make[t].kind, o, make[t].node, make[t].keeps, node[make[t].keeps].keeps)
          BY <1>0, <1>1, <5>1 DEF Mirror, UsesGood
        <5> QED
          BY <1>0, <2>2, <5>1, <5>2
      <4> QED
        BY <4>1, <4>2
    <3> QED
      BY <3>1, <3>2 DEF From, ObjKinds
  <2>6. ASSUME NEW x \in Nodes, NEW o \in ObjKinds, <<o, x>> \in live', node'[x] # Free
        PROVE  uses'[<<o, x>>] = From(node'[x].kind, o, x, node'[x].keeps,
                                      node'[node'[x].keeps].keeps)
    <3>1. CASE x = n
      BY <1>6, <2>5, <2>6, <3>1
    <3>2. CASE x # n
      BY <1>1, <1>6, <1>8, <2>2, <2>3, <2>4, <2>6, <3>2, UsesKept
    <3> QED
      BY <3>1, <3>2
  <2>7. ASSUME NEW s \in Threads, NEW o \in ObjKinds, make'[s].kind # "none",
               <<o, make'[s].node>> \in live'
        PROVE  uses'[<<o, make'[s].node>>] =
                   From(make'[s].kind, o, make'[s].node, make'[s].keeps,
                        node'[make'[s].keeps].keeps)
    <3>1. s # t /\ make'[s] = make[s] /\ make[s].node # n
      BY <1>0, <1>1, <1>5, <2>7 DEF NoMake
    <3>2. <<o, make[s].node>> \in live /\ make[s].kind # "none"
      BY <1>8, <2>7, <3>1
    <3> QED
      BY <1>1, <1>6, <2>2, <2>3, <2>4, <3>1, <3>2, UsesKept
  <2> QED
    BY <2>1, <2>6, <2>7 DEF UsesGood
<1> QED
  BY <1>11, <1>12 DEF Mirror

\* Nothing about the objects changes while no node, no constructor's slot and
\* no position in a destructor does.
LEMMA StillMirror ==
  ASSUME Mirror, UNCHANGED <<node, uses>>,
         \A n \in Nodes : At(n)' = At(n),
         \A n \in Nodes, o \in ObjKinds : Making(n, o)' <=> Making(n, o),
         \A s \in Threads : make'[s].kind # "none" =>
             /\ make[s].kind = make'[s].kind /\ make[s].node = make'[s].node
             /\ make[s].keeps = make'[s].keeps
  PROVE  Mirror'
<1>1. live' = live
  BY DEF live
<1>2. LiveGood'
  BY <1>1 DEF Mirror, LiveGood
<1>3. UsesGood'
  BY <1>1 DEF Mirror, UsesGood
<1> QED
  BY <1>2, <1>3 DEF Mirror

\* The error path deletes what the first call created, and nothing else.
LEMMA FailMirror ==
  ASSUME Structure, Structure', Mirror, NEW t \in Threads,
         LastCallFails(t) \/ UndoCall(t) \/ ReturnError(t)
  PROVE  Mirror'
<1> USE NoneAssumption
<1>1. make[t].kind # "none" /\ UNCHANGED <<node, drop>>
  BY DEF LastCallFails, UndoCall, ReturnError
<1>2. PICK n \in Nodes, k \in Kinds : n = make[t].node /\ k = make[t].kind
  BY <1>1, MakeFacts
<1>3. \A x \in Nodes : At(x)' = At(x)
  BY <1>1 DEF At
<1>4. node[n] = Free /\ \A s \in Threads \ {t} : make[s].node # n
  BY <1>1, <1>2, MakeFacts
<1>5. \A o \in ObjKinds : Making(n, o) <=> First(k, o) /\ make[t].undo <= 1
  BY <1>2, <1>4 DEF Making
<1>6. CASE LastCallFails(t)
  <2>1. /\ make' = [make EXCEPT ![t].undo = 1] /\ make[t].undo = 0
        /\ UNCHANGED uses
    BY <1>6 DEF LastCallFails
  <2>2. /\ \A s \in Threads : /\ make'[s].kind = make[s].kind
                              /\ make'[s].node = make[s].node
                              /\ make'[s].keeps = make[s].keeps
        /\ \A s \in Threads : make[s].undo <= 1 <=> make'[s].undo <= 1
    BY <2>1 DEF Structure, StateType
  <2>3. \A x \in Nodes, o \in ObjKinds : Making(x, o)' <=> Making(x, o)
    BY <2>2 DEF Making
  <2> QED
    BY <1>1, <1>3, <2>1, <2>2, <2>3, StillMirror
<1>7. CASE ReturnError(t)
  <2>1. /\ make' = [make EXCEPT ![t] = NoMake] /\ make[t].undo > Len(UndoOrder[k])
        /\ UNCHANGED uses
    BY <1>2, <1>7 DEF ReturnError
  <2>2. \A o \in ObjKinds : First(k, o) => ~(make[t].undo <= 1)
    <3>1. CASE k \in {"urma", "context", "seg"}
      BY <3>1 DEF First
    <3>2. CASE k \in {"cq", "jetty", "buf", "peer"}
      <4>1. Len(UndoOrder[k]) = 1 /\ make[t].undo \in 0..2
        BY <1>1, <3>2, UndoFacts, MakeFacts
      <4> QED
        BY <2>1, <4>1
    <3> QED
      BY <3>1, <3>2 DEF Kinds
  <2>3. make'[t] = NoMake /\ \A s \in Threads \ {t} : make'[s] = make[s]
    BY <2>1 DEF Structure, StateType
  <2>4. \A x \in Nodes, o \in ObjKinds : Making(x, o)' <=> Making(x, o)
    BY <1>2, <2>2, <2>3 DEF Making, NoMake
  <2> QED
    BY <1>1, <1>3, <2>1, <2>3, <2>4, StillMirror DEF NoMake
<1>8. CASE UndoCall(t)
  <2>1. make[t].undo = 1 /\ k \in {"cq", "jetty", "buf", "peer"}
    BY <1>1, <1>2, <1>8, UndoFacts, MakeFacts DEF UndoCall, Kinds
  <2>2. PICK u \in ObjKinds : /\ u = UndoOrder[k][1]
                              /\ \A o \in ObjKinds : First(k, o) <=> o = u
    BY <2>1, UndoFacts
  <2>3. /\ uses' = Without(<<u, n>>)
        /\ make' = [make EXCEPT ![t].undo = 2]
    BY <1>2, <1>8, <2>1, <2>2 DEF UndoCall
  <2>4. live' = live \ {<<u, n>>} /\ \A x \in live' : uses'[x] = uses[x]
    BY <2>3 DEF Without, live
  <2>5. /\ \A s \in Threads : /\ make'[s].kind = make[s].kind
                              /\ make'[s].node = make[s].node
                              /\ make'[s].keeps = make[s].keeps
        /\ \A s \in Threads \ {t} : make'[s].undo = make[s].undo
        /\ make'[t].undo = 2
    BY <2>3 DEF Structure, StateType
  <2>6. \A o \in ObjKinds : ~Making(n, o)' /\ (<<o, n>> \in live <=> o = u)
    <3>1. \A o \in ObjKinds : ~Making(n, o)'
      BY <1>4, <2>5 DEF Making
    <3>2. \A o \in ObjKinds : <<o, n>> \in live <=> First(k, o)
      <4>1. make[t].undo <= 1
        BY <2>1
      <4> QED
        BY <1>4, <1>5, <4>1, LiveCases DEF Mirror
    <3> QED
      BY <2>2, <3>1, <3>2
  <2>7. \A x \in Nodes \ {n}, o \in ObjKinds : Making(x, o)' <=> Making(x, o)
    BY <1>2, <2>5 DEF Making
  <2>8. LiveGood'
    <3>1. live' \subseteq Objects
      BY <2>4 DEF Mirror, LiveGood
    <3>2. \A o \in ObjKinds : <<o, n>> \notin live' /\ ~Has(node'[n].kind, At(n)', o)
      BY <1>1, <1>4, <2>4, <2>6 DEF Has, Free
    <3>3. \A x \in Nodes \ {n}, o \in ObjKinds :
              <<o, x>> \in live' <=> Has(node'[x].kind, At(x)', o) \/ Making(x, o)'
      BY <1>1, <1>3, <2>4, <2>7 DEF Mirror, LiveGood
    <3> QED
      BY <2>6, <3>1, <3>2, <3>3 DEF LiveGood
  <2>9. UsesGood'
    <3>1. uses' = [x \in live' |-> uses'[x]]
      BY <2>3, <2>4 DEF Without
    <3> QED
      BY <1>1, <2>4, <2>5, <3>1 DEF Mirror, UsesGood
  <2> QED
    BY <2>8, <2>9 DEF Mirror
<1> QED
  BY <1>6, <1>7, <1>8

\* Starting the destructor of a node that is not being torn down yet does not
\* change how far any destructor has got.
LEMMA DisownAt ==
  ASSUME Structure, NEW t \in Threads, NEW n \in Nodes \cup {None},
         drop[t] = NoDrop, Disown(t, n), UNCHANGED node
  PROVE  \A m \in Nodes : At(m)' = At(m)
  BY NoneAssumption DEF At, Disown, NoDrop, Structure, StateType, NodesGood, Free

\* Every destructor step, DropHandle and ThreadExit keep the C objects in step
\* with the ownership graph.
LEMMA DestructMirror ==
  ASSUME Structure, Structure', Mirror, NEW t \in Threads,
         \/ \E h \in Handles : DropHandle(t, h)
         \/ Destruct(t)
         \/ ThreadExit(t)
  PROVE  Mirror'
<1> USE NoneAssumption
<1>1. /\ make' = make
      /\ \A n \in Nodes, o \in ObjKinds : Making(n, o)' <=> Making(n, o)
  BY DEF DropHandle, Destruct, DeleteObject, ReleaseFields, ThreadExit, Making
<1>2. ASSUME NEW h \in Handles, DropHandle(t, h) PROVE Mirror'
  <2>1. own[h] \in Nodes \cup {None} /\ drop[t] = NoDrop /\ UNCHANGED <<node, uses>>
        /\ Disown(t, own[h])
    BY <1>2 DEF DropHandle, Idle, AtRest, Structure, StateType
  <2> QED
    BY <1>1, <2>1, DisownAt, StillMirror
<1>3. ASSUME ThreadExit(t) PROVE Mirror'
  <2>1. cache[t] \in Nodes \cup {None} /\ drop[t] = NoDrop /\ UNCHANGED <<node, uses>>
        /\ Disown(t, cache[t])
    BY <1>3 DEF ThreadExit, Idle, AtRest, Structure, StateType
  <2> QED
    BY <1>1, <2>1, DisownAt, StillMirror
<1>4. ASSUME NEW n \in Nodes, drop[t].node = n, DeleteObject(t) PROVE Mirror'
  <2> DEFINE a == drop[t].at
             k == node[n].kind
             o == DropOrder[k][a]
  <2>1. /\ a \in 1..3 /\ a <= Len(DropOrder[k])
        /\ uses' = Without(<<o, n>>)
        /\ drop' = [drop EXCEPT ![t].at = a + 1]
        /\ node[n].thread = t /\ k \in Kinds
        /\ UNCHANGED node
    BY <1>4 DEF DeleteObject, Structure, StateType, DropsGood, NodesGood, GoodParent, Free
  <2>2. At(n) = a /\ At(n)' = a + 1
    BY <1>4, <2>1 DEF At, Structure, StateType
  <2>3. \A m \in Nodes : m # n => At(m)' = At(m)
    BY <1>4, <2>1 DEF At, Structure, StateType
  <2>4. \A x \in ObjKinds : Has(k, a + 1, x) <=> Has(k, a, x) /\ x # o
    BY <2>1 DEF Has, DropOrder, UrmaDrop, ContextDrop, CqDrop, JettyDrop, SegDrop,
                PeerDrop, Kinds, ObjKinds
  <2>5. live' = live \ {<<o, n>>} /\ \A x \in live' : uses'[x] = uses[x]
    BY <2>1 DEF Without, live
  <2>6. LiveGood'
    <3>1. ASSUME NEW m \in Nodes, NEW x \in ObjKinds
          PROVE  <<x, m>> \in live' <=> Has(node[m].kind, At(m)', x) \/ Making(m, x)'
      <4>1. CASE m = n
        <5>1. ~Making(n, x)
          BY <2>1, MakeFacts DEF Making, First, Free
        <5> QED
          BY <1>1, <4>1, <5>1, <2>2, <2>4, <2>5 DEF Mirror, LiveGood
      <4>2. CASE m # n
        BY <1>1, <4>2, <2>3, <2>5 DEF Mirror, LiveGood
      <4> QED
        BY <4>1, <4>2
    <3> QED
      BY <2>1, <2>5, <3>1 DEF Mirror, LiveGood
  <2>7. UsesGood'
    <3>1. uses' = [x \in live' |-> uses'[x]]
      BY <2>1, <2>5 DEF Without
    <3> QED
      BY <1>1, <2>1, <2>5, <3>1 DEF Mirror, UsesGood
  <2> QED
    BY <2>6, <2>7 DEF Mirror
<1>5. ASSUME NEW n \in Nodes, drop[t].node = n, ReleaseFields(t) PROVE Mirror'
  <2> DEFINE a == drop[t].at
             k == node[n].kind
             p == node[n].keeps
  <2>1. /\ a \in 1..3 /\ a > Len(DropOrder[k])
        /\ uses' = Without(<<"mem", n>>)
        /\ node' = [node EXCEPT ![n] = Free]
        /\ node[n].thread = t /\ k \in Kinds /\ ~Owned(n)
        /\ GoodParent(k, p, t)
        /\ Disown(t, p)
    BY <1>5 DEF ReleaseFields, Structure, StateType, DropsGood, NodesGood, GoodParent, Free
  <2>2. At(n) = a
    BY <1>5, <2>1 DEF At
  <2>3. \A x \in ObjKinds : Has(k, a, x) => x = "mem"
    BY <2>1 DEF Has, DropOrder, UrmaDrop, ContextDrop, CqDrop, JettyDrop, SegDrop,
                PeerDrop, Kinds, ObjKinds
  <2>4. live' = live \ {<<"mem", n>>} /\ \A x \in live' : uses'[x] = uses[x]
    BY <2>1 DEF Without, live
  <2>5. ASSUME NEW m \in Nodes, m # n PROVE At(m)' = At(m)
    <3>1. node'[m] = node[m]
      BY <2>1, <2>5 DEF Structure, StateType
    <3>2. CASE m = p
      <4>1. Owned(p)
        BY <2>5, <3>2 DEF Owned, OwnedBy
      <4>2. At(p) = 1
        BY <3>2, <4>1, OwnedAt
      <4> QED
        BY <2>1, <3>1, <3>2, <4>2 DEF At, Disown, NoDrop, Structure, StateType
    <3>3. CASE m # p
      BY <1>5, <2>1, <2>5, <3>1, <3>3 DEF At, Disown, NoDrop, Structure, StateType, NodesGood, Free
    <3> QED
      BY <3>2, <3>3
  <2>6. LiveGood'
    <3>1. \A x \in ObjKinds : <<x, n>> \notin live'
      BY <2>1, <2>2, <2>3, <2>4, LiveCases DEF Mirror, Free
    <3>2. node'[n].kind = "free"
      BY <2>1 DEF Structure, StateType, Free
    <3>3. \A m \in Nodes : m # n => node'[m] = node[m]
      BY <2>1 DEF Structure, StateType
    <3>4. \A x \in ObjKinds : ~Making(n, x)'
      BY <1>1, <2>1, MakeFacts DEF Making, First, Free
    <3>5. \A m \in Nodes \ {n}, x \in ObjKinds :
              <<x, m>> \in live' <=> Has(node'[m].kind, At(m)', x) \/ Making(m, x)'
      BY <1>1, <2>4, <2>5, <3>3 DEF Mirror, LiveGood
    <3>6. \A x \in ObjKinds : ~Has(node'[n].kind, At(n)', x)
      BY <3>2 DEF Has
    <3>7. live' \subseteq Objects
      BY <2>4 DEF Mirror, LiveGood
    <3> QED
      BY <3>1, <3>4, <3>5, <3>6, <3>7 DEF LiveGood
  <2>7. UsesGood'
    <3>1. uses' = [x \in live' |-> uses'[x]]
      BY <2>1, <2>4 DEF Without
    <3>2. \A m \in Nodes : node[m].keeps # n
      BY <2>1 DEF Owned, OwnedBy
    <3>3. \A s \in Threads : make[s].keeps # n
      BY <2>1 DEF Structure, MakesGood, MakeGood, NoMake
    <3>4. \A m \in Nodes \ {n} : node'[m] = node[m]
      BY <2>1 DEF Structure, StateType
    <3>5. node'[n] = Free
      BY <2>1 DEF Structure, StateType
    <3> QED
      BY <1>1, <2>4, <3>1, <3>2, <3>3, <3>4, <3>5, UsesKept DEF UsesGood
  <2> QED
    BY <2>6, <2>7 DEF Mirror
<1>6. ASSUME Destruct(t) PROVE drop[t].node \in Nodes
  BY <1>6 DEF Destruct, DeleteObject, ReleaseFields, Structure, StateType
<1> QED
  BY <1>2, <1>3, <1>4, <1>5, <1>6 DEF Destruct

-----------------------------------------------------------------------------
(* The theorems. *)

\* IInv holds in every reachable state, whatever order the callers use.
LEMMA Invariance == ASSUME CallersConform PROVE Spec => []IInv
<1>1. Init => IInv
  <2> SUFFICES ASSUME Init PROVE IInv
    OBVIOUS
  <2>1. Structure
    BY InitStructure
  <2>2. live = {}
    BY DEF Init, live
  <2>3. \A n \in Nodes : node[n].kind = "free"
    BY DEF Init, Free
  <2>4. uses = [x \in live |-> uses[x]]
    BY DEF Init, live
  <2>5. \A n \in Nodes, o \in ObjKinds : ~Making(n, o)
    BY NoneAssumption DEF Init, NoMake, Making
  <2> QED
    BY <2>1, <2>2, <2>3, <2>4, <2>5 DEF IInv, Mirror, LiveGood, UsesGood, Has
<1>2. IInv /\ [Next]_vars => IInv'
  <2> SUFFICES ASSUME IInv, [Next]_vars PROVE IInv'
    OBVIOUS
  <2>1. ASSUME NEW t \in Threads, Construct(t) PROVE IInv'
    <3>1. ASSUME NEW h \in Handles, NEW n \in Nodes, Shares(t, h, n) PROVE IInv'
      <4>1. Structure'
        BY <3>1, ShareStructure DEF IInv
      <4>2. UNCHANGED <<node, uses, make, drop>>
        BY <3>1 DEF Shares
      <4>3. Mirror'
        BY <4>2, StillMirror DEF IInv, At, Making
      <4> QED
        BY <4>1, <4>3 DEF IInv
    <3>2. ASSUME NEW h \in Handles \cup {None}, NEW p \in Nodes \cup {None}, NEW k, NEW c,
                 NEW made, Begins(t, h, k, c, p, made)
          PROVE IInv'
      <4>1. Structure'
        BY <3>2, BeginStructure DEF IInv
      <4>2. Mirror'
        BY <3>2, <4>1, BeginMirror DEF IInv
      <4> QED
        BY <4>1, <4>2 DEF IInv
    <3> QED
      BY <2>1, <3>1, <3>2, ConstructCases DEF IInv
  <2>2. ASSUME NEW t \in Threads, Carry(t) PROVE IInv'
    <3>1. Structure'
      BY <2>2, CompleteStructure, FailStructure DEF Carry, IInv
    <3>2. Mirror'
      BY <2>2, <3>1, CompleteMirror, FailMirror DEF Carry, IInv
    <3> QED
      BY <3>1, <3>2 DEF IInv
  <2>3. ASSUME NEW t \in Threads,
               \/ \E h \in Handles : DropHandle(t, h)
               \/ Destruct(t)
               \/ ThreadExit(t)
        PROVE IInv'
    BY <2>3, DestructStructure, DestructMirror DEF IInv
  <2>4. CASE UNCHANGED vars
    <3>1. StateType' /\ NodesGood' /\ RefsGood' /\ DropsGood'
      BY <2>4 DEF vars, IInv, Structure, StateType, NodesGood, GoodParent, RefsGood, DropsGood,
                  Owned, OwnedBy
    <3>2. MakesGood'
      BY <2>4 DEF vars, IInv, Structure, MakesGood, MakeGood, GoodParent, GoodContext,
                  Owned, OwnedBy
    <3>3. Mirror'
      BY <2>4, StillMirror DEF vars, IInv, At, Making
    <3> QED
      BY <3>1, <3>2, <3>3 DEF IInv, Structure
  <2> QED
    BY <2>1, <2>2, <2>3, <2>4 DEF Next
<1> QED
  BY <1>1, <1>2, PTL DEF Spec

\* A node in use has all the objects of its kind.
LEMMA OwnedHas ==
  ASSUME IInv, NEW n \in Nodes, Owned(n), node[n] # Free, NEW o \in ObjKinds
  PROVE  <<o, n>> \in live <=> Has(node[n].kind, 1, o)
<1>1. At(n) = 1
  BY OwnedAt DEF IInv
<1> QED
  BY <1>1, LiveCases DEF IInv, Mirror

\* What an object of a node, or of a constructor's slot, was created from is
\* live: the parent is kept, so no destructor of the parent is running.
LEMMA ParentLive ==
  ASSUME IInv, NEW n \in Nodes, NEW o \in ObjKinds, NEW t \in Threads, NEW k, NEW p, NEW a,
         GoodParent(k, p, t), p # None => Owned(p), Has(k, a, o),
         o = "jfc" => <<"jfce", n>> \in live,
         o = "jetty" => <<"jfr", n>> \in live,
         o = "tseg" /\ k # "seg" => <<"mem", n>> \in live
  PROVE  From(k, o, n, p, node[p].keeps) \subseteq live
<1> USE NoneAssumption
<1> DEFINE c == node[p].keeps
<1>1. CASE o \in {"lib", "mem"}
  BY <1>1 DEF From
<1>2. CASE o = "ctx"
  <2>1. p \in Nodes /\ node[p].kind = "urma"
    BY <1>2 DEF Has, GoodParent
  <2>2. <<"lib", p>> \in live
    <3>1. Has(node[p].kind, 1, "lib") /\ "lib" \in ObjKinds /\ node[p] # Free
      BY <2>1 DEF Has, ObjKinds, Free
    <3> QED
      BY <2>1, <3>1, OwnedHas
  <2> QED
    BY <1>2, <2>2 DEF From
<1>3. CASE o \in {"jfce", "iseg", "tjetty", "jfc", "tseg"}
  <2>1. p \in Nodes /\ node[p].kind = "context"
    BY <1>3 DEF Has, GoodParent
  <2>2. <<"ctx", p>> \in live
    <3>1. Has(node[p].kind, 1, "ctx") /\ "ctx" \in ObjKinds /\ node[p] # Free
      BY <2>1 DEF Has, ObjKinds, Free
    <3> QED
      BY <2>1, <3>1, OwnedHas
  <2> QED
    BY <1>3, <2>2 DEF From
<1>4. CASE o \in {"jfr", "jetty"}
  <2>1. p \in Nodes /\ node[p].kind = "cq" /\ node[p] # Free
    BY <1>4 DEF Has, GoodParent, Free
  <2>2. c \in Nodes /\ node[c].kind = "context" /\ Owned(c)
    BY <2>1 DEF IInv, Structure, StateType, NodesGood, GoodParent, Free, Owned, OwnedBy
  <2>3. <<"ctx", c>> \in live
    <3>1. Has(node[c].kind, 1, "ctx") /\ "ctx" \in ObjKinds /\ node[c] # Free
      BY <2>2 DEF Has, ObjKinds, Free
    <3> QED
      BY <2>2, <3>1, OwnedHas
  <2>4. Has(node[p].kind, 1, "jfc") /\ "jfc" \in ObjKinds
    BY <2>1 DEF Has, ObjKinds
  <2>5. <<"jfc", p>> \in live
    BY <2>1, <2>4, OwnedHas
  <2> QED
    BY <1>4, <2>3, <2>5 DEF From
<1> QED
  BY <1>1, <1>2, <1>3, <1>4 DEF ObjKinds

\* ParentsOutlive, read off the mirror.
LEMMA MirrorParents == IInv => ParentsOutlive
<1> SUFFICES ASSUME IInv, NEW n \in Nodes, NEW o \in ObjKinds, <<o, n>> \in live
             PROVE  uses[<<o, n>>] \subseteq live
  BY DEF ParentsOutlive, IInv, Mirror, LiveGood, Objects
<1> USE NoneAssumption
<1>1. CASE node[n] # Free
  <2> DEFINE k == node[n].kind
             p == node[n].keeps
  <2>1. /\ Has(k, At(n), o)
        /\ uses[<<o, n>>] = From(k, o, n, p, node[p].keeps)
    BY <1>1, LiveCases DEF IInv, Mirror, UsesGood
  <2>2. node[n].thread \in Threads /\ GoodParent(k, p, node[n].thread)
    BY <1>1 DEF IInv, Structure, NodesGood
  <2>3. p # None => Owned(p)
    BY DEF Owned, OwnedBy
  <2>4. o = "jfc" => <<"jfce", n>> \in live
    <3>1. o = "jfc" => Has(k, At(n), "jfce") /\ "jfce" \in ObjKinds
      BY <2>1 DEF Has, ObjKinds
    <3> QED
      BY <1>1, <3>1, LiveCases DEF IInv, Mirror
  <2>5. o = "jetty" => <<"jfr", n>> \in live
    <3>1. o = "jetty" => Has(k, At(n), "jfr") /\ "jfr" \in ObjKinds
      BY <2>1 DEF Has, ObjKinds
    <3> QED
      BY <1>1, <3>1, LiveCases DEF IInv, Mirror
  <2>6. o = "tseg" /\ k # "seg" => <<"mem", n>> \in live
    <3>1. o = "tseg" /\ k # "seg" => Has(k, At(n), "mem") /\ "mem" \in ObjKinds
      BY <2>1 DEF Has, ObjKinds
    <3> QED
      BY <1>1, <3>1, LiveCases DEF IInv, Mirror
  <2> QED
    BY <2>1, <2>2, <2>3, <2>4, <2>5, <2>6, ParentLive
<1>2. CASE node[n] = Free
  <2>1. PICK t \in Threads : make[t].node = n /\ First(make[t].kind, o)
    BY <1>2, LiveCases DEF IInv, Mirror, Making
  <2> DEFINE k == make[t].kind
             p == make[t].keeps
  <2>2. /\ GoodParent(k, p, t) /\ (p # None => Owned(p)) /\ k # "none"
    BY <2>1, MakeFacts DEF IInv, First, MakeGood
  <2>3. uses[<<o, n>>] = From(k, o, n, p, node[p].keeps)
    BY <2>1, <2>2 DEF IInv, Mirror, UsesGood
  <2>4. Has(k, 1, o) /\ o \notin {"jfc", "jetty", "tseg"}
    BY <2>1 DEF First, Has
  <2> QED
    BY <2>2, <2>3, <2>4, ParentLive
<1> QED
  BY <1>1, <1>2

\* Type correctness of the resource layer.
THEOREM TypeCorrect == ASSUME CallersConform PROVE Spec => []TypeOK
<1>1. IInv => TypeOK
  <2> SUFFICES ASSUME IInv PROVE TypeOK
    OBVIOUS
  <2>1. \A x \in live : uses[x] \subseteq Objects
    BY MirrorParents DEF ParentsOutlive, IInv, Mirror, LiveGood
  <2>2. uses \in [live -> SUBSET Objects]
    BY <2>1 DEF IInv, Mirror, UsesGood
  <2> QED
    BY <2>2 DEF TypeOK, IInv, Structure, StateType, Mirror, LiveGood
<1> QED
  BY <1>1, Invariance, PTL

\* A C object never outlives one it was created from, in whatever order the
\* program drops its handles (head comment of urma.rs) and wherever a
\* constructor fails.
THEOREM ParentsOutliveChildren == ASSUME CallersConform PROVE Spec => []ParentsOutlive
  BY MirrorParents, Invariance, PTL

\* No C object is deleted twice, by a destructor or on an error path.
THEOREM NoDoubleDelete == ASSUME CallersConform PROVE Spec => []DeletesLive
<1>1. ASSUME IInv, NEW t \in Threads, NEW n \in Nodes, drop[t].node = n,
             drop[t].at <= Len(DropOrder[node[n].kind])
      PROVE  <<DropOrder[node[n].kind][drop[t].at], n>> \in live
  <2>1. node[n].thread = t /\ node[n].kind \in Kinds /\ drop[t].at \in 1..3
    BY <1>1, NoneAssumption DEF IInv, Structure, StateType, DropsGood, NodesGood, GoodParent, Free
  <2>2. At(n) = drop[t].at
    BY <1>1, <2>1, NoneAssumption DEF At
  <2>3. \A k \in Kinds, a \in 1..3 :
            a <= Len(DropOrder[k]) => /\ DropOrder[k][a] \in ObjKinds
                                      /\ Has(k, a, DropOrder[k][a])
    <3>1. \A k \in {"urma", "context", "seg", "buf"} :
              /\ Len(DropOrder[k]) = 1
              /\ DropOrder[k][1] \in ObjKinds /\ Has(k, 1, DropOrder[k][1])
      <4>1. Len(DropOrder["urma"]) = 1 /\ DropOrder["urma"][1] = "lib"
        BY DEF DropOrder, UrmaDrop
      <4>2. Len(DropOrder["context"]) = 1 /\ DropOrder["context"][1] = "ctx"
        BY DEF DropOrder, ContextDrop
      <4>3. Len(DropOrder["seg"]) = 1 /\ DropOrder["seg"][1] = "tseg"
        BY DEF DropOrder, SegDrop
      <4>4. Len(DropOrder["buf"]) = 1 /\ DropOrder["buf"][1] = "tseg"
        BY DEF DropOrder, SegDrop
      <4> QED
        BY <4>1, <4>2, <4>3, <4>4 DEF Has, ObjKinds
    <3>2. \A k \in {"cq", "jetty", "peer"} :
              /\ Len(DropOrder[k]) = 2
              /\ DropOrder[k][1] \in ObjKinds /\ Has(k, 1, DropOrder[k][1])
              /\ DropOrder[k][2] \in ObjKinds /\ Has(k, 2, DropOrder[k][2])
      <4>1. /\ Len(DropOrder["cq"]) = 2
            /\ DropOrder["cq"][1] = "jfc" /\ DropOrder["cq"][2] = "jfce"
        BY DEF DropOrder, CqDrop
      <4>2. /\ Len(DropOrder["jetty"]) = 2
            /\ DropOrder["jetty"][1] = "jetty" /\ DropOrder["jetty"][2] = "jfr"
        BY DEF DropOrder, JettyDrop
      <4>3. /\ Len(DropOrder["peer"]) = 2
            /\ DropOrder["peer"][1] = "tjetty" /\ DropOrder["peer"][2] = "iseg"
        BY DEF DropOrder, PeerDrop
      <4> QED
        BY <4>1, <4>2, <4>3 DEF Has, ObjKinds
    <3> SUFFICES ASSUME NEW k \in Kinds, NEW a \in 1..3, a <= Len(DropOrder[k])
                 PROVE  DropOrder[k][a] \in ObjKinds /\ Has(k, a, DropOrder[k][a])
      OBVIOUS
    <3>3. CASE k \in {"urma", "context", "seg", "buf"}
      <4>1. Len(DropOrder[k]) = 1
        BY <3>1, <3>3
      <4>2. a = 1
        BY <4>1
      <4> QED
        BY <3>1, <3>3, <4>2
    <3>4. CASE k \in {"cq", "jetty", "peer"}
      <4>1. Len(DropOrder[k]) = 2
        BY <3>2, <3>4
      <4>2. a = 1 \/ a = 2
        BY <4>1
      <4> QED
        BY <3>2, <3>4, <4>2
    <3> QED
      BY <3>3, <3>4 DEF Kinds
  <2> QED
    BY <1>1, <2>1, <2>2, <2>3 DEF IInv, Mirror, LiveGood
<1>2. ASSUME IInv, NEW t \in Threads, make[t].kind # "none",
             make[t].undo \in DOMAIN UndoOrder[make[t].kind]
      PROVE  <<UndoOrder[make[t].kind][make[t].undo], make[t].node>> \in live
  <2> DEFINE k == make[t].kind
  <2>1. make[t].undo = 1 /\ k \in {"cq", "jetty", "buf", "peer"}
    BY <1>2, UndoFacts, MakeFacts DEF IInv, Kinds
  <2>2. UndoOrder[k][1] \in ObjKinds /\ First(k, UndoOrder[k][1])
    BY <2>1, UndoFacts
  <2> QED
    BY <1>2, <2>1, <2>2, LiveCases DEF IInv, Mirror
<1>3. IInv => DeletesLive
  <2> SUFFICES ASSUME IInv, NEW t \in Threads
               PROVE  /\ drop[t].node # None /\ drop[t].at <= Len(DropOrder[node[drop[t].node].kind])
                             => <<DropOrder[node[drop[t].node].kind][drop[t].at], drop[t].node>> \in live
                      /\ make[t].kind # "none" /\ make[t].undo \in DOMAIN UndoOrder[make[t].kind]
                             => <<UndoOrder[make[t].kind][make[t].undo], make[t].node>> \in live
    BY DEF DeletesLive
  <2>1. drop[t].node # None => drop[t].node \in Nodes
    BY DEF IInv, Structure, StateType
  <2> QED
    BY <1>1, <1>2, <2>1
<1> QED
  BY <1>3, Invariance, PTL

\* A node whose destructor runs is out of reach of every handle and child.
THEOREM DroppedIsUnreachable == ASSUME CallersConform PROVE Spec => []NoUseAfterDrop
<1>1. IInv => NoUseAfterDrop
  BY DEF NoUseAfterDrop, IInv, Structure, DropsGood
<1> QED
  BY <1>1, Invariance, PTL

\* A node without an owner is the one a thread's destructor has reached.
Reached == \A n \in Nodes : node[n] # Free =>
               Owned(n) \/ \E t \in Threads : drop[t].node = n

\* No step orphans a node: whoever takes the last owner starts the destructor.
LEMMA StepReached ==
  ASSUME CallersConform, IInv, IInv', Reached, Next
  PROVE  Reached'
<1> USE NoneAssumption
<1> SUFFICES ASSUME NEW n \in Nodes, node'[n] # Free,
                    ~OwnedBy(n, own', node', cache'),
                    \A s \in Threads : drop'[s].node # n
             PROVE  FALSE
  BY DEF Reached, Owned
<1>1. PICK t \in Threads : \/ Construct(t)
                           \/ Carry(t)
                           \/ \E h \in Handles : DropHandle(t, h)
                           \/ Destruct(t)
                           \/ ThreadExit(t)
  BY DEF Next
<1>2. ASSUME UNCHANGED <<node, cache, drop>>,
             \A h \in Handles : own[h] # None => own'[h] = own[h]
      PROVE FALSE
  <2>1. Owned(n)
    BY <1>2 DEF Reached
  <2> QED
    BY <1>2, <2>1 DEF Owned, OwnedBy
<1>3. CASE Construct(t)
  <2>1. ASSUME NEW h \in Handles, NEW m \in Nodes, Shares(t, h, m) PROVE FALSE
    BY <1>2, <2>1 DEF Shares, Vacant, IInv, Structure, StateType
  <2>2. ASSUME NEW h, NEW k, NEW c, NEW p, NEW made, Begins(t, h, k, c, p, made) PROVE FALSE
    BY <1>2, <2>2 DEF Begins, Begin
  <2> QED
    BY <1>3, <2>1, <2>2, ConstructCases DEF IInv
<1>4. CASE Carry(t)
  <2>1. CASE LastCallFails(t) \/ UndoCall(t) \/ ReturnError(t)
    BY <1>2, <2>1 DEF LastCallFails, UndoCall, ReturnError
  <2>2. CASE CompleteNode(t)
    <3>1. PICK m \in Nodes, h \in Handles \cup {None} :
             /\ m = make[t].node /\ h = make[t].to /\ node[m] = Free /\ MakeGood(t)
      BY <2>2, MakeFacts DEF CompleteNode, IInv
    <3>2. /\ node' = [node EXCEPT ![m] = [kind |-> make[t].kind, thread |-> t,
                                          keeps |-> make[t].keeps]]
          /\ own' = IF h = None THEN own ELSE [own EXCEPT ![h] = m]
          /\ cache' = IF make[t].kind = "urma" THEN [cache EXCEPT ![t] = m] ELSE cache
          /\ drop' = drop
      BY <2>2, <3>1 DEF CompleteNode, Cached
    <3>3. /\ h # None => own[h] = None
          /\ h = None => make[t].kind = "urma"
          /\ make[t].kind = "urma" => cache[t] = None
      BY <3>1 DEF MakeGood
    <3>4. n # m
      BY <3>2, <3>3 DEF OwnedBy, IInv, Structure, StateType
    <3>5. node[n] # Free
      BY <3>2, <3>4 DEF IInv, Structure, StateType
    <3>6. Owned(n) => OwnedBy(n, own', node', cache')
      <4>1. \A y \in Handles : own[y] = n => own'[y] = n
        BY <3>2, <3>3 DEF IInv, Structure, StateType
      <4>2. \A y \in Nodes : node[y].keeps = n => node'[y].keeps = n
        BY <3>1, <3>2 DEF IInv, Structure, StateType, Free
      <4>3. \A s \in Threads : cache[s] = n => cache'[s] = n
        BY <3>2, <3>3 DEF IInv, Structure, StateType
      <4> QED
        BY <4>1, <4>2, <4>3 DEF Owned, OwnedBy
    <3> QED
      BY <3>2, <3>5, <3>6 DEF Reached
  <2> QED
    BY <1>4, <2>1, <2>2 DEF Carry
<1>5. ASSUME NEW m \in Nodes \cup {None}, node'[n] = node[n], drop[t].node # n,
             drop' = [drop EXCEPT ![t] = IF m # None /\ ~OwnedBy(m, own', node', cache')
                                         THEN [node |-> m, at |-> 1] ELSE NoDrop],
             n # m => (OwnedBy(n, own', node', cache') <=> Owned(n))
      PROVE FALSE
  BY <1>5 DEF Reached, NoDrop, IInv, Structure, StateType
<1>6. ASSUME NEW h \in Handles, DropHandle(t, h) PROVE FALSE
  <2>1. own[h] \in Nodes /\ own' = [own EXCEPT ![h] = None] /\ UNCHANGED <<node, cache>>
        /\ Disown(t, own[h]) /\ drop[t] = NoDrop
    BY <1>6 DEF DropHandle, Idle, AtRest, IInv, Structure, StateType
  <2>2. n # own[h] => (OwnedBy(n, own', node', cache') <=> Owned(n))
    BY <2>1 DEF Owned, OwnedBy, IInv, Structure, StateType
  <2> QED
    <3>1. PICK m \in Nodes \cup {None} : m = own[h]
      BY <2>1
    <3>2. drop' = [drop EXCEPT ![t] = IF m # None /\ ~OwnedBy(m, own', node', cache')
                                      THEN [node |-> m, at |-> 1] ELSE NoDrop]
      BY <2>1, <3>1 DEF Disown
    <3>3. node'[n] = node[n] /\ drop[t].node # n
      BY <2>1 DEF NoDrop
    <3> QED
      BY <1>5, <2>2, <3>1, <3>2, <3>3
<1>7. CASE DeleteObject(t)
  <2>1. /\ UNCHANGED <<node, own, cache>>
        /\ drop' = [drop EXCEPT ![t].at = @ + 1]
    BY <1>7 DEF DeleteObject
  <2>2. \A s \in Threads : drop'[s].node = drop[s].node
    BY <2>1 DEF IInv, Structure, StateType
  <2> QED
    BY <2>1, <2>2 DEF Reached, Owned, OwnedBy
<1>8. CASE ReleaseFields(t)
  <2> DEFINE m == drop[t].node
             p == node[m].keeps
  <2>1. m \in Nodes /\ p \in Nodes \cup {None} /\ node' = [node EXCEPT ![m] = Free]
        /\ UNCHANGED <<own, cache>> /\ Disown(t, p)
    BY <1>8 DEF ReleaseFields, IInv, Structure, StateType
  <2>2. n # m
    BY <2>1 DEF IInv, Structure, StateType
  <2>3. n # p => (OwnedBy(n, own', node', cache') <=> Owned(n))
    BY <2>1, <2>2 DEF Owned, OwnedBy, IInv, Structure, StateType, Free
  <2>4. node'[n] = node[n]
    BY <2>1, <2>2 DEF IInv, Structure, StateType
  <2> HIDE DEF p
  <2> QED
    BY <1>5, <2>1, <2>2, <2>3, <2>4 DEF Disown
<1>9. CASE ThreadExit(t)
  <2>1. cache[t] \in Nodes \cup {None} /\ cache' = [cache EXCEPT ![t] = None]
        /\ UNCHANGED <<node, own>> /\ Disown(t, cache[t]) /\ drop[t] = NoDrop
    BY <1>9 DEF ThreadExit, Idle, AtRest, IInv, Structure, StateType
  <2>2. n # cache[t] => (OwnedBy(n, own', node', cache') <=> Owned(n))
    BY <2>1 DEF Owned, OwnedBy, IInv, Structure, StateType
  <2> QED
    <3>1. PICK m \in Nodes \cup {None} : m = cache[t]
      BY <2>1
    <3>2. drop' = [drop EXCEPT ![t] = IF m # None /\ ~OwnedBy(m, own', node', cache')
                                      THEN [node |-> m, at |-> 1] ELSE NoDrop]
      BY <2>1, <3>1 DEF Disown
    <3>3. node'[n] = node[n] /\ drop[t].node # n
      BY <2>1 DEF NoDrop
    <3> QED
      BY <1>5, <2>2, <3>1, <3>2, <3>3
<1> QED
  BY <1>1, <1>3, <1>4, <1>6, <1>7, <1>8, <1>9 DEF Destruct

LEMMA AlwaysReached == ASSUME CallersConform PROVE Spec => []Reached
<1>1. Init => Reached
  BY DEF Init, Reached
<1>2. IInv /\ IInv' /\ Reached /\ [Next]_vars => Reached'
  <2>1. CASE Next
    BY <2>1, StepReached
  <2>2. CASE UNCHANGED vars
    BY <2>2 DEF vars, Reached, Owned, OwnedBy
  <2> QED
    BY <2>1, <2>2
<1> QED
  BY <1>1, <1>2, Invariance, PTL DEF Spec

\* No C object is left behind on any path, error paths included: what exists
\* belongs to a node that is owned, or whose constructor or destructor runs.
THEOREM NothingLeaks == ASSUME CallersConform PROVE Spec => []NoLeak
<1>1. IInv /\ Reached => NoLeak
  <2> SUFFICES ASSUME IInv, Reached, NEW n \in Nodes, NEW o \in ObjKinds, <<o, n>> \in live
               PROVE  Owned(n) \/ \E t \in Threads : n \in {make[t].node, drop[t].node}
    BY DEF NoLeak, IInv, Mirror, LiveGood, Objects
  <2>1. CASE node[n] = Free
    BY <2>1, LiveCases DEF IInv, Mirror, Making
  <2>2. CASE node[n] # Free
    BY <2>2 DEF Reached
  <2> QED
    BY <2>1, <2>2
<1> QED
  BY <1>1, AlwaysReached, Invariance, PTL

\* A thread that runs keeps the library it has initialised: its UrmaInner is
\* the one in its cache.
LibCached ==
    \A n \in Nodes : node[n].kind = "urma" =>
        cache[node[n].thread] = n \/ exited[node[n].thread]

LEMMA StepLibCached ==
  ASSUME CallersConform, IInv, IInv', LibCached, Next
  PROVE  LibCached'
<1> USE NoneAssumption
<1>1. \A n \in Nodes : node[n].kind = "urma" => node[n].thread \in Threads
  BY DEF IInv, Structure, NodesGood, Free
<1>2. ASSUME UNCHANGED <<cache, exited>>,
             \A n \in Nodes : node'[n].kind = "urma" => node'[n] = node[n]
      PROVE  LibCached'
  BY <1>2 DEF LibCached
<1>3. PICK t \in Threads : \/ Construct(t)
                           \/ Carry(t)
                           \/ \E h \in Handles : DropHandle(t, h)
                           \/ Destruct(t)
                           \/ ThreadExit(t)
  BY DEF Next
<1>4. CASE Construct(t)
  <2>1. UNCHANGED <<node, cache, exited>>
    <3>1. ASSUME NEW h, NEW n, Shares(t, h, n) PROVE UNCHANGED <<node, cache, exited>>
      BY <3>1 DEF Shares
    <3>2. ASSUME NEW h, NEW k, NEW c, NEW p, NEW made, Begins(t, h, k, c, p, made)
          PROVE  UNCHANGED <<node, cache, exited>>
      BY <3>2 DEF Begins, Begin
    <3> QED
      BY <1>4, <3>1, <3>2, ConstructCases DEF IInv
  <2> QED
    BY <1>2, <2>1
<1>5. CASE CompleteNode(t)
  <2>1. PICK m \in Nodes : /\ m = make[t].node /\ node[m] = Free /\ MakeGood(t)
                           /\ make[t].kind \in Kinds
    BY <1>5, MakeFacts DEF CompleteNode, IInv
  <2>2. /\ node' = [node EXCEPT ![m] = [kind |-> make[t].kind, thread |-> t,
                                        keeps |-> make[t].keeps]]
        /\ cache' = IF make[t].kind = "urma" THEN [cache EXCEPT ![t] = m] ELSE cache
        /\ exited' = exited
    BY <1>5, <2>1 DEF CompleteNode, Cached
  <2>3. CASE make[t].kind # "urma"
    <3>1. \A n \in Nodes : node'[n].kind = "urma" => node'[n] = node[n]
      BY <2>2, <2>3 DEF IInv, Structure, StateType
    <3> QED
      BY <1>2, <2>2, <2>3, <3>1
  <2>4. CASE make[t].kind = "urma"
    <3> SUFFICES ASSUME NEW n \in Nodes, node'[n].kind = "urma"
                 PROVE  cache'[node'[n].thread] = n \/ exited'[node'[n].thread]
      BY DEF LibCached
    <3>1. cache[t] = None /\ ~exited[t]
      BY <2>1, <2>4 DEF MakeGood
    <3>2. CASE n = m
      BY <2>2, <2>4, <3>2 DEF IInv, Structure, StateType
    <3>3. CASE n # m
      <4>1. node'[n] = node[n] /\ node[n].thread \in Threads
        BY <1>1, <2>2, <3>3 DEF IInv, Structure, StateType
      <4>2. node[n].thread # t
        BY <3>1, <4>1 DEF LibCached
      <4> QED
        BY <2>2, <2>4, <4>1, <4>2 DEF LibCached, IInv, Structure, StateType
    <3> QED
      BY <3>2, <3>3
  <2> QED
    BY <2>3, <2>4
<1>6. CASE LastCallFails(t) \/ UndoCall(t) \/ ReturnError(t)
  BY <1>2, <1>6 DEF LastCallFails, UndoCall, ReturnError
<1>7. CASE (\E h \in Handles : DropHandle(t, h)) \/ DeleteObject(t)
  BY <1>2, <1>7 DEF DropHandle, DeleteObject
<1>8. CASE ReleaseFields(t)
  <2>1. \A n \in Nodes : node'[n].kind = "urma" => node'[n] = node[n]
    BY <1>8 DEF ReleaseFields, Free, IInv, Structure, StateType
  <2> QED
    BY <1>2, <1>8, <2>1 DEF ReleaseFields
<1>9. CASE ThreadExit(t)
  BY <1>1, <1>9 DEF ThreadExit, LibCached, IInv, Structure, StateType
<1> QED
  BY <1>3, <1>4, <1>5, <1>6, <1>7, <1>8, <1>9 DEF Carry, Destruct

LEMMA AlwaysLibCached == ASSUME CallersConform PROVE Spec => []LibCached
<1>1. Init => LibCached
  BY DEF Init, LibCached, Free
<1>2. IInv /\ IInv' /\ LibCached /\ [Next]_vars => LibCached'
  <2>1. CASE Next
    BY <2>1, StepLibCached
  <2>2. CASE UNCHANGED vars
    BY <2>2 DEF vars, LibCached
  <2> QED
    BY <2>1, <2>2
<1> QED
  BY <1>1, <1>2, Invariance, PTL DEF Spec

\* urma_uninit is called in no step before the thread that called urma_init has
\* destroyed its thread-locals, whatever guards, contexts and probes came and
\* went in between.
THEOREM UninitComesLast == ASSUME CallersConform PROVE Spec => UninitAtThreadExit
<1> DEFINE Kept == \A n \in Nodes : <<"lib", n>> \in live /\ <<"lib", n>> \notin live'
                                        => exited[node[n].thread]
<1>1. IInv /\ LibCached /\ [Next]_vars => [Kept]_vars
  <2> SUFFICES ASSUME IInv, LibCached, Next, NEW n \in Nodes,
                      <<"lib", n>> \in live, <<"lib", n>> \notin live'
               PROVE  exited[node[n].thread]
    OBVIOUS
  <2>1. node[n].kind = "urma"
    <3>1. "lib" \in ObjKinds /\ ~Making(n, "lib")
      BY DEF ObjKinds, Making, First
    <3>2. Has(node[n].kind, At(n), "lib")
      BY <3>1 DEF IInv, Mirror, LiveGood
    <3> QED
      BY <3>2 DEF Has
  <2>2. PICK t \in Threads : DeleteObject(t)
    <3>1. ASSUME NEW m, NEW made, uses' = With(m, made) PROVE FALSE
      BY <3>1 DEF With, live
    <3>2. ASSUME NEW m, NEW o, o # "lib", uses' = Without(<<o, m>>) PROVE FALSE
      BY <3>2 DEF Without, live
    <3>3. ASSUME UNCHANGED uses PROVE FALSE
      BY <3>3 DEF live
    <3>4. PICK t \in Threads : \/ Construct(t)
                               \/ Carry(t)
                               \/ \E h \in Handles : DropHandle(t, h)
                               \/ Destruct(t)
                               \/ ThreadExit(t)
      BY DEF Next
    <3>5. ~Construct(t)
      <4>1. ASSUME NEW h, NEW m, Shares(t, h, m) PROVE FALSE
        BY <3>3, <4>1 DEF Shares
      <4>2. ASSUME NEW h, NEW k, NEW c, NEW p, NEW made, Begins(t, h, k, c, p, made)
            PROVE  FALSE
        BY <3>1, <4>2 DEF Begins, Begin
      <4> QED
        BY <4>1, <4>2, ConstructCases DEF IInv
    <3>6. ~CompleteNode(t)
      <4>1. CompleteNode(t) => uses' = With(make[t].node, LastCall(make[t]))
        BY DEF CompleteNode
      <4> QED
        BY <3>1, <4>1
    <3>7. ~(LastCallFails(t) \/ ReturnError(t) \/ ThreadExit(t)
                \/ \E h \in Handles : DropHandle(t, h))
      BY <3>3 DEF LastCallFails, ReturnError, ThreadExit, DropHandle
    <3>8. ~UndoCall(t)
      <4> SUFFICES ASSUME UndoCall(t) PROVE FALSE
        OBVIOUS
      <4> DEFINE k == make[t].kind
      <4>1. /\ k # "none" /\ make[t].undo \in DOMAIN UndoOrder[k]
            /\ uses' = Without(<<UndoOrder[k][make[t].undo], make[t].node>>)
        BY DEF UndoCall
      <4>2. make[t].undo = 1 /\ k \in {"cq", "jetty", "buf", "peer"}
        BY <4>1, UndoFacts, MakeFacts DEF IInv, Kinds
      <4>3. First(k, UndoOrder[k][1])
        BY <4>2, UndoFacts
      <4>4. UndoOrder[k][1] # "lib"
        BY <4>3 DEF First
      <4> QED
        BY <3>2, <4>1, <4>2, <4>4
    <3>9. ~ReleaseFields(t)
      <4>1. ReleaseFields(t) => uses' = Without(<<"mem", drop[t].node>>)
        BY DEF ReleaseFields
      <4> QED
        BY <3>2, <4>1
    <3> QED
      BY <3>4, <3>5, <3>6, <3>7, <3>8, <3>9 DEF Carry, Destruct
  <2>3. drop[t].node = n
    BY <2>2 DEF DeleteObject, Without, live
  <2>4. node[n].thread = t /\ cache[t] # n
    BY <2>3, NoneAssumption DEF IInv, Structure, DropsGood, Owned, OwnedBy
  <2> QED
    BY <2>1, <2>4 DEF LibCached
<1> QED
  BY <1>1, AlwaysLibCached, Invariance, PTL DEF Spec, UninitAtThreadExit

\* A thread that has initialised the library does not call urma_init again
\* before its INIT is gone: it finds it in the cache.
THEOREM InitializesOnce == ASSUME CallersConform PROVE Spec => []InitOncePerThread
<1>1. IInv /\ LibCached => InitOncePerThread
  <2> SUFFICES ASSUME IInv, LibCached, NEW t \in Threads, make[t].kind = "urma",
                      NEW n \in Nodes, node[n].kind = "urma", node[n].thread = t
               PROVE  FALSE
    BY DEF InitOncePerThread
  <2>1. cache[t] = None /\ ~exited[t]
    BY MakeFacts DEF IInv, MakeGood
  <2> QED
    BY <2>1, NoneAssumption DEF LibCached
<1> QED
  BY <1>1, AlwaysLibCached, Invariance, PTL

-----------------------------------------------------------------------------
(* At rest the C objects are those of the values in reach. *)

\* The objects of a value are those its kind has while no destructor runs.
LEMMA ObjectsFacts ==
  \A k \in Kinds : ObjectsOf[k] = {o \in ObjKinds : Has(k, 1, o)}
<1>1. /\ ObjectsOf["urma"] = {"lib"} /\ ObjectsOf["context"] = {"ctx"}
      /\ ObjectsOf["cq"] = {"jfce", "jfc"} /\ ObjectsOf["jetty"] = {"jfr", "jetty"}
      /\ ObjectsOf["seg"] = {"tseg"} /\ ObjectsOf["buf"] = {"mem", "tseg"}
      /\ ObjectsOf["peer"] = {"iseg", "tjetty"}
  BY DEF ObjectsOf
<1>2. /\ {o \in ObjKinds : Has("urma", 1, o)} = {"lib"}
      /\ {o \in ObjKinds : Has("context", 1, o)} = {"ctx"}
      /\ {o \in ObjKinds : Has("seg", 1, o)} = {"tseg"}
  BY DEF Has, ObjKinds
<1>3. /\ {o \in ObjKinds : Has("cq", 1, o)} = {"jfce", "jfc"}
      /\ {o \in ObjKinds : Has("jetty", 1, o)} = {"jfr", "jetty"}
  BY DEF Has, ObjKinds
<1>4. /\ {o \in ObjKinds : Has("buf", 1, o)} = {"mem", "tseg"}
      /\ {o \in ObjKinds : Has("peer", 1, o)} = {"iseg", "tjetty"}
  BY DEF Has, ObjKinds
<1> QED
  BY <1>1, <1>2, <1>3, <1>4 DEF Kinds

\* A node that a handle or a cache refers to.
Direct(n) == \/ \E h \in Handles : own[h] = n
             \/ \E t \in Threads : cache[t] = n

\* An owned node is referred to, or a node that keeps it is owned in its turn:
\* with every destructor at rest, following the chain upwards ends at a handle
\* or a cache after at most three steps.
LEMMA OwnedIsReachable ==
  ASSUME IInv, Reached, \A t \in Threads : AtRest(t),
         NEW n \in Nodes, node[n] # Free
  PROVE  n \in Reachable
<1> USE NoneAssumption
<1>1. \A x \in Nodes : node[x] # Free => Owned(x)
  BY DEF Reached, AtRest, NoDrop
<1>2. \A x \in Nodes : node[x] # Free => Direct(x) \/ \E y \in Nodes : node[y].keeps = x
  BY <1>1 DEF Direct, Owned, OwnedBy
<1>3. ASSUME NEW y \in Nodes, NEW x \in Nodes, node[y].keeps = x
      PROVE  /\ node[y] # Free
             /\ node[y].kind = "context" => node[x].kind = "urma"
             /\ node[y].kind \in {"cq", "seg", "buf", "peer"} => node[x].kind = "context"
             /\ node[y].kind = "jetty" => node[x].kind = "cq"
             /\ node[y].kind \in {"context", "cq", "seg", "buf", "peer", "jetty"}
  BY <1>3 DEF IInv, Structure, NodesGood, GoodParent, Free, Kinds
<1>4. \A x, y : Direct(x) /\ y \in Reach(x) => y \in Reachable
  BY DEF Direct, Reachable
<1>5. /\ \A x \in Nodes : x \in Reach(x)
      /\ \A x, y \in Nodes : node[x].keeps = y => y \in Reach(x)
      /\ \A x, y, z \in Nodes : node[x].keeps = y /\ node[y].keeps = z => z \in Reach(x)
      /\ \A w, x, y, z \in Nodes :
             node[w].keeps = x /\ node[x].keeps = y /\ node[y].keeps = z => z \in Reach(w)
  BY DEF Reach, KeptBy
<1>6. CASE Direct(n)
  BY <1>4, <1>5, <1>6
<1>7. CASE ~Direct(n)
  <2>1. PICK y \in Nodes : node[y].keeps = n
    BY <1>2, <1>7
  <2>2. CASE Direct(y)
    BY <1>4, <1>5, <2>1, <2>2
  <2>3. CASE ~Direct(y)
    <3>1. PICK x \in Nodes : node[x].keeps = y
      BY <1>2, <1>3, <2>1, <2>3
    <3>2. CASE Direct(x)
      BY <1>4, <1>5, <2>1, <3>1, <3>2
    <3>3. CASE ~Direct(x)
      <4>1. PICK w \in Nodes : node[w].keeps = x
        BY <1>2, <1>3, <3>1, <3>3
      <4>2. node[w].kind = "jetty"
        BY <1>3, <2>1, <3>1, <4>1
      <4>3. \A v \in Nodes : node[v].keeps # w
        BY <1>3, <4>2
      <4>4. Direct(w)
        BY <1>2, <1>3, <4>1, <4>3
      <4> QED
        BY <1>4, <1>5, <2>1, <3>1, <4>1, <4>4
    <3> QED
      BY <3>2, <3>3
  <2> QED
    BY <2>2, <2>3
<1> QED
  BY <1>6, <1>7

\* What a program can reach is there and owned.
LEMMA ReachableIsOwned ==
  ASSUME IInv, NEW n \in Reachable
  PROVE  n \in Nodes /\ node[n] # Free /\ Owned(n)
<1> USE NoneAssumption
<1> DEFINE Used(x) == x \in Nodes /\ node[x] # Free /\ Owned(x)
<1>1. ASSUME NEW x, x = None \/ Used(x) PROVE KeptBy(x) = None \/ Used(KeptBy(x))
  <2>1. CASE x = None
    BY <2>1 DEF KeptBy
  <2>2. CASE x # None
    <3> DEFINE p == node[x].keeps
    <3>1. Used(x) /\ KeptBy(x) = p
      BY <1>1, <2>2 DEF KeptBy
    <3>2. p # None => p \in Nodes /\ Owned(p)
      BY <3>1 DEF IInv, Structure, StateType, Owned, OwnedBy
    <3>3. p # None => node[p] # Free
      BY <3>1 DEF IInv, Structure, NodesGood, GoodParent, Free, Kinds
    <3> QED
      BY <3>1, <3>2, <3>3
  <2> QED
    BY <2>1, <2>2
<1>2. PICK x \in Nodes \cup {None} : (x = None \/ Used(x)) /\ n \in Reach(x)
  <2>1. PICK x : /\ n \in Reach(x)
                 /\ (\E h \in Handles : x = own[h]) \/ (\E t \in Threads : x = cache[t])
    BY DEF Reachable
  <2>2. x \in Nodes \cup {None}
    BY <2>1 DEF IInv, Structure, StateType
  <2>3. x # None => node[x] # Free /\ Owned(x)
    BY <2>1 DEF IInv, Structure, RefsGood, Owned, OwnedBy, Free
  <2> QED
    BY <2>1, <2>2, <2>3
<1> HIDE DEF Used
<1>3. KeptBy(x) = None \/ Used(KeptBy(x))
  BY <1>1, <1>2
<1>4. KeptBy(KeptBy(x)) = None \/ Used(KeptBy(KeptBy(x)))
  BY <1>1, <1>3
<1>5. KeptBy(KeptBy(KeptBy(x))) = None \/ Used(KeptBy(KeptBy(KeptBy(x))))
  BY <1>1, <1>4
<1>6. Used(n)
  BY <1>2, <1>3, <1>4, <1>5 DEF Reach
<1> QED
  BY <1>6 DEF Used

\* Whenever no constructor or destructor runs, the C objects are exactly those
\* of the values the program can still reach: no call of a constructor that
\* failed has left one, and no value lacks one.
THEOREM OnlyReachableLives == ASSUME CallersConform PROVE Spec => []LiveIsReachable
<1>1. IInv /\ Reached => LiveIsReachable
  <2> SUFFICES ASSUME IInv, Reached, \A t \in Threads : AtRest(t)
               PROVE  live = UNION {{<<o, n>> : o \in ObjectsOf[node[n].kind]} : n \in Reachable}
    BY DEF LiveIsReachable
  <2>1. \A n \in Nodes, o \in ObjKinds : ~Making(n, o)
    BY NoneAssumption DEF AtRest, NoMake, Making
  <2>2. ASSUME NEW n \in Nodes, NEW o \in ObjKinds, <<o, n>> \in live
        PROVE  n \in Reachable /\ o \in ObjectsOf[node[n].kind]
    <3>1. node[n] # Free
      BY <2>1, <2>2, LiveCases DEF IInv, Mirror
    <3>2. n \in Reachable /\ node[n].kind \in Kinds
      BY <3>1, OwnedIsReachable DEF IInv, Structure, NodesGood, GoodParent
    <3>3. Has(node[n].kind, 1, o)
      BY <2>2, <3>1, <3>2, ReachableIsOwned, OwnedHas
    <3> QED
      BY <3>2, <3>3, ObjectsFacts
  <2>3. ASSUME NEW n \in Reachable, NEW o \in ObjectsOf[node[n].kind]
        PROVE  <<o, n>> \in live
    <3>1. n \in Nodes /\ node[n] # Free /\ Owned(n)
      BY ReachableIsOwned
    <3>2. node[n].kind \in Kinds
      BY <3>1 DEF IInv, Structure, NodesGood, GoodParent
    <3>3. o \in ObjKinds /\ Has(node[n].kind, 1, o)
      BY <3>2, ObjectsFacts
    <3> QED
      BY <3>1, <3>3, OwnedHas
  <2>4. \A x \in live : \E n \in Reachable : \E o \in ObjectsOf[node[n].kind] : x = <<o, n>>
    BY <2>2 DEF IInv, Mirror, LiveGood, Objects
  <2> QED
    BY <2>3, <2>4
<1> QED
  BY <1>1, AlwaysReached, Invariance, PTL

=============================================================================
