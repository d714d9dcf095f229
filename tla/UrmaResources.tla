--------------------------- MODULE UrmaResources ---------------------------
(***************************************************************************)
(* The resource layer of src/src/urma.rs: the Rust values that own C       *)
(* objects of liburma, the Rc handles that keep parents alive, the         *)
(* constructors and the destructors.  A node is one allocation of the      *)
(* layer (UrmaInner, ContextInner, CqInner, Jetty, RegisteredSeg, Peer).   *)
(* A handle is one value the program holds.  An Rc's strong count is the   *)
(* number of its owners: handles, nodes with an Rc field, and the          *)
(* thread-local cache of Urma::init.  The values are !Send, so a node      *)
(* belongs to one thread.                                                  *)
(*                                                                         *)
(* Every C call that creates or deletes an object is a step, in            *)
(* constructors, on their error paths and in destructors: the order of the *)
(* calls is what keeps parents alive and leaves nothing behind.  A first   *)
(* call that fails (and a check before it) returns an error with nothing   *)
(* to undo: it changes nothing and is no step.                             *)
(***************************************************************************)
EXTENDS Integers, Sequences

CONSTANTS Threads,      \* threads of the process
          Handles,      \* slots for the values the program holds
          Nodes,        \* slots for the layer's allocations
          None,
          Priorities,   \* jfs priorities the callers pass in JettyOpts
          MixContexts   \* do callers pass a CQ of another context to Jetty::new?

\* URMA_MAX_PRIORITY of ffi.rs
MaxPriority == 15

ASSUME NoneAssumption == None \notin Threads \cup Handles \cup Nodes
ASSUME MixAssumption == MixContexts \in BOOLEAN
ASSUME PrioritiesAssumption == Priorities \subseteq 0..255

VARIABLES node,    \* node[n]: what is allocated in slot n
          own,     \* own[h]: the node handle h refers to
          cache,   \* cache[t]: thread t's INIT slot, the UrmaInner it keeps
          exited,  \* exited[t]: t has destroyed its thread-locals
          make,    \* make[t]: the constructor t is in, and how far it is
          drop,    \* drop[t]: the destructor t is running
          uses     \* the C objects: uses[o] is what the call that made o was given

vars == <<node, own, cache, exited, make, drop, uses>>

\* The C objects that exist.
live == DOMAIN uses

-----------------------------------------------------------------------------
(* Kinds of node and the C objects behind them. *)

\* Drop for UrmaInner, ContextInner, CqInner, Jetty, RegisteredSeg and Peer:
\* the C objects each destructor deletes, in order.
\* First some slips in them that the checks must find (no definition uses them).
JettyDropSwapped == <<"jfr", "jetty">>
PeerDropTwice    == <<"tjetty", "tjetty", "iseg">>
PeerDropPartial  == <<"tjetty">>

UrmaDrop    == <<"lib">>
ContextDrop == <<"ctx">>
CqDrop      == <<"jfc", "jfce">>
JettyDrop   == <<"jetty", "jfr">>
SegDrop     == <<"tseg">>
PeerDrop    == <<"tjetty", "iseg">>

DropOrder ==
    [urma |-> UrmaDrop, context |-> ContextDrop, cq |-> CqDrop,
     jetty |-> JettyDrop, seg |-> SegDrop, buf |-> SegDrop, peer |-> PeerDrop]

Kinds == {"urma", "context", "cq", "jetty", "seg", "buf", "peer"}

\* "mem" is the page buffer a RegisteredBuf owns.
ObjKinds == {"lib", "ctx", "jfc", "jfce", "jetty", "jfr", "tseg", "tjetty",
             "iseg", "mem"}

Objects == ObjKinds \X Nodes

\* A slot that holds no allocation.
Free == [kind |-> "free", thread |-> None, keeps |-> None]

\* The slot of a jfr that its constructor returned without deleting: no Rust
\* value refers to it.
Abandoned == [kind |-> "abandoned", thread |-> None, keeps |-> None]

NoDrop == [node |-> None, at |-> 1]

\* A constructor that has to make another C call for a node of kind `kind` in
\* slot `node`: it borrows context ctx, its value will go to handle `to` and
\* keep the Rc `keeps`; undo is 0, or the next call to make on its error path.
NoMake == [kind |-> "none", node |-> None, to |-> None, ctx |-> None,
           keeps |-> None, undo |-> 0]

\* The Rc of slot n has an owner among the given handles, nodes and caches.
OwnedBy(n, handles, nodes, caches) ==
    \/ \E h \in Handles : handles[h] = n
    \/ \E m \in Nodes : nodes[m].keeps = n
    \/ \E t \in Threads : caches[t] = n

Owned(n) == OwnedBy(n, own, node, cache)

\* The thread runs neither a constructor nor a destructor.
AtRest(t) == make[t] = NoMake /\ drop[t] = NoDrop

Idle(t) == AtRest(t) /\ ~exited[t]

\* A slot no value is in, nor will be put into by a constructor under way.
Unused(n) == node[n] = Free /\ \A t \in Threads : make[t].node # n
Vacant(h) == own[h] = None /\ \A t \in Threads : make[t].to # h

\* Handle h of thread t refers to a node of kind k.
Holds(t, h, k) == /\ own[h] # None
                  /\ node[own[h]].kind = k
                  /\ node[own[h]].thread = t

\* urma_init succeeds once per process until urma_uninit.
LibFree == \A n \in Nodes : <<"lib", n>> \notin live

\* The C calls that create the objects in DOMAIN made for slot n, and the one
\* that deletes object x.
With(n, made) == [x \in live \cup {<<o, n>> : o \in DOMAIN made} |->
                     IF x \in live THEN uses[x] ELSE made[x[1]]]

Without(x) == [y \in live \ {x} |-> uses[y]]

-----------------------------------------------------------------------------
(* Constructors. *)

\* The calls on the error path after the last call of a constructor failed.
\* First some slips in them.
JettyUndoNothing == <<>>
PeerUndoTwice    == <<"iseg", "iseg">>

CqUndo    == <<"jfce">>
JettyUndo == <<"jfr">>
BufUndo   == <<"mem">>
PeerUndo  == <<"iseg">>

UndoOrder == [urma |-> <<>>, context |-> <<>>, seg |-> <<>>, cq |-> CqUndo,
              jetty |-> JettyUndo, buf |-> BufUndo, peer |-> PeerUndo]

\* The last call of a constructor m: what it creates, and from what.
LastCall(m) ==
    CASE m.kind = "urma"    -> [lib |-> {}]
      [] m.kind = "context" -> [ctx |-> {<<"lib", m.keeps>>}]
      [] m.kind = "cq"      -> [jfc |-> {<<"ctx", m.ctx>>, <<"jfce", m.node>>}]
      [] m.kind = "jetty"   -> [jetty |-> {<<"ctx", m.ctx>>, <<"jfc", m.keeps>>,
                                           <<"jfr", m.node>>}]
      [] m.kind = "seg"     -> [tseg |-> {<<"ctx", m.ctx>>}]
      [] m.kind = "buf"     -> [tseg |-> {<<"ctx", m.ctx>>, <<"mem", m.node>>}]
      [] m.kind = "peer"    -> [tjetty |-> {<<"ctx", m.ctx>>}]

\* A constructor of a node of kind k on its way to the last call: it borrows
\* context c, will keep p, and its first call has created the objects of made.
Begin(t, h, k, c, p, made) ==
    \E n \in Nodes :
        /\ Unused(n)
        /\ make' = [make EXCEPT ![t] = [kind |-> k, node |-> n, to |-> h, ctx |-> c,
                                        keeps |-> p, undo |-> 0]]
        /\ uses' = With(n, made)
        /\ UNCHANGED <<node, own, cache, exited, drop>>

\* Urma::init: clone the thread's cached UrmaInner, or go on to urma_init.
UrmaInit(t, h) ==
    /\ Idle(t) /\ Vacant(h)
    /\ \/ /\ cache[t] # None
          /\ own' = [own EXCEPT ![h] = cache[t]]
          /\ UNCHANGED <<node, cache, exited, make, drop, uses>>
       \/ /\ cache[t] = None
          /\ Begin(t, h, "urma", None, None, <<>>)

\* list_devices and query_device: Urma::init for the duration of the call. The
\* guard is dropped on return, the cache keeps the library initialised.
ProbeDevices(t) ==
    /\ Idle(t) /\ cache[t] = None
    /\ Begin(t, None, "urma", None, None, <<>>)

\* Context::create; g is the Urma guard.
ContextCreate(t, g, h) ==
    /\ Idle(t) /\ Holds(t, g, "urma") /\ Vacant(h)
    /\ Begin(t, h, "context", None, own[g], <<>>)

\* CompletionQueue::new on context handle c.
CqNew(t, c, h) ==
    /\ Idle(t) /\ Holds(t, c, "context") /\ Vacant(h)
    /\ Begin(t, h, "cq", own[c], own[c], [jfce |-> {<<"ctx", own[c]>>}])

\* Jetty::new on context handle c and CQ handle q.  Nothing in the code
\* relates c to q: the jetty keeps only q's CQ alive.  A priority out of range
\* is found after the jfr exists and returns without deleting it.
JettyNew(t, c, q, h, prio) ==
    /\ Idle(t) /\ Holds(t, c, "context") /\ Holds(t, q, "cq") /\ Vacant(h)
    /\ MixContexts \/ node[own[q]].keeps = own[c]
    /\ LET jfr == [jfr |-> {<<"ctx", own[c]>>, <<"jfc", own[q]>>}]
       IN \/ /\ prio <= MaxPriority
             /\ Begin(t, h, "jetty", own[c], own[q], jfr)
          \/ /\ prio > MaxPriority
             /\ \E n \in Nodes : /\ Unused(n)
                                 /\ node' = [node EXCEPT ![n] = Abandoned]
                                 /\ uses' = With(n, jfr)
             /\ UNCHANGED <<own, cache, exited, make, drop>>

\* RegisteredSeg::register: the caller owns the memory.
SegRegister(t, c, h) ==
    /\ Idle(t) /\ Holds(t, c, "context") /\ Vacant(h)
    /\ Begin(t, h, "seg", own[c], own[c], <<>>)

\* RegisteredBuf::new: allocate the pages, then register them.
BufNew(t, c, h) ==
    /\ Idle(t) /\ Holds(t, c, "context") /\ Vacant(h)
    /\ Begin(t, h, "buf", own[c], own[c], [mem |-> {}])

\* Peer::import and Peer::import_ctx: the segment, then the jetty.
PeerImport(t, c, h) ==
    /\ Idle(t) /\ Holds(t, c, "context") /\ Vacant(h)
    /\ Begin(t, h, "peer", own[c], own[c], [iseg |-> {<<"ctx", own[c]>>}])

\* What the thread's INIT holds after the call.  A slip in it: it is not set.
CachedNever(t, m) == cache
Cached(t, m) == IF m.kind = "urma" THEN [cache EXCEPT ![t] = m.node] ELSE cache

\* The last call succeeds: the constructor returns its value.  urma_init only
\* does so while the process has not initialised the library.
CompleteNode(t) ==
    LET m == make[t]
    IN /\ m.kind # "none" /\ m.undo = 0
       /\ m.kind = "urma" => LibFree
       /\ node' = [node EXCEPT ![m.node] = [kind |-> m.kind, thread |-> t,
                                            keeps |-> m.keeps]]
       /\ own' = IF m.to = None THEN own ELSE [own EXCEPT ![m.to] = m.node]
       /\ cache' = Cached(t, m)
       /\ uses' = With(m.node, LastCall(m))
       /\ make' = [make EXCEPT ![t] = NoMake]
       /\ UNCHANGED <<exited, drop>>

\* The last call returns NULL, or for urma_init an error status.
LastCallFails(t) ==
    /\ make[t].kind # "none" /\ make[t].undo = 0
    /\ make' = [make EXCEPT ![t].undo = 1]
    /\ UNCHANGED <<node, own, cache, exited, drop, uses>>

\* The next call of the error path.
UndoCall(t) ==
    LET m == make[t]
    IN /\ m.kind # "none"
       /\ m.undo \in DOMAIN UndoOrder[m.kind]
       /\ uses' = Without(<<UndoOrder[m.kind][m.undo], m.node>>)
       /\ make' = [make EXCEPT ![t].undo = @ + 1]
       /\ UNCHANGED <<node, own, cache, exited, drop>>

ReturnError(t) ==
    /\ make[t].kind # "none"
    /\ make[t].undo > Len(UndoOrder[make[t].kind])
    /\ make' = [make EXCEPT ![t] = NoMake]
    /\ UNCHANGED <<node, own, cache, exited, drop, uses>>

\* Context and CompletionQueue are Clone; the unique owners are not.
CloneHandle(t, g, h) ==
    /\ Idle(t) /\ Vacant(h)
    /\ Holds(t, g, "context") \/ Holds(t, g, "cq")
    /\ own' = [own EXCEPT ![h] = own[g]]
    /\ UNCHANGED <<node, cache, exited, make, drop, uses>>

-----------------------------------------------------------------------------
(* Destructors. *)

\* An owner of n is gone: if it was the last, t starts n's destructor.
Disown(t, n) ==
    drop' = [drop EXCEPT ![t] = IF n # None /\ ~OwnedBy(n, own', node', cache')
                                THEN [node |-> n, at |-> 1] ELSE NoDrop]

\* The program drops a value, in whatever order it likes.
DropHandle(t, h) ==
    /\ Idle(t)
    /\ own[h] # None /\ node[own[h]].thread = t
    /\ own' = [own EXCEPT ![h] = None]
    /\ UNCHANGED <<node, cache, exited, make, uses>>
    /\ Disown(t, own[h])

\* The destructor's next C call.
DeleteObject(t) ==
    LET n == drop[t].node
        order == DropOrder[node[n].kind]
    IN /\ n # None
       /\ drop[t].at <= Len(order)
       /\ uses' = Without(<<order[drop[t].at], n>>)
       /\ drop' = [drop EXCEPT ![t].at = @ + 1]
       /\ UNCHANGED <<node, own, cache, exited, make>>

\* Slips in it: the parent is owned outright, and the Rc to it is forgotten.
ReleaseFieldsOwning(t) ==
    LET n == drop[t].node
    IN /\ n # None
       /\ drop[t].at > Len(DropOrder[node[n].kind])
       /\ node' = [node EXCEPT ![n] = Free]
       /\ drop' = [drop EXCEPT ![t] = [node |-> node[n].keeps, at |-> 1]]
       /\ uses' = Without(<<"mem", n>>)
       /\ UNCHANGED <<own, cache, exited, make>>

ReleaseFieldsForgets(t) ==
    LET n == drop[t].node
    IN /\ n # None
       /\ drop[t].at > Len(DropOrder[node[n].kind])
       /\ node' = [node EXCEPT ![n] = Free]
       /\ drop' = [drop EXCEPT ![t] = NoDrop]
       /\ uses' = Without(<<"mem", n>>)
       /\ UNCHANGED <<own, cache, exited, make>>

\* The body of the destructor has run and the fields are dropped: the Rc to
\* the parent, and the page buffer of a RegisteredBuf.
ReleaseFields(t) ==
    LET n == drop[t].node
    IN /\ n # None
       /\ drop[t].at > Len(DropOrder[node[n].kind])
       /\ node' = [node EXCEPT ![n] = Free]
       /\ uses' = Without(<<"mem", n>>)
       /\ UNCHANGED <<own, cache, exited, make>>
       /\ Disown(t, node[n].keeps)

\* Thread t ends: its values are gone, then its thread-local INIT is destroyed.
ThreadExit(t) ==
    /\ Idle(t)
    /\ \A h \in Handles : own[h] # None => node[own[h]].thread # t
    /\ exited' = [exited EXCEPT ![t] = TRUE]
    /\ cache' = [cache EXCEPT ![t] = None]
    /\ UNCHANGED <<node, own, make, uses>>
    /\ Disown(t, cache[t])

-----------------------------------------------------------------------------
Init == /\ node = [n \in Nodes |-> Free]
        /\ own = [h \in Handles |-> None]
        /\ cache = [t \in Threads |-> None]
        /\ exited = [t \in Threads |-> FALSE]
        /\ make = [t \in Threads |-> NoMake]
        /\ drop = [t \in Threads |-> NoDrop]
        /\ uses = <<>>

Destruct(t) == DeleteObject(t) \/ ReleaseFields(t)

\* What a thread does on its own once a constructor has begun.
Carry(t) == CompleteNode(t) \/ LastCallFails(t) \/ UndoCall(t) \/ ReturnError(t)

Construct(t) ==
    \/ ProbeDevices(t)
    \/ \E h \in Handles :
          \/ UrmaInit(t, h)
          \/ \E g \in Handles :
                \/ ContextCreate(t, g, h)
                \/ CqNew(t, g, h)
                \/ SegRegister(t, g, h)
                \/ BufNew(t, g, h)
                \/ PeerImport(t, g, h)
                \/ CloneHandle(t, g, h)
                \/ \E q \in Handles, prio \in Priorities : JettyNew(t, g, q, h, prio)

Next == \E t \in Threads :
            \/ Construct(t)
            \/ Carry(t)
            \/ \E h \in Handles : DropHandle(t, h)
            \/ Destruct(t)
            \/ ThreadExit(t)

\* A constructor and a destructor run to their end once started; nothing else
\* need ever happen.
Fairness == \A t \in Threads : WF_vars(Destruct(t) \/ Carry(t))

Spec == Init /\ [][Next]_vars

FairSpec == Spec /\ Fairness

-----------------------------------------------------------------------------
(* Properties. *)

\* Every variable has its type.
TypeOK ==
    /\ node \in [Nodes -> [kind   : Kinds \cup {"free", "abandoned"},
                           thread : Threads \cup {None},
                           keeps  : Nodes \cup {None}]]
    /\ own \in [Handles -> Nodes \cup {None}]
    /\ cache \in [Threads -> Nodes \cup {None}]
    /\ exited \in [Threads -> BOOLEAN]
    /\ make \in [Threads -> [kind  : Kinds \cup {"none"},
                             node  : Nodes \cup {None},
                             to    : Handles \cup {None},
                             ctx   : Nodes \cup {None},
                             keeps : Nodes \cup {None},
                             undo  : 0..2]]
    /\ drop \in [Threads -> [node : Nodes \cup {None}, at : 1..3]]
    /\ live \subseteq Objects
    /\ uses \in [live -> SUBSET Objects]

\* The objects a live object was created from are live: no destructor deletes
\* a parent (a context, a CQ, the library itself, a buffer's pages) before
\* the last child, in whichever order and from whichever copies the program
\* drops its handles (the Drop impls and the Rc fields of urma.rs).
ParentsOutlive == \A o \in live : uses[o] \subseteq live

\* No C object is deleted twice: the next call of a running destructor, or of
\* the error path of a constructor, names an object that still exists.
DeletesLive ==
    \A t \in Threads :
        LET d == drop[t]
            m == make[t]
            order == DropOrder[node[d.node].kind]
        IN /\ d.node # None /\ d.at <= Len(order) => <<order[d.at], d.node>> \in live
           /\ m.kind # "none" /\ m.undo \in DOMAIN UndoOrder[m.kind] =>
                  <<UndoOrder[m.kind][m.undo], m.node>> \in live

\* "Drop performs symmetric cleanup", and so do the error paths of the
\* constructors: a C object that exists belongs to a node something still owns,
\* or whose constructor or destructor is running.
NoLeak == \A o \in live : \/ Owned(o[2])
                          \/ \E t \in Threads : o[2] \in {make[t].node, drop[t].node}

\* The C objects of a complete value of each kind.
ObjectsOf ==
    [urma |-> {"lib"}, context |-> {"ctx"}, cq |-> {"jfce", "jfc"},
     jetty |-> {"jfr", "jetty"}, seg |-> {"tseg"}, buf |-> {"mem", "tseg"},
     peer |-> {"iseg", "tjetty"}]

\* The nodes a program can reach from the value in slot n through Rc fields:
\* from a jetty three steps, to its CQ, the context and the library.
KeptBy(n) == IF n = None THEN None ELSE node[n].keeps
Reach(n) == {n, KeptBy(n), KeptBy(KeptBy(n)), KeptBy(KeptBy(KeptBy(n)))} \ {None}

Reachable == UNION ({Reach(own[h]) : h \in Handles} \cup {Reach(cache[t]) : t \in Threads})

\* Whatever constructors failed half way and whatever was dropped in whichever
\* order, once no constructor or destructor is running the C objects are those
\* of the values within the program's reach: each value has all of its objects,
\* and nothing else exists.
LiveIsReachable ==
    (\A t \in Threads : AtRest(t)) =>
        live = UNION {{<<o, n>> : o \in ObjectsOf[node[n].kind]} : n \in Reachable}

\* A value in use is never torn down: a node whose destructor is running has
\* no owner, hence no handle through which a call could reach its C objects.
NoUseAfterDrop ==
    \A t \in Threads : drop[t].node # None => ~Owned(drop[t].node)

\* urma_uninit runs only when the initialising thread's INIT goes away, however
\* many guards and contexts came and went before (doc of Urma::init).
UninitAtThreadExit ==
    [][\A n \in Nodes : <<"lib", n>> \in live /\ <<"lib", n>> \notin live'
                           => exited[node[n].thread]]_vars

\* urma_init "may only run once per process": a thread whose initialisation is
\* still there clones it from the cache and never calls urma_init again.
InitOncePerThread ==
    \A t \in Threads : make[t].kind = "urma" =>
        \A n \in Nodes : node[n].kind = "urma" => node[n].thread # t

\* When its last owner is gone, a node and all its C objects are deleted: the
\* cascade through the Rc fields does not stop half way.
Reclaimed ==
    \A n \in Nodes : (node[n].kind \in Kinds /\ ~Owned(n))
                        ~> (\A k \in ObjKinds : <<k, n>> \notin live)
=============================================================================
