# A TLA+ development of urma-rs

urma-rs is a safe Rust layer over liburma (the URMA user-space API: one-sided
READ and WRITE, two-sided SEND and RECV between nodes of a fabric), with
example programs that double as its integration tests and its benchmark. This
directory holds TLA+ models of its parts, the TLC instances that check them and
proofs checked by TLAPS. `PROJECT.json` maps every definition to the lines it
translates and lists runs, mutants, findings, hazards and theorems.

## 1. Inventory

### 1.1 Resource layer: `src/src/urma.rs`

State: one Rust value per C object or pair of C objects. `UrmaInner` (the
library's initialisation), `ContextInner`, `CqInner` (jfce and jfc), `Jetty`
(jfr and jetty), `RegisteredSeg<B>` (a target segment and, as `RegisteredBuf`,
its pages) and `Peer` (an imported segment and an imported jetty). Each holds
an `Rc` handle to its parent; `Urma`, `Context` and `CompletionQueue` are
counted handles. A thread-local slot in `Urma::init` caches the thread's
`UrmaInner`.

Operations: the constructors, `Clone`, and the `Drop` implementations.
Everything is `!Send`, so one thread only ever touches its own values; the one
thing shared by threads is the library itself, which can be initialised once per
process.

Hard: the order of destruction is chosen by the callers, errors leave
constructors half done, `errno` is overwritten by cleanup calls.

Correct means: no parent is deleted before a child, nothing is deleted twice or
leaked, what exists is what the program can reach, nothing reachable is torn down,
the library is initialised once and uninitialised only when its thread ends, errors
carry the errno of the call they name.

### 1.2 Posting and completion: `src/src/urma.rs`

`post_read`, `post_write`, their `_signaled` and `_list` forms, `post_send`,
`post_recv`; `poll`, `poll_batch`, `wait_read`. No state of their own: the state
is in liburma's queues. A signaled request sets `comp_order`, so that its record
proves that everything posted on the jetty before it has completed; an unsignaled
one has a record only when it fails. `LocalSge` keeps local windows inside their
segment.

Hard: several jetties write records into one CQ; an error return can leave part of
a list queued; a wait that gives up leaves its record for the next wait.

### 1.3 `urma_bench`: `src/examples/urma_bench.rs`

`serve-urma` registers a patterned buffer and prints a descriptor; `read-urma` and
`write-urma` (`one_sided_run`) import it and sweep a list of sizes: a serialized
verify, then either serialized latency operations or `bw_pass`, which keeps up to
`--depth` operations in flight over `--jetties` queues, `--post-list` of them per
post, one signaled in `--cq-mod`, with fence READs for unsignaled tails, until an
operation count or a `--duration` deadline. `serve-tcp` and `read-tcp` are the
TCP baseline.

State: the locals of `bw_pass` (next, posted, done, done_total, fenced, the hang
guard), the rotation of the two buffers.

Hard: records out of order between jetties, chunks cut short by the budget or the
stop, fences on top of a full pipeline, the deadline going by between two tests,
failed and refused requests, silence.

Correct means: what is counted has executed; a pass ends only when nothing of it
is outstanding; failures end the program; the queues never overflow; every
address stays in its segment; every wait ends; and on a healthy fabric an accepted
command line succeeds.

### 1.4 `urma_hello`, `urma_pingpong`, `urma_lookup`, `common/mod.rs`

- hello: both nodes run a server and a client. A node creates its resources and
  publishes its descriptor only after the peer has answered; then READ and
  `/bye`, or `/abort`, or a 120 s timeout. Hard: both sides wait for each other;
  memory must stay registered until the peer has read.
- pingpong: SEND and RECV with a teardown that relies on completions only. Hard:
  records of two kinds on a CQ, a client that gives up while the server waits.
- lookup: a master assigns ranges of record ids and holds a ready and a done
  barrier; clients READ each other's records. Hard: the barriers count requests,
  not clients; clients fail, restart, come late.
- common: `send_retry` (connection errors are retried forever, answers are not),
  `exchange_desc`, `import_peer` (30 retries on ENOEXEC).

Correct means: a READ is served from memory that is registered and written;
the two sides do not wait for each other forever; an error on one side reaches
the other.

### 1.5 Device capabilities, parsing, wire descriptors, CLI

`DeviceCap` (which transport mode and tp type a device supports, which priority
slot serves it), `parse_sizes` and `resolve_buf_len`, `stats`, `pack_desc` and
`unpack_desc`: pure functions. `ffi.rs` declares the C API. `urma_cli` (serve,
or one READ) and `list_devices` are straight-line uses of the library.

Hard: the same question (does the device offer this mode?) is asked of bit fields
that lie in different words; texts copied by hand arrive cut short or run on.

Correct means: a mode choice that passes a check is one the device offers; a
descriptor or a list of sizes is read as it was meant or refused.

### 1.6 How the parts interact

The library is called synchronously by its user; it has no callback and no
thread. The examples' two sides talk over HTTP (axum and reqwest on tokio) or
paste a descriptor by hand, and over the fabric, where the initiator of a READ
acts without the peer's CPU. Within a process the bench is a single thread; the
HTTP examples run server and client as tasks.

## 2. Modules

| module | models | state and actions |
|---|---|---|
| `UrmaResources` | 1.1, complete | `node` (allocations and their Rc field), `own` (handles), `cache` (thread-locals), `make` and `drop` (the constructor and the destructor a thread is in), `uses` (C objects); one action per constructor for its first C call, `CompleteNode`, `LastCallFails`, `UndoCall` and `ReturnError` for the rest of it, `CloneHandle`, `DropHandle`, `DeleteObject` and `ReleaseFields` (a destructor, call by call), `ThreadExit` |
| `SendQueues` | liburma's send queues and CQ as the code relies on them (external) | `sq`, `cq`, `faulty`; `Post`, `PostRefused`, `Execute`, `Deliver`, `Poll`, `PollRefused`, `TimedOut` |
| `BwPipeline` | `one_sided_run` to `bw_pass`, on `SendQueues` | the locals of the functions plus `pc`; one action per step of the loops |
| `PassLedger` | what the comments of the bandwidth mode promise of a pass | `depth`, `running`, `ledger` (what became of each operation); `Post`, `Execute`, `Count`, `Return`, `GiveUp` |
| `LookupRounds` | what the two barriers of urma_lookup promise | `expect`, `level` of each client; `Join`, `Write`, `Read`, `Finish`, `Leave` |
| `UrmaLookup` | urma_lookup: master and clients | `MasterState` (`clients`, `next_rid`, `arrived`), the clients' walk (`pc`, `dir`, `at`), requests under way (`req`); one action per handler step and per step of `run_client`, `Die`, `MasterCrash` |
| `UrmaHello` | urma_hello: two processes of two tasks | `cli`, `answer` (client task), `srv`, `end`, `done`, `abort`, `stop` (server task and its notices), `desc`, `res`; one action per request, per answer, per branch of the `select!`, `Kill`, `ClientFault` |
| `UrmaPingpong` | urma_pingpong: two processes, each with a client end and a server end | `cli`, `http`, `echo` (tasks), `res`, `buf`, `msg`, `cq` (ends); one action per step of a task, per poll, per movement of the fabric, `Kill` and faults |
| `DeviceModes` | `DeviceCap::from_raw`, `supports`, `supported_combos`, `priority_for`; preflights and ceilings of the examples | operators |
| `WireDesc` | `pack_desc` and `unpack_desc` of urma_cli and urma_bench | operators |
| `BenchInputs` | `parse_sizes`, `resolve_buf_len`, the percentiles of `stats` | operators |
| `BwInputs` | urma_bench as one program: the sweep, its inputs and the descriptor carried to it | those of `BwPipeline` |
| `UrmaResourcesProofs`, `UrmaLookupProofs`, `UrmaHelloProofs`, `UrmaPingpongProofs`, `BwPipelineProofs`, `BwLedgerProofs`, `BwInputsProofs` | theorems | |
| `BwArithmetic` | lemmas about the functions of the bandwidth mode: division, shares of the jetties, slots, swept sizes | |
| `MCUrmaResources`, `MCBwPipeline`, `MCBwInputs`, `MCUrmaLookup`, `MCUrmaHello`, `MCUrmaPingpong` | TLC instances | |

What extends what: `BwPipeline` is written on `SendQueues`; `UrmaHello` uses the
preflight of `DeviceModes`; `BwInputs` composes `BwPipeline`, `BenchInputs` and `WireDesc`. `MCBwPipeline` takes the ceilings from `DeviceModes`, and `MCBwInputs`
the sizes from the parser of `BenchInputs`, so that the sweep is checked with what
these return. `UrmaLookup` implements
`LookupRounds` and `BwPipeline` implements `PassLedger` (`INSTANCE ... WITH`).
`BwPipelineProofs` and `BwInputsProofs` use the lemmas of `BwArithmetic`;
`BwLedgerProofs` extends `BwPipelineProofs`.

`UrmaResources`. A constructor makes one or two C calls that create objects. Its
action makes the first of two (or, with one, only begins); then `CompleteNode` is
the last call and the return of the value, or `LastCallFails`, one `UndoCall` for
each call of the error path (`UndoOrder`) and `ReturnError`. A constructor whose
first call fails has changed nothing and is no step. `JettyNew` also has the return
between its two calls that leaves the jfr behind. A destructor is one step per C
call (`DropOrder`), then a step that drops the fields and may start the parent's
destructor. A reference count is the set of
owners (`OwnedBy`), so it cannot be wrong by construction of the model, only by the
code's use of it: which Rc a value holds and when it lets go of it. Other threads
may step between any two calls of a constructor or a destructor. Device, EID and
configuration contents and errno are left out, except the priority, which decides an error path.

`BwPipeline`. One action per operation a reader of the code would name:
`CheckOptions`, `PostSerial` and `WaitReadSpin` (verify and latency), `StartBandwidth`
and `EndPass` (`run_bw_iters`), `PostChunk` (a turn of the outer posting loop),
`PostFence`, `PollRecords`, `CountRecord` (one record of a batch). `PostChunk`
chooses how many operations the inner loop makes before one of its three
conditions stops it; in duration mode the deadline may go by between the outer and
the inner test, where the code reads the clock twice. Data is left out: what
a work request carries is its user_ctx, and the windows it names are functions of
that. `SendQueues` executes requests in any order, delivers records in the order
`comp_order` promises per queue, and may fail or refuse any of them; `faulty`
remembers that it did.

`UrmaLookup`. An element of `Clients` is one start of the client program: a client
that is started again after a failure is another element, as it is for the master.
Handlers run on a thread pool, so `m_register` is two steps (the `fetch_add` and
the push under the lock) and `m_ready` clones the directory in a step after the
barrier released it. `Arrive` is `Barrier::wait`: the last arrival releases all
who wait, and an arrival whose client has died stays counted. `MasterCrash` loses
the state, which is in memory only, and breaks every request under way;
`send_retry` repeats only a request whose connection was refused. The owners'
memory (`Mem`) is a function of where the owner is: written after
`WriteRecords`, gone once `run_client` has returned. A READ of memory that is not
written succeeds, as it does in the code.

`UrmaHello`. `Request` is a request with the peer's handler, the `Got...` actions
are what the client does with the answer, so the other process moves in between.
Notices are the permits of `Notify` (`done`, `abort`) and the stop channel;
`EndOnNotice` lets any that is ready win the `select!`, and `ByeTimeout` may fire
at any moment. `EnsureResources` creates the set and then fills the descriptor
slot, which `/info` answers 503 without. Both tasks share one set, freed when the
process has joined them.

`UrmaPingpong`. Client and server of a process have resources of their own (an
*end*). A SEND moves from `sent` to `landed` (it needs a posted buffer at the
destination) to `acked` (the sender's record), or is refused. `Polls` is one poll
of `wait_cr`: a record of another operation is discarded. A wait may run out at
any moment (`RunsOut`), a record may still come after it.

`PassLedger` numbers the operations of the running pass as they are posted and
knows what became of each: posted, executed, failed, counted. Jetties, lists,
moderation, fences and records are not in it; `BwPipeline!FateOf` reads the fate of an
operation from the counters and from wherever its request or its record is.

`DeviceModes`, `WireDesc` and `BenchInputs` have no state; each ends in properties
that quantify over inputs, which a run evaluates in the initial states of the
program that uses the functions. What a device may advertise is quantified over
completely. The widths and limits of the other two are constants: the values of a
hex digit, the bytes of a u32, a u64 and an eid, what a suffix k multiplies by,
u32::MAX and usize::MAX, and what is typed, exported and measured. TLC gets small
ones (`MCBwInputs`), the theorems hold for the real ones too. The loop of
`parse_range` is a recursive function that has stopped before its last turn.

Definitions that say they are slips ("a slip in it") are not used by any
specification: they are the forms of a definition which the checks must reject.

## 3. Runs

| run | shows |
|---|---|
| `resources` | two threads, four handles, five allocations, every constructor may fail at its last call: nothing leaks, is deleted twice (by a destructor or by an error path), or outlives a parent; a value whose destructor runs is unreachable; at rest the C objects are those of the values in reach; a thread never initialises the library again while its initialisation exists, and releases it only at its exit |
| `resources_live` | every object of an unowned node is deleted in the end |
| `resources_priority` | violation: a priority above 15 leaks the jfr of `Jetty::new` (finding) |
| `resources_mix` | violation: a CQ of another context lets the jetty's context die first (finding) |
| `pipeline` | fourteen command lines (six refused; latency with WRITE; one, two and three jetties; moderation full, clamped and none; a capped landing buffer; a deadline) over a fabric that reorders, fails and refuses: the sweep counts exactly, leaves nothing behind, keeps to its queues and segments, implements `PassLedger`, and ends; descriptor and sizes survive their parsing |
| `pipeline_stall` | violation: depth <= jetties * (cq_mod - 1) can fill the pipeline with unsignaled operations (finding) |
| `pipeline_deadline` | violation: the deadline between two tests makes an empty list and an error (finding) |
| `pipeline_warm` | violation: no warmup in duration mode (finding) |
| `lookup` | with clients that die, come late or are surplus and a master that is started again, the program implements `LookupRounds` and no record of a directory has two owners; in a planned run every record has an owner, every read finds written memory that is still there, only a fault makes a client fail, and everybody ends |
| `hello` | in any order of starts and notices: no READ of a peer that was served meets freed memory, success on one side means that both messages were read, both sides end; a client that fails or is done lets its own server and the peer's end; over all combinations of capability bits mode choices agree with the device |
| `pingpong` | teardown by completions only: a side that is content knows that the other needs nothing more of it, a pong meets a posted buffer, a healthy pair succeeds, a failed process ends |
| `pingpong_start` | violation: the start order does matter (finding) |

Bounds. `resources`: the longest chain of parents has four nodes (library,
context, CQ, jetty), so five slots hold a chain and a sibling, or chains
interleaved on one CQ; four handles hold such a chain whole, and three a clone that
outlives the original while a child exists. `resources_live` has one thread, three
handles and four slots, one chain: no step of a cascade is of two threads. Handles and slots are interchangeable (symmetry, in the runs that
check no liveness). The proofs remove these bounds. `pipeline`: depths up to 5
and passes up to 9 operations are several times the post list (up to 4), the
moderation and the number of jetties (up to 3), so that chunks are cut by each of
the three conditions, groups end in and between chunks, fences are due on none,
some and all jetties, and a fence waits behind a full pipeline. Two sizes are
swept and a third is skipped; segment lengths are no multiple of them.
`MaxOps` bounds a duration pass. `FenceCtxBase` stands for u64::MAX; the number
of operations never comes near it.

`lookup`: three starts of the client, one of them with two records, and four
*plans*: all three expected; two expected and three started (surplus, late, or in
the place of one that was killed); two of which one may be killed; two and a
master that may crash once. Clients are interchangeable but for their records;
with three, a barrier has a first, a middle and a last arrival, and registrations
interleave. The proofs remove these bounds. `hello`: two nodes, as the program
has; two faults, so that each side can fail once or one side twice (a failure and
a kill); four setups: over HTTP, on two machines, on one machine (refused by
`check_loopback`) and with a device that has no CTP. `pingpong`: the same with one
fault and three setups; timeouts are not counted as faults and are not bounded.
`Prompt` (run `pingpong_start`) restricts a wait to run out only while the peer
process has not been started, so that the counterexample is the start order and
not an unlucky wait. Capability records: every set of modes, every set of tp types
per mode, CTP on and off, every set of multi-path modes; of the priority slots one
is empty and two repeat the tp types of a mode. Descriptors (`MCBwInputs`): a digit
has two values, a u32 one byte, a u64 and an eid two; up to three jetties, blobs of
0, 1 and 3 bytes, the most that such a u32 can count, every proper prefix of a text
and three ways to run on. Sizes: K is 4 and the limits are 40 and 100, so that a
size can exceed the sge limit without exceeding usize and a suffix can overflow;
lists of up to three of fifteen tokens and all ranges of two, at, below and above both
limits; percentiles of 1 to 120 samples. The proofs remove these bounds, but
for the three ways to run on.

Deadlock is not checked: programs end, and a fabric with nothing to do stops.

Fairness. `UrmaResources!FairSpec`: a constructor or destructor that has started runs to its end
(weak fairness of `Destruct(t) \/ Carry(t)`, a thread in straight-line code); nothing requires
a handle to be dropped. `BwPipeline!FairSpec`: the program's thread is scheduled
(it spins and never blocks), the fabric acts when it can, the clock advances.
The fairness is on `Turn`, the steps of the program that need no new error from
the fabric: `ProgramEnds` does not rest on a poll or a post being refused, but on
the records that come and on the 30 s hang guard (`TimedOut`). The three HTTP
programs: weak fairness of each task's own steps (tokio polls a task that can go
on, a server answers a request it has accepted) and of the fabric's delivery;
nobody is obliged to start a process, and nothing is obliged to fail, to be
killed or to restart. Timers are not part of the fairness: where a promise rests
on one, the property says so in its antecedent (`JoinEnds` on `Timeout`), and where a promise holds only while no timer runs out,
it says that too (`HealthyEnds`). `JoinDoesNotHang` of hello needs no timer: the
120 s timeout of a server may never fire, it is the notices that end it.

## 4. Proofs

### 4.1 `UrmaResourcesProofs`

For any sets of threads, handles and allocations, from `NoneAssumption` and
`CallersConform` (the callers pass Jetty::new a CQ of the given context and a
priority in 0..15, which is what every example in the repository does; the two
violation runs show that neither can be left out):

- `TypeCorrect`, `ParentsOutliveChildren`, `NoDoubleDelete`,
  `DroppedIsUnreachable`, `NothingLeaks`: the five invariants of run `resources`
  about single objects and nodes;
- `OnlyReachableLives`: while no constructor or destructor runs, the C objects are
  those of the values the program can reach, each with all of its objects;
- `InitializesOnce`: a thread never calls `urma_init` while its initialisation exists;
- `UninitComesLast`: the library is released in no step before the thread that
  initialised it has destroyed its thread-locals.

`ParentsOutlive` is not inductive: it speaks of C objects only, and a step that
deletes one needs to know that no node still stands on it. The inductive invariant
is `IInv == Structure /\ Mirror`. `Structure` describes the ownership graph: a node
keeps a node of the right kind and of its own thread, handles and caches point at
allocated nodes, a node under destruction has no owner, and a constructor under way
(`MakesGood`) has a slot of its own and borrows a parent that stays owned, since the
thread that lent it is busy. `Mirror` says that the
C objects follow from the graph: which of a node's objects exist is a function of
its kind and of how far its constructor or destructor has got, and what each was
created from is a function of what it keeps. `Invariance` combines a lemma on
`Structure` and one on `Mirror` for each group of actions: the beginning of a
constructor (`BeginStructure`, `BeginMirror`), its completion (`CompleteStructure`,
`CompleteMirror`), its error path (`FailStructure`, `FailMirror`) and destructors
(`DestructStructure`, `DestructMirror`).
Properties then follow without induction (`MirrorParents` and the theorems), but
for `NothingLeaks`, which adds `Reached`: an allocated node is owned or under
destruction. That needs the code's hand-over in `ReleaseFields`: the destructor of
the last child passes control to the parent. `OnlyReachableLives` uses it too: what is
allocated at rest is owned, and what owns it is in turn reached from a handle or a
cache, in at most three steps (`OwnedIsReachable`). `UninitComesLast` and
`InitializesOnce` add `LibCached`, which
speaks of the thread-local that keeps the library: the allocation of a thread that
has not exited is the one in its cache. So the destructor that calls `urma_uninit`,
whose node nobody owns, belongs to a thread that is gone.

### 4.2 `UrmaLookupProofs`

For any finite set of client starts (`ClientsAssumption`), any record counts
(`CountAssumption`), any plans with at least one client expected
(`PlansAssumption`), any number of kills and of master crashes:

- `TypeCorrect`: the types, and that a barrier never holds as many arrivals as
  release it;
- `ImplementsRounds`: `Spec => RoundsSpec`. No client reads before `expect`
  clients have written and none gives its memory back before `expect` clients have
  finished, whoever fails, comes late or is surplus;
- `RangesStayDisjoint`: no record of a directory has two owners, under any
  interleaving of registrations;
- of planned runs (no more clients than the barriers expect, and one start of the
  master): `ReadsComeAfterWrites`,
  no READ of records that are not written, whatever fails; `MemoryStaysForReaders`,
  an owner that did not fail keeps its memory until nobody reads from it;
  `DirectoryIsComplete`, with a master started at most once, a client that leaves the ready barrier has every client in
  its directory once and one owner for each record it is going to read;
  `ErrorsNeedAFault`, while nobody is killed and the master stays no client fails.

The refinement needs more than types, because the barrier counts arrivals and the
promise is about clients. `RoundsInv == TypeOK /\ RequestsGood /\ BarrierCounts /\
Passed`: a request is where its client is (`RequestsGood`); what a barrier has counted is
exactly the clients whose request waits at it, the dead ones included
(`BarrierCounts`); and whoever was released knows that `expect` clients came that
far (`Passed`), which stays true since no client ever goes back. `MasterCrash`
empties the barriers and breaks the requests in one step, which keeps the two
equal. For the ranges, `RangesInv` says that the entered ranges lie below
`next_rid` and apart from one another (`Disjoint`), that a client between its
`fetch_add` and its push has such a range already (`Pending`), and that an answered
directory is `Disjoint` too; since its clients have been entered and will not be
given another range (`Entered`), that survives a restart which counts from 0 again.

In a planned run the two counts of a barrier meet: a client that was released has
`expect` clients behind the barrier (`Passed`) and there are no more, so everybody is
behind it (`EveryoneBehind`). From that the orders of reads, writes and teardown
follow without another induction. That the directory is complete does not: it was
cloned when the barrier released, and what it holds goes back to registrations long
before. `Remembers` says that a master which was started once has entered
everybody it answered and leaves out no id below `next_rid` but those a client
between its two steps has; it says nothing of a master that was started again, whose
runs `Planned` excludes. `DirectoryInv` says that an
answered directory has all clients and that their ranges cover an interval from 0
(`Complete`). `DirectoryCovers` speaks of the sum of the counts, a fold: `TotalIsCovered`
shows that it is the number of ids, ranges being apart. It rests on
`SumByParts`, which shows a fold equal to any function that obeys the same recursion. The
induction is by a smallest counterexample among the subsets of a finite set, which
are well-founded under inclusion (`FS_StrictSubsetOrderingWellFounded`).

### 4.3 `UrmaHelloProofs`

For two nodes (`NodesAssumption`, what the program has), any setups
(`SetupsAssumption`), any number of faults (`FaultsAssumption`), whichever timer
fires:

- `TypeCorrect`: the types, and that a published descriptor has its resources;
- `ReadFindsMemory`: no READ meets freed memory unless the peer was killed or gave
  up;
- `SuccessIsHonest`: a node that reports success has read and has been read;
- `ChoicesAreOffered`: for everything a device may advertise, what it is reported to
  support, what the preflights let pass and the priority slot picked agree with it.

Each property speaks of one node and the memory or the reads of the other, and
between them lies a notice that may have been given long before. `HelloInv == Types /\
DescGood /\ EndsGood /\ NoticesGood /\ ClientGood` says what links them: how a
server ended is what it was told (`EndsGood`); a notice that was given says how far
the client that gave it has come, which stays true since clients only move on
(`NoticesGood`); a client that has got past /info knows that its peer was started and
has bound its port (`ClientGood`); and the descriptor slot is filled exactly while
the resources live (`DescGood`).

`ChoicesAreOffered` needs no invariant. `Word` chooses a word that says a set; that
there is one is shown by giving it, for every subset of three bits (`ModeWord`,
`TpWord`). `from_raw` then reads what was advertised, the gate bit through the other
bits of its word, and the lowest slot that serves a tp type exists since slots are
numbered (`LowestSlot`).

### 4.4 `UrmaPingpongProofs`

From the same three assumptions, for any number of faults and whichever waits run out:

- `TypeCorrect`: the types, who owns which resources, and that freed ones have no
  records;
- `TeardownIsSafe`: a side that is content knows that the other needs no more of it;
- `PongHasPlace`: a server that has received a ping has imported its sender, and a
  pong under way meets a posted buffer unless its receiver has given up.

A side concludes from its own completion records what the other side has done, so
the invariant has to say what a record proves, also while it still waits in the queue.
`PingpongInv == Types /\ SetsGood /\ MessagesGood /\ ClientGood /\ ServerGood`: a
set of resources lives exactly while the task that owns it runs (`SetsGood`); a
buffer is filled exactly if the message for it has landed, a receive record stands for
a filled buffer and a good send record for a message that was acknowledged
(`MessagesGood`); a client posts its receive before it sends (`ClientGood`), and a
pong answers a ping (`ServerGood`). Records may come in any order and be discarded by
a wait for the other kind: the invariant speaks of the set of records of a queue
(`Recorded`), which a poll only makes smaller.

### 4.5 `BwPipelineProofs` and `BwLedgerProofs`

For any set of command lines, any sizes in ascending order, any limits of the device
and of the segment, any poll batch (`ParametersAssumption`: the types, 1 to 64
jetties, an operation no longer than the segment), and counts below the contexts of
the fence READs (`CountsAssumption`; in the code they are u32 and the contexts are
at the end of u64), over any behaviour of the fabric, the eight invariants of run `pipeline` about the
program and one more (`TimedAfterWarmup`):

- `TypeCorrect`;
- `CountingIsExact`: nothing is counted before its record, or that of a later
  signaled operation of its jetty, was looked at;
- `PassesStayIsolated`: a pass that returns leaves no request and no record;
- `FailuresAreSeen`: no pass returns after a request of it failed;
- `QueuesNeverOverflow`: neither the jetties nor the CQ, fences included;
- `WindowsApart`, `RemoteWindowsFit`: on one jetty the windows of the operations in flight
  are disjoint, and every remote window is inside the segment;
- `TimedAfterWarmup`: a timed pass of operations follows the warmup asked for;
- `SweepNeverFails`: on a fabric that refuses and fails nothing an accepted sweep
  fails only in the two ways the findings describe. This covers every error
  return of the sweep, the hang guard included: away from the first finding a
  pipeline that is not empty always has something that moves.

`PipelineInv == TypeOK /\ SerialGood /\ FaultsGood /\ NeverFails /\ OpsPassIsWarm /\
(pc = "pass" => PassGood)`. The program knows a pass by four counters per jetty and the
properties are about requests and records; `PassGood` ties the two together. `TotalsGood`:
what was posted and not counted (`Pending`) is finite and as many as the difference
of the totals, at most `depth`. `PostedGood`: a jetty has its share of the operations, in the
round-robin of `bw_op_jetty`. `DoneGood`: what is counted of a jetty ends at a signaled
operation or at the fence. `RequestsGood`: whatever is queued or recorded is an operation
not yet counted or a fence of a jetty that has an unsignaled tail. `OrderGood`: within a
jetty places ascend, from the records to the send queue, so counting up to a record does
not overtake another. `RecordsCome`: a signaled operation that was not counted, and a fence
that is not done, is in a queue or recorded. The induction needs each of them: without
`OrderGood` a record could count backwards, without `RecordsCome` a pass could wait for what
nobody will write. `SerialGood` is the same for the verify and latency loops, and `FaultsGood`
says that a failure the fabric has made is still in a queue or in a record.

`PipelineStep` has one lemma per kind of step (`PassExecutes`, `PassDelivers`, `PassCounts`,
`PassPosts`, `PassFences`, `PassBegins`, and those of the serial loops and of faults).
`CountingIsExact` follows from `RequestsGood` and `AllCounted`; `PassesStayIsolated` from `PassIdle`:
when all is counted, a request that was left would be at a place below `done`. For
`QueuesNeverOverflow`, places inject the entries of the queues into `Pending` and the fences.
For the hang guard, `PassMoves` shows that when every queue is empty and no record
is left, nothing uncounted is signaled, so a jetty has at most `cq_mod - 1` such
operations, fewer in all than a full pipeline or a finished one needs.

`KeepsTheLedger`, `Spec => LedgerSpec`, says the accounting of a pass as a refinement,
from the same assumptions. It adds to the invariants what is about steps: no operation
changes its fate but from posted to executed or failed and from executed to
counted, whatever is delivered, polled, fenced or refused, and a pass leaves only
an empty ledger. The induction is that of `PipelineInv`; its parts say that an
operation of the pass has one request or one record or neither, and neither only when
it has executed (`Operation`, `OneRequest`). One lemma per kind of step says what it
does to the fates: a record that appears tells what was known of its request, and the
requests that vanish with it have executed (`DeliverFates`); a record that is
looked at proves complete what it counts (`CountFates`); a list that is posted is
the next numbers (`PostFates`). That no more than `depth` are open (`OpenFits`) compares
two ways to count: jetty and rank tell operations apart (`RankTells`), so the
uncounted ones are as many as `Pending`.

### 4.6 `BwInputsProofs`

What is typed, measured and carried. Nothing of it changes, so the proofs are about
operators; what takes work is that these are loops.

- `SweepIsAsAsked`: a list of sizes is swept in ascending order, each once, and
  refused if a part of it is refused; a range is swept by doubling up to the last that
  is not above its end; serve's buffer holds the greatest; the percentiles are of the
  nearest rank. For any suffix base, any limits (`LimitsAssumption`: u32::MAX is not above
  usize::MAX), any tokens (`TokensAssumption`), any number of parts and of samples
  (`BoundsAssumption`).
- `DescAlwaysTravels`: the descriptor line of urma_cli and that of urma_bench are read
  as they were written, blanks around them aside; every proper prefix is refused and so
  are the three ways to run on. For any base of digits above one and any widths of the
  fields (`WidthsAssumption`), any segments whose fields fit (`SegsAssumption`), any
  blobs and number of jetties whose counts fit a u32 (`BlobsAssumption`).

A loop is a recursive function over its turns. `LoopExists` shows that one with the
given step exists, and `Upward` is induction over a set of numbers, which needs no
operator as a parameter; both rest on the well-foundedness of `<`. The list that
`parse_list` sorts has its ascending arrangement (`SortExists`, `AscendingSorts`). A
range has been doubled beyond its end after as many turns as its end says, so the
function has stopped (`DoubledDoubles`). A number is what its bytes are, for as many
bytes as it takes (`NumberTravels`). A descriptor is pieces laid one after the other
(`Flattened`), and each is taken again from where it begins. A text that is cut or goes
on is either refused by `hex_dec`, or its bytes begin like those of the descriptor and
have another length (`CutText`, `LongText`); the counts at its beginning are then the
same (`SameHead`) and fix the length that is accepted (`CliReads`, `BenchReads`).

### 4.7 Only model-checked

- All liveness (`Reclaimed`, `ProgramEnds`, the `HealthyEnds`, `JoinDoesNotHang`,
  `JoinEnds`), which the prover does not do; every other property of the passing
  runs is a theorem. `SweepNeverFails` and `ErrorsNeedAFault` are
  the safety halves of two of them: while nothing is at fault, what they end in is not
  an error.

## 5. What the checks found

1. `Jetty::new` checks the priority after creating the jfr and returns without
   deleting it (urma.rs 792).
2. `Jetty::new` does not require its CQ to be of its context and keeps only the CQ
   alive (urma.rs 773, 826).
3. With several jetties the clamp of `resolve_cq_mod` no longer keeps a signaled
   operation in a full pipeline: `--depth 64 --jetties 4` with automatic moderation
   waits 30 s and fails (urma_bench.rs 1005).
4. The clock is read twice before a chunk: an empty list, `Invalid`
   (urma_bench.rs 903 and 914).
5. `--duration` never makes its warmup pass (urma_bench.rs 1035).
6. `urma_pingpong` promises that the two nodes can be started in any order, but the
   server of the first waits ten seconds for a ping, fails and closes its HTTP
   server; the client of a node started later retries for ever
   (urma_pingpong.rs 64, 189).

Also seen, not run:

- `CompletionQueue::new` reads errno after `urma_delete_jfce` (urma.rs 652-653),
  against the comment of `null_err` (urma.rs 23-24: captured before any cleanup call
  can clobber it); the other constructors read it first. errno is not in the model.
- Bench: landing windows are disjoint for one jetty only; with several, a slow
  jetty still holds a window when the rotation returns to it. A `--landing-cap`
  below the largest size ends in `Invalid` although the note printed before speaks
  of one shared window. The comment above its `pack_desc` (urma_bench.rs 1466)
  speaks of the layout of urma_cli, but the rjetty field is a count and a list of
  lengths. `serve-tcp` prints that it serves until killed and exits on an
  oversized request or a stream error.
- Lookup, outside planned runs: a surplus or late client may be in a directory
  before it has written, so a READ returns what is not written yet; a directory
  may lack the owner of a record the walk asks for. When a client dies, its memory
  goes while others read it, and the others wait at the next barrier for ever,
  which has no timeout. A master that restarts has forgotten its clients, and
  `is_mine` may then take another client's range for one's own. A surplus client
  that waits at a barrier keeps the master from exiting.
- Hello: nodes started more than 120 s apart do not end (the first server has
  timed out, the second client retries for ever); the same happens to the client
  of a survivor whose peer has failed.
- Pingpong with `--tcp-hook`: a server whose peer has died waits for ever.
- `DeviceCap`'s `Display` appends its note on CTP whenever the gate is off, also
  when no mode lists CTP. The range check of urma_cli (359) adds two u64 of the
  command line, which wraps in a release build, and cuts `len` to u32.

## 6. Not modelled

- Payloads and patterns (`fill_pat`, `check_pat`, `fill_msg`), averages, bandwidth
  rows, formatting: no property distinguishes them.
- The TCP baseline (`serve-tcp`, `read-tcp`): one socket per peer, fixed-size
  request and response, no state that two actors share.
- Scatter lists and `max_sge`: no example posts more than one element.
- A second wait after a `PollTimeout`: the library allows it, and its late record
  would answer the wrong wait, but no caller in the repository makes one.
- `UrmaLookup` runs one client per machine; two on one machine end in
  `check_loopback`, as the models of the other two programs show.
- What the kernel and the device do; `ffi.rs` but for the capability bits it
  names; scripts and documents.
- Undefined behaviour inside liburma after a use of a deleted object: the
  invariants say that it is not reached. For READs still queued when an error
  return drops the landing buffer of the bench, that depends on what
  `urma_delete_jetty` does with requests in flight, which the repository does not
  say.

## 7. Plan

Done: the resource tree, the bench pipeline with its inputs and descriptor, the lookup
program, hello and ping-pong, capabilities; two refinements
(`LookupRounds`, `PassLedger`); the proofs of every property of the passing runs but for
liveness.

Left:

1. The pipeline composed with the tree, once the code or its documents say what a
   deleted jetty does with its requests.
2. A descriptor with a character exchanged, for which the program has no check: what is
   read then is another descriptor, of the same length.
3. The TCP baseline, if it comes to share state between its connections.
