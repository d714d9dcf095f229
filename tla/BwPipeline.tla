----------------------------- MODULE BwPipeline -----------------------------
(***************************************************************************)
(* The URMA side of src/examples/urma_bench.rs: one_sided_run sweeps the   *)
(* sizes, each with a serialized verify and then either serialized latency *)
(* operations (depth 1) or run_bw_iters, whose bw_pass keeps up to Depth   *)
(* operations in flight over Jetties queues sharing one CQ.                *)
(*                                                                         *)
(* The program is one thread.  It runs against the fabric of SendQueues,   *)
(* which executes work requests and writes records while it runs, and, in  *)
(* --duration mode, against the clock.  Work requests carry their user_ctx *)
(* and the ends of the transfer they name.                                 *)
(***************************************************************************)
EXTENDS Integers, Sequences, FiniteSets

CONSTANTS
    CommandLines, \* the option records the program is started with
    MaxJetties,   \* BW_MAX_JETTIES
    DepthLimit,   \* the smallest queue ceiling the device reports
    Sizes,        \* --sizes, ascending
    SizeLimit,    \* the device's ceiling of an operation and the peer's segment
    SegLen,       \* length of the peer's segment
    DefaultDepth, \* DEFAULT_DEPTH of the library
    PollBatch,    \* BW_POLL_BATCH
    MaxOps        \* bound on the operations of a pass in --duration mode

ASSUME ParametersAssumption ==
    /\ CommandLines \subseteq
          [jetties : Nat, depth : Nat, post_list : Nat, cq_mod : Nat, warmup : Nat,
           iters : Nat, landing_cap : Nat, duration : BOOLEAN, write : BOOLEAN]
    /\ MaxJetties \in 1..64 /\ DepthLimit \in Nat \ {0} /\ DefaultDepth \in Nat \ {0}
    /\ SegLen \in Nat \ {0} /\ SizeLimit \in 1..SegLen
    /\ Sizes \in Seq(Nat \ {0})
    /\ \A r, t \in DOMAIN Sizes : r < t => Sizes[r] < Sizes[t]
    /\ PollBatch \in Nat \ {0} /\ MaxOps \in Nat

VARIABLES
    args,      \* OneSidedArgs, and whether it is write-urma
    pc,        \* "start", "serial", "spin", "pass", "done" or "failed"
    row,       \* index of the size being swept
    left,      \* serialized operations still to run for this size
    phase,     \* which pass: "warmup" or "timed"
    warmed,    \* has a warmup pass run for this size?
    next,      \* operations posted in this pass
    posted,    \* posted[j]: those of them on jetty j
    done,      \* done[j]: operations of jetty j proved complete
    doneTotal,
    fenced,    \* fenced[j]: jetty j's fence has been posted
    expired,   \* has the pass's deadline gone by?
    crs,       \* records polled and not yet looked at
    err,       \* the error the program returned
    sq, cq, faulty \* the fabric

pass   == <<next, posted, done, doneTotal, fenced, expired, crs>>
fabric == <<sq, cq, faulty>>
vars   == <<args, pc, row, left, phase, warmed, pass, err, fabric>>

Queues == 0..MaxJetties-1

Fabric == INSTANCE SendQueues

-----------------------------------------------------------------------------
(* The functions of the operation index. *)

Smaller(a, b) == IF a <= b THEN a ELSE b
Larger(a, b) == IF a >= b THEN a ELSE b

bw_op_jetty(i) == (i \div args.post_list) % args.jetties

bw_op_rank(i) == (i \div (args.post_list * args.jetties)) * args.post_list + (i % args.post_list)

\* Slips in it that the checks must find: one window per list, and one window
\* more than fits.
SlotPerList(i, size, len) == ((i \div args.post_list) % Larger(len \div size, 1)) * size

SlotsRoundedUp(i, size, len) == (i % ((len + size - 1) \div size)) * size

bw_slot_off(i, size, len) == (i % Larger(len \div size, 1)) * size

\* BW_CQ_MOD_AUTO
CqModAuto == 100

resolve_cq_mod ==
    IF args.cq_mod = 0 THEN Smaller(CqModAuto, args.depth)
                       ELSE Smaller(Larger(args.cq_mod, 1), args.depth)

\* A slip in it: a tail that ends in a signaled operation gets a fence too.
TailAlwaysUncovered(posts) == posts > 0 /\ resolve_cq_mod > 1

bw_tail_uncovered(posts) == resolve_cq_mod > 1 /\ (posts % resolve_cq_mod) # 0

\* A slip in it: the moderation counts operations of the pass, not of the jetty.
SignaledByIndex(i) == (i + 1) % resolve_cq_mod = 0

Signaled(i) == (bw_op_rank(i) + 1) % resolve_cq_mod = 0

\* qdepth: the depth the CQ and the jetties are created with.
QDepth == Larger(args.depth, DefaultDepth) + args.jetties

\* Fence contexts count down from u64::MAX, here a number no operation index
\* reaches.
FenceCtxBase == 2000000
FenceCtxMin == FenceCtxBase - 63
FenceCtx(j) == FenceCtxBase - j
ReadCtx == 423

\* No count of operations reaches the fence contexts: iters and warmup are u32.
ASSUME CountsAssumption ==
    /\ MaxOps <= FenceCtxMin
    /\ \A a \in CommandLines : a.iters <= FenceCtxMin /\ a.warmup <= FenceCtxMin

\* The sizes above the ceiling are skipped.  They are the last ones.
Swept == SubSeq(Sizes, 1, Cardinality({r \in DOMAIN Sizes : Sizes[r] <= SizeLimit}))

Size == Swept[row]

\* The landing buffer is sized for the largest size and capped.
LandingLen ==
    LET max_size == Swept[Len(Swept)]
    IN IF args.depth > 1 THEN Smaller(max_size * args.depth, args.landing_cap) ELSE max_size

LandingOff(i) == bw_slot_off(i, Size, LandingLen)

RemoteOff(i) == bw_slot_off(i, Size, SegLen)

\* landing.sge(off, size) refuses a window out of bounds.
SgeInBounds(off) == off + Size <= LandingLen

WorkRequest(ctx, signaled) == [ctx |-> ctx, signaled |-> signaled]

-----------------------------------------------------------------------------
(* The fabric and the clock. *)

Environment ==
    /\ \E j \in Queues : Fabric!Fabric(j)
    /\ UNCHANGED <<args, pc, row, left, phase, warmed, pass, err>>

\* The deadline of a --duration pass goes by.
Tick ==
    /\ args.duration /\ pc = "pass" /\ ~expired
    /\ expired' = TRUE
    /\ UNCHANGED <<args, pc, row, left, phase, warmed, next, posted, done,
                   doneTotal, fenced, crs, err, fabric>>

-----------------------------------------------------------------------------
(* The start, and the serialized operations: the verify of a size and the  *)
(* run_iters of the latency mode.                                          *)

Fail(e) == pc' = "failed" /\ err' = e

\* The checks one_sided_run makes on its options.
Accepted ==
    /\ args.iters > 0
    /\ args.depth > 0
    /\ args.depth = 1 => /\ ~args.duration /\ args.cq_mod = 0
                         /\ args.jetties <= 1 /\ args.post_list <= 1
    /\ args.jetties \in 1..MaxJetties
    /\ args.post_list \in 1..args.depth
    /\ args.depth <= DepthLimit
    /\ Len(Swept) > 0

\* One READ, or a WRITE of the pattern and the READ that brings it back: each
\* waits for its record before the next is posted.
VerifyOps == IF args.write THEN 2 ELSE 1

SerialOps == VerifyOps + IF args.depth = 1 THEN args.warmup + args.iters ELSE 0

CheckOptions ==
    /\ pc = "start"
    /\ \/ /\ Accepted
          /\ pc' = "serial" /\ left' = SerialOps
          /\ UNCHANGED err
       \/ /\ ~Accepted
          /\ Fail("Usage")
          /\ UNCHANGED left
    /\ UNCHANGED <<args, row, phase, warmed, pass, fabric>>

\* post_read or post_write on jetty 0 with READ_CTX.
PostSerial ==
    /\ pc = "serial" /\ left > 0
    /\ LET wrs == <<WorkRequest(ReadCtx, TRUE)>>
       IN \/ /\ SgeInBounds(0)
             /\ \/ Fabric!Post(0, wrs) /\ pc' = "spin" /\ UNCHANGED err
                \/ Fabric!PostRefused(0, wrs) /\ Fail("Status")
          \/ /\ ~SgeInBounds(0)
             /\ Fail("Invalid")
             /\ UNCHANGED fabric
    /\ UNCHANGED <<args, row, left, phase, warmed, pass>>

\* wait_read_spin: the next record must be a success for READ_CTX, and come
\* within READ_TIMEOUT.
WaitReadSpin ==
    /\ pc = "spin"
    /\ \/ /\ Fabric!Poll(1)
          /\ \/ /\ cq[1].success /\ cq[1].ctx = ReadCtx
                /\ pc' = "serial" /\ left' = left - 1
                /\ UNCHANGED err
             \/ /\ ~cq[1].success \/ cq[1].ctx # ReadCtx
                /\ Fail("BadCompletion")
                /\ UNCHANGED left
       \/ Fabric!TimedOut /\ Fail("PollTimeout") /\ UNCHANGED left
       \/ Fabric!PollRefused /\ Fail("Status") /\ UNCHANGED left
    /\ UNCHANGED <<args, row, phase, warmed, pass>>

\* A slip in it: one size too many.
NextSizePastEnd ==
    /\ row' = row + 1
    /\ pc' = IF row <= Len(Swept) THEN "serial" ELSE "done"
    /\ left' = SerialOps
    /\ warmed' = FALSE
    /\ UNCHANGED <<args, phase, err, fabric>>

\* The next size of the sweep, or the end of it.
NextSize ==
    /\ row' = IF row < Len(Swept) THEN row + 1 ELSE row
    /\ pc' = IF row < Len(Swept) THEN "serial" ELSE "done"
    /\ left' = SerialOps
    /\ warmed' = FALSE
    /\ UNCHANGED <<args, phase, err, fabric>>

EndLatency ==
    /\ pc = "serial" /\ left = 0 /\ args.depth = 1
    /\ NextSize
    /\ UNCHANGED pass

-----------------------------------------------------------------------------
(* run_bw_iters and bw_pass. *)

\* BwStop::stop_posting after n posts, the deadline gone by or not.
StopPosting(n, late) ==
    IF args.duration THEN n > 0 /\ late
                     ELSE n >= IF phase = "warmup" THEN args.warmup ELSE args.iters

Room == next - doneTotal < args.depth

\* The locals of bw_pass.
EnterPass(ph) ==
    /\ pc' = "pass" /\ phase' = ph
    /\ next' = 0 /\ doneTotal' = 0 /\ expired' = FALSE /\ crs' = <<>>
    /\ posted' = [j \in Queues |-> 0]
    /\ done' = [j \in Queues |-> 0]
    /\ fenced' = [j \in Queues |-> FALSE]

\* run_bw_iters makes a warmup pass when the stop is Ops(n) with n > 0.
StartBandwidth ==
    /\ pc = "serial" /\ left = 0 /\ args.depth > 1
    /\ EnterPass(IF ~args.duration /\ args.warmup > 0 THEN "warmup" ELSE "timed")
    /\ UNCHANGED <<args, row, left, warmed, err, fabric>>

\* A slip in it: the room is tested once per list.
ChunkFillsList(k, late) ==
    \/ k = args.post_list - (next % args.post_list)
    \/ StopPosting(next + k, late)

\* The inner posting loop stops after k operations: the current post-list window
\* ends, the pipeline is full, the last operation is posted or the deadline has
\* gone by.
ChunkEnds(k, late) ==
    \/ k = args.post_list - (next % args.post_list)
    \/ next + k - doneTotal >= args.depth
    \/ StopPosting(next + k, late)

\* One turn of the outer posting loop: a chunk of operations of one jetty,
\* posted as one list.  The deadline may go by between the test of the outer
\* loop and any test of the inner one.
PostChunk ==
    /\ pc = "pass" /\ crs = <<>>
    /\ ~StopPosting(next, expired) /\ Room
    /\ args.duration => next + args.post_list <= MaxOps
    /\ \E k \in 0..args.post_list, late \in BOOLEAN :
          LET j == bw_op_jetty(next)
              ops == next..next+k-1
              wrs == [x \in 1..k |-> WorkRequest(next+x-1, Signaled(next+x-1))]
          IN /\ late = expired \/ (args.duration /\ late)
             /\ ChunkEnds(k, late)
             /\ \A l \in 0..k-1 : ~ChunkEnds(l, expired)
             /\ expired' = late
             /\ next' = next + k
             /\ posted' = [posted EXCEPT ![j] = @ + k]
             /\ \/ /\ k > 0 /\ \A i \in ops : SgeInBounds(LandingOff(i))
                   /\ \/ Fabric!Post(j, wrs) /\ UNCHANGED <<pc, err>>
                      \/ Fabric!PostRefused(j, wrs) /\ Fail("Status")
                \/ /\ k = 0 \/ \E i \in ops : ~SgeInBounds(LandingOff(i))
                   /\ Fail("Invalid")
                   /\ UNCHANGED fabric
    /\ UNCHANGED <<args, row, left, phase, warmed, done, doneTotal, fenced, crs>>

\* Posting has stopped and a slot is free: a signaled READ of one byte on every
\* jetty whose tail is unsignaled, the lowest jetty first.
Unfenced == {j \in 0..args.jetties-1 : ~fenced[j] /\ bw_tail_uncovered(posted[j])}

FenceDue == StopPosting(next, expired) /\ Room /\ Unfenced # {}

PostFence ==
    /\ pc = "pass" /\ crs = <<>> /\ FenceDue
    /\ LET j == CHOOSE f \in Unfenced : \A g \in Unfenced : f <= g
           wrs == <<WorkRequest(FenceCtx(j), TRUE)>>
       IN \/ /\ Fabric!Post(j, wrs)
             /\ fenced' = [fenced EXCEPT ![j] = TRUE]
             /\ UNCHANGED <<pc, err>>
          \/ /\ Fabric!PostRefused(j, wrs)
             /\ Fail("Status")
             /\ UNCHANGED fenced
    /\ UNCHANGED <<args, row, left, phase, warmed, next, posted, done, doneTotal,
                   expired, crs>>

\* This turn of the loop has nothing more to post.
AllPosted == (StopPosting(next, expired) \/ ~Room) /\ ~FenceDue

\* A slip in it: the pass does not drain.
StoppedPosting == StopPosting(next, expired)

PassComplete == doneTotal = next /\ StopPosting(next, expired)

\* bw_pass returns: after the warmup the timed pass, after that the next size.
EndPass ==
    /\ pc = "pass" /\ crs = <<>> /\ AllPosted /\ PassComplete
    /\ \/ /\ phase = "warmup"
          /\ EnterPass("timed")
          /\ warmed' = TRUE
          /\ UNCHANGED <<args, row, left, err, fabric>>
       \/ /\ phase = "timed"
          /\ NextSize
          /\ UNCHANGED pass

\* A slip in it: the wait has no timeout.
PollForever ==
    /\ pc = "pass" /\ crs = <<>> /\ AllPosted /\ ~PassComplete
    /\ \/ /\ \E k \in 1..PollBatch : Fabric!Poll(k) /\ crs' = SubSeq(cq, 1, k)
          /\ UNCHANGED <<pc, err>>
       \/ Fabric!PollRefused /\ Fail("Status") /\ UNCHANGED crs
    /\ UNCHANGED <<args, row, left, phase, warmed, next, posted, done, doneTotal,
                   fenced, expired>>

\* poll_batch, or READ_TIMEOUT without a record.
PollRecords ==
    /\ pc = "pass" /\ crs = <<>> /\ AllPosted /\ ~PassComplete
    /\ \/ /\ \E k \in 1..PollBatch : Fabric!Poll(k) /\ crs' = SubSeq(cq, 1, k)
          /\ UNCHANGED <<pc, err>>
       \/ Fabric!TimedOut /\ Fail("PollTimeout") /\ UNCHANGED crs
       \/ Fabric!PollRefused /\ Fail("Status") /\ UNCHANGED crs
    /\ UNCHANGED <<args, row, left, phase, warmed, next, posted, done, doneTotal,
                   fenced, expired>>

\* A slip in it: lists are forgotten.
RecordJettyByIndex(ctx) == IF ctx >= FenceCtxMin THEN FenceCtxBase - ctx
                                                 ELSE ctx % args.jetties

\* The jetty a record belongs to and the number of its operations it proves
\* complete.
RecordJetty(ctx) == IF ctx >= FenceCtxMin THEN FenceCtxBase - ctx ELSE bw_op_jetty(ctx)

RecordTarget(ctx) == IF ctx >= FenceCtxMin THEN posted[FenceCtxBase - ctx]
                                           ELSE bw_op_rank(ctx) + 1

\* A slip in it: the status of the record is not looked at.
CountAnyRecord ==
    /\ pc = "pass" /\ crs # <<>>
    /\ LET cr == Head(crs)
           j == RecordJetty(cr.ctx)
           proved == Larger(done[j], RecordTarget(cr.ctx))
       IN /\ doneTotal' = doneTotal + (proved - done[j])
          /\ done' = [done EXCEPT ![j] = proved]
          /\ crs' = Tail(crs)
    /\ UNCHANGED <<args, pc, row, left, phase, warmed, next, posted, fenced, expired,
                   err, fabric>>

\* The loop over the records of a batch.
CountRecord ==
    /\ pc = "pass" /\ crs # <<>>
    /\ LET cr == Head(crs)
           j == RecordJetty(cr.ctx)
           proved == Larger(done[j], RecordTarget(cr.ctx))
       IN \/ /\ cr.success
             /\ doneTotal' = doneTotal + (proved - done[j])
             /\ done' = [done EXCEPT ![j] = proved]
             /\ crs' = Tail(crs)
             /\ UNCHANGED <<pc, err>>
          \/ /\ ~cr.success
             /\ Fail("BadCompletion")
             /\ UNCHANGED <<done, doneTotal, crs>>
    /\ UNCHANGED <<args, row, left, phase, warmed, next, posted, fenced, expired,
                   fabric>>

-----------------------------------------------------------------------------
Init ==
    /\ args \in CommandLines
    /\ pc = "start" /\ row = 1 /\ left = 0
    /\ phase = "timed" /\ warmed = FALSE /\ err = "none"
    /\ next = 0 /\ doneTotal = 0 /\ expired = FALSE /\ crs = <<>>
    /\ posted = [j \in Queues |-> 0]
    /\ done = [j \in Queues |-> 0]
    /\ fenced = [j \in Queues |-> FALSE]
    /\ Fabric!Init

Program ==
    \/ CheckOptions \/ PostSerial \/ WaitReadSpin \/ EndLatency \/ StartBandwidth
    \/ PostChunk \/ PostFence \/ EndPass \/ PollRecords \/ CountRecord

Next == Program \/ Environment \/ Tick

Spec == Init /\ [][Next]_vars

\* A step of the program that needs no new error of the fabric.  The hang guard
\* is the program's own.
Turn == Program /\ (faulty' = faulty \/ err' = "PollTimeout")

\* The program spins, the fabric answers, the clock advances.
FairSpec == /\ Spec
            /\ WF_vars(Turn)
            /\ WF_vars(Environment)
            /\ WF_vars(Tick)

-----------------------------------------------------------------------------
(* Properties. *)

WorkRequests == [ctx : Nat, signaled : BOOLEAN, state : {"posted", "ok", "failed"}]

Records == [ctx : Nat, success : BOOLEAN]

\* Every variable has its type.
TypeOK ==
    /\ args \in CommandLines
    /\ pc \in {"start", "serial", "spin", "pass", "done", "failed"}
    /\ pc \notin {"start", "failed"} => row \in DOMAIN Swept /\ left \in 0..SerialOps
    /\ phase \in {"warmup", "timed"} /\ warmed \in BOOLEAN
    /\ next \in Nat /\ doneTotal \in Nat
    /\ posted \in [Queues -> Nat] /\ done \in [Queues -> Nat]
    /\ fenced \in [Queues -> BOOLEAN] /\ expired \in BOOLEAN
    /\ crs \in Seq(Records) /\ cq \in Seq(Records)
    /\ err \in {"none", "Usage", "Invalid", "Status", "BadCompletion", "PollTimeout"}
    /\ sq \in [Queues -> Seq(WorkRequests)] /\ faulty \in BOOLEAN

\* Operation i of the running pass is in the count of completed ones.
Counted(i) == bw_op_rank(i) < done[bw_op_jetty(i)]

\* "op/byte accounting is exact at any moderation and jetty count" (bw_pass):
\* an operation that has not executed, or has failed, is not counted, from its
\* post until its record has been looked at; and when the total says that
\* everything is complete, it is so on each jetty.
CountIsExact ==
    pc = "pass" =>
        /\ \A j \in Queues : \A k \in DOMAIN sq[j] :
              sq[j][k].state # "ok" /\ sq[j][k].ctx < FenceCtxMin
                  => ~Counted(sq[j][k].ctx)
        /\ \A k \in 1..Len(crs) + Len(cq) :
              LET cr == (crs \o cq)[k]
              IN ~cr.success /\ cr.ctx < FenceCtxMin => ~Counted(cr.ctx)
        /\ doneTotal >= next => done = posted

\* Between the passes and the serialized operations.
AtRest == pc \in {"serial", "done"} \/ (pc = "pass" /\ next = 0)

\* A pass leaves nothing behind: when the next one or a serialized operation
\* starts, and at the end of the sweep, no work request of an earlier one can
\* still execute or write a record (a leftover fence record would be taken for
\* the new pass's own, a leftover READ would land in the verified buffer).
PassesIsolated == AtRest => Fabric!Idle

\* A work request that failed ends the program: no pass returns, and no verify
\* goes on, with the operation taken for done.
FailureIsSeen == AtRest => ~faulty

\* The queues created with QDepth never overflow, with the fences that "sit on
\* top of a full pipeline" (one_sided_run): a slot is free again only when its
\* record, or a later one of its jetty, has been looked at.
QueuesFit ==
    pc = "pass" =>
        /\ Len(cq) <= QDepth
        /\ \A j \in Queues :
              posted[j] - done[j] + (IF fenced[j] /\ done[j] < posted[j] THEN 1 ELSE 0)
                  <= QDepth

\* A full pipeline holds a signaled operation: always on one jetty, where the
\* clamp of resolve_cq_mod sees to it; on several only when Depth exceeds what
\* they can hold unsignaled.
PipelineMoves ==
    args.jetties = 1 \/ args.depth > args.jetties * (resolve_cq_mod - 1)

\* On a fabric that refuses and fails nothing an accepted sweep does not fail:
\* no record is taken for another's, no pass waits for a record nothing will
\* write, every window is in bounds.  Two exceptions: see NeverStalls and
\* DeadlineDrains.
NeverFails ==
    ~faulty /\ Accepted /\ args.landing_cap >= Swept[Len(Swept)] =>
        err \in {"none"} \cup (IF args.duration THEN {"Invalid"} ELSE {})
                         \cup (IF PipelineMoves THEN {} ELSE {"PollTimeout"})

\* "above it a full pipeline would hold no signaled op to learn completion
\* from" (resolve_cq_mod), "keeping the accounting exact at any combination"
\* (head comment): on a fabric that answers no pass waits for a record in vain.
NeverStalls == ~faulty => err # "PollTimeout"

\* "each size runs to this deadline instead of --iters ops, then the in-flight
\* READs drain" (--duration): the deadline does not make the pass fail.
DeadlineDrains == Accepted => err # "Invalid"

\* "so the pipeline gets disjoint landing windows" (one_sided_run): on one jetty
\* the local ends of the operations that may be executing do not overlap, as
\* long as the landing buffer has a window for each.
LandingDisjoint ==
    (pc = "pass" /\ args.jetties = 1 /\ LandingLen \div Size >= args.depth) =>
        \A k, m \in DOMAIN sq[0] :
            LET a == sq[0][k].ctx
                b == sq[0][m].ctx
            IN k # m /\ a < FenceCtxMin /\ b < FenceCtxMin
                   => LandingOff(a) # LandingOff(b)

\* The remote end of every operation in flight lies within the peer's segment:
\* nothing but this arithmetic keeps a WRITE inside it.
RemoteInBounds ==
    pc = "pass" => \A j \in Queues : \A k \in DOMAIN sq[j] :
        sq[j][k].ctx < FenceCtxMin => RemoteOff(sq[j][k].ctx) + Size <= SegLen

\* The timed pass of a size comes after its warmup pass when the options ask for
\* one.
OpsPassIsWarm ==
    pc = "pass" /\ phase = "timed" /\ ~args.duration /\ args.warmup > 0 => warmed

\* "warmup becomes a fixed 1s" (head comment, --duration).
DurationPassIsWarm ==
    pc = "pass" /\ phase = "timed" /\ args.duration => warmed

\* What became of operation i of the running pass.
FateOf(i) ==
    IF Counted(i) THEN "counted"
    ELSE IF \E j \in Queues : \E k \in DOMAIN sq[j] :
               sq[j][k].ctx = i /\ sq[j][k].state = "posted" THEN "posted"
    ELSE IF \/ \E j \in Queues : \E k \in DOMAIN sq[j] :
                  sq[j][k].ctx = i /\ sq[j][k].state = "failed"
            \/ \E k \in DOMAIN (crs \o cq) :
                  (crs \o cq)[k].ctx = i /\ ~(crs \o cq)[k].success THEN "failed"
    ELSE "executed"

\* "keeping the accounting exact at any combination" (head comment): whatever
\* the jetties, the lists, the moderation and the fences, a pass keeps the
\* ledger of its operations.
Ledger == INSTANCE PassLedger
             WITH depth   <- args.depth,
                  running <- pc # "failed",
                  ledger  <- IF pc = "pass" THEN [i \in 1..next |-> FateOf(i - 1)] ELSE <<>>

LedgerSpec == Ledger!Spec

\* The program comes to an end: every wait for a record ends.
ProgramEnds == <>(pc \in {"done", "failed"})
=============================================================================
