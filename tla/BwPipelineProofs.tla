-------------------------- MODULE BwPipelineProofs --------------------------
(***************************************************************************)
(* For any command lines, any device limits, any sizes and any behaviour   *)
(* of the fabric: the accounting of bw_pass is exact, a pass leaves        *)
(* nothing behind, a failed operation is seen, the queues never overflow,  *)
(* windows stay in bounds and apart, and the sweep fails only when the     *)
(* fabric does, or in the two ways the findings describe.                  *)
(***************************************************************************)
EXTENDS BwArithmetic, SequenceTheorems, FunctionTheorems

-----------------------------------------------------------------------------
(* The strengthening.                                                      *)

\* The records of the pass that have not been looked at, oldest first.
Reported == crs \o cq

\* The place of a request among those of its jetty: a fence comes after every
\* operation.
Place(ctx) == IF ctx >= FenceCtxMin THEN posted[FenceCtxBase - ctx] ELSE bw_op_rank(ctx)

\* The operations posted and not counted, as jetty and rank.
Pending == {p \in Queues \X Nat : done[p[1]] <= p[2] /\ p[2] < posted[p[1]]}

Mod == resolve_cq_mod

\* The numbers of a pass.
TotalsGood ==
    /\ next <= FenceCtxMin
    /\ \A j \in Queues : done[j] <= posted[j]
    /\ IsFiniteSet(Pending) /\ next = doneTotal + Cardinality(Pending)
    /\ next - doneTotal <= args.depth

\* How the operations are spread over the jetties.
PostedGood == \A j \in Queues : posted[j] = Share(next, j)

\* What is counted ends at a signaled operation, or at the fence.
DoneGood ==
    \A j \in Queues :
        /\ done[j] % Mod = 0 \/ (fenced[j] /\ done[j] = posted[j])
        /\ fenced[j] => j < args.jetties /\ StopPosting(next, expired)

\* A request of jetty j that has not been counted.
Request(j, ctx) ==
    /\ RecordJetty(ctx) = j
    /\ \/ /\ ctx \in 0..next-1 /\ ctx < FenceCtxMin
          /\ done[j] <= bw_op_rank(ctx) /\ bw_op_rank(ctx) < posted[j]
       \/ /\ ctx = FenceCtx(j) /\ fenced[j]
          /\ done[j] % Mod = 0 /\ posted[j] % Mod # 0

AsksRecord(ctx) == ctx >= FenceCtxMin \/ Signaled(ctx)

\* What the queues and the records hold.
RequestsGood ==
    /\ \A j \in Queues : \A k \in DOMAIN sq[j] :
          /\ Request(j, sq[j][k].ctx)
          /\ sq[j][k].signaled <=> AsksRecord(sq[j][k].ctx)
    /\ \A k \in DOMAIN Reported :
          /\ RecordJetty(Reported[k].ctx) \in Queues
          /\ Request(RecordJetty(Reported[k].ctx), Reported[k].ctx)
          /\ Reported[k].success => AsksRecord(Reported[k].ctx)

\* And in which order.
OrderGood ==
    /\ \A j \in Queues : \A k, m \in DOMAIN sq[j] :
          k < m => Place(sq[j][k].ctx) < Place(sq[j][m].ctx)
    /\ \A k, m \in DOMAIN Reported :
          k < m /\ RecordJetty(Reported[k].ctx) = RecordJetty(Reported[m].ctx)
              => Place(Reported[k].ctx) < Place(Reported[m].ctx)
    /\ \A k \in DOMAIN Reported : \A j \in Queues : \A m \in DOMAIN sq[j] :
          RecordJetty(Reported[k].ctx) = j
              => Place(Reported[k].ctx) < Place(sq[j][m].ctx)

\* The request of jetty j with that place is under way.
UnderWay(j, r) ==
    \/ \E k \in DOMAIN sq[j] : Place(sq[j][k].ctx) = r
    \/ \E k \in DOMAIN Reported :
          RecordJetty(Reported[k].ctx) = j /\ Place(Reported[k].ctx) = r

\* No record is lost.
RecordsCome ==
    \A j \in Queues :
        /\ \A r \in done[j] .. posted[j]-1 : (r + 1) % Mod = 0 => UnderWay(j, r)
        /\ fenced[j] => done[j] = posted[j] \/ UnderWay(j, posted[j])

PassGood == /\ TotalsGood /\ PostedGood /\ DoneGood
            /\ RequestsGood /\ OrderGood /\ RecordsCome

\* Outside a pass.
SerialGood ==
    /\ pc \in {"start", "serial", "done"} => crs = <<>> /\ Fabric!Idle
    /\ pc = "start" => row = 1
    /\ pc \notin {"start", "failed"} => Accepted
    /\ pc = "pass" => args.depth > 1
    /\ pc = "spin" =>
          /\ crs = <<>> /\ left > 0
          /\ \A j \in Queues \ {0} : sq[j] = <<>>
          /\ \/ /\ cq = <<>> /\ Len(sq[0]) = 1
                /\ sq[0][1].ctx = ReadCtx /\ sq[0][1].signaled
             \/ sq[0] = <<>> /\ Len(cq) = 1 /\ cq[1].ctx = ReadCtx

\* What the fabric failed is still there to be seen.
FaultsGood ==
    /\ faulty /\ pc # "failed" =>
          \/ \E j \in Queues : \E k \in DOMAIN sq[j] : sq[j][k].state = "failed"
          \/ \E k \in DOMAIN Reported : ~Reported[k].success
    /\ ~faulty => /\ \A j \in Queues : \A k \in DOMAIN sq[j] : sq[j][k].state # "failed"
                  /\ \A k \in DOMAIN Reported : Reported[k].success

PipelineInv == /\ TypeOK /\ SerialGood /\ FaultsGood /\ NeverFails /\ OpsPassIsWarm
               /\ pc = "pass" => PassGood
-----------------------------------------------------------------------------
(* Parameters.                                                             *)

LEMMA OptionTypes ==
  ASSUME TypeOK
  PROVE  /\ args.jetties \in Nat /\ args.depth \in Nat /\ args.post_list \in Nat
         /\ args.cq_mod \in Nat /\ args.warmup \in Nat /\ args.iters \in Nat
         /\ args.landing_cap \in Nat /\ args.duration \in BOOLEAN
         /\ args.iters <= FenceCtxMin /\ args.warmup <= FenceCtxMin
         /\ VerifyOps \in 1..2 /\ SerialOps \in Nat /\ SerialOps >= 1
<1>1. args \in [jetties : Nat, depth : Nat, post_list : Nat, cq_mod : Nat, warmup : Nat,
                iters : Nat, landing_cap : Nat, duration : BOOLEAN, write : BOOLEAN]
  BY ParametersAssumption DEF TypeOK
<1>2. args.iters <= FenceCtxMin /\ args.warmup <= FenceCtxMin
  BY CountsAssumption DEF TypeOK
<1> QED
  BY <1>1, <1>2 DEF VerifyOps, SerialOps

LEMMA AcceptedOptions ==
  ASSUME TypeOK, Accepted
  PROVE  /\ Shape /\ args.jetties \in 1..MaxJetties /\ args.post_list \in 1..args.depth
         /\ args.depth \in Nat \ {0} /\ args.iters \in Nat \ {0}
         /\ Mod \in Nat \ {0} /\ Mod <= args.depth /\ Len(Swept) > 0
<1>1. /\ args.jetties \in Nat /\ args.depth \in Nat /\ args.post_list \in Nat
      /\ args.iters \in Nat /\ args.cq_mod \in Nat /\ MaxJetties \in Nat
  BY OptionTypes, ParametersAssumption
<1>2. /\ args.iters > 0 /\ args.depth > 0 /\ args.jetties \in 1..MaxJetties
      /\ args.post_list \in 1..args.depth /\ Len(Swept) > 0
  BY DEF Accepted
<1>3. Shape
  BY <1>1, <1>2 DEF Shape
<1>4. Mod \in Nat \ {0} /\ Mod <= args.depth
  BY <1>1, <1>2 DEF Mod, resolve_cq_mod, CqModAuto, Smaller, Larger
<1> QED
  BY <1>1, <1>2, <1>3, <1>4

\* The functions of the options stay as they are.
LEMMA SameOptions ==
  ASSUME args' = args
  PROVE  /\ Mod' = Mod /\ Shape' = Shape /\ Accepted' = Accepted
         /\ \A c \in Nat : /\ bw_op_jetty(c)' = bw_op_jetty(c)
                           /\ bw_op_rank(c)' = bw_op_rank(c)
                           /\ Signaled(c)' = Signaled(c)
                           /\ AsksRecord(c)' = AsksRecord(c)
                           /\ RecordJetty(c)' = RecordJetty(c)
         /\ \A n, j \in Nat : Share(n, j)' = Share(n, j)
<1>1. /\ Mod' = Mod /\ Shape' = Shape /\ Accepted' = Accepted
  BY DEF Mod, resolve_cq_mod, Shape, Accepted
<1>2. ASSUME NEW c \in Nat
      PROVE  /\ bw_op_jetty(c)' = bw_op_jetty(c) /\ bw_op_rank(c)' = bw_op_rank(c)
  BY DEF bw_op_jetty, bw_op_rank
<1>3. ASSUME NEW c \in Nat
      PROVE  /\ Signaled(c)' = Signaled(c) /\ AsksRecord(c)' = AsksRecord(c)
             /\ RecordJetty(c)' = RecordJetty(c)
  BY <1>1, <1>2 DEF Signaled, AsksRecord, RecordJetty, Mod
<1>4. \A n, j \in Nat : Share(n, j)' = Share(n, j)
  BY DEF Share
<1> QED
  BY <1>1, <1>2, <1>3, <1>4

-----------------------------------------------------------------------------
(* What the steps of the fabric do to the queues and the records.          *)

Asked == [ctx : Nat, signaled : BOOLEAN]

LEMMA PostFacts ==
  ASSUME TypeOK, NEW j \in Queues, NEW wrs \in Seq(Asked), Fabric!Post(j, wrs)
  PROVE  /\ sq' \in [Queues -> Seq(WorkRequests)] /\ cq' = cq /\ faulty' = faulty
         /\ \A i \in Queues \ {j} : sq'[i] = sq[i]
         /\ DOMAIN sq'[j] = 1 .. Len(sq[j]) + Len(wrs)
         /\ \A k \in DOMAIN sq[j] : k \in DOMAIN sq'[j] /\ sq'[j][k] = sq[j][k]
         /\ \A x \in 1..Len(wrs) : /\ sq'[j][Len(sq[j]) + x].ctx = wrs[x].ctx
                                   /\ sq'[j][Len(sq[j]) + x].signaled = wrs[x].signaled
                                   /\ sq'[j][Len(sq[j]) + x].state = "posted"
<1> DEFINE old == sq[j]
           new == [k \in DOMAIN wrs |->
                     [ctx |-> wrs[k].ctx, signaled |-> wrs[k].signaled, state |-> "posted"]]
<1>1. old \in Seq(WorkRequests) /\ sq \in [Queues -> Seq(WorkRequests)]
  BY DEF TypeOK
<1>2. new \in Seq(WorkRequests) /\ Len(new) = Len(wrs)
  <2>1. DOMAIN wrs = 1..Len(wrs) /\ Len(wrs) \in Nat /\ \A k \in DOMAIN wrs : wrs[k] \in Asked
    OBVIOUS
  <2>2. \A k \in DOMAIN wrs : new[k] \in WorkRequests
    BY <2>1 DEF Asked, WorkRequests
  <2>3. new \in [1..Len(wrs) -> WorkRequests]
    BY <2>1, <2>2
  <2> QED
    BY <2>1, <2>3
<1>3. sq' = [sq EXCEPT ![j] = old \o new] /\ cq' = cq /\ faulty' = faulty
  BY DEF Fabric!Post
<1>4. \A x \in 1..Len(wrs) : /\ new[x].ctx = wrs[x].ctx /\ new[x].signaled = wrs[x].signaled
                             /\ new[x].state = "posted"
  OBVIOUS
<1> HIDE DEF new, old
<1>5. /\ old \o new \in Seq(WorkRequests) /\ Len(old \o new) = Len(old) + Len(new)
      /\ \A k \in 1..Len(old) : (old \o new)[k] = old[k]
      /\ \A x \in 1..Len(new) : (old \o new)[Len(old) + x] = new[x]
  <2>1. /\ old \o new \in Seq(WorkRequests) /\ Len(old \o new) = Len(old) + Len(new)
        /\ \A i \in 1 .. Len(old) + Len(new) :
              (old \o new)[i] = IF i <= Len(old) THEN old[i] ELSE new[i - Len(old)]
    BY <1>1, <1>2, ConcatProperties
  <2>2. Len(old) \in Nat /\ Len(new) \in Nat
    BY <1>1, <1>2
  <2>3. ASSUME NEW x \in 1..Len(new) PROVE (old \o new)[Len(old) + x] = new[x]
    <3>1. /\ Len(old) + x \in 1 .. Len(old) + Len(new) /\ ~(Len(old) + x <= Len(old))
          /\ (Len(old) + x) - Len(old) = x
      BY <2>2
    <3> QED
      BY <2>1, <3>1
  <2> QED
    BY <2>1, <2>2, <2>3
<1>6. sq'[j] = old \o new /\ \A i \in Queues \ {j} : sq'[i] = sq[i]
  BY <1>1, <1>3
<1>7. sq' \in [Queues -> Seq(WorkRequests)]
  BY <1>1, <1>3, <1>5
<1>8. DOMAIN sq'[j] = 1 .. Len(old) + Len(wrs) /\ DOMAIN old = 1..Len(old) /\ Len(old) \in Nat
  BY <1>1, <1>2, <1>5, <1>6
<1>9. \A k \in DOMAIN old : k \in DOMAIN sq'[j] /\ sq'[j][k] = old[k]
  BY <1>2, <1>5, <1>6, <1>8
<1>10. \A x \in 1..Len(wrs) : sq'[j][Len(old) + x] = new[x]
  BY <1>2, <1>5, <1>6
<1> QED
  BY <1>3, <1>4, <1>6, <1>7, <1>8, <1>9, <1>10 DEF old

LEMMA RefusedTypes ==
  ASSUME TypeOK, NEW j \in Queues, NEW wrs \in Seq(Asked), Fabric!PostRefused(j, wrs)
  PROVE  /\ sq' \in [Queues -> Seq(WorkRequests)] /\ cq' = cq /\ faulty' = TRUE
<1>1. PICK k \in 0..Len(wrs)-1 :
          sq' = [sq EXCEPT ![j] = @ \o [i \in 1..k |->
                    [ctx |-> wrs[i].ctx, signaled |-> wrs[i].signaled, state |-> "posted"]]]
  BY DEF Fabric!PostRefused
<1> DEFINE new == [i \in 1..k |->
                     [ctx |-> wrs[i].ctx, signaled |-> wrs[i].signaled, state |-> "posted"]]
<1>2. new \in Seq(WorkRequests)
  <2>1. k \in Nat /\ \A i \in 1..k : wrs[i] \in Asked
    OBVIOUS
  <2>2. \A i \in 1..k : new[i] \in WorkRequests
    BY <2>1 DEF Asked, WorkRequests
  <2>3. new \in [1..k -> WorkRequests]
    BY <2>2
  <2> QED
    BY <2>1, <2>3
<1> HIDE DEF new
<1>3. sq' = [sq EXCEPT ![j] = @ \o new]
  BY <1>1 DEF new
<1>4. sq \in [Queues -> Seq(WorkRequests)] /\ sq[j] \o new \in Seq(WorkRequests)
  BY <1>2 DEF TypeOK
<1> QED
  BY <1>3, <1>4 DEF Fabric!PostRefused

\* Execution changes nothing but a state.
LEMMA ExecuteFacts ==
  ASSUME TypeOK, NEW j \in Queues, Fabric!Execute(j)
  PROVE  /\ sq' \in [Queues -> Seq(WorkRequests)] /\ cq' = cq /\ faulty' \in BOOLEAN
         /\ faulty => faulty'
         /\ \A i \in Queues : Len(sq'[i]) = Len(sq[i]) /\ DOMAIN sq'[i] = DOMAIN sq[i]
         /\ \A i \in Queues : \A k \in DOMAIN sq[i] :
               /\ sq'[i][k].ctx = sq[i][k].ctx /\ sq'[i][k].signaled = sq[i][k].signaled
               /\ sq[i][k].state = "failed" => sq'[i][k].state = "failed"
         /\ ~faulty' => \A i \in Queues : \A k \in DOMAIN sq[i] :
               sq[i][k].state # "failed" => sq'[i][k].state # "failed"
         /\ faulty' => faulty \/ \E i \in Queues : \E k \in DOMAIN sq'[i] :
                                    sq'[i][k].state = "failed"
<1>1. PICK k \in DOMAIN sq[j], result \in {"ok", "failed"} :
          /\ sq[j][k].state = "posted"
          /\ sq' = [sq EXCEPT ![j][k].state = result]
          /\ faulty' = (faulty \/ result = "failed")
  BY DEF Fabric!Execute
<1>2. sq \in [Queues -> Seq(WorkRequests)] /\ faulty \in BOOLEAN
  BY DEF TypeOK
<1> DEFINE old == sq[j]
           new == [old EXCEPT ![k].state = result]
<1>3. /\ old \in Seq(WorkRequests) /\ DOMAIN old = 1..Len(old) /\ Len(old) \in Nat
      /\ k \in 1..Len(old)
  BY <1>2
<1>4. /\ new \in [1..Len(old) -> WorkRequests]
      /\ \A i \in 1..Len(old) : /\ new[i].ctx = old[i].ctx /\ new[i].signaled = old[i].signaled
                                /\ i # k => new[i] = old[i]
      /\ new[k].state = result
  <2>1. \A i \in 1..Len(old) : old[i] \in WorkRequests
    BY <1>3
  <2> QED
    BY <1>3, <2>1 DEF WorkRequests
<1>5. new \in Seq(WorkRequests) /\ Len(new) = Len(old) /\ DOMAIN new = DOMAIN old
  BY <1>3, <1>4
<1>6. sq' = [sq EXCEPT ![j] = new]
  BY <1>1
<1> HIDE DEF new
<1>7. sq'[j] = new /\ \A i \in Queues \ {j} : sq'[i] = sq[i]
  BY <1>2, <1>6
<1>8. sq' \in [Queues -> Seq(WorkRequests)]
  BY <1>2, <1>5, <1>6
<1>9. cq' = cq
  BY DEF Fabric!Execute
<1>10. faulty' => faulty \/ \E i \in Queues : \E m \in DOMAIN sq'[i] : sq'[i][m].state = "failed"
  <2> SUFFICES ASSUME faulty', ~faulty
               PROVE  \E i \in Queues : \E m \in DOMAIN sq'[i] : sq'[i][m].state = "failed"
    OBVIOUS
  <2>1. result = "failed"
    BY <1>1
  <2>2. k \in DOMAIN sq'[j] /\ sq'[j][k].state = "failed"
    BY <2>1, <1>3, <1>4, <1>5, <1>7
  <2> QED
    BY <2>2
<1>11. \A i \in Queues : Len(sq'[i]) = Len(sq[i]) /\ DOMAIN sq'[i] = DOMAIN sq[i]
  BY <1>5, <1>7
<1>12. \A i \in Queues : \A m \in DOMAIN sq[i] :
          /\ sq'[i][m].ctx = sq[i][m].ctx /\ sq'[i][m].signaled = sq[i][m].signaled
          /\ sq[i][m].state = "failed" => sq'[i][m].state = "failed"
          /\ ~faulty' /\ sq[i][m].state # "failed" => sq'[i][m].state # "failed"
  <2> SUFFICES ASSUME NEW i \in Queues, NEW m \in DOMAIN sq[i]
               PROVE  /\ sq'[i][m].ctx = sq[i][m].ctx /\ sq'[i][m].signaled = sq[i][m].signaled
                      /\ sq[i][m].state = "failed" => sq'[i][m].state = "failed"
                      /\ ~faulty' /\ sq[i][m].state # "failed" => sq'[i][m].state # "failed"
    OBVIOUS
  <2>1. CASE i # j
    BY <2>1, <1>7
  <2>2. CASE i = j /\ m = k
    <3>1. /\ sq'[i][m].ctx = sq[i][m].ctx /\ sq'[i][m].signaled = sq[i][m].signaled
          /\ sq'[i][m].state = result /\ sq[i][m].state # "failed"
      BY <2>2, <1>1, <1>3, <1>4, <1>7
    <3>2. ~faulty' => result # "failed"
      BY <1>1
    <3> QED
      BY <3>1, <3>2
  <2>3. CASE i = j /\ m # k
    <3>1. sq'[i][m] = sq[i][m]
      BY <2>3, <1>3, <1>4, <1>7
    <3> QED
      BY <3>1
  <2> QED
    BY <2>1, <2>2, <2>3
<1> QED
  BY <1>1, <1>2, <1>8, <1>9, <1>10, <1>11, <1>12

\* A record appears: for the first request of queue j that asks for one or has
\* failed, and the requests before it are gone.
LEMMA DeliverFacts ==
  ASSUME TypeOK, NEW j \in Queues, Fabric!Deliver(j)
  PROVE  /\ sq' \in [Queues -> Seq(WorkRequests)] /\ faulty' = faulty
         /\ \A i \in Queues \ {j} : sq'[i] = sq[i]
         /\ \E k \in DOMAIN sq[j] :
               /\ DOMAIN sq'[j] = 1 .. Len(sq[j]) - k
               /\ \A i \in DOMAIN sq'[j] : i + k \in DOMAIN sq[j] /\ sq'[j][i] = sq[j][i + k]
               /\ cq' = Append(cq, [ctx |-> sq[j][k].ctx, success |-> sq[j][k].state = "ok"])
               /\ [ctx |-> sq[j][k].ctx, success |-> sq[j][k].state = "ok"] \in Records
               /\ sq[j][k].signaled \/ sq[j][k].state = "failed"
               /\ sq[j][k].state # "posted"
               /\ \A i \in 1..k-1 : ~sq[j][i].signaled /\ sq[j][i].state = "ok"
<1>1. PICK k \in DOMAIN sq[j] :
        /\ Fabric!Recorded(j, k)
        /\ \A i \in 1..k : sq[j][i].state # "posted"
        /\ \A i \in 1..k-1 : ~Fabric!Recorded(j, i)
        /\ cq' = Append(cq, [ctx |-> sq[j][k].ctx, success |-> sq[j][k].state = "ok"])
        /\ sq' = [sq EXCEPT ![j] = SubSeq(sq[j], k + 1, Len(sq[j]))]
        /\ faulty' = faulty
  BY DEF Fabric!Deliver
<1> DEFINE old == sq[j]
           new == SubSeq(old, k + 1, Len(old))
<1>2. /\ sq \in [Queues -> Seq(WorkRequests)] /\ old \in Seq(WorkRequests)
      /\ DOMAIN old = 1..Len(old) /\ Len(old) \in Nat /\ k \in 1..Len(old)
      /\ \A i \in 1..Len(old) : old[i] \in WorkRequests
  BY DEF TypeOK
<1> HIDE DEF old
<1>3. /\ new \in Seq(WorkRequests) /\ DOMAIN new = 1 .. Len(old) - k
      /\ \A i \in 1 .. Len(old) - k : new[i] = old[i + k]
  <2>1. k + 1 \in Int /\ Len(old) \in Int /\ \A i \in k + 1 .. Len(old) : old[i] \in WorkRequests
    BY <1>2
  <2>2. /\ new \in Seq(WorkRequests)
        /\ Len(new) = IF k + 1 <= Len(old) THEN Len(old) - (k + 1) + 1 ELSE 0
        /\ \A i \in 1 .. Len(old) - (k + 1) + 1 : new[i] = old[(k + 1) + i - 1]
    BY <2>1, SubSeqProperties
  <2> HIDE DEF new
  <2>3. Len(new) = Len(old) - k /\ DOMAIN new = 1..Len(new)
    BY <1>2, <2>2
  <2>4. ASSUME NEW i \in 1 .. Len(old) - k PROVE new[i] = old[i + k]
    <3>1. i \in 1 .. Len(old) - (k + 1) + 1 /\ (k + 1) + i - 1 = i + k
      BY <1>2
    <3> QED
      BY <2>2, <3>1
  <2> QED
    BY <2>2, <2>3, <2>4
<1> HIDE DEF new
<1>4. sq' = [sq EXCEPT ![j] = new]
  BY <1>1 DEF new, old
<1>5. sq' \in [Queues -> Seq(WorkRequests)] /\ sq'[j] = new
      /\ \A i \in Queues \ {j} : sq'[i] = sq[i]
  BY <1>2, <1>3, <1>4
<1>6. \A i \in DOMAIN sq'[j] : i + k \in DOMAIN sq[j] /\ sq'[j][i] = sq[j][i + k]
  <2> SUFFICES ASSUME NEW i \in 1 .. Len(old) - k
               PROVE  i + k \in 1..Len(old) /\ new[i] = old[i + k]
    BY <1>2, <1>3, <1>5 DEF old
  <2> QED
    BY <1>2, <1>3
<1>7. old[k] \in WorkRequests /\ [ctx |-> old[k].ctx, success |-> old[k].state = "ok"] \in Records
  BY <1>2 DEF WorkRequests, Records
<1>8. /\ sq[j][k].signaled \/ sq[j][k].state = "failed"
      /\ sq[j][k].state # "posted"
  BY <1>1, <1>2 DEF Fabric!Recorded
<1>9. ASSUME NEW i \in 1..k-1 PROVE ~sq[j][i].signaled /\ sq[j][i].state = "ok"
  <2>1. ~sq[j][i].signaled /\ sq[j][i].state # "failed" /\ sq[j][i].state # "posted"
    BY <1>1, <1>2 DEF Fabric!Recorded
  <2>2. old[i] \in WorkRequests
    BY <1>2
  <2> QED
    BY <2>1, <2>2 DEF WorkRequests, old
<1> QED
  BY <1>1, <1>3, <1>5, <1>6, <1>7, <1>8, <1>9 DEF old

\* The records of the pass are one sequence, wherever they wait.
LEMMA ReportedType ==
  ASSUME TypeOK
  PROVE  /\ Reported \in Seq(Records) /\ DOMAIN Reported = 1..Len(Reported)
         /\ Len(Reported) \in Nat /\ Len(Reported) = Len(crs) + Len(cq)
         /\ \A k \in DOMAIN Reported : Reported[k] \in Records
<1>1. crs \in Seq(Records) /\ cq \in Seq(Records)
  BY DEF TypeOK
<1>2. Reported \in Seq(Records) /\ Len(Reported) = Len(crs) + Len(cq)
  BY <1>1, ConcatProperties DEF Reported
<1> HIDE DEF Reported
<1> QED
  BY <1>2

LEMMA RecordAppears ==
  ASSUME TypeOK, NEW rec \in Records, cq' = Append(cq, rec), crs' = crs
  PROVE  /\ Reported' \in Seq(Records) /\ cq' \in Seq(Records)
         /\ DOMAIN Reported' = 1 .. Len(Reported) + 1
         /\ \A k \in DOMAIN Reported : k \in DOMAIN Reported' /\ Reported'[k] = Reported[k]
         /\ Len(Reported) + 1 \in DOMAIN Reported' /\ Reported'[Len(Reported) + 1] = rec
<1>1. crs \in Seq(Records) /\ cq \in Seq(Records) /\ <<rec>> \in Seq(Records)
  BY DEF TypeOK
<1>2. cq' = cq \o <<rec>>
  BY <1>1, AppendIsConcat
<1>3. Reported' = crs \o (cq \o <<rec>>)
  BY <1>2 DEF Reported
<1>4. crs \o (cq \o <<rec>>) = (crs \o cq) \o <<rec>>
  BY <1>1, ConcatAssociative
<1>5. Reported' = Reported \o <<rec>> /\ Reported \in Seq(Records) /\ Len(Reported) \in Nat
      /\ DOMAIN Reported = 1..Len(Reported)
  BY <1>3, <1>4, ReportedType DEF Reported
<1> DEFINE s == Reported
           t == Reported'
<1>6. t = Append(s, rec) /\ s \in Seq(Records)
  BY <1>5, AppendIsConcat
<1>7. Len(s) \in Nat /\ DOMAIN s = 1..Len(s)
  BY <1>5
<1> HIDE DEF s, t
<1>8. t \in Seq(Records) /\ Len(t) = Len(s) + 1
      /\ (\A k \in 1..Len(s) : t[k] = s[k]) /\ t[Len(s) + 1] = rec
  BY <1>6, AppendProperties
<1>9. DOMAIN t = 1..Len(s) + 1
  BY <1>8
<1>10. cq' \in Seq(Records)
  BY <1>1
<1> QED
  BY <1>7, <1>8, <1>9, <1>10 DEF s, t

LEMMA RecordsPolled ==
  ASSUME TypeOK, crs = <<>>, NEW k \in Nat, Fabric!Poll(k), crs' = SubSeq(cq, 1, k)
  PROVE  /\ Reported' = Reported /\ crs' \in Seq(Records) /\ cq' \in Seq(Records)
<1>1. cq \in Seq(Records) /\ Len(cq) \in Nat /\ k \in 1..Len(cq) /\ cq' = SubSeq(cq, k + 1, Len(cq))
  BY DEF TypeOK, Fabric!Poll
<1>2. crs' \o cq' = cq
  BY <1>1, ConcatAdjacentSubSeq, SubSeqFull
<1>3. Reported = cq
  BY <1>1, ConcatEmptySeq DEF Reported
<1>4. \A i \in 1..Len(cq) : cq[i] \in Records
  BY <1>1
<1>5. SubSeq(cq, 1, k) \in Seq(Records)
  BY <1>1, <1>4, SubSeqProperties
<1>6. SubSeq(cq, k + 1, Len(cq)) \in Seq(Records)
  BY <1>1, <1>4, SubSeqProperties
<1> QED
  BY <1>1, <1>2, <1>3, <1>5, <1>6 DEF Reported

LEMMA RecordTaken ==
  ASSUME TypeOK, crs # <<>>, crs' = Tail(crs), cq' = cq
  PROVE  /\ crs' \in Seq(Records) /\ Head(crs) \in Records
         /\ Reported' \in Seq(Records) /\ DOMAIN Reported' = 1 .. Len(Reported) - 1
         /\ 1 \in DOMAIN Reported /\ Reported[1] = Head(crs)
         /\ \A k \in DOMAIN Reported' : k + 1 \in DOMAIN Reported /\ Reported'[k] = Reported[k + 1]
<1> DEFINE rest == Tail(crs)
<1>1. crs \in Seq(Records) /\ cq \in Seq(Records) /\ Len(crs) \in Nat \ {0} /\ Len(cq) \in Nat
  BY EmptySeq DEF TypeOK
<1>2. /\ Head(crs) \in Records /\ rest \in Seq(Records) /\ Len(rest) = Len(crs) - 1
      /\ \A k \in 1..Len(rest) : rest[k] = crs[k + 1]
  BY <1>1, HeadTailProperties
<1>3. Head(crs) = crs[1]
  BY <1>1
<1>4. Reported' = rest \o cq
  BY DEF Reported
<1> HIDE DEF rest
<1>5. /\ rest \o cq \in Seq(Records) /\ Len(rest \o cq) = Len(rest) + Len(cq)
      /\ \A k \in 1 .. Len(rest) + Len(cq) :
            (rest \o cq)[k] = IF k <= Len(rest) THEN rest[k] ELSE cq[k - Len(rest)]
  BY <1>1, <1>2, ConcatProperties
<1>6. /\ Reported \in Seq(Records) /\ Len(Reported) = Len(crs) + Len(cq)
      /\ \A k \in 1 .. Len(crs) + Len(cq) :
            Reported[k] = IF k <= Len(crs) THEN crs[k] ELSE cq[k - Len(crs)]
  BY <1>1, ConcatProperties DEF Reported
<1> DEFINE s == Reported
           t == Reported'
<1>7. DOMAIN s = 1 .. Len(crs) + Len(cq) /\ Len(s) = Len(crs) + Len(cq)
  BY <1>6, LenProperties
<1>8. DOMAIN t = 1 .. Len(rest) + Len(cq) /\ t \in Seq(Records)
  BY <1>4, <1>5, LenProperties
<1>9. ASSUME NEW k \in DOMAIN t PROVE k + 1 \in DOMAIN s /\ t[k] = s[k + 1]
  <2>0. k \in 1 .. Len(rest) + Len(cq) /\ k + 1 \in 1 .. Len(crs) + Len(cq)
        /\ Len(rest) = Len(crs) - 1
    BY <1>8, <1>1, <1>2
  <2>1. t[k] = IF k <= Len(rest) THEN rest[k] ELSE cq[k - Len(rest)]
    BY <1>4, <1>5, <2>0
  <2>2. s[k + 1] = IF k + 1 <= Len(crs) THEN crs[k + 1] ELSE cq[(k + 1) - Len(crs)]
    BY <1>6, <2>0
  <2>3. CASE k <= Len(rest)
    <3>1. k + 1 <= Len(crs) /\ k \in 1..Len(rest)
      BY <2>3, <2>0, <1>1
    <3> QED
      BY <3>1, <2>0, <2>1, <2>2, <2>3, <1>2, <1>7
  <2>4. CASE ~(k <= Len(rest))
    <3>1. ~(k + 1 <= Len(crs)) /\ k - Len(rest) = (k + 1) - Len(crs)
      BY <2>4, <2>0, <1>1
    <3> QED
      BY <3>1, <2>0, <2>1, <2>2, <2>4, <1>7
  <2> QED
    BY <2>3, <2>4
<1>10. 1 \in DOMAIN s /\ s[1] = crs[1]
  <2>1. 1 \in 1 .. Len(crs) + Len(cq) /\ 1 <= Len(crs)
    BY <1>1
  <2> QED
    BY <2>1, <1>6, <1>7
<1>11. DOMAIN t = 1 .. Len(s) - 1
  <2>1. Len(rest) + Len(cq) = (Len(crs) + Len(cq)) - 1
    BY <1>1, <1>2
  <2> QED
    BY <2>1, <1>7, <1>8
<1>12. crs' = rest
  BY DEF rest
<1> HIDE DEF s, t
<1>13. /\ crs' \in Seq(Records) /\ Head(crs) \in Records /\ t \in Seq(Records)
       /\ DOMAIN t = 1 .. Len(s) - 1 /\ 1 \in DOMAIN s /\ s[1] = Head(crs)
       /\ \A k \in DOMAIN t : k + 1 \in DOMAIN s /\ t[k] = s[k + 1]
  BY <1>2, <1>3, <1>8, <1>9, <1>10, <1>11, <1>12
<1> QED
  BY <1>13 DEF s, t

-----------------------------------------------------------------------------
(* The operations posted and not counted.                                  *)

LEMMA Column ==
  ASSUME NEW j, NEW a \in Nat, NEW b \in Nat, a <= b
  PROVE  /\ IsFiniteSet({j} \X (a .. b-1))
         /\ Cardinality({j} \X (a .. b-1)) = b - a
<1>1. IsFiniteSet({j}) /\ Cardinality({j}) = 1
  BY FS_Singleton
<1>2. a \in Int /\ b-1 \in Int
  OBVIOUS
<1>3. /\ IsFiniteSet(a .. b-1)
      /\ Cardinality(a .. b-1) = IF a > b-1 THEN 0 ELSE (b-1) - a + 1
  BY <1>2, FS_Interval
<1>4. Cardinality(a .. b-1) = b - a
  BY <1>3
<1>5. /\ IsFiniteSet({j} \X (a .. b-1))
      /\ Cardinality({j} \X (a .. b-1)) = Cardinality({j}) * Cardinality(a .. b-1)
  <2> DEFINE S == {j}
             T == a .. b-1
  <2>1. IsFiniteSet(S) /\ IsFiniteSet(T)
    BY <1>1, <1>3
  <2> HIDE DEF S, T
  <2>2. IsFiniteSet(S \X T) /\ Cardinality(S \X T) = Cardinality(S) * Cardinality(T)
    BY <2>1, FS_Product
  <2> QED
    BY <2>2 DEF S, T
<1>6. 1 * (b - a) = b - a
  OBVIOUS
<1> QED
  BY <1>1, <1>4, <1>5, <1>6

LEMMA DisjointUnion ==
  ASSUME NEW A, NEW B, IsFiniteSet(A), IsFiniteSet(B), A \cap B = {}
  PROVE  /\ IsFiniteSet(A \cup B)
         /\ Cardinality(A \cup B) = Cardinality(A) + Cardinality(B)
         /\ Cardinality(A) \in Nat /\ Cardinality(B) \in Nat
<1>1. Cardinality(A) \in Nat /\ Cardinality(B) \in Nat
  BY FS_CardinalityType
<1>2. /\ IsFiniteSet(A \cup B)
      /\ Cardinality(A \cup B) = Cardinality(A) + Cardinality(B) - Cardinality(A \cap B)
  BY FS_Union
<1>3. Cardinality(A \cap B) = 0
  BY FS_EmptySet
<1> QED
  BY <1>1, <1>2, <1>3

\* k operations are posted on jetty j.
LEMMA PendingGrows ==
  ASSUME TypeOK, NEW j \in Queues, NEW k \in Nat, IsFiniteSet(Pending), done[j] <= posted[j],
         posted' = [posted EXCEPT ![j] = @ + k], done' = done
  PROVE  IsFiniteSet(Pending') /\ Cardinality(Pending') = Cardinality(Pending) + k
<1> DEFINE a == posted[j]
           C == {j} \X (a .. (a + k) - 1)
<1>1. posted \in [Queues -> Nat] /\ done \in [Queues -> Nat] /\ a \in Nat
  BY DEF TypeOK
<1>2. IsFiniteSet(C) /\ Cardinality(C) = k
  <2> DEFINE b == a + k
  <2>1. b \in Nat /\ a <= b /\ b - a = k
    BY <1>1
  <2>2. IsFiniteSet({j} \X (a .. b-1)) /\ Cardinality({j} \X (a .. b-1)) = b - a
    <3> HIDE DEF a, b
    <3> QED
      BY <1>1, <2>1, Column
  <2> QED
    BY <2>1, <2>2
<1>3. Pending' = Pending \cup C
  <2>1. Pending' = {p \in Queues \X Nat : done[p[1]] <= p[2] /\ p[2] < posted'[p[1]]}
    BY DEF Pending
  <2>2. ASSUME NEW i \in Queues, NEW r \in Nat
        PROVE  (done[i] <= r /\ r < posted'[i])
                 <=> (done[i] <= r /\ r < posted[i]) \/ (i = j /\ r \in a .. (a + k) - 1)
    <3>1. CASE i = j
      BY <3>1, <1>1
    <3>2. CASE i # j
      BY <3>2, <1>1
    <3> QED
      BY <3>1, <3>2
  <2>3. C = {p \in Queues \X Nat : p[1] = j /\ p[2] \in a .. (a + k) - 1}
    BY <1>1
  <2> HIDE DEF C
  <2> QED
    BY <2>1, <2>2, <2>3 DEF Pending
<1>4. Pending \cap C = {}
  BY <1>1 DEF Pending
<1> HIDE DEF C
<1>5. Cardinality(Pending \cup C) = Cardinality(Pending) + Cardinality(C)
      /\ IsFiniteSet(Pending \cup C)
  BY <1>2, <1>4, DisjointUnion
<1> QED
  BY <1>2, <1>3, <1>5

\* The operations of jetty j up to t are counted.
LEMMA PendingShrinks ==
  ASSUME TypeOK, NEW j \in Queues, NEW t \in Nat, IsFiniteSet(Pending),
         done[j] <= t, t <= posted[j],
         done' = [done EXCEPT ![j] = t], posted' = posted
  PROVE  /\ IsFiniteSet(Pending') /\ Cardinality(Pending') \in Nat
         /\ Cardinality(Pending) = Cardinality(Pending') + (t - done[j])
<1> DEFINE a == done[j]
           C == {j} \X (a .. t - 1)
           rest == Pending'
<1>1. posted \in [Queues -> Nat] /\ done \in [Queues -> Nat] /\ a \in Nat
  BY DEF TypeOK
<1>2. IsFiniteSet(C) /\ Cardinality(C) = t - a
  <2>1. a <= t
    OBVIOUS
  <2> HIDE DEF a
  <2> QED
    BY <1>1, <2>1, Column
<1>3. /\ Pending = rest \cup C /\ rest \cap C = {}
  <2>1. rest = {p \in Queues \X Nat : done'[p[1]] <= p[2] /\ p[2] < posted[p[1]]}
    BY DEF Pending
  <2>2. ASSUME NEW i \in Queues, NEW r \in Nat
        PROVE  /\ (done[i] <= r /\ r < posted[i])
                    <=> (done'[i] <= r /\ r < posted[i]) \/ (i = j /\ r \in a .. t - 1)
               /\ ~(done'[i] <= r /\ r < posted[i] /\ i = j /\ r \in a .. t - 1)
    <3>1. CASE i = j
      BY <3>1, <1>1
    <3>2. CASE i # j
      BY <3>2, <1>1
    <3> QED
      BY <3>1, <3>2
  <2>3. C = {p \in Queues \X Nat : p[1] = j /\ p[2] \in a .. t - 1}
    BY <1>1
  <2> HIDE DEF C, rest
  <2> QED
    BY <2>1, <2>2, <2>3 DEF Pending
<1> HIDE DEF C, rest
<1>4. IsFiniteSet(rest)
  BY <1>3, FS_Subset
<1>5. /\ Cardinality(rest \cup C) = Cardinality(rest) + Cardinality(C)
      /\ Cardinality(rest) \in Nat
  BY <1>2, <1>3, <1>4, DisjointUnion
<1> QED
  BY <1>2, <1>3, <1>4, <1>5 DEF rest, a

\* When all is counted, it is so on each jetty.
LEMMA AllCounted ==
  ASSUME TypeOK, TotalsGood, doneTotal >= next
  PROVE  done = posted
<1>1. Cardinality(Pending) \in Nat
  BY FS_CardinalityType DEF TotalsGood
<1>2. Cardinality(Pending) = 0
  BY <1>1 DEF TotalsGood, TypeOK
<1>3. Pending = {}
  BY <1>2, FS_EmptySet DEF TotalsGood
<1>4. posted \in [Queues -> Nat] /\ done \in [Queues -> Nat]
  BY DEF TypeOK
<1>5. ASSUME NEW j \in Queues PROVE done[j] = posted[j]
  <2>1. done[j] \in Nat /\ posted[j] \in Nat /\ done[j] <= posted[j]
    BY <1>4 DEF TotalsGood
  <2>2. ~(done[j] < posted[j])
    <3> SUFFICES ASSUME done[j] < posted[j] PROVE FALSE
      OBVIOUS
    <3>1. <<j, done[j]>> \in Pending
      BY <2>1 DEF Pending
    <3> QED
      BY <1>3, <3>1
  <2> QED
    BY <2>1, <2>2
<1> QED
  BY <1>4, <1>5

\* The numbers a request is judged by stay as they are.
LEMMA SameNumbers ==
  ASSUME args' = args, posted' = posted, done' = done, next' = next, fenced' = fenced
  PROVE  /\ Pending' = Pending /\ Mod' = Mod
         /\ \A c \in Nat : /\ Place(c)' = Place(c) /\ AsksRecord(c)' = AsksRecord(c)
                           /\ RecordJetty(c)' = RecordJetty(c)
         /\ \A c, j \in Nat : Request(j, c)' = Request(j, c)
         /\ \A n, j \in Nat : Share(n, j)' = Share(n, j)
<1>1. Pending' = Pending
  BY DEF Pending
<1>2. \A c \in Nat : bw_op_rank(c)' = bw_op_rank(c) /\ RecordJetty(c)' = RecordJetty(c)
  BY SameOptions
<1>3. \A c \in Nat : Place(c)' = Place(c)
  BY <1>2 DEF Place
<1>4. \A c, j \in Nat : Request(j, c)' = Request(j, c)
  BY <1>2, SameOptions DEF Request
<1> QED
  BY <1>1, <1>3, <1>4, SameOptions

-----------------------------------------------------------------------------
(* A pass goes on: the steps of the fabric, the clock and the wait.        *)

LEMMA RequestTypes ==
  ASSUME TypeOK, NEW j \in Queues
  PROVE  /\ DOMAIN sq[j] = 1..Len(sq[j]) /\ Len(sq[j]) \in Nat
         /\ \A k \in DOMAIN sq[j] : sq[j][k] \in WorkRequests /\ sq[j][k].ctx \in Nat
<1>1. sq[j] \in Seq(WorkRequests)
  BY DEF TypeOK
<1> DEFINE s == sq[j]
<1>2. s \in Seq(WorkRequests)
  BY <1>1
<1> HIDE DEF s
<1>3. DOMAIN s = 1..Len(s) /\ Len(s) \in Nat /\ \A k \in DOMAIN s : s[k] \in WorkRequests
  BY <1>2
<1>4. \A w \in WorkRequests : w.ctx \in Nat
  BY DEF WorkRequests
<1> QED
  BY <1>3, <1>4 DEF s

LEMMA SameTotals ==
  ASSUME args' = args, posted' = posted, done' = done, next' = next,
         doneTotal' = doneTotal, TypeOK, TotalsGood, PostedGood
  PROVE  TotalsGood' /\ PostedGood'
<1>1. Pending' = Pending
  BY DEF Pending
<1>2. \A j \in Queues : Share(next, j)' = Share(next, j)
  BY SameOptions DEF TypeOK, Queues
<1> QED
  BY <1>1, <1>2 DEF TotalsGood, PostedGood

LEMMA SameDone ==
  ASSUME args' = args, phase' = phase, posted' = posted, done' = done, next' = next,
         fenced' = fenced, expired => expired', DoneGood, expired \in BOOLEAN, expired' \in BOOLEAN
  PROVE  DoneGood'
<1>1. Mod' = Mod
  BY SameOptions
<1>2. StopPosting(next, expired) => StopPosting(next, expired)'
  BY DEF StopPosting
<1> QED
  BY <1>1, <1>2 DEF DoneGood

\* The queues and the records are the same.
LEMMA PassRests ==
  ASSUME TypeOK, PassGood, sq' = sq, Reported' = Reported, expired => expired',
         expired' \in BOOLEAN,
         UNCHANGED <<args, phase, posted, done, doneTotal, next, fenced>>
  PROVE  PassGood'
<1>0. TotalsGood /\ PostedGood /\ DoneGood /\ RequestsGood /\ OrderGood /\ RecordsCome
  BY DEF PassGood
<1>1. /\ \A c \in Nat : /\ Place(c)' = Place(c) /\ AsksRecord(c)' = AsksRecord(c)
                        /\ RecordJetty(c)' = RecordJetty(c)
      /\ \A c, j \in Nat : Request(j, c)' = Request(j, c)
      /\ Mod' = Mod
  BY SameNumbers
<1>2. \A j \in Queues : j \in Nat /\ \A k \in DOMAIN sq[j] : sq[j][k].ctx \in Nat
  BY RequestTypes DEF Queues
<1>3. \A k \in DOMAIN Reported : Reported[k].ctx \in Nat
  BY ReportedType DEF Records
<1>4. TotalsGood' /\ PostedGood' /\ DoneGood'
  BY <1>0, SameTotals, SameDone DEF TypeOK
<1>5. RequestsGood'
  <2>1. \A j \in Queues : \A k \in DOMAIN sq[j] :
          /\ Request(j, sq[j][k].ctx)'
          /\ sq[j][k].signaled <=> AsksRecord(sq[j][k].ctx)'
    BY <1>0, <1>1, <1>2 DEF RequestsGood
  <2>2. \A k \in DOMAIN Reported :
          /\ RecordJetty(Reported[k].ctx)' \in Queues
          /\ Request(RecordJetty(Reported[k].ctx), Reported[k].ctx)'
          /\ Reported[k].success => AsksRecord(Reported[k].ctx)'
    <3> SUFFICES ASSUME NEW k \in DOMAIN Reported
                 PROVE  /\ RecordJetty(Reported[k].ctx)' \in Queues
                        /\ Request(RecordJetty(Reported[k].ctx), Reported[k].ctx)'
                        /\ Reported[k].success => AsksRecord(Reported[k].ctx)'
      OBVIOUS
    <3> DEFINE c == Reported[k].ctx
               i == RecordJetty(c)
    <3>1. c \in Nat /\ i \in Queues /\ i \in Nat /\ Request(i, c)
          /\ (Reported[k].success => AsksRecord(c))
      BY <1>0, <1>3 DEF RequestsGood, Queues
    <3>2. c' = c /\ i' = i
      BY <1>1, <1>3
    <3> QED
      BY <1>1, <3>1, <3>2
  <2> QED
    BY <2>1, <2>2 DEF RequestsGood
<1>6. OrderGood'
  BY <1>0, <1>1, <1>2, <1>3 DEF OrderGood
<1>7. RecordsCome'
  <2>1. \A j \in Queues, r \in Nat : UnderWay(j, r) => UnderWay(j, r)'
    BY <1>1, <1>2, <1>3 DEF UnderWay
  <2> QED
    BY <1>0, <1>1, <2>1 DEF RecordsCome, TypeOK
<1> QED
  BY <1>4, <1>5, <1>6, <1>7 DEF PassGood

\* A request is executed, or fails.
LEMMA PassExecutes ==
  ASSUME TypeOK, PassGood, NEW e \in Queues, Fabric!Execute(e),
         UNCHANGED <<args, phase, posted, done, doneTotal, next, fenced, expired, crs>>
  PROVE  PassGood'
<1>0. TotalsGood /\ PostedGood /\ DoneGood /\ RequestsGood /\ OrderGood /\ RecordsCome
  BY DEF PassGood
<1>1. /\ \A c \in Nat : /\ Place(c)' = Place(c) /\ AsksRecord(c)' = AsksRecord(c)
                        /\ RecordJetty(c)' = RecordJetty(c)
      /\ \A c, j \in Nat : Request(j, c)' = Request(j, c)
      /\ Mod' = Mod
  BY SameNumbers
<1>2. \A j \in Queues : j \in Nat /\ \A k \in DOMAIN sq[j] : sq[j][k].ctx \in Nat
  BY RequestTypes DEF Queues
<1>3. \A k \in DOMAIN Reported : Reported[k].ctx \in Nat /\ RecordJetty(Reported[k].ctx) \in Nat
  BY <1>0, ReportedType DEF Records, RequestsGood, Queues
<1>4. TotalsGood' /\ PostedGood' /\ DoneGood'
  BY <1>0, SameTotals, SameDone DEF TypeOK
<1>5. /\ cq' = cq
      /\ \A i \in Queues : DOMAIN sq'[i] = DOMAIN sq[i]
      /\ \A i \in Queues : \A k \in DOMAIN sq[i] :
            sq'[i][k].ctx = sq[i][k].ctx /\ sq'[i][k].signaled = sq[i][k].signaled
  BY ExecuteFacts
<1>6. Reported' = Reported
  BY <1>5 DEF Reported
<1>7. RequestsGood'
  BY <1>0, <1>1, <1>2, <1>3, <1>5, <1>6 DEF RequestsGood
<1>8. OrderGood'
  BY <1>0, <1>1, <1>2, <1>3, <1>5, <1>6 DEF OrderGood
<1>9. RecordsCome'
  <2>1. \A j \in Queues, r \in Nat : UnderWay(j, r) => UnderWay(j, r)'
    BY <1>1, <1>2, <1>3, <1>5, <1>6 DEF UnderWay
  <2> QED
    BY <1>0, <1>1, <2>1 DEF RecordsCome, TypeOK
<1> QED
  BY <1>4, <1>7, <1>8, <1>9 DEF PassGood

\* A record appears.
LEMMA PassDelivers ==
  ASSUME TypeOK, Accepted, PassGood, NEW d \in Queues, Fabric!Deliver(d),
         UNCHANGED <<args, phase, posted, done, doneTotal, next, fenced, expired, crs>>
  PROVE  PassGood'
<1>0. TotalsGood /\ PostedGood /\ DoneGood /\ RequestsGood /\ OrderGood /\ RecordsCome
  BY DEF PassGood
<1>1. /\ \A c \in Nat : /\ Place(c)' = Place(c) /\ AsksRecord(c)' = AsksRecord(c)
                        /\ RecordJetty(c)' = RecordJetty(c)
      /\ \A c, j \in Nat : Request(j, c)' = Request(j, c)
      /\ Mod' = Mod
  BY SameNumbers
<1>2. /\ \A j \in Queues : j \in Nat /\ \A k \in DOMAIN sq[j] : sq[j][k].ctx \in Nat
      /\ DOMAIN sq[d] = 1..Len(sq[d]) /\ Len(sq[d]) \in Nat
  BY RequestTypes DEF Queues
<1>3. \A k \in DOMAIN Reported : Reported[k].ctx \in Nat /\ RecordJetty(Reported[k].ctx) \in Nat
  BY <1>0, ReportedType DEF Records, RequestsGood, Queues
<1>4. TotalsGood' /\ PostedGood' /\ DoneGood'
  BY <1>0, SameTotals, SameDone DEF TypeOK
<1>5. \A i \in Queues \ {d} : sq'[i] = sq[i]
  BY DeliverFacts
<1>6. PICK n \in DOMAIN sq[d] :
        /\ DOMAIN sq'[d] = 1 .. Len(sq[d]) - n
        /\ \A i \in DOMAIN sq'[d] : i + n \in DOMAIN sq[d] /\ sq'[d][i] = sq[d][i + n]
        /\ cq' = Append(cq, [ctx |-> sq[d][n].ctx, success |-> sq[d][n].state = "ok"])
        /\ [ctx |-> sq[d][n].ctx, success |-> sq[d][n].state = "ok"] \in Records
        /\ sq[d][n].signaled \/ sq[d][n].state = "failed"
        /\ \A i \in 1..n-1 : ~sq[d][i].signaled
  BY DeliverFacts
<1>a. PICK new \in Nat : new = Len(Reported) + 1
  BY ReportedType
<1> DEFINE rec == [ctx |-> sq[d][n].ctx, success |-> sq[d][n].state = "ok"]
<1>7. rec \in Records /\ cq' = Append(cq, rec)
  BY <1>6
<1>8. /\ rec.ctx = sq[d][n].ctx /\ rec.ctx \in Nat
      /\ rec.success => sq[d][n].signaled
  BY <1>2, <1>6
<1> HIDE DEF rec
<1>9. /\ DOMAIN Reported' = 1 .. Len(Reported) + 1 /\ DOMAIN Reported = 1..Len(Reported)
      /\ Len(Reported) \in Nat
      /\ \A k \in DOMAIN Reported : k \in DOMAIN Reported' /\ Reported'[k] = Reported[k]
      /\ new \in DOMAIN Reported' /\ Reported'[new] = rec
  BY <1>7, <1>a, RecordAppears, ReportedType
<1>10. \A k \in DOMAIN Reported' : k \in DOMAIN Reported \/ (k = new /\ Reported'[k] = rec)
  BY <1>9, <1>a
<1>11. /\ \A k \in DOMAIN Reported : k < new
       /\ ~(new < new) /\ \A k \in DOMAIN Reported : ~(new < k)
  BY <1>9, <1>a
<1>12. Request(d, rec.ctx) /\ RecordJetty(rec.ctx) = d /\ (rec.success => AsksRecord(rec.ctx))
  BY <1>0, <1>8 DEF RequestsGood, Request
<1>13. \A i \in 1..n-1 : ~AsksRecord(sq[d][i].ctx)
  <2>1. \A i \in 1..n-1 : i \in DOMAIN sq[d] /\ ~sq[d][i].signaled
    BY <1>2, <1>6
  <2> QED
    BY <1>0, <2>1 DEF RequestsGood
<1>14. RequestsGood'
  <2>1. ASSUME NEW j \in Queues, NEW k \in DOMAIN sq'[j]
        PROVE  /\ Request(j, sq'[j][k].ctx)
               /\ sq'[j][k].signaled <=> AsksRecord(sq'[j][k].ctx)
               /\ sq'[j][k].ctx \in Nat
    <3>1. CASE j # d
      BY <3>1, <1>0, <1>2, <1>5 DEF RequestsGood
    <3>2. CASE j = d
      <4>1. k + n \in DOMAIN sq[d] /\ sq'[d][k] = sq[d][k + n]
        BY <3>2, <1>6
      <4>2. /\ Request(d, sq[d][k + n].ctx) /\ sq[d][k + n].ctx \in Nat
            /\ sq[d][k + n].signaled <=> AsksRecord(sq[d][k + n].ctx)
        BY <4>1, <1>0, <1>2 DEF RequestsGood
      <4> QED
        BY <3>2, <4>1, <4>2
    <3> QED
      BY <3>1, <3>2
  <2>2. ASSUME NEW k \in DOMAIN Reported'
        PROVE  /\ RecordJetty(Reported'[k].ctx) \in Queues
               /\ Request(RecordJetty(Reported'[k].ctx), Reported'[k].ctx)
               /\ Reported'[k].success => AsksRecord(Reported'[k].ctx)
               /\ Reported'[k].ctx \in Nat
    <3>1. CASE k \in DOMAIN Reported
      BY <3>1, <1>0, <1>3, <1>9 DEF RequestsGood
    <3>2. CASE Reported'[k] = rec
      BY <3>2, <1>8, <1>12
    <3> QED
      BY <3>1, <3>2, <1>10
  <2>3. \A j \in Queues : \A k \in DOMAIN sq'[j] :
               /\ Request(j, sq[j][k].ctx)'
               /\ sq'[j][k].signaled <=> AsksRecord(sq[j][k].ctx)'
    BY <2>1, <1>1, <1>2
  <2>4. \A k \in DOMAIN Reported' :
               /\ RecordJetty(Reported[k].ctx)' \in Queues
               /\ Request(RecordJetty(Reported[k].ctx), Reported[k].ctx)'
               /\ Reported'[k].success => AsksRecord(Reported[k].ctx)'
    BY <2>2, <1>1, <1>2
  <2> QED
    BY <2>3, <2>4 DEF RequestsGood
<1>15. OrderGood'
  <2>1. ASSUME NEW j \in Queues, NEW k \in DOMAIN sq'[j], NEW m \in DOMAIN sq'[j], k < m
        PROVE  /\ Place(sq'[j][k].ctx) < Place(sq'[j][m].ctx)
    <3>1. CASE j # d
      BY <2>1, <3>1, <1>0, <1>5 DEF OrderGood
    <3>2. CASE j = d
      <4>1. k + n < m + n /\ k + n \in DOMAIN sq[d] /\ m + n \in DOMAIN sq[d]
        BY <2>1, <3>2, <1>2, <1>6
      <4> QED
        BY <4>1, <3>2, <1>0, <1>6 DEF OrderGood
    <3> QED
      BY <3>1, <3>2
  <2>2. ASSUME NEW k \in DOMAIN Reported', NEW m \in DOMAIN Reported', k < m,
               RecordJetty(Reported'[k].ctx) = RecordJetty(Reported'[m].ctx)
        PROVE  Place(Reported'[k].ctx) < Place(Reported'[m].ctx)
    <3>1. k \in DOMAIN Reported
      BY <2>2, <1>10, <1>11
    <3>2. CASE m \in DOMAIN Reported
      BY <2>2, <3>1, <3>2, <1>0, <1>9 DEF OrderGood
    <3>3. CASE Reported'[m] = rec
      <4>1. Reported'[k] = Reported[k] /\ RecordJetty(Reported[k].ctx) = d
        BY <2>2, <3>1, <3>3, <1>9, <1>12
      <4>2. Place(Reported[k].ctx) < Place(sq[d][n].ctx)
        BY <3>1, <4>1, <1>0 DEF OrderGood
      <4> QED
        BY <3>3, <4>1, <4>2, <1>8
    <3> QED
      BY <3>2, <3>3, <1>10
  <2>3. ASSUME NEW k \in DOMAIN Reported', NEW j \in Queues, NEW m \in DOMAIN sq'[j],
               RecordJetty(Reported'[k].ctx) = j
        PROVE  Place(Reported'[k].ctx) < Place(sq'[j][m].ctx)
    <3>1. CASE k \in DOMAIN Reported /\ j # d
      BY <2>3, <3>1, <1>0, <1>5, <1>9 DEF OrderGood
    <3>2. CASE k \in DOMAIN Reported /\ j = d
      <4>1. m + n \in DOMAIN sq[d] /\ sq'[d][m] = sq[d][m + n] /\ Reported'[k] = Reported[k]
        BY <3>2, <1>6, <1>9
      <4>2. RecordJetty(Reported[k].ctx) = d
        BY <2>3, <3>2, <4>1
      <4>3. Place(Reported[k].ctx) < Place(sq[d][m + n].ctx)
        BY <3>2, <4>1, <4>2, <1>0 DEF OrderGood
      <4> QED
        BY <3>2, <4>1, <4>3
    <3>3. CASE Reported'[k] = rec
      <4>1. j = d
        BY <2>3, <3>3, <1>12
      <4>2. n < m + n /\ m + n \in DOMAIN sq[d] /\ sq'[d][m] = sq[d][m + n]
        BY <4>1, <1>2, <1>6
      <4> QED
        BY <4>1, <4>2, <3>3, <1>0, <1>8 DEF OrderGood
    <3> QED
      BY <3>1, <3>2, <3>3, <1>10
  <2>4. /\ \A j \in Queues : \A k \in DOMAIN sq'[j] : sq'[j][k].ctx \in Nat
        /\ \A k \in DOMAIN Reported' : Reported'[k].ctx \in Nat
    <3>1. ASSUME NEW j \in Queues, NEW k \in DOMAIN sq'[j] PROVE sq'[j][k].ctx \in Nat
      <4>1. CASE j # d
        BY <4>1, <1>2, <1>5
      <4>2. CASE j = d
        BY <4>2, <1>2, <1>6
      <4> QED
        BY <4>1, <4>2
    <3> QED
      BY <3>1, <1>3, <1>8, <1>9, <1>10
  <2>5. \A j \in Queues : \A k, m \in DOMAIN sq'[j] :
          k < m => Place(sq[j][k].ctx)' < Place(sq[j][m].ctx)'
    BY <2>1, <2>4, <1>1
  <2>6. \A k, m \in DOMAIN Reported' :
          k < m /\ RecordJetty(Reported[k].ctx)' = RecordJetty(Reported[m].ctx)'
              => Place(Reported[k].ctx)' < Place(Reported[m].ctx)'
    BY <2>2, <2>4, <1>1
  <2>7. \A k \in DOMAIN Reported' : \A j \in Queues : \A m \in DOMAIN sq'[j] :
          RecordJetty(Reported[k].ctx)' = j
              => Place(Reported[k].ctx)' < Place(sq[j][m].ctx)'
    BY <2>3, <2>4, <1>1
  <2> QED
    BY <2>5, <2>6, <2>7 DEF OrderGood
<1>16. RecordsCome'
  <2>1. ASSUME NEW j \in Queues, NEW r \in Nat, UnderWay(j, r),
               \A i \in 1..n-1 : Place(sq[d][i].ctx) # r \/ j # d
        PROVE  UnderWay(j, r)'
    <3>1. CASE \E k \in DOMAIN Reported :
                  RecordJetty(Reported[k].ctx) = j /\ Place(Reported[k].ctx) = r
      BY <3>1, <1>1, <1>3, <1>9 DEF UnderWay
    <3>2. CASE j # d /\ \E k \in DOMAIN sq[j] : Place(sq[j][k].ctx) = r
      BY <3>2, <1>1, <1>2, <1>5 DEF UnderWay
    <3>3. CASE j = d /\ \E k \in DOMAIN sq[j] : Place(sq[j][k].ctx) = r
      <4>1. PICK k \in DOMAIN sq[d] : Place(sq[d][k].ctx) = r
        BY <3>3
      <4>2. CASE k < n
        BY <4>1, <4>2, <2>1, <3>3, <1>2
      <4>3. CASE k = n
        <5>1. /\ new \in DOMAIN Reported' /\ Reported'[new].ctx = sq[d][n].ctx
              /\ RecordJetty(Reported'[new].ctx) = d /\ Reported'[new].ctx \in Nat
              /\ Place(Reported'[new].ctx) = r
          BY <4>1, <4>3, <1>8, <1>9, <1>12
        <5>2. RecordJetty(Reported[new].ctx)' = d /\ Place(Reported[new].ctx)' = r
          BY <5>1, <1>1
        <5> QED
          BY <3>3, <5>1, <5>2 DEF UnderWay
      <4>4. CASE k > n
        <5>1. k - n \in 1 .. Len(sq[d]) - n /\ (k - n) + n = k
          BY <4>4, <1>2
        <5>2. k - n \in DOMAIN sq'[d] /\ sq'[d][k - n] = sq[d][k]
          BY <5>1, <1>6
        <5>3. Place(sq[d][k - n].ctx)' = r
          BY <5>2, <4>1, <1>1, <1>2
        <5> QED
          BY <3>3, <5>2, <5>3 DEF UnderWay
      <4> QED
        BY <4>2, <4>3, <4>4, <1>2
    <3> QED
      BY <2>1, <3>1, <3>2, <3>3 DEF UnderWay
  <2>2. ASSUME NEW i \in 1..n-1
        PROVE  /\ Place(sq[d][i].ctx) \in Nat /\ Place(sq[d][i].ctx) < posted[d]
               /\ (Place(sq[d][i].ctx) + 1) % Mod # 0
    <3> DEFINE c == sq[d][i].ctx
    <3>1. c \in Nat /\ Request(d, c) /\ ~AsksRecord(c)
      BY <1>0, <1>2, <1>13 DEF RequestsGood
    <3> HIDE DEF c
    <3>2. c < FenceCtxMin /\ ~Signaled(c)
      BY <3>1 DEF AsksRecord, FenceCtxMin, FenceCtxBase
    <3>3. Place(c) = bw_op_rank(c)
      BY <3>1, <3>2 DEF Place, FenceCtxMin, FenceCtxBase
    <3>4. bw_op_rank(c) \in Nat /\ bw_op_rank(c) < posted[d]
      <4>1. d \in 0..MaxJetties-1 /\ MaxJetties \in 1..64
        BY ParametersAssumption DEF Queues
      <4>2. FenceCtx(d) >= FenceCtxMin
        BY <4>1 DEF FenceCtx, FenceCtxMin, FenceCtxBase
      <4>3. done[d] <= bw_op_rank(c) /\ bw_op_rank(c) < posted[d]
        BY <3>1, <3>2, <4>2 DEF Request, FenceCtxMin, FenceCtxBase
      <4> QED
        BY <4>3, <3>1, AcceptedOptions, OpSplit
    <3> QED
      BY <3>2, <3>3, <3>4 DEF Signaled, Mod, c
  <2>3. ASSUME NEW j \in Queues, NEW r \in done[j] .. posted[j]-1, (r + 1) % Mod = 0
        PROVE  UnderWay(j, r)'
    <3>1. r \in Nat /\ UnderWay(j, r)
      BY <1>0, <2>3 DEF RecordsCome, TypeOK
    <3>2. \A i \in 1..n-1 : Place(sq[d][i].ctx) # r
      BY <2>2, <2>3
    <3> QED
      BY <2>1, <3>1, <3>2
  <2>4. ASSUME NEW j \in Queues, fenced[j], done[j] # posted[j]
        PROVE  UnderWay(j, posted[j])'
    <3>1. posted[j] \in Nat /\ UnderWay(j, posted[j])
      BY <1>0, <2>4 DEF RecordsCome, TypeOK
    <3>2. \A i \in 1..n-1 : Place(sq[d][i].ctx) # posted[j] \/ j # d
      BY <2>2, <3>1
    <3> DEFINE r == posted[j]
    <3> HIDE DEF r
    <3>3. UnderWay(j, r)'
      BY <3>1, <3>2, <2>1 DEF r
    <3> QED
      BY <3>3 DEF r
  <2> QED
    BY <1>1, <2>3, <2>4 DEF RecordsCome
<1> QED
  BY <1>4, <1>14, <1>15, <1>16 DEF PassGood

-----------------------------------------------------------------------------
(* A pass goes on: a record is counted.                                    *)

LEMMA SamePlaces ==
  ASSUME args' = args, posted' = posted
  PROVE  /\ Mod' = Mod
         /\ \A c \in Nat : /\ Place(c)' = Place(c) /\ AsksRecord(c)' = AsksRecord(c)
                           /\ RecordJetty(c)' = RecordJetty(c)
                           /\ bw_op_rank(c)' = bw_op_rank(c)
  BY SameOptions DEF Place

\* Where a request stands, and what its record will prove.
LEMMA RequestFacts ==
  ASSUME TypeOK, Accepted, TotalsGood, NEW j \in Queues, NEW c \in Nat, Request(j, c)
  PROVE  /\ RecordJetty(c) = j /\ Place(c) \in Nat
         /\ RecordTarget(c) \in Nat /\ done[j] < RecordTarget(c)
         /\ done[j] <= Place(c) /\ Place(c) <= posted[j] /\ RecordTarget(c) <= posted[j]
         /\ c >= FenceCtxMin => /\ c = FenceCtx(j) /\ fenced[j] /\ posted[j] % Mod # 0
                                /\ done[j] % Mod = 0
                                /\ Place(c) = posted[j] /\ RecordTarget(c) = posted[j]
         /\ c < FenceCtxMin => /\ c \in 0..next-1 /\ bw_op_jetty(c) = j
                               /\ Place(c) = bw_op_rank(c) /\ Place(c) < posted[j]
                               /\ RecordTarget(c) = Place(c) + 1
<1>1. posted[j] \in Nat /\ done[j] \in Nat /\ bw_op_rank(c) \in Nat /\ RecordJetty(c) = j
  BY AcceptedOptions, OpSplit DEF TypeOK, Request
<1>2. FenceCtx(j) \in Nat /\ FenceCtx(j) >= FenceCtxMin /\ FenceCtxBase - FenceCtx(j) = j
  <2>1. j \in 0..MaxJetties-1 /\ MaxJetties \in 1..64
    BY ParametersAssumption DEF Queues
  <2> QED
    BY <2>1 DEF FenceCtx, FenceCtxMin, FenceCtxBase
<1>3. CASE c < FenceCtxMin
  <2>1. c \in 0..next-1 /\ done[j] <= bw_op_rank(c) /\ bw_op_rank(c) < posted[j]
    BY <1>2, <1>3 DEF Request, FenceCtxMin, FenceCtxBase
  <2>2. /\ Place(c) = bw_op_rank(c) /\ RecordTarget(c) = bw_op_rank(c) + 1
        /\ RecordJetty(c) = bw_op_jetty(c) /\ ~(c >= FenceCtxMin)
    BY <1>3 DEF Place, RecordTarget, RecordJetty, FenceCtxMin, FenceCtxBase
  <2> QED
    BY <1>1, <1>3, <2>1, <2>2
<1>4. CASE c >= FenceCtxMin
  <2>1. c = FenceCtx(j) /\ fenced[j] /\ done[j] % Mod = 0 /\ posted[j] % Mod # 0
        /\ done[j] <= posted[j]
    <3>1. c = FenceCtx(j) /\ fenced[j] /\ done[j] % Mod = 0 /\ posted[j] % Mod # 0
      BY <1>4 DEF Request, FenceCtxMin, FenceCtxBase
    <3> QED
      BY <3>1 DEF TotalsGood
  <2>2. Place(c) = posted[j] /\ RecordTarget(c) = posted[j] /\ ~(c < FenceCtxMin)
    BY <1>2, <1>4, <2>1 DEF Place, RecordTarget, FenceCtxMin, FenceCtxBase
  <2>3. done[j] < posted[j]
    BY <1>1, <2>1
  <2> QED
    BY <1>1, <1>4, <2>1, <2>2, <2>3
<1> QED
  BY <1>3, <1>4 DEF FenceCtxMin, FenceCtxBase

LEMMA PassCounts ==
  ASSUME TypeOK, Accepted, PassGood, crs # <<>>, Head(crs).success,
         LET j == RecordJetty(Head(crs).ctx)
             proved == Larger(done[j], RecordTarget(Head(crs).ctx))
         IN /\ doneTotal' = doneTotal + (proved - done[j])
            /\ done' = [done EXCEPT ![j] = proved],
         crs' = Tail(crs),
         UNCHANGED <<args, phase, posted, next, fenced, expired, fabric>>
  PROVE  PassGood' /\ doneTotal' \in Nat /\ done' \in [Queues -> Nat]
<1>0. TotalsGood /\ PostedGood /\ DoneGood /\ RequestsGood /\ OrderGood /\ RecordsCome
  BY DEF PassGood
<1>1. sq' = sq /\ cq' = cq
  BY DEF fabric
<1>2. /\ \A c \in Nat : /\ Place(c)' = Place(c) /\ AsksRecord(c)' = AsksRecord(c)
                        /\ RecordJetty(c)' = RecordJetty(c)
                        /\ bw_op_rank(c)' = bw_op_rank(c)
      /\ Mod' = Mod
  BY SamePlaces
<1>3. \A j \in Queues : j \in Nat /\ \A k \in DOMAIN sq[j] : sq[j][k].ctx \in Nat
  BY RequestTypes DEF Queues
<1>4. \A k \in DOMAIN Reported : Reported[k].ctx \in Nat
  BY ReportedType DEF Records
<1>5. /\ 1 \in DOMAIN Reported /\ Reported[1] = Head(crs)
      /\ DOMAIN Reported = 1..Len(Reported) /\ Len(Reported) \in Nat
      /\ DOMAIN Reported' = 1 .. Len(Reported) - 1
      /\ \A k \in DOMAIN Reported' : k + 1 \in DOMAIN Reported /\ Reported'[k] = Reported[k + 1]
  BY <1>1, RecordTaken, ReportedType
<1>a. PICK ctx \in Nat : ctx = Head(crs).ctx
  BY <1>4, <1>5
<1>b. PICK j \in Queues : j = RecordJetty(ctx)
  BY <1>0, <1>5, <1>a DEF RequestsGood
<1>c. PICK p \in Nat : p = Place(ctx)
  <2>1. Request(j, ctx)
    BY <1>0, <1>5, <1>a, <1>b DEF RequestsGood
  <2> QED
    BY <1>0, <2>1, RequestFacts
<1>d. Request(j, ctx) /\ AsksRecord(ctx)
  BY <1>0, <1>5, <1>a, <1>b DEF RequestsGood
<1>e. PICK t \in Nat : t = RecordTarget(ctx)
  BY <1>0, <1>d, RequestFacts
<1>6. /\ done[j] < t /\ done[j] <= p /\ p <= posted[j] /\ t <= posted[j]
      /\ ctx >= FenceCtxMin => fenced[j] /\ p = posted[j] /\ t = posted[j]
      /\ ctx < FenceCtxMin => p < posted[j] /\ t = p + 1 /\ p = bw_op_rank(ctx)
  BY <1>0, <1>c, <1>d, <1>e, RequestFacts
<1>7. /\ done[j] \in Nat /\ posted[j] \in Nat /\ done \in [Queues -> Nat]
      /\ posted \in [Queues -> Nat] /\ posted' = posted
      /\ \A i \in Queues : done[i] \in Nat /\ posted[i] \in Nat
  BY DEF TypeOK
<1>8. Larger(done[j], t) = t
  BY <1>6, <1>7 DEF Larger
<1>9. /\ doneTotal' = doneTotal + (t - done[j])
      /\ done' = [done EXCEPT ![j] = t]
  BY <1>8, <1>a, <1>b, <1>e
<1>10. done'[j] = t /\ (\A i \in Queues \ {j} : done'[i] = done[i]) /\ done' \in [Queues -> Nat]
  BY <1>7, <1>9
<1>11. TotalsGood' /\ PostedGood'
  <2>1. /\ IsFiniteSet(Pending') /\ Cardinality(Pending') \in Nat
        /\ Cardinality(Pending) = Cardinality(Pending') + (t - done[j])
    <3>1. IsFiniteSet(Pending) /\ done[j] <= t /\ t <= posted[j]
      BY <1>0, <1>6, <1>7 DEF TotalsGood
    <3> QED
      BY <3>1, <1>7, <1>9, PendingShrinks
  <2>2. next = doneTotal' + Cardinality(Pending')
    <3>1. next = doneTotal + Cardinality(Pending) /\ doneTotal \in Nat
      BY <1>0 DEF TotalsGood, TypeOK
    <3>2. PICK c \in Nat : c = Cardinality(Pending')
      BY <2>1
    <3>3. Cardinality(Pending) = c + (t - done[j])
      BY <2>1, <3>2
    <3>4. done[j] \in Nat /\ doneTotal' = doneTotal + (t - done[j])
      BY <1>7, <1>9
    <3> QED
      BY <3>1, <3>2, <3>3, <3>4
  <2>3. next - doneTotal' <= args.depth
    <3>1. args.depth \in Nat /\ doneTotal \in Nat /\ next \in Nat /\ next - doneTotal <= args.depth
      BY <1>0, OptionTypes DEF TotalsGood, TypeOK
    <3> QED
      BY <3>1, <1>6, <1>7, <1>9
  <2>4. \A i \in Queues : done'[i] <= posted[i]
    <3> SUFFICES ASSUME NEW i \in Queues PROVE done'[i] <= posted[i]
      OBVIOUS
    <3>1. CASE i = j
      BY <3>1, <1>6, <1>10
    <3>2. CASE i # j
      BY <3>2, <1>0, <1>10 DEF TotalsGood
    <3> QED
      BY <3>1, <3>2
  <2>5. TotalsGood'
    BY <1>0, <2>1, <2>2, <2>3, <2>4 DEF TotalsGood
  <2>6. \A i \in Queues : Share(next, i)' = Share(next, i)
    BY SameOptions DEF TypeOK, Queues
  <2> QED
    BY <1>0, <2>5, <2>6 DEF PostedGood
<1>12. ctx < FenceCtxMin => t % Mod = 0
  <2> SUFFICES ASSUME ctx < FenceCtxMin PROVE t % Mod = 0
    OBVIOUS
  <2>1. Signaled(ctx)
    BY <1>d DEF AsksRecord, FenceCtxMin, FenceCtxBase
  <2> QED
    BY <2>1, <1>6 DEF Signaled, Mod
<1>13. ctx < FenceCtxMin \/ ctx >= FenceCtxMin
  BY DEF FenceCtxMin, FenceCtxBase
<1>14. DoneGood'
  <2>1. StopPosting(next, expired)' = StopPosting(next, expired)
    BY DEF StopPosting
  <2>2. ASSUME NEW i \in Queues
        PROVE  /\ done'[i] % Mod = 0 \/ (fenced[i] /\ done'[i] = posted[i])
               /\ fenced[i] => i < args.jetties /\ StopPosting(next, expired)
    <3>1. CASE i = j
      BY <3>1, <1>0, <1>6, <1>10, <1>12, <1>13 DEF DoneGood
    <3>2. CASE i # j
      BY <3>2, <1>0, <1>10 DEF DoneGood
    <3> QED
      BY <3>1, <3>2
  <2> QED
    BY <1>2, <2>1, <2>2 DEF DoneGood
<1>15. ASSUME NEW i \in Queues, NEW c \in Nat, Request(i, c), i = j => p < Place(c)
       PROVE  Request(i, c)'
  <2>1. RecordJetty(c)' = i /\ bw_op_rank(c)' = bw_op_rank(c) /\ FenceCtx(i)' = FenceCtx(i)
    BY <1>15, <1>2 DEF Request, FenceCtx
  <2>2. CASE i # j
    BY <2>1, <2>2, <1>2, <1>10, <1>15 DEF Request
  <2>3. CASE i = j
    <3>1. ctx < FenceCtxMin
      <4>1. Place(c) <= posted[j]
        BY <2>3, <1>0, <1>15, RequestFacts
      <4>2. p < posted[j]
        <5>1. Place(c) \in Nat
          BY <1>0, <1>15, RequestFacts
        <5> QED
          BY <5>1, <4>1, <2>3, <1>7, <1>15
      <4> QED
        BY <4>2, <1>6, <1>7, <1>13
    <3>2. t = p + 1 /\ t % Mod = 0
      BY <3>1, <1>6, <1>12
    <3>3. CASE c < FenceCtxMin
      <4>1. /\ c \in 0..next-1 /\ Place(c) = bw_op_rank(c) /\ Place(c) < posted[j]
            /\ Place(c) \in Nat
        BY <2>3, <3>3, <1>0, <1>15, RequestFacts
      <4>2. done'[i] <= bw_op_rank(c) /\ bw_op_rank(c) < posted[i]
        BY <4>1, <2>3, <3>2, <1>10, <1>15
      <4> QED
        BY <2>1, <3>3, <4>1, <4>2 DEF Request
    <3>4. CASE c >= FenceCtxMin
      <4>1. c = FenceCtx(i) /\ fenced[i] /\ posted[i] % Mod # 0
        BY <3>4, <1>0, <1>15, RequestFacts
      <4>2. done'[i] % Mod = 0
        BY <2>3, <3>2, <1>10
      <4> QED
        BY <2>1, <4>1, <4>2, <1>2 DEF Request
    <3> QED
      BY <3>3, <3>4 DEF FenceCtxMin, FenceCtxBase
  <2> QED
    BY <2>2, <2>3
<1>16. ASSUME NEW k \in DOMAIN Reported'
       PROVE  /\ RecordJetty(Reported'[k].ctx) \in Queues
              /\ Request(RecordJetty(Reported'[k].ctx), Reported'[k].ctx)
              /\ RecordJetty(Reported'[k].ctx) = j => p < Place(Reported'[k].ctx)
              /\ Reported'[k].success => AsksRecord(Reported'[k].ctx)
              /\ Reported'[k].ctx \in Nat
  <2>1. k + 1 \in DOMAIN Reported /\ Reported'[k] = Reported[k + 1] /\ 1 < k + 1
    BY <1>5
  <2>2. RecordJetty(Reported[k + 1].ctx) = j => Place(Reported[1].ctx) < Place(Reported[k + 1].ctx)
    BY <2>1, <1>0, <1>5, <1>a, <1>b DEF OrderGood
  <2> QED
    BY <2>1, <2>2, <1>0, <1>4, <1>5, <1>a, <1>c DEF RequestsGood
<1>17. RequestsGood'
  <2>1. ASSUME NEW i \in Queues, NEW k \in DOMAIN sq[i]
        PROVE  /\ Request(i, sq[i][k].ctx)'
               /\ sq[i][k].signaled <=> AsksRecord(sq[i][k].ctx)'
    <3>1. PICK c \in Nat : c = sq[i][k].ctx
      BY <1>3
    <3>2. Request(i, c) /\ (sq[i][k].signaled <=> AsksRecord(c))
      BY <3>1, <1>0 DEF RequestsGood
    <3>3. i = j => p < Place(c)
      BY <3>1, <1>0, <1>5, <1>a, <1>b, <1>c DEF OrderGood
    <3>4. Request(i, c)' /\ AsksRecord(c)' = AsksRecord(c)
      BY <3>2, <3>3, <1>2, <1>15
    <3> QED
      BY <3>1, <3>2, <3>4, <1>1
  <2>2. ASSUME NEW k \in DOMAIN Reported'
        PROVE  /\ RecordJetty(Reported[k].ctx)' \in Queues
               /\ Request(RecordJetty(Reported[k].ctx), Reported[k].ctx)'
               /\ Reported'[k].success => AsksRecord(Reported[k].ctx)'
    <3>1. PICK c \in Nat : c = Reported'[k].ctx
      BY <1>16
    <3>2. PICK i \in Queues : i = RecordJetty(c)
      BY <1>16, <3>1
    <3>3. Request(i, c)' /\ RecordJetty(c)' = i /\ AsksRecord(c)' = AsksRecord(c)
      BY <3>1, <3>2, <1>2, <1>15, <1>16
    <3> QED
      BY <3>1, <3>2, <3>3, <1>16
  <2> QED
    BY <1>1, <2>1, <2>2 DEF RequestsGood
<1>18. OrderGood'
  <2>1. /\ \A i \in Queues : \A k, m \in DOMAIN sq'[i] :
              k < m => Place(sq'[i][k].ctx) < Place(sq'[i][m].ctx)
    BY <1>0, <1>1 DEF OrderGood
  <2>2. ASSUME NEW k \in DOMAIN Reported', NEW m \in DOMAIN Reported', k < m,
               RecordJetty(Reported'[k].ctx) = RecordJetty(Reported'[m].ctx)
        PROVE  Place(Reported'[k].ctx) < Place(Reported'[m].ctx)
    <3>1. /\ k + 1 \in DOMAIN Reported /\ m + 1 \in DOMAIN Reported /\ k + 1 < m + 1
          /\ Reported'[k] = Reported[k + 1] /\ Reported'[m] = Reported[m + 1]
      BY <2>2, <1>5
    <3> QED
      BY <2>2, <3>1, <1>0 DEF OrderGood
  <2>3. ASSUME NEW k \in DOMAIN Reported', NEW i \in Queues, NEW m \in DOMAIN sq'[i],
               RecordJetty(Reported'[k].ctx) = i
        PROVE  Place(Reported'[k].ctx) < Place(sq'[i][m].ctx)
    <3>1. k + 1 \in DOMAIN Reported /\ Reported'[k] = Reported[k + 1]
      BY <1>5
    <3> QED
      BY <2>3, <3>1, <1>0, <1>1 DEF OrderGood
  <2>4. /\ \A i \in Queues : \A k \in DOMAIN sq'[i] : sq'[i][k].ctx \in Nat
        /\ \A k \in DOMAIN Reported' : Reported'[k].ctx \in Nat
    BY <1>1, <1>3, <1>16
  <2>5. \A i \in Queues : \A k, m \in DOMAIN sq'[i] :
          k < m => Place(sq[i][k].ctx)' < Place(sq[i][m].ctx)'
    BY <2>1, <2>4, <1>2
  <2>6. \A k, m \in DOMAIN Reported' :
          k < m /\ RecordJetty(Reported[k].ctx)' = RecordJetty(Reported[m].ctx)'
              => Place(Reported[k].ctx)' < Place(Reported[m].ctx)'
    BY <2>2, <2>4, <1>2
  <2>7. \A k \in DOMAIN Reported' : \A i \in Queues : \A m \in DOMAIN sq'[i] :
          RecordJetty(Reported[k].ctx)' = i
              => Place(Reported[k].ctx)' < Place(sq[i][m].ctx)'
    BY <2>3, <2>4, <1>2
  <2> QED
    BY <2>5, <2>6, <2>7 DEF OrderGood
<1>19. ASSUME NEW i \in Queues, NEW r \in Nat, UnderWay(i, r), i = j => r # p
       PROVE  UnderWay(i, r)'
  <2>1. CASE \E k \in DOMAIN sq[i] : Place(sq[i][k].ctx) = r
    BY <2>1, <1>1, <1>2, <1>3 DEF UnderWay
  <2>2. CASE \E k \in DOMAIN Reported :
                RecordJetty(Reported[k].ctx) = i /\ Place(Reported[k].ctx) = r
    <3>1. PICK k \in DOMAIN Reported :
                RecordJetty(Reported[k].ctx) = i /\ Place(Reported[k].ctx) = r
      BY <2>2
    <3>2. k # 1
      BY <3>1, <1>5, <1>19, <1>a, <1>b, <1>c
    <3>3. k - 1 \in DOMAIN Reported' /\ (k - 1) + 1 = k
      BY <3>2, <1>5
    <3>4. Reported'[k - 1] = Reported[k] /\ Reported'[k - 1].ctx \in Nat
      BY <3>3, <1>4, <1>5
    <3>5. RecordJetty(Reported[k - 1].ctx)' = i /\ Place(Reported[k - 1].ctx)' = r
      BY <3>1, <3>4, <1>2
    <3> QED
      BY <3>3, <3>5 DEF UnderWay
  <2> QED
    BY <2>1, <2>2, <1>19 DEF UnderWay
<1>20. RecordsCome'
  <2>1. ASSUME NEW i \in Queues, NEW r \in done'[i] .. posted[i]-1, (r + 1) % Mod = 0
        PROVE  UnderWay(i, r)'
    <3>1. done[i] <= done'[i] /\ done'[i] \in Nat
      <4>1. CASE i = j
        BY <4>1, <1>6, <1>7, <1>10
      <4>2. CASE i # j
        BY <4>2, <1>7, <1>10
      <4> QED
        BY <4>1, <4>2
    <3>2. r \in Nat /\ r \in done[i] .. posted[i]-1
      BY <3>1, <1>7
    <3>3. UnderWay(i, r)
      BY <2>1, <3>2, <1>0 DEF RecordsCome
    <3>4. i = j => r # p
      <4> SUFFICES ASSUME i = j, r = p PROVE FALSE
        OBVIOUS
      <4>1. t <= r /\ r < posted[j]
        BY <1>7, <1>10, <3>2
      <4> QED
        BY <4>1, <1>6, <1>7, <1>13
    <3> QED
      BY <3>2, <3>3, <3>4, <1>19
  <2>2. ASSUME NEW i \in Queues, fenced[i], done'[i] # posted[i]
        PROVE  UnderWay(i, posted[i])'
    <3>1. PICK r \in Nat : r = posted[i]
      BY <1>7
    <3>2. done[i] # posted[i]
      <4>1. CASE i = j
        BY <4>1, <1>6, <1>7
      <4>2. CASE i # j
        BY <4>2, <2>2, <1>10
      <4> QED
        BY <4>1, <4>2
    <3>3. UnderWay(i, r)
      BY <2>2, <3>1, <3>2, <1>0 DEF RecordsCome
    <3>4. i = j => r # p
      <4> SUFFICES ASSUME i = j, r = p PROVE FALSE
        OBVIOUS
      <4>1. t = posted[j]
        BY <3>1, <1>6, <1>7, <1>13
      <4> QED
        BY <4>1, <2>2, <1>10
    <3>5. UnderWay(i, r)'
      BY <3>3, <3>4, <1>19
    <3> QED
      BY <3>1, <3>5, <1>7
  <2> QED
    BY <1>2, <1>7, <2>1, <2>2 DEF RecordsCome
<1>21. doneTotal' \in Nat
  BY <1>6, <1>7, <1>9 DEF TypeOK
<1> QED
  BY <1>10, <1>11, <1>14, <1>17, <1>18, <1>20, <1>21 DEF PassGood

-----------------------------------------------------------------------------
(* A pass goes on: requests are posted.                                    *)

\* Requests that come after all there were of jetty j.
LEMMA QueueGrows ==
  ASSUME TypeOK, RequestsGood, OrderGood, NEW j \in Queues, NEW wrs \in Seq(Asked), NEW low \in Nat,
         Fabric!Post(j, wrs), crs' = crs,
         ASSUME NEW i \in Queues, NEW c \in Nat, Request(i, c)
         PROVE  /\ Request(i, c)' /\ Place(c)' = Place(c) /\ RecordJetty(c)' = RecordJetty(c)
                /\ AsksRecord(c)' = AsksRecord(c)
                /\ Place(c) \in Nat /\ (i = j => Place(c) < low),
         \A x \in 1..Len(wrs) : /\ Request(j, wrs[x].ctx)' /\ Place(wrs[x].ctx)' \in Nat
                                /\ wrs[x].signaled <=> AsksRecord(wrs[x].ctx)'
                                /\ low <= Place(wrs[x].ctx)',
         \A x, y \in 1..Len(wrs) : x < y => Place(wrs[x].ctx)' < Place(wrs[y].ctx)'
  PROVE  /\ RequestsGood' /\ OrderGood'
         /\ \A i \in Queues, r \in Nat : UnderWay(i, r) => UnderWay(i, r)'
         /\ \A x \in 1..Len(wrs), r \in Nat : Place(wrs[x].ctx)' = r => UnderWay(j, r)'
<1>0. PICK n \in Nat : n = Len(sq[j])
  BY RequestTypes
<1>1. /\ \A i \in Queues : i \in Nat /\ \A k \in DOMAIN sq[i] : sq[i][k].ctx \in Nat
      /\ DOMAIN sq[j] = 1..n /\ n \in Nat
  BY <1>0, RequestTypes DEF Queues
<1>2. \A k \in DOMAIN Reported : Reported[k].ctx \in Nat
  BY ReportedType DEF Records
<1>3. Reported' = Reported
  BY DEF Reported, Fabric!Post
<1>4. Len(wrs) \in Nat /\ \A x \in 1..Len(wrs) : wrs[x].ctx \in Nat
  <2>1. Len(wrs) \in Nat /\ \A x \in 1..Len(wrs) : wrs[x] \in Asked
    OBVIOUS
  <2>2. \A w \in Asked : w.ctx \in Nat
    BY DEF Asked
  <2> QED
    BY <2>1, <2>2
<1>5. /\ \A i \in Queues \ {j} : sq'[i] = sq[i]
      /\ DOMAIN sq'[j] = 1 .. n + Len(wrs)
      /\ \A k \in DOMAIN sq[j] : k \in DOMAIN sq'[j] /\ sq'[j][k] = sq[j][k]
      /\ \A x \in 1..Len(wrs) : /\ sq'[j][n + x].ctx = wrs[x].ctx
                                /\ sq'[j][n + x].signaled = wrs[x].signaled
  BY <1>0, PostFacts
\* What a request of queue i is: an old one or a new one.
<1>6. ASSUME NEW i \in Queues, NEW k \in DOMAIN sq'[i]
      PROVE  \/ k \in DOMAIN sq[i] /\ sq'[i][k] = sq[i][k]
             \/ /\ i = j /\ k > n
                /\ k - n \in 1..Len(wrs) /\ sq'[i][k].ctx = wrs[k - n].ctx
                /\ sq'[i][k].signaled = wrs[k - n].signaled
  <2>1. CASE i # j
    BY <2>1, <1>5
  <2>2. CASE i = j /\ k <= n
    BY <2>2, <1>1, <1>5
  <2>3. CASE i = j /\ k > n
    <3>1. k - n \in 1..Len(wrs) /\ n + (k - n) = k
      BY <2>3, <1>1, <1>4, <1>5
    <3> QED
      BY <2>3, <3>1, <1>5
  <2> QED
    BY <2>1, <2>2, <2>3, <1>1, <1>5
\* The old ones, in the queues and among the records, are what they were.
<1>7. ASSUME NEW i \in Queues, NEW k \in DOMAIN sq[i]
      PROVE  /\ Request(i, sq[i][k].ctx)' /\ (sq'[i][k].signaled <=> AsksRecord(sq[i][k].ctx)')
             /\ Place(sq[i][k].ctx)' = Place(sq[i][k].ctx) /\ Place(sq[i][k].ctx) \in Nat
             /\ i = j => Place(sq[i][k].ctx) < low
             /\ k \in DOMAIN sq'[i]
  <2>1. k \in DOMAIN sq'[i] /\ sq'[i][k] = sq[i][k]
    <3>1. CASE i = j
      BY <3>1, <1>5
    <3>2. CASE i # j
      BY <3>2, <1>5
    <3> QED
      BY <3>1, <3>2
  <2>2. PICK c \in Nat : c = sq[i][k].ctx
    BY <1>1
  <2>3. Request(i, c) /\ (sq[i][k].signaled <=> AsksRecord(c))
    BY <2>2 DEF RequestsGood
  <2>4. /\ Request(i, c)' /\ Place(c)' = Place(c) /\ AsksRecord(c)' = AsksRecord(c)
        /\ Place(c) \in Nat /\ (i = j => Place(c) < low)
    BY <2>3
  <2>5. c = sq'[i][k].ctx
    BY <2>1, <2>2
  <2>6. Place(sq[i][k].ctx)' = Place(c)' /\ AsksRecord(sq[i][k].ctx)' = AsksRecord(c)'
    BY <2>5
  <2>7. Request(i, sq[i][k].ctx)'
    BY <2>4, <2>5
  <2> QED
    BY <2>1, <2>2, <2>3, <2>4, <2>6, <2>7
<1>8. ASSUME NEW k \in DOMAIN Reported
      PROVE  /\ RecordJetty(Reported[k].ctx) \in Queues
             /\ RecordJetty(Reported[k].ctx)' = RecordJetty(Reported[k].ctx)
             /\ Request(RecordJetty(Reported[k].ctx), Reported[k].ctx)'
             /\ Reported[k].success => AsksRecord(Reported[k].ctx)'
             /\ Place(Reported[k].ctx)' = Place(Reported[k].ctx)
             /\ RecordJetty(Reported[k].ctx) = j => Place(Reported[k].ctx) < low
             /\ Place(Reported[k].ctx) \in Nat
  <2>1. PICK c \in Nat : c = Reported[k].ctx
    BY <1>2
  <2>2. PICK i \in Queues : i = RecordJetty(c)
    BY <2>1 DEF RequestsGood
  <2>3. Request(i, c) /\ (Reported[k].success => AsksRecord(c))
    BY <2>1, <2>2 DEF RequestsGood
  <2>4. /\ Request(i, c)' /\ Place(c)' = Place(c) /\ AsksRecord(c)' = AsksRecord(c)
        /\ RecordJetty(c)' = i /\ Place(c) \in Nat /\ (i = j => Place(c) < low)
    BY <2>2, <2>3
  <2>5. c = Reported'[k].ctx
    BY <2>1, <1>3
  <2>6. Request(RecordJetty(c), c)'
    BY <2>4
  <2> QED
    BY <2>1, <2>2, <2>3, <2>4, <2>5, <2>6
\* The new ones are as they were asked for.
<1>9. ASSUME NEW i \in Queues, NEW k \in DOMAIN sq'[i], ~(k \in DOMAIN sq[i] /\ sq'[i][k] = sq[i][k])
      PROVE  /\ i = j /\ k > n /\ k - n \in 1..Len(wrs)
             /\ Request(i, sq[i][k].ctx)' /\ (sq'[i][k].signaled <=> AsksRecord(sq[i][k].ctx)')
             /\ Place(sq[i][k].ctx)' = Place(wrs[k - n].ctx)'
             /\ Place(sq[i][k].ctx)' \in Nat /\ low <= Place(sq[i][k].ctx)'
  <2>1. PICK x \in 1..Len(wrs) : x = k - n
    BY <1>6, <1>9
  <2>2. /\ i = j /\ k > n /\ sq'[i][k].ctx = wrs[x].ctx
        /\ sq'[i][k].signaled = wrs[x].signaled
    BY <1>6, <1>9, <2>1
  <2>3. /\ Request(j, wrs[x].ctx)' /\ Place(wrs[x].ctx)' \in Nat
        /\ wrs[x].signaled <=> AsksRecord(wrs[x].ctx)'
        /\ low <= Place(wrs[x].ctx)'
    OBVIOUS
  <2>4. Place(sq[i][k].ctx)' = Place(wrs[x].ctx)' /\ AsksRecord(sq[i][k].ctx)' = AsksRecord(wrs[x].ctx)'
    BY <2>2
  <2>5. Place(wrs[k - n].ctx)' = Place(wrs[x].ctx)'
    BY <2>1
  <2> QED
    BY <2>1, <2>2, <2>3, <2>4, <2>5
<1>10. RequestsGood'
  <2>1. ASSUME NEW i \in Queues, NEW k \in DOMAIN sq'[i]
        PROVE  Request(i, sq[i][k].ctx)' /\ (sq'[i][k].signaled <=> AsksRecord(sq[i][k].ctx)')
    BY <1>7, <1>9
  <2>2. ASSUME NEW k \in DOMAIN Reported'
        PROVE  /\ RecordJetty(Reported[k].ctx)' \in Queues
               /\ Request(RecordJetty(Reported[k].ctx), Reported[k].ctx)'
               /\ Reported'[k].success => AsksRecord(Reported[k].ctx)'
    BY <1>3, <1>8
  <2> QED
    BY <2>1, <2>2 DEF RequestsGood
<1>11. OrderGood'
  <2>1. ASSUME NEW i \in Queues, NEW k \in DOMAIN sq'[i], NEW m \in DOMAIN sq'[i], k < m
        PROVE  Place(sq[i][k].ctx)' < Place(sq[i][m].ctx)'
    <3>1. CASE /\ k \in DOMAIN sq[i] /\ sq'[i][k] = sq[i][k]
               /\ m \in DOMAIN sq[i] /\ sq'[i][m] = sq[i][m]
      <4>1. Place(sq[i][k].ctx) < Place(sq[i][m].ctx)
        BY <2>1, <3>1 DEF OrderGood
      <4> QED
        BY <3>1, <4>1, <1>7
    <3>2. CASE /\ k \in DOMAIN sq[i] /\ sq'[i][k] = sq[i][k]
               /\ ~(m \in DOMAIN sq[i] /\ sq'[i][m] = sq[i][m])
      <4>1. i = j /\ low <= Place(sq[i][m].ctx)' /\ Place(sq[i][m].ctx)' \in Nat
        BY <3>2, <1>9
      <4>2. Place(sq[i][k].ctx)' < low /\ Place(sq[i][k].ctx)' \in Nat
        BY <3>2, <4>1, <1>7
      <4> QED
        BY <4>1, <4>2
    <3>3. CASE /\ ~(k \in DOMAIN sq[i] /\ sq'[i][k] = sq[i][k])
               /\ m \in DOMAIN sq[i] /\ sq'[i][m] = sq[i][m]
      <4>1. i = j /\ k > n
        BY <3>3, <1>9
      <4> QED
        BY <2>1, <3>3, <4>1, <1>1, <1>5
    <3>4. CASE /\ ~(k \in DOMAIN sq[i] /\ sq'[i][k] = sq[i][k])
               /\ ~(m \in DOMAIN sq[i] /\ sq'[i][m] = sq[i][m])
      <4>1. /\ k - n \in 1..Len(wrs) /\ m - n \in 1..Len(wrs)
            /\ Place(sq[i][k].ctx)' = Place(wrs[k - n].ctx)'
            /\ Place(sq[i][m].ctx)' = Place(wrs[m - n].ctx)'
        BY <3>4, <1>9
      <4>2. k - n < m - n
        BY <2>1, <3>4, <1>1, <1>4, <1>5, <1>9
      <4> QED
        BY <4>1, <4>2
    <3> QED
      BY <3>1, <3>2, <3>3, <3>4
  <2>2. ASSUME NEW k \in DOMAIN Reported', NEW m \in DOMAIN Reported', k < m,
               RecordJetty(Reported[k].ctx)' = RecordJetty(Reported[m].ctx)'
        PROVE  Place(Reported[k].ctx)' < Place(Reported[m].ctx)'
    <3>1. RecordJetty(Reported[k].ctx) = RecordJetty(Reported[m].ctx)
      BY <2>2, <1>3, <1>8
    <3>2. Place(Reported[k].ctx) < Place(Reported[m].ctx)
      BY <2>2, <3>1, <1>3 DEF OrderGood
    <3> QED
      BY <3>2, <1>3, <1>8
  <2>3. ASSUME NEW k \in DOMAIN Reported', NEW i \in Queues, NEW m \in DOMAIN sq'[i],
               RecordJetty(Reported[k].ctx)' = i
        PROVE  Place(Reported[k].ctx)' < Place(sq[i][m].ctx)'
    <3>1. /\ k \in DOMAIN Reported /\ RecordJetty(Reported[k].ctx) = i
          /\ Place(Reported[k].ctx)' = Place(Reported[k].ctx) /\ Place(Reported[k].ctx) \in Nat
      BY <2>3, <1>3, <1>8
    <3>2. CASE m \in DOMAIN sq[i] /\ sq'[i][m] = sq[i][m]
      <4>1. Place(Reported[k].ctx) < Place(sq[i][m].ctx)
        BY <3>1, <3>2 DEF OrderGood
      <4> QED
        BY <3>1, <3>2, <4>1, <1>7
    <3>3. CASE ~(m \in DOMAIN sq[i] /\ sq'[i][m] = sq[i][m])
      <4>1. i = j /\ low <= Place(sq[i][m].ctx)' /\ Place(sq[i][m].ctx)' \in Nat
        BY <3>3, <1>9
      <4>2. Place(Reported[k].ctx) < low
        BY <3>1, <4>1, <1>8
      <4> QED
        BY <3>1, <4>1, <4>2
    <3> QED
      BY <3>2, <3>3
  <2> QED
    BY <2>1, <2>2, <2>3 DEF OrderGood
<1>12. ASSUME NEW i \in Queues, NEW r \in Nat, UnderWay(i, r)
       PROVE  UnderWay(i, r)'
  <2>1. CASE \E k \in DOMAIN sq[i] : Place(sq[i][k].ctx) = r
    <3>1. PICK k \in DOMAIN sq[i] : Place(sq[i][k].ctx) = r
      BY <2>1
    <3>2. k \in DOMAIN sq'[i] /\ Place(sq[i][k].ctx)' = r
      BY <3>1, <1>7
    <3> QED
      BY <3>2 DEF UnderWay
  <2>2. CASE \E k \in DOMAIN Reported :
                RecordJetty(Reported[k].ctx) = i /\ Place(Reported[k].ctx) = r
    <3>1. PICK k \in DOMAIN Reported :
                RecordJetty(Reported[k].ctx) = i /\ Place(Reported[k].ctx) = r
      BY <2>2
    <3>2. /\ k \in DOMAIN Reported'
          /\ RecordJetty(Reported[k].ctx)' = i /\ Place(Reported[k].ctx)' = r
      BY <3>1, <1>3, <1>8
    <3> QED
      BY <3>2 DEF UnderWay
  <2> QED
    BY <2>1, <2>2, <1>12 DEF UnderWay
<1>13. ASSUME NEW x \in 1..Len(wrs), NEW r \in Nat, Place(wrs[x].ctx)' = r
       PROVE  UnderWay(j, r)'
  <2>1. PICK k \in Nat : k = n + x
    BY <1>4
  <2>2. k \in DOMAIN sq'[j] /\ sq'[j][k].ctx = wrs[x].ctx
    BY <2>1, <1>4, <1>5
  <2>3. Place(sq[j][k].ctx)' = r
    BY <2>2, <1>13
  <2> QED
    BY <2>2, <2>3 DEF UnderWay
<1> QED
  BY <1>10, <1>11, <1>12, <1>13

\* The list of a chunk is a list of requests, for one jetty.
LEMMA ChunkTypes ==
  ASSUME TypeOK, Accepted, NEW k \in 0..args.post_list
  PROVE  /\ bw_op_jetty(next) \in Queues
         /\ [x \in 1..k |-> WorkRequest(next+x-1, Signaled(next+x-1))] \in Seq(Asked)
<1>1. /\ Shape /\ next \in Nat /\ k \in Nat
      /\ args.jetties \in 1..MaxJetties /\ MaxJetties \in Nat
  BY AcceptedOptions, ParametersAssumption DEF TypeOK, Shape
<1>2. bw_op_jetty(next) \in 0 .. MaxJetties - 1
  <2>1. bw_op_jetty(next) \in 0 .. args.jetties - 1
    BY <1>1, OpSplit
  <2> QED
    BY <1>1, <2>1
<1> DEFINE v == [x \in 1..k |-> WorkRequest(next+x-1, Signaled(next+x-1))]
<1>3. ASSUME NEW x \in 1..k PROVE v[x] \in Asked
  <2>1. next+x-1 \in Nat /\ Signaled(next+x-1) \in BOOLEAN
    BY <1>1 DEF Signaled
  <2> QED
    BY <2>1 DEF WorkRequest, Asked
<1>4. v \in [1..k -> Asked] /\ k \in Nat
  BY <1>1, <1>3
<1>5. v \in Seq(Asked)
  <2> HIDE DEF v
  <2> QED
    BY <1>4
<1> QED
  BY <1>2, <1>5 DEF Queues

\* A chunk of operations: one list of one jetty.
LEMMA PassPosts ==
  ASSUME TypeOK, Accepted, PassGood, ~StopPosting(next, expired), Room,
         args.duration => next + args.post_list <= MaxOps,
         NEW k \in 1..args.post_list, NEW late \in BOOLEAN, late = expired \/ late,
         \A l \in 0..k-1 : ~ChunkEnds(l, expired),
         expired' = late, next' = next + k,
         posted' = [posted EXCEPT ![bw_op_jetty(next)] = @ + k],
         Fabric!Post(bw_op_jetty(next),
                     [x \in 1..k |-> WorkRequest(next+x-1, Signaled(next+x-1))]),
         UNCHANGED <<args, phase, done, doneTotal, fenced, crs>>
  PROVE  PassGood' /\ next' \in Nat /\ posted' \in [Queues -> Nat]
<1>0. TotalsGood /\ PostedGood /\ DoneGood /\ RequestsGood /\ OrderGood /\ RecordsCome
  BY DEF PassGood
<1>1. /\ Shape /\ args.post_list \in Nat \ {0} /\ args.depth \in Nat
      /\ args.jetties \in 1..MaxJetties /\ MaxJetties \in Nat
      /\ args.warmup <= FenceCtxMin /\ args.iters <= FenceCtxMin
      /\ args.warmup \in Nat /\ args.iters \in Nat /\ Mod \in Nat \ {0}
  BY AcceptedOptions, OptionTypes, ParametersAssumption DEF Shape
<1>2. next \in Nat /\ doneTotal \in Nat /\ k \in Nat \ {0} /\ k <= args.post_list
  BY <1>1 DEF TypeOK
<1>a. PICK j \in Queues : j = bw_op_jetty(next)
  BY ChunkTypes
<1>b. PICK first \in Nat : first = next
  BY <1>2
<1>c. PICK low \in Nat : low = posted[j]
  BY DEF TypeOK
<1>d. PICK w \in Seq(Asked) : w = [x \in 1..k |-> WorkRequest(next+x-1, Signaled(next+x-1))]
  <2>1. k \in 0..args.post_list
    BY <1>1
  <2> QED
    BY <2>1, ChunkTypes
<1>3. /\ Len(w) = k
      /\ \A x \in 1..k : w[x].ctx = first + (x-1) /\ w[x].signaled = Signaled(first + (x-1))
  <2>1. DOMAIN w = 1..k
    BY <1>d
  <2>2. Len(w) = k
    BY <2>1, <1>2, <1>d
  <2>3. ASSUME NEW x \in 1..k
        PROVE  w[x].ctx = first + (x-1) /\ w[x].signaled = Signaled(first + (x-1))
    <3>1. w[x] = WorkRequest(next+x-1, Signaled(next+x-1)) /\ next+x-1 = first + (x-1)
      BY <1>2, <1>b, <1>d
    <3> QED
      BY <3>1 DEF WorkRequest
  <2> QED
    BY <2>2, <2>3
\* What the ends of the chunk say.
<1>4. k \in 0 .. args.post_list - (next % args.post_list)
  <2> DEFINE s == next % args.post_list
  <2>1. s \in 0 .. args.post_list - 1
    BY <1>1, <1>2, DivMod
  <2>2. \A l \in 0..k-1 : l # args.post_list - s
    BY DEF ChunkEnds
  <2> HIDE DEF s
  <2>3. args.post_list - s \in Nat
    BY <1>1, <2>1
  <2>4. k <= args.post_list - s
    BY <1>1, <1>2, <2>1, <2>2, <2>3
  <2>5. k \in 0 .. args.post_list - s
    BY <1>2, <2>3, <2>4
  <2> QED
    BY <2>5 DEF s
<1>5. /\ ~(next + (k-1) - doneTotal >= args.depth)
      /\ ~StopPosting(next + (k-1), expired)
  <2>1. k-1 \in 0..k-1
    BY <1>2
  <2> QED
    BY <2>1 DEF ChunkEnds
<1>6. next + k - doneTotal <= args.depth
  BY <1>1, <1>2, <1>5
<1>7. first + k <= FenceCtxMin
  <2>1. CASE args.duration
    BY <2>1, <1>1, <1>2, <1>b, CountsAssumption, ParametersAssumption DEF FenceCtxMin, FenceCtxBase
  <2>2. CASE ~args.duration
    <3>1. next + (k-1) < args.warmup \/ next + (k-1) < args.iters
      BY <2>2, <1>1, <1>2, <1>5 DEF StopPosting
    <3> QED
      BY <3>1, <1>1, <1>2, <1>b DEF FenceCtxMin, FenceCtxBase
  <2> QED
    BY <2>1, <2>2
\* No fence is posted before the last operation.
<1>8. \A i \in Queues : ~fenced[i] /\ done[i] % Mod = 0
  BY <1>0 DEF DoneGood
<1>9. /\ posted \in [Queues -> Nat] /\ done \in [Queues -> Nat] /\ posted[j] \in Nat
      /\ posted' = [posted EXCEPT ![j] = @ + k] /\ posted'[j] = low + k
      /\ \A i \in Queues \ {j} : posted'[i] = posted[i]
      /\ done[j] <= low
  BY <1>0, <1>a, <1>c DEF TypeOK, TotalsGood
<1>10. low = bw_op_rank(first)
  BY <1>0, <1>1, <1>a, <1>b, <1>c, ShareIsRank DEF PostedGood
<1>11. /\ Mod' = Mod
       /\ \A c \in Nat : /\ bw_op_rank(c)' = bw_op_rank(c) /\ RecordJetty(c)' = RecordJetty(c)
                         /\ Signaled(c)' = Signaled(c) /\ AsksRecord(c)' = AsksRecord(c)
       /\ \A n, i \in Nat : Share(n, i)' = Share(n, i)
  BY SameOptions
<1>12. TotalsGood'
  <2>1. IsFiniteSet(Pending') /\ Cardinality(Pending') = Cardinality(Pending) + k
    <3>1. IsFiniteSet(Pending) /\ done[j] <= posted[j] /\ k \in Nat
      BY <1>0, <1>2, <1>9, <1>c DEF TotalsGood
    <3> QED
      BY <3>1, <1>9, PendingGrows
  <2>2. Cardinality(Pending) \in Nat
    BY <1>0, FS_CardinalityType DEF TotalsGood
  <2>3. next' = doneTotal + Cardinality(Pending')
    BY <2>1, <2>2, <1>0, <1>2 DEF TotalsGood
  <2>4. ASSUME NEW i \in Queues PROVE done[i] <= posted'[i]
    <3>1. CASE i = j
      BY <3>1, <1>2, <1>9
    <3>2. CASE i # j
      BY <3>2, <1>0, <1>9 DEF TotalsGood
    <3> QED
      BY <3>1, <3>2
  <2>5. next' <= FenceCtxMin /\ next' - doneTotal <= args.depth
    <3>1. next' = first + k /\ next' = next + k
      BY <1>b
    <3>2. next' <= FenceCtxMin
      BY <3>1, <1>7
    <3>3. next' - doneTotal <= args.depth
      BY <3>1, <1>1, <1>2, <1>6
    <3> QED
      BY <3>2, <3>3
  <2> QED
    BY <2>1, <2>3, <2>4, <2>5 DEF TotalsGood
<1>13. PostedGood'
  <2>1. ASSUME NEW i \in Queues PROVE posted'[i] = Share(next + k, i)
    <3>1. i \in Nat
      BY DEF Queues
    <3>2. Share(next + k, i) = Share(next, i) + (IF i = j THEN k ELSE 0)
      BY <3>1, <1>1, <1>2, <1>4, <1>a, ShareGrows
    <3>3. Share(next, i) = posted[i]
      BY <1>0 DEF PostedGood
    <3> QED
      BY <3>2, <3>3, <1>9, <1>c
  <2>2. \A i \in Queues : Share(next, i)' = Share(next + k, i)
    BY <1>2, <1>11 DEF Queues
  <2> QED
    BY <2>1, <2>2 DEF PostedGood
<1>14. DoneGood'
  BY <1>8, <1>11 DEF DoneGood
\* What the new requests are.
<1>15. ASSUME NEW x \in 1..k
       PROVE  /\ w[x].ctx \in Nat /\ w[x].ctx < FenceCtxMin /\ w[x].ctx \in 0..next'-1
              /\ RecordJetty(w[x].ctx) = j /\ bw_op_rank(w[x].ctx) = low + (x-1)
  <2>1. PICK y \in Nat : y = x - 1 /\ y < k
    BY <1>2
  <2>2. (first % args.post_list) + y < args.post_list
    <3> DEFINE s == first % args.post_list
    <3>1. s \in 0 .. args.post_list - 1 /\ k \in 0 .. args.post_list - s
      BY <1>1, <1>4, <1>b, DivMod
    <3> HIDE DEF s
    <3>2. s + y < args.post_list
      BY <3>1, <2>1, <1>1, <1>2
    <3> QED
      BY <3>2 DEF s
  <2>3. /\ bw_op_jetty(first + y) = bw_op_jetty(first)
        /\ bw_op_rank(first + y) = bw_op_rank(first) + y
    BY <2>2, <1>1, OpsOfList
  <2>4. first + y < FenceCtxMin /\ first + y \in 0..next'-1 /\ first + y \in Nat
    BY <2>1, <1>2, <1>7, <1>b DEF FenceCtxMin, FenceCtxBase
  <2>5. w[x].ctx = first + y
    BY <1>3, <2>1
  <2>6. RecordJetty(first + y) = bw_op_jetty(first + y)
    BY <2>4 DEF RecordJetty, FenceCtxMin, FenceCtxBase
  <2> QED
    BY <2>1, <2>3, <2>4, <2>5, <2>6, <1>10, <1>a, <1>b
<1>16. \A x \in 1..Len(w) : /\ Request(j, w[x].ctx)' /\ Place(w[x].ctx)' = low + (x-1)
                            /\ Place(w[x].ctx)' \in Nat
                            /\ w[x].signaled <=> AsksRecord(w[x].ctx)'
                            /\ low <= Place(w[x].ctx)'
  <2> SUFFICES ASSUME NEW x \in 1..k
               PROVE  /\ Request(j, w[x].ctx)' /\ Place(w[x].ctx)' = low + (x-1)
                      /\ low + (x-1) \in Nat /\ low <= low + (x-1)
                      /\ w[x].signaled <=> AsksRecord(w[x].ctx)'
    BY <1>3
  <2>1. PICK c \in Nat : c = w[x].ctx
    BY <1>15
  <2>2. /\ c < FenceCtxMin /\ ~(c >= FenceCtxMin) /\ c \in 0..next'-1
        /\ RecordJetty(c)' = j /\ bw_op_rank(c)' = low + (x-1)
    BY <2>1, <1>11, <1>15 DEF FenceCtxMin, FenceCtxBase
  <2>3. low + (x-1) \in Nat /\ low <= low + (x-1) /\ low + (x-1) < low + k
    BY <1>2
  <2>4. done'[j] <= low + (x-1) /\ low + (x-1) < posted'[j]
    BY <2>3, <1>9 DEF TypeOK
  <2>5. Request(j, c)'
    BY <2>2, <2>4 DEF Request
  <2>6. Place(c)' = low + (x-1)
    BY <2>2 DEF Place
  <2>7. w[x].signaled <=> AsksRecord(c)'
    BY <2>1, <2>2, <1>3, <1>11 DEF AsksRecord
  <2> QED
    BY <2>1, <2>3, <2>5, <2>6, <2>7
<1>17. ASSUME NEW i \in Queues, NEW c \in Nat, Request(i, c)
       PROVE  /\ Request(i, c)' /\ Place(c)' = Place(c) /\ RecordJetty(c)' = RecordJetty(c)
              /\ AsksRecord(c)' = AsksRecord(c)
              /\ Place(c) \in Nat /\ (i = j => Place(c) < low)
  <2>1. c < FenceCtxMin
    <3>1. c < FenceCtxMin \/ c >= FenceCtxMin
      BY DEF FenceCtxMin, FenceCtxBase
    <3> QED
      BY <3>1, <1>0, <1>8, <1>17, RequestFacts
  <2>2. /\ c \in 0..next-1 /\ Place(c) = bw_op_rank(c) /\ Place(c) < posted[i]
        /\ Place(c) \in Nat /\ done[i] <= Place(c) /\ RecordJetty(c) = i
    BY <2>1, <1>0, <1>17, RequestFacts
  <2>3. c \in 0..next'-1 /\ ~(c >= FenceCtxMin)
    BY <2>1, <2>2, <1>2 DEF FenceCtxMin, FenceCtxBase
  <2>4. bw_op_rank(c) < posted'[i]
    <3>1. CASE i = j
      BY <3>1, <2>2, <1>2, <1>9, <1>c
    <3>2. CASE i # j
      BY <3>2, <2>2, <1>9
    <3> QED
      BY <3>1, <3>2
  <2>5. RecordJetty(c)' = i /\ bw_op_rank(c)' = bw_op_rank(c)
    BY <2>2, <1>11
  <2>6. Request(i, c)'
    BY <2>1, <2>2, <2>3, <2>4, <2>5 DEF Request
  <2>7. Place(c)' = bw_op_rank(c)
    BY <2>3, <2>5 DEF Place
  <2> QED
    BY <2>2, <2>6, <2>7, <1>11, <1>c
<1>18. \A x, y \in 1..Len(w) : x < y => Place(w[x].ctx)' < Place(w[y].ctx)'
  BY <1>3, <1>16
<1>19. /\ RequestsGood' /\ OrderGood'
       /\ \A i \in Queues, r \in Nat : UnderWay(i, r) => UnderWay(i, r)'
       /\ \A x \in 1..Len(w), r \in Nat : Place(w[x].ctx)' = r => UnderWay(j, r)'
  <2>1. Fabric!Post(j, w) /\ crs' = crs
    BY <1>a, <1>d
  <2> HIDE DEF PassGood
  <2> QED
    BY <2>1, <1>0, <1>16, <1>17, <1>18, QueueGrows
<1>20. RecordsCome'
  <2>1. ASSUME NEW i \in Queues, NEW r \in done[i] .. posted'[i]-1, (r + 1) % Mod = 0
        PROVE  UnderWay(i, r)'
    <3>1. r \in Nat /\ done[i] \in Nat /\ posted[i] \in Nat /\ done[i] <= r
      BY <1>9
    <3>2. CASE r < posted[i]
      <4>1. UnderWay(i, r)
        BY <2>1, <3>1, <3>2, <1>0 DEF RecordsCome
      <4> QED
        BY <3>1, <4>1, <1>19
    <3>3. CASE ~(r < posted[i])
      <4>1. i = j /\ low <= r /\ r < low + k
        BY <3>1, <3>3, <1>9, <1>c
      <4>2. (r - low) + 1 \in 1..Len(w) /\ low + (((r - low) + 1) - 1) = r
        BY <4>1, <3>1, <1>2, <1>3
      <4> QED
        BY <4>1, <4>2, <3>1, <1>16, <1>19
    <3> QED
      BY <3>2, <3>3
  <2> QED
    BY <2>1, <1>8, <1>11 DEF RecordsCome
<1>21. next' \in Nat /\ posted' \in [Queues -> Nat]
  BY <1>2, <1>9
<1> QED
  BY <1>12, <1>13, <1>14, <1>19, <1>20, <1>21 DEF PassGood

LEMMA LeastOne ==
  ASSUME NEW S \in SUBSET Nat, S # {}
  PROVE  \E x \in S : \A y \in S : x <= y
<1> DEFINE R == OpToRel(<, Nat)
<1>1. IsWellFoundedOn(R, Nat)
  BY NatLessThanWellFounded
<1>2. \A x, y \in Nat : <<y, x>> \in R <=> y < x
  BY DEF OpToRel
<1> HIDE DEF R
<1>3. PICK x \in S : \A y \in S : ~(<<y, x>> \in R)
  BY <1>1, WFMin
<1>4. ASSUME NEW y \in S PROVE x <= y
  <2>1. x \in Nat /\ y \in Nat
    OBVIOUS
  <2>2. ~(y < x)
    BY <2>1, <1>2, <1>3
  <2> QED
    BY <2>1, <2>2
<1> QED
  BY <1>4

\* The fence goes to a jetty that needs one.
LEMMA LeastUnfenced ==
  ASSUME FenceDue
  PROVE  (CHOOSE f \in Unfenced : \A g \in Unfenced : f <= g) \in Unfenced
<1>1. Unfenced \in SUBSET Nat /\ Unfenced # {}
  BY DEF FenceDue, Unfenced
<1>2. \E f \in Unfenced : \A g \in Unfenced : f <= g
  <2> HIDE DEF Unfenced
  <2> QED
    BY <1>1, LeastOne
<1> QED
  BY <1>2

LEMMA FenceTypes ==
  ASSUME TypeOK, Accepted, NEW j \in Unfenced
  PROVE  j \in Queues /\ <<WorkRequest(FenceCtx(j), TRUE)>> \in Seq(Asked)
<1>1. j \in 0..args.jetties-1 /\ args.jetties \in 1..MaxJetties /\ MaxJetties \in 1..64
  BY AcceptedOptions, ParametersAssumption DEF Unfenced
<1>2. FenceCtx(j) \in Nat
  BY <1>1 DEF FenceCtx, FenceCtxBase
<1> QED
  BY <1>1, <1>2 DEF Queues, WorkRequest, Asked

\* The fence of a jetty.
LEMMA PassFences ==
  ASSUME TypeOK, Accepted, PassGood, FenceDue, NEW j \in Unfenced,
         Fabric!Post(j, <<WorkRequest(FenceCtx(j), TRUE)>>),
         fenced' = [fenced EXCEPT ![j] = TRUE],
         UNCHANGED <<args, phase, posted, next, done, doneTotal, expired, crs>>
  PROVE  PassGood' /\ fenced' \in [Queues -> BOOLEAN]
<1>0. TotalsGood /\ PostedGood /\ DoneGood /\ RequestsGood /\ OrderGood /\ RecordsCome
  BY DEF PassGood
<1>1. /\ Mod' = Mod /\ posted' = posted /\ done' = done /\ next' = next
      /\ \A c \in Nat : /\ Place(c)' = Place(c) /\ AsksRecord(c)' = AsksRecord(c)
                        /\ RecordJetty(c)' = RecordJetty(c)
                        /\ bw_op_rank(c)' = bw_op_rank(c)
  BY SamePlaces
<1>2. /\ j \in Queues /\ j < args.jetties /\ ~fenced[j] /\ posted[j] % Mod # 0
      /\ StopPosting(next, expired)
  BY AcceptedOptions, ParametersAssumption
  DEF FenceDue, Unfenced, bw_tail_uncovered, Mod, Queues
<1>3. /\ fenced \in [Queues -> BOOLEAN] /\ fenced'[j]
      /\ (\A i \in Queues \ {j} : fenced'[i] = fenced[i])
      /\ fenced' \in [Queues -> BOOLEAN]
      /\ \A i \in Queues : done[i] \in Nat /\ posted[i] \in Nat
  BY <1>2 DEF TypeOK
<1>a. PICK low \in Nat : low = posted[j]
  BY <1>2, <1>3
<1>b. PICK ctx \in Nat : /\ ctx = FenceCtx(j) /\ ctx >= FenceCtxMin /\ ~(ctx < FenceCtxMin)
                         /\ FenceCtxBase - ctx = j
  <2>1. j \in 0..MaxJetties-1 /\ MaxJetties \in 1..64
    BY <1>2, ParametersAssumption DEF Queues
  <2> QED
    BY <2>1 DEF FenceCtx, FenceCtxMin, FenceCtxBase
<1>c. PICK w \in Seq(Asked) : w = <<WorkRequest(FenceCtx(j), TRUE)>>
  BY FenceTypes
<1>4. Len(w) = 1 /\ w[1].ctx = ctx /\ w[1].signaled = TRUE
  BY <1>b, <1>c DEF WorkRequest
<1>5. TotalsGood' /\ PostedGood'
  BY <1>0, SameTotals
<1>6. done[j] % Mod = 0
  BY <1>0, <1>2 DEF DoneGood
<1>7. DoneGood'
  <2>1. StopPosting(next, expired)'
    BY <1>2 DEF StopPosting
  <2>2. ASSUME NEW i \in Queues
        PROVE  /\ done[i] % Mod = 0 \/ (fenced'[i] /\ done[i] = posted[i])
               /\ fenced'[i] => i < args.jetties
    <3>1. CASE i = j
      BY <3>1, <1>2, <1>6
    <3>2. CASE i # j
      BY <3>2, <1>0, <1>3 DEF DoneGood
    <3> QED
      BY <3>1, <3>2
  <2> QED
    BY <2>1, <2>2, <1>1 DEF DoneGood
<1>8. ASSUME NEW i \in Queues, NEW c \in Nat, Request(i, c)
      PROVE  /\ Request(i, c)' /\ Place(c)' = Place(c) /\ RecordJetty(c)' = RecordJetty(c)
             /\ AsksRecord(c)' = AsksRecord(c)
             /\ Place(c) \in Nat /\ (i = j => Place(c) < low)
  <2>1. Request(i, c)'
    <3>1. fenced[i] => fenced'[i]
      BY <1>3
    <3>2. RecordJetty(c)' = RecordJetty(c) /\ bw_op_rank(c)' = bw_op_rank(c)
      BY <1>1
    <3>3. FenceCtx(i)' = FenceCtx(i)
      BY DEF FenceCtx
    <3> QED
      BY <3>1, <3>2, <3>3, <1>1, <1>8 DEF Request
  <2>2. i = j => Place(c) < low
    <3>1. c < FenceCtxMin \/ c >= FenceCtxMin
      BY DEF FenceCtxMin, FenceCtxBase
    <3> QED
      BY <3>1, <1>0, <1>2, <1>8, <1>a, RequestFacts
  <2>3. Place(c) \in Nat
    BY <1>0, <1>8, RequestFacts
  <2> QED
    BY <2>1, <2>2, <2>3, <1>1
<1>9. /\ Request(j, ctx)' /\ Place(ctx)' = low /\ AsksRecord(ctx)'
  <2>1. RecordJetty(ctx)' = j
    BY <1>b DEF RecordJetty
  <2>2. FenceCtx(j)' = ctx
    BY <1>b DEF FenceCtx
  <2>3. Request(j, ctx)'
    BY <2>1, <2>2, <1>1, <1>2, <1>3, <1>6 DEF Request
  <2>4. Place(ctx)' = low
    BY <1>1, <1>a, <1>b DEF Place
  <2>5. AsksRecord(ctx)'
    BY <1>b DEF AsksRecord
  <2> QED
    BY <2>3, <2>4, <2>5
<1>10. \A x \in 1..Len(w) : /\ Request(j, w[x].ctx)' /\ Place(w[x].ctx)' \in Nat
                            /\ w[x].signaled <=> AsksRecord(w[x].ctx)'
                            /\ low <= Place(w[x].ctx)'
  <2> SUFFICES ASSUME NEW x \in 1..Len(w)
               PROVE  /\ Request(j, w[x].ctx)' /\ Place(w[x].ctx)' \in Nat
                      /\ w[x].signaled <=> AsksRecord(w[x].ctx)'
                      /\ low <= Place(w[x].ctx)'
    OBVIOUS
  <2>1. x = 1
    BY <1>4
  <2> QED
    BY <2>1, <1>4, <1>9
<1>11. \A x, y \in 1..Len(w) : x < y => Place(w[x].ctx)' < Place(w[y].ctx)'
  BY <1>4
<1>12. /\ RequestsGood' /\ OrderGood'
       /\ \A i \in Queues, r \in Nat : UnderWay(i, r) => UnderWay(i, r)'
       /\ \A x \in 1..Len(w), r \in Nat : Place(w[x].ctx)' = r => UnderWay(j, r)'
  <2>1. Fabric!Post(j, w) /\ crs' = crs /\ j \in Queues
    BY <1>2, <1>c
  <2> QED
    BY <2>1, <1>0, <1>8, <1>10, <1>11, QueueGrows
<1>13. UnderWay(j, low)'
  <2>1. 1 \in 1..Len(w) /\ Place(w[1].ctx)' = low
    BY <1>4, <1>9
  <2> QED
    BY <2>1, <1>12
<1>14. RecordsCome'
  <2>1. ASSUME NEW i \in Queues, NEW r \in done[i] .. posted[i]-1, (r + 1) % Mod = 0
        PROVE  UnderWay(i, r)'
    BY <2>1, <1>0, <1>3, <1>12 DEF RecordsCome
  <2>2. ASSUME NEW i \in Queues, fenced'[i], done[i] # posted[i]
        PROVE  UnderWay(i, posted[i])'
    <3>1. PICK r \in Nat : r = posted[i]
      BY <1>3
    <3>2. UnderWay(i, r)'
      <4>1. CASE i = j
        BY <4>1, <3>1, <1>13, <1>a
      <4>2. CASE i # j
        BY <4>2, <3>1, <2>2, <1>0, <1>3, <1>12 DEF RecordsCome
      <4> QED
        BY <4>1, <4>2
    <3> QED
      BY <3>1, <3>2, <1>1
  <2> QED
    BY <2>1, <2>2, <1>1 DEF RecordsCome
<1> QED
  BY <1>3, <1>5, <1>7, <1>12, <1>14 DEF PassGood

\* A pass begins with idle queues.
LEMMA PassBegins ==
  ASSUME TypeOK, Accepted, Fabric!Idle, NEW ph \in {"warmup", "timed"}, EnterPass(ph),
         UNCHANGED <<args, fabric>>
  PROVE  PassGood'
<1>1. sq' = sq /\ cq' = cq /\ args' = args
  BY DEF fabric
<1>2. /\ \A j \in Queues : sq'[j] = <<>>
      /\ cq' = <<>> /\ crs' = <<>> /\ next' = 0 /\ doneTotal' = 0
      /\ posted' = [j \in Queues |-> 0] /\ done' = [j \in Queues |-> 0]
      /\ fenced' = [j \in Queues |-> FALSE]
  BY <1>1 DEF Fabric!Idle, EnterPass
<1>3. Reported' = <<>>
  BY <1>2, ConcatEmptySeq DEF Reported
<1>4. DOMAIN Reported' = {} /\ \A j \in Queues : DOMAIN sq'[j] = {}
  BY <1>2, <1>3
<1>5. /\ Mod' = Mod /\ Mod \in Nat \ {0} /\ 0 % Mod = 0 /\ args.depth \in Nat
      /\ \A n, j \in Nat : Share(n, j)' = Share(n, j)
  BY AcceptedOptions, SameOptions, Multiples
<1>6. IsFiniteSet(Pending') /\ Cardinality(Pending') = 0
  <2>1. Pending' = {}
    BY <1>2 DEF Pending
  <2> QED
    BY <2>1, FS_EmptySet
<1>7. TotalsGood'
  BY <1>1, <1>2, <1>5, <1>6 DEF TotalsGood, FenceCtxMin, FenceCtxBase
<1>8. PostedGood'
  <2>1. \A j \in Queues : Share(0, j) = 0
    BY AcceptedOptions, ShareOfNone DEF Queues
  <2>2. \A j \in Queues : Share(next, j)' = Share(0, j)
    BY <1>2, <1>5 DEF Queues
  <2> QED
    BY <2>1, <2>2, <1>2 DEF PostedGood
<1>9. DoneGood' /\ RecordsCome'
  BY <1>2, <1>5 DEF DoneGood, RecordsCome
<1>10. RequestsGood' /\ OrderGood'
  BY <1>4 DEF RequestsGood, OrderGood
<1> QED
  BY <1>7, <1>8, <1>9, <1>10 DEF PassGood

-----------------------------------------------------------------------------
(* Types.                                                                  *)

LEMMA QueueZero == 0 \in Queues
  BY ParametersAssumption DEF Queues

LEMMA SerialTypes == <<WorkRequest(ReadCtx, TRUE)>> \in Seq(Asked)
  BY DEF WorkRequest, ReadCtx, Asked

LEMMA TypeInit ==
  ASSUME Init
  PROVE  TypeOK
<1>1. <<>> \in Seq(Records) /\ <<>> \in Seq(WorkRequests)
  BY EmptySeq
<1>2. /\ sq \in [Queues -> Seq(WorkRequests)] /\ cq \in Seq(Records) /\ faulty \in BOOLEAN
      /\ crs \in Seq(Records)
  BY <1>1 DEF Init, Fabric!Init
<1>3. /\ posted \in [Queues -> Nat] /\ done \in [Queues -> Nat] /\ fenced \in [Queues -> BOOLEAN]
  BY DEF Init
<1> QED
  BY <1>2, <1>3 DEF Init, TypeOK

LEMMA SweptDomain ==
  /\ DOMAIN Swept = 1..Len(Swept) /\ Len(Swept) \in Nat
  BY SweptSizes

LEMMA NextSizeTypes ==
  ASSUME TypeOK, pc \in {"serial", "pass"}, NextSize
  PROVE  /\ pc' \in {"serial", "done"} /\ row' \in DOMAIN Swept /\ left' \in 0..SerialOps
         /\ warmed' = FALSE
<1>1. row \in 1..Len(Swept) /\ Len(Swept) \in Nat /\ DOMAIN Swept = 1..Len(Swept)
  BY SweptDomain DEF TypeOK
<1>2. row' \in DOMAIN Swept
  <2>1. CASE row < Len(Swept)
    BY <1>1, <2>1 DEF NextSize
  <2>2. CASE ~(row < Len(Swept))
    BY <1>1, <2>2 DEF NextSize
  <2> QED
    BY <2>1, <2>2
<1> QED
  BY <1>2, OptionTypes DEF NextSize

LEMMA EnterTypes ==
  ASSUME NEW ph \in {"warmup", "timed"}, EnterPass(ph)
  PROVE  /\ pc' = "pass" /\ phase' \in {"warmup", "timed"}
         /\ next' \in Nat /\ doneTotal' \in Nat /\ expired' \in BOOLEAN
         /\ posted' \in [Queues -> Nat] /\ done' \in [Queues -> Nat]
         /\ fenced' \in [Queues -> BOOLEAN] /\ crs' \in Seq(Records)
<1>1. <<>> \in Seq(Records)
  BY EmptySeq
<1>2. posted' \in [Queues -> Nat] /\ done' \in [Queues -> Nat] /\ fenced' \in [Queues -> BOOLEAN]
  BY DEF EnterPass
<1> QED
  BY <1>1, <1>2 DEF EnterPass

LEMMA TypeStep ==
  ASSUME TypeOK, SerialGood, pc = "pass" => PassGood, [Next]_vars
  PROVE  TypeOK'
<1> DEFINE Moves == /\ args' \in CommandLines
                    /\ pc' \in {"start", "serial", "spin", "pass", "done", "failed"}
                    /\ pc' \notin {"start", "failed"} =>
                          row' \in DOMAIN Swept /\ left' \in 0..SerialOps
                    /\ phase' \in {"warmup", "timed"} /\ warmed' \in BOOLEAN
                    /\ err' \in {"none", "Usage", "Invalid", "Status", "BadCompletion", "PollTimeout"}
           Counts == /\ next' \in Nat /\ doneTotal' \in Nat
                     /\ posted' \in [Queues -> Nat] /\ done' \in [Queues -> Nat]
                     /\ fenced' \in [Queues -> BOOLEAN] /\ expired' \in BOOLEAN
                     /\ crs' \in Seq(Records)
           Queued == /\ sq' \in [Queues -> Seq(WorkRequests)] /\ cq' \in Seq(Records)
                     /\ faulty' \in BOOLEAN
<1>1. SUFFICES Moves /\ Counts /\ Queued
  <2>1. args' = args
    BY DEF Next, vars, Program, CheckOptions, PostSerial, WaitReadSpin, EndLatency, NextSize,
           StartBandwidth, PostChunk, PostFence, EndPass, PollRecords, CountRecord,
           Environment, Tick
  <2>2. SerialOps' = SerialOps
    BY <2>1 DEF SerialOps, VerifyOps
  <2> QED
    BY <2>1, <2>2 DEF TypeOK
<1>2. UNCHANGED pass => Counts
  BY DEF pass, TypeOK
<1>3. UNCHANGED fabric => Queued
  BY DEF fabric, TypeOK
<1>4. (\E j \in Queues, wrs \in Seq(Asked) : Fabric!Post(j, wrs) \/ Fabric!PostRefused(j, wrs))
         => Queued
  <2> SUFFICES ASSUME NEW j \in Queues, NEW wrs \in Seq(Asked),
                      Fabric!Post(j, wrs) \/ Fabric!PostRefused(j, wrs)
               PROVE  Queued
    OBVIOUS
  <2>1. CASE Fabric!Post(j, wrs)
    BY <2>1, PostFacts DEF TypeOK
  <2>2. CASE Fabric!PostRefused(j, wrs)
    BY <2>2, RefusedTypes DEF TypeOK
  <2> QED
    BY <2>1, <2>2
<1>5. Fabric!PollRefused \/ Fabric!TimedOut => Queued
  BY DEF Fabric!PollRefused, Fabric!TimedOut, TypeOK
<1>6. ASSUME NEW n \in Nat, Fabric!Poll(n) PROVE Queued
  <2>1. cq \in Seq(Records) /\ Len(cq) \in Nat /\ \A i \in 1..Len(cq) : cq[i] \in Records
    BY DEF TypeOK
  <2>2. n + 1 \in Int /\ \A i \in n + 1 .. Len(cq) : cq[i] \in Records
    BY <2>1
  <2>3. SubSeq(cq, n + 1, Len(cq)) \in Seq(Records)
    BY <2>1, <2>2, SubSeqProperties
  <2> QED
    BY <1>6, <2>3 DEF Fabric!Poll, TypeOK
<1>7. <<WorkRequest(ReadCtx, TRUE)>> \in Seq(Asked)
  BY SerialTypes
<1>8. CASE CheckOptions
  <2>1. row = 1
    BY <1>8 DEF CheckOptions, SerialGood
  <2>2. Accepted => 1 \in DOMAIN Swept
    BY SweptDomain DEF Accepted
  <2>3. Moves
    BY <1>8, <2>1, <2>2, OptionTypes DEF CheckOptions, Fail, TypeOK
  <2> QED
    BY <1>2, <1>3, <1>8, <2>3 DEF CheckOptions
<1>9. CASE PostSerial
  <2>1. Moves /\ Counts
    BY <1>2, <1>9 DEF PostSerial, Fail, TypeOK
  <2>2. Queued
    BY <1>3, <1>4, <1>7, <1>9, QueueZero DEF PostSerial
  <2> QED
    BY <2>1, <2>2
<1>10. CASE WaitReadSpin
  <2>1. left \in 0..SerialOps /\ left > 0 /\ SerialOps \in Nat /\ row \in DOMAIN Swept
    BY <1>10, OptionTypes DEF WaitReadSpin, SerialGood, TypeOK
  <2>2. left - 1 \in 0..SerialOps
    BY <2>1
  <2>3. Moves
    BY <1>10, <2>1, <2>2 DEF WaitReadSpin, Fail, TypeOK
  <2>4. Counts
    BY <1>2, <1>10 DEF WaitReadSpin
  <2>5. Queued
    BY <1>5, <1>6, <1>10 DEF WaitReadSpin
  <2> QED
    BY <2>3, <2>4, <2>5
<1>11. CASE EndLatency
  <2>1. Moves
    BY <1>11, NextSizeTypes DEF EndLatency, NextSize, TypeOK
  <2> QED
    BY <1>2, <1>3, <1>11, <2>1 DEF EndLatency, NextSize
<1>12. CASE StartBandwidth
  <2>1. PICK ph \in {"warmup", "timed"} : EnterPass(ph)
    BY <1>12 DEF StartBandwidth
  <2>2. Counts /\ pc' = "pass" /\ phase' \in {"warmup", "timed"}
    BY <2>1, EnterTypes
  <2>3. Moves
    BY <1>12, <2>2 DEF StartBandwidth, TypeOK
  <2> QED
    BY <1>3, <1>12, <2>2, <2>3 DEF StartBandwidth
<1>13. CASE PostChunk
  <2>1. PICK k \in 0..args.post_list, late \in BOOLEAN :
          LET j == bw_op_jetty(next)
              wrs == [x \in 1..k |-> WorkRequest(next+x-1, Signaled(next+x-1))]
          IN /\ expired' = late
             /\ next' = next + k
             /\ posted' = [posted EXCEPT ![j] = @ + k]
             /\ \/ Fabric!Post(j, wrs) /\ UNCHANGED <<pc, err>>
                \/ Fabric!PostRefused(j, wrs) /\ Fail("Status")
                \/ Fail("Invalid") /\ UNCHANGED fabric
    BY <1>13 DEF PostChunk
  <2>2. Accepted /\ next \in Nat /\ k \in Nat /\ args.post_list \in Nat
    BY <1>13, OptionTypes DEF PostChunk, SerialGood, TypeOK
  <2>3. bw_op_jetty(next) \in Queues
    BY <2>2, ChunkTypes
  <2>4. PICK w \in Seq(Asked) :
            w = [x \in 1..k |-> WorkRequest(next+x-1, Signaled(next+x-1))]
    BY <2>2, ChunkTypes
  <2>5. Queued
    BY <1>3, <1>4, <2>1, <2>3, <2>4
  <2>6. posted' \in [Queues -> Nat] /\ next' \in Nat
    BY <2>1, <2>2, <2>3 DEF TypeOK
  <2>7. Counts
    BY <1>13, <2>1, <2>6 DEF PostChunk, TypeOK
  <2>8. Moves
    BY <1>13, <2>1 DEF PostChunk, Fail, TypeOK
  <2> QED
    BY <2>5, <2>7, <2>8
<1>14. CASE PostFence
  <2>1. PICK j \in Unfenced :
          LET wrs == <<WorkRequest(FenceCtx(j), TRUE)>>
          IN \/ Fabric!Post(j, wrs) /\ fenced' = [fenced EXCEPT ![j] = TRUE] /\ UNCHANGED <<pc, err>>
             \/ Fabric!PostRefused(j, wrs) /\ Fail("Status") /\ UNCHANGED fenced
    BY <1>14, LeastUnfenced DEF PostFence
  <2>2. j \in Queues /\ <<WorkRequest(FenceCtx(j), TRUE)>> \in Seq(Asked)
    BY <1>14, <2>1, FenceTypes DEF PostFence, SerialGood
  <2>3. Queued
    BY <1>4, <2>1, <2>2
  <2>4. Counts
    BY <1>14, <2>1, <2>2 DEF PostFence, TypeOK
  <2>5. Moves
    BY <1>14, <2>1 DEF PostFence, Fail, TypeOK
  <2> QED
    BY <2>3, <2>4, <2>5
<1>15. CASE EndPass
  <2>1. CASE EnterPass("timed") /\ warmed' = TRUE /\ UNCHANGED <<args, row, left, err, fabric>>
    <3>1. Counts /\ pc' = "pass" /\ phase' \in {"warmup", "timed"}
      BY <2>1, EnterTypes
    <3>2. Moves
      BY <1>15, <2>1, <3>1 DEF EndPass, TypeOK
    <3> QED
      BY <1>3, <2>1, <3>1, <3>2
  <2>2. CASE NextSize /\ UNCHANGED pass
    <3>1. Moves
      BY <1>15, <2>2, NextSizeTypes DEF EndPass, NextSize, TypeOK
    <3> QED
      BY <1>2, <1>3, <2>2, <3>1 DEF NextSize
  <2> QED
    BY <1>15, <2>1, <2>2 DEF EndPass
<1>16. CASE PollRecords
  <2>1. CASE \E k \in 1..PollBatch : Fabric!Poll(k) /\ crs' = SubSeq(cq, 1, k)
    <3>1. PICK k \in Nat : Fabric!Poll(k) /\ crs' = SubSeq(cq, 1, k)
      BY <2>1, ParametersAssumption
    <3>2. crs' \in Seq(Records) /\ Queued
      BY <1>6, <1>16, <3>1, RecordsPolled DEF PollRecords
    <3> QED
      BY <1>16, <3>2 DEF PollRecords, Fail, TypeOK
  <2>2. CASE (Fabric!PollRefused \/ Fabric!TimedOut) /\ UNCHANGED crs
    BY <1>5, <1>16, <2>2 DEF PollRecords, Fail, TypeOK
  <2> QED
    BY <1>16, <2>1, <2>2 DEF PollRecords
<1>17. CASE CountRecord
  <2>1. Queued
    BY <1>3, <1>17 DEF CountRecord
  <2>2. Moves
    BY <1>17 DEF CountRecord, Fail, TypeOK
  <2>3. CASE /\ Head(crs).success
             /\ doneTotal' \in Nat /\ done' \in [Queues -> Nat] /\ crs' \in Seq(Records)
    BY <1>17, <2>1, <2>2, <2>3 DEF CountRecord, TypeOK
  <2>4. CASE UNCHANGED <<done, doneTotal, crs>>
    BY <1>17, <2>1, <2>2, <2>4 DEF CountRecord, TypeOK
  <2>5. CASE /\ Head(crs).success
             /\ LET j == RecordJetty(Head(crs).ctx)
                    proved == Larger(done[j], RecordTarget(Head(crs).ctx))
                IN /\ doneTotal' = doneTotal + (proved - done[j])
                   /\ done' = [done EXCEPT ![j] = proved]
                   /\ crs' = Tail(crs)
    <3>1. Accepted /\ PassGood /\ crs # <<>>
      BY <1>17 DEF CountRecord, SerialGood
    <3>2. doneTotal' \in Nat /\ done' \in [Queues -> Nat]
      BY <1>17, <2>5, <3>1, PassCounts DEF CountRecord
    <3>3. crs' \in Seq(Records)
      BY <1>17, <2>5, <3>1, RecordTaken DEF CountRecord, fabric
    <3> QED
      BY <2>3, <2>5, <3>2, <3>3
  <2> QED
    BY <1>17, <2>4, <2>5 DEF CountRecord
<1>18. CASE Environment
  <2>1. PICK j \in Queues : Fabric!Execute(j) \/ Fabric!Deliver(j)
    BY <1>18 DEF Environment, Fabric!Fabric
  <2>2. Queued
    <3>1. CASE Fabric!Execute(j)
      BY <3>1, ExecuteFacts DEF TypeOK
    <3>2. CASE Fabric!Deliver(j)
      <4>1. \E rec \in Records : cq' = Append(cq, rec)
        BY <3>2, DeliverFacts
      <4>2. cq' \in Seq(Records)
        BY <4>1, AppendProperties DEF TypeOK
      <4> QED
        BY <3>2, <4>2, DeliverFacts DEF TypeOK
    <3> QED
      BY <2>1, <3>1, <3>2
  <2>3. Counts
    BY <1>2, <1>18 DEF Environment
  <2>4. Moves
    BY <1>18 DEF Environment, TypeOK
  <2> QED
    BY <2>2, <2>3, <2>4
<1>19. CASE Tick
  BY <1>3, <1>19 DEF Tick, TypeOK
<1>20. CASE UNCHANGED vars
  BY <1>2, <1>3, <1>20 DEF vars, TypeOK
<1> QED
  BY <1>8, <1>9, <1>10, <1>11, <1>12, <1>13, <1>14, <1>15, <1>16, <1>17, <1>18, <1>19, <1>20
  DEF Next, Program

-----------------------------------------------------------------------------
(* Between the passes.                                                     *)

LEMMA LengthOf ==
  ASSUME NEW S, NEW s \in Seq(S), NEW n \in Nat, DOMAIN s = 1..n
  PROVE  Len(s) = n
<1>1. Len(s) \in Nat /\ DOMAIN s = 1..Len(s)
  BY LenProperties
<1>2. ~(Len(s) < n)
  <2>1. Len(s) < n => Len(s) + 1 \in 1..n /\ ~(Len(s) + 1 \in 1..Len(s))
    BY <1>1
  <2> QED
    BY <2>1, <1>1
<1>3. ~(n < Len(s))
  <2>1. n < Len(s) => n + 1 \in 1..Len(s) /\ ~(n + 1 \in 1..n)
    BY <1>1
  <2> QED
    BY <2>1, <1>1
<1> QED
  BY <1>1, <1>2, <1>3

\* When all is counted nothing is under way: what is left unsignaled behind the
\* last record of a jetty is covered by a fence, and the fence has been seen.
LEMMA PassIdle ==
  ASSUME TypeOK, Accepted, PassGood, doneTotal >= next
  PROVE  Fabric!Idle /\ crs = <<>>
<1>0. TotalsGood /\ RequestsGood
  BY DEF PassGood
<1>1. done = posted
  BY <1>0, AllCounted
<1>2. ASSUME NEW j \in Queues, NEW c \in Nat, Request(j, c)
      PROVE  FALSE
  <2>1. done[j] < RecordTarget(c) /\ RecordTarget(c) <= posted[j] /\ RecordTarget(c) \in Nat
        /\ posted[j] \in Nat
    BY <1>0, <1>2, RequestFacts DEF TypeOK
  <2> QED
    BY <2>1, <1>1
<1>3. ASSUME NEW j \in Queues PROVE sq[j] = <<>>
  <2>1. \A k \in DOMAIN sq[j] : FALSE
    BY <1>0, <1>2, RequestTypes DEF RequestsGood
  <2>2. sq[j] \in Seq(WorkRequests) /\ DOMAIN sq[j] = 1..Len(sq[j]) /\ Len(sq[j]) \in Nat
    BY RequestTypes DEF TypeOK
  <2>3. Len(sq[j]) = 0
    <3>1. ~(1 \in 1..Len(sq[j]))
      BY <2>1, <2>2
    <3> QED
      BY <2>2, <3>1
  <2> QED
    BY <2>2, <2>3, EmptySeq
<1>4. crs = <<>> /\ cq = <<>>
  <2>1. \A k \in DOMAIN Reported : Reported[k].ctx \in Nat
    BY ReportedType DEF Records
  <2>2. \A k \in DOMAIN Reported : FALSE
    BY <1>0, <1>2, <2>1 DEF RequestsGood
  <2>3. DOMAIN Reported = 1..Len(Reported) /\ Len(Reported) \in Nat /\ Len(Reported) = Len(crs) + Len(cq)
        /\ crs \in Seq(Records) /\ cq \in Seq(Records)
    BY ReportedType DEF TypeOK
  <2>4. Len(Reported) = 0
    <3>1. ~(1 \in DOMAIN Reported)
      BY <2>2
    <3> QED
      BY <2>3, <3>1
  <2>5. Len(crs) \in Nat /\ Len(cq) \in Nat
    BY <2>3
  <2>6. Len(crs) = 0 /\ Len(cq) = 0
    BY <2>3, <2>4, <2>5
  <2> QED
    BY <2>3, <2>6, EmptySeq
<1> QED
  BY <1>3, <1>4 DEF Fabric!Idle

\* On an idle fabric nothing happens.
LEMMA IdleRests ==
  ASSUME Fabric!Idle
  PROVE  ~Environment
  BY DEF Fabric!Idle, Environment, Fabric!Fabric, Fabric!Execute, Fabric!Deliver

\* The record of a serialized operation is the only one.
LEMMA SpinPolls ==
  ASSUME TypeOK, SerialGood, pc = "spin", Fabric!Poll(1)
  PROVE  /\ crs = <<>> /\ (\A j \in Queues : sq[j] = <<>>) /\ sq' = sq /\ cq' = <<>>
         /\ Len(cq) = 1 /\ cq[1].ctx = ReadCtx /\ cq[1] \in Records
<1>1. /\ crs = <<>> /\ \A j \in Queues \ {0} : sq[j] = <<>>
      /\ \/ cq = <<>>
         \/ sq[0] = <<>> /\ Len(cq) = 1 /\ cq[1].ctx = ReadCtx
  BY DEF SerialGood
<1>2. cq \in Seq(Records) /\ 1 \in 1..Len(cq) /\ cq' = SubSeq(cq, 2, Len(cq)) /\ sq' = sq
  BY DEF Fabric!Poll, TypeOK
<1>3. cq # <<>>
  BY <1>2
<1>4. Len(cq) = 1 /\ cq[1].ctx = ReadCtx /\ sq[0] = <<>>
  BY <1>1, <1>3
<1>5. SubSeq(cq, 2, 1) = <<>>
  BY SubSeqEmpty
<1>6. cq[1] \in Records
  BY <1>2
<1> QED
  BY <1>1, <1>2, <1>4, <1>5, <1>6

\* The fabric executes it, and writes its record.
LEMMA SpinMoves ==
  ASSUME TypeOK, SerialGood, pc = "spin", Environment
  PROVE  SerialGood'
<1>0. /\ args' = args /\ pc' = pc /\ row' = row /\ left' = left /\ crs' = crs
      /\ Accepted
  BY DEF Environment, pass, SerialGood
<1>1. /\ crs = <<>> /\ left > 0 /\ \A j \in Queues \ {0} : sq[j] = <<>>
      /\ \/ /\ cq = <<>> /\ Len(sq[0]) = 1
            /\ sq[0][1].ctx = ReadCtx /\ sq[0][1].signaled
         \/ sq[0] = <<>> /\ Len(cq) = 1 /\ cq[1].ctx = ReadCtx
  BY DEF SerialGood
<1>2. PICK j \in Queues : Fabric!Execute(j) \/ Fabric!Deliver(j)
  BY DEF Environment, Fabric!Fabric
<1>3. sq[j] # <<>>
  <2>1. \E k \in DOMAIN sq[j] : TRUE
    BY <1>2 DEF Fabric!Execute, Fabric!Deliver
  <2> QED
    BY <2>1
<1>4. /\ j = 0 /\ cq = <<>> /\ Len(sq[0]) = 1 /\ DOMAIN sq[0] = 1..1
      /\ sq[0][1].ctx = ReadCtx /\ sq[0][1].signaled
  <2>1. DOMAIN sq[j] = 1..Len(sq[j])
    BY RequestTypes
  <2> QED
    BY <1>1, <1>3, <2>1
<1>5. CASE Fabric!Execute(0)
  <2>1. /\ cq' = cq /\ Len(sq'[0]) = Len(sq[0]) /\ sq'[0][1].ctx = sq[0][1].ctx
        /\ sq'[0][1].signaled = sq[0][1].signaled
    <3>1. 1 \in DOMAIN sq[0] /\ 0 \in Queues
      BY <1>4, QueueZero
    <3> QED
      BY <3>1, <1>5, ExecuteFacts
  <2>2. \A i \in Queues \ {0} : sq'[i] = sq[i]
    <3>1. sq \in [Queues -> Seq(WorkRequests)]
      BY DEF TypeOK
    <3> QED
      BY <1>5, <3>1 DEF Fabric!Execute
  <2> QED
    BY <1>0, <1>1, <1>4, <2>1, <2>2 DEF SerialGood, Accepted
<1>6. CASE Fabric!Deliver(0)
  <2>1. /\ \A i \in Queues \ {0} : sq'[i] = sq[i]
        /\ sq' \in [Queues -> Seq(WorkRequests)]
    BY <1>6, DeliverFacts, QueueZero
  <2>2. PICK k \in DOMAIN sq[0] :
          /\ DOMAIN sq'[0] = 1 .. Len(sq[0]) - k
          /\ cq' = Append(cq, [ctx |-> sq[0][k].ctx, success |-> sq[0][k].state = "ok"])
    BY <1>6, DeliverFacts, QueueZero
  <2>3. k = 1 /\ DOMAIN sq'[0] = {}
    BY <1>4, <2>2
  <2>4. sq'[0] = <<>>
    <3>1. sq'[0] \in Seq(WorkRequests) /\ DOMAIN sq'[0] = 1..0
      BY <2>1, <2>3, QueueZero
    <3>2. Len(sq'[0]) = 0
      BY <3>1, LengthOf
    <3> QED
      BY <3>1, <3>2, EmptySeq
  <2>5. Len(cq') = 1 /\ cq'[1].ctx = ReadCtx
    BY <1>4, <2>2, <2>3
  <2> QED
    BY <1>0, <1>1, <2>1, <2>4, <2>5 DEF SerialGood, Accepted
<1> QED
  BY <1>2, <1>4, <1>5, <1>6

LEMMA SerialStep ==
  ASSUME TypeOK, SerialGood, pc = "pass" => PassGood, [Next]_vars
  PROVE  SerialGood'
<1>1. args' = args
  BY DEF Next, vars, Program, CheckOptions, PostSerial, WaitReadSpin, EndLatency, NextSize,
         StartBandwidth, PostChunk, PostFence, EndPass, PollRecords, CountRecord,
         Environment, Tick
<1>2. Accepted' = Accepted
  BY <1>1, SameOptions
<1>3. UNCHANGED fabric => Fabric!Idle' = Fabric!Idle
  BY DEF fabric, Fabric!Idle
<1>4. (pc \notin {"start", "failed"} => Accepted) /\ (pc = "pass" => args.depth > 1)
  BY DEF SerialGood
<1>5. ASSUME pc' = "failed" PROVE SerialGood'
  BY <1>5 DEF SerialGood
<1>6. CASE CheckOptions
  <2>1. CASE Accepted /\ pc' = "serial"
    BY <1>2, <1>3, <1>6, <2>1 DEF CheckOptions, SerialGood, pass
  <2>2. CASE Fail("Usage")
    BY <1>5, <2>2 DEF Fail
  <2> QED
    BY <1>6, <2>1, <2>2 DEF CheckOptions
<1>7. CASE PostSerial
  <2>1. CASE Fabric!Post(0, <<WorkRequest(ReadCtx, TRUE)>>) /\ pc' = "spin"
    <3>1. /\ crs = <<>> /\ Fabric!Idle /\ left > 0 /\ crs' = crs /\ left' = left /\ pc = "serial"
      BY <1>7 DEF PostSerial, SerialGood, pass
    <3>2. PICK w \in Seq(Asked) : w = <<WorkRequest(ReadCtx, TRUE)>>
      BY SerialTypes
    <3>3. Len(w) = 1 /\ w[1].ctx = ReadCtx /\ w[1].signaled = TRUE
      BY <3>2 DEF WorkRequest
    <3>4. /\ sq' \in [Queues -> Seq(WorkRequests)] /\ cq' = cq
          /\ \A i \in Queues \ {0} : sq'[i] = sq[i]
          /\ DOMAIN sq'[0] = 1 .. Len(sq[0]) + Len(w)
          /\ \A x \in 1..Len(w) : /\ sq'[0][Len(sq[0]) + x].ctx = w[x].ctx
                                  /\ sq'[0][Len(sq[0]) + x].signaled = w[x].signaled
      BY <2>1, <3>2, PostFacts, QueueZero
    <3>5. Len(sq[0]) = 0 /\ cq = <<>> /\ \A i \in Queues : sq[i] = <<>>
      BY <3>1, QueueZero DEF Fabric!Idle
    <3>6. 1 \in 1..Len(w) /\ Len(sq[0]) + 1 = 1 /\ Len(sq[0]) + Len(w) = 1
      BY <3>3, <3>5
    <3>7. DOMAIN sq'[0] = 1..1 /\ sq'[0][1].ctx = ReadCtx /\ sq'[0][1].signaled
      BY <3>3, <3>4, <3>6
    <3>8. Len(sq'[0]) = 1
      <4>1. sq'[0] \in Seq(WorkRequests)
        BY <3>4, QueueZero
      <4> QED
        BY <3>7, <4>1, LengthOf
    <3> QED
      BY <1>2, <1>4, <2>1, <3>1, <3>4, <3>5, <3>7, <3>8 DEF SerialGood
  <2>2. CASE pc' = "failed"
    BY <1>5, <2>2
  <2> QED
    BY <1>7, <2>1, <2>2 DEF PostSerial, Fail
<1>8. CASE WaitReadSpin
  <2>1. CASE Fabric!Poll(1) /\ pc' = "serial"
    <3>1. crs' = <<>> /\ cq' = <<>> /\ \A j \in Queues : sq'[j] = <<>>
      BY <1>8, <2>1, SpinPolls DEF WaitReadSpin, pass
    <3>2. Accepted'
      BY <1>2, <1>4, <1>8 DEF WaitReadSpin
    <3> QED
      BY <2>1, <3>1, <3>2 DEF SerialGood, Fabric!Idle
  <2>2. CASE pc' = "failed"
    BY <1>5, <2>2
  <2> QED
    BY <1>8, <2>1, <2>2 DEF WaitReadSpin, Fail
<1>9. CASE EndLatency
  <2>1. crs' = <<>> /\ Fabric!Idle' /\ pc' \in {"serial", "done"}
    BY <1>3, <1>9 DEF EndLatency, NextSize, SerialGood, pass
  <2> QED
    BY <1>2, <1>4, <1>9, <2>1 DEF SerialGood, EndLatency
<1>10. CASE StartBandwidth
  <2>1. pc' = "pass" /\ args.depth > 1 /\ pc = "serial"
    BY <1>10 DEF StartBandwidth, EnterPass
  <2> QED
    BY <1>1, <1>2, <1>4, <2>1 DEF SerialGood
<1>11. CASE PostChunk \/ PostFence \/ PollRecords \/ CountRecord
  <2>1. pc = "pass" /\ pc' \in {"pass", "failed"}
    BY <1>11 DEF PostChunk, PostFence, PollRecords, CountRecord, Fail
  <2> QED
    BY <1>1, <1>2, <1>4, <1>5, <2>1 DEF SerialGood
<1>12. CASE EndPass
  <2>1. pc = "pass" /\ doneTotal = next /\ PassGood
    BY <1>12 DEF EndPass, PassComplete
  <2>2. Fabric!Idle /\ crs = <<>>
    <3>1. doneTotal >= next
      BY <2>1 DEF TypeOK
    <3> QED
      BY <1>4, <2>1, <3>1, PassIdle
  <2>3. CASE pc' = "pass"
    BY <1>1, <1>2, <1>4, <2>1, <2>3 DEF SerialGood
  <2>4. CASE NextSize /\ UNCHANGED pass
    <3>1. crs' = <<>> /\ Fabric!Idle' /\ pc' \in {"serial", "done"}
      BY <1>3, <2>2, <2>4 DEF NextSize, pass
    <3> QED
      BY <1>2, <1>4, <2>1, <3>1 DEF SerialGood
  <2> QED
    BY <1>12, <2>3, <2>4 DEF EndPass, EnterPass
<1>13. CASE Environment
  <2>1. CASE pc \in {"start", "serial", "done"}
    BY <1>13, <2>1, IdleRests DEF SerialGood
  <2>2. CASE pc = "spin"
    BY <1>13, <2>2, SpinMoves
  <2>3. CASE pc \in {"pass", "failed"}
    <3>1. pc' = pc
      BY <1>13 DEF Environment
    <3> QED
      BY <1>1, <1>2, <1>4, <2>3, <3>1 DEF SerialGood
  <2> QED
    BY <2>1, <2>2, <2>3 DEF TypeOK
<1>14. CASE Tick
  BY <1>1, <1>2, <1>4, <1>14 DEF SerialGood, Tick
<1>15. CASE UNCHANGED vars
  <2>1. crs' = crs /\ left' = left /\ row' = row /\ pc' = pc /\ sq' = sq /\ cq' = cq
    BY <1>15 DEF vars, pass, fabric
  <2>2. Fabric!Idle' = Fabric!Idle
    BY <2>1 DEF Fabric!Idle
  <2> QED
    BY <1>1, <1>2, <2>1, <2>2 DEF SerialGood
<1> QED
  BY <1>6, <1>7, <1>8, <1>9, <1>10, <1>11, <1>12, <1>13, <1>14, <1>15 DEF Next, Program

-----------------------------------------------------------------------------
(* What has failed is still to be seen.                                    *)

LEMMA FaultsStay ==
  ASSUME FaultsGood, sq' = sq, Reported' = Reported, faulty' = faulty,
         pc' # "failed" => pc # "failed"
  PROVE  FaultsGood'
  BY DEF FaultsGood

\* Nothing is wrong with an idle fabric.
LEMMA IdleIsSound ==
  ASSUME FaultsGood, Fabric!Idle, crs = <<>>, pc # "failed"
  PROVE  ~faulty
<1>1. Reported = <<>>
  BY ConcatEmptySeq DEF Reported, Fabric!Idle
<1>2. DOMAIN Reported = {} /\ \A j \in Queues : DOMAIN sq[j] = {}
  BY <1>1 DEF Fabric!Idle
<1> QED
  BY <1>2 DEF FaultsGood

LEMMA FaultsPost ==
  ASSUME TypeOK, FaultsGood, pc # "failed", NEW j \in Queues, NEW wrs \in Seq(Asked),
         Fabric!Post(j, wrs), crs' = crs
  PROVE  FaultsGood'
<1>1. /\ faulty' = faulty /\ cq' = cq
      /\ \A i \in Queues \ {j} : sq'[i] = sq[i]
      /\ DOMAIN sq'[j] = 1 .. Len(sq[j]) + Len(wrs)
      /\ \A k \in DOMAIN sq[j] : k \in DOMAIN sq'[j] /\ sq'[j][k] = sq[j][k]
      /\ \A x \in 1..Len(wrs) : sq'[j][Len(sq[j]) + x].state = "posted"
  BY PostFacts
<1>2. Reported' = Reported
  BY <1>1 DEF Reported
<1>3. ASSUME NEW i \in Queues, NEW k \in DOMAIN sq[i]
      PROVE  k \in DOMAIN sq'[i] /\ sq'[i][k] = sq[i][k]
  <2>1. CASE i = j
    BY <2>1, <1>1
  <2>2. CASE i # j
    BY <2>2, <1>1
  <2> QED
    BY <2>1, <2>2
<1>4. ASSUME NEW i \in Queues, NEW k \in DOMAIN sq'[i]
      PROVE  (k \in DOMAIN sq[i] /\ sq'[i][k] = sq[i][k]) \/ sq'[i][k].state = "posted"
  <2>1. CASE i = j
    <3>1. DOMAIN sq[j] = 1..Len(sq[j]) /\ Len(sq[j]) \in Nat /\ Len(wrs) \in Nat
      BY RequestTypes
    <3>2. CASE k <= Len(sq[j])
      BY <2>1, <3>1, <3>2, <1>1
    <3>3. CASE ~(k <= Len(sq[j]))
      <4>1. k - Len(sq[j]) \in 1..Len(wrs) /\ Len(sq[j]) + (k - Len(sq[j])) = k
        BY <2>1, <3>1, <3>3, <1>1
      <4> QED
        BY <2>1, <4>1, <1>1
    <3> QED
      BY <3>2, <3>3
  <2>2. CASE i # j
    BY <2>2, <1>1
  <2> QED
    BY <2>1, <2>2
<1>5. faulty /\ pc' # "failed" =>
         \/ \E i \in Queues : \E k \in DOMAIN sq'[i] : sq'[i][k].state = "failed"
         \/ \E k \in DOMAIN Reported' : ~Reported'[k].success
  <2>1. CASE \E i \in Queues : \E k \in DOMAIN sq[i] : sq[i][k].state = "failed"
    <3>1. PICK i \in Queues : \E k \in DOMAIN sq[i] : sq[i][k].state = "failed"
      BY <2>1
    <3>2. PICK k \in DOMAIN sq[i] : sq[i][k].state = "failed"
      BY <3>1
    <3> QED
      BY <3>2, <1>3
  <2>2. CASE \E k \in DOMAIN Reported : ~Reported[k].success
    BY <2>2, <1>2
  <2> QED
    BY <2>1, <2>2 DEF FaultsGood
<1>6. ~faulty => /\ \A i \in Queues : \A k \in DOMAIN sq'[i] : sq'[i][k].state # "failed"
                 /\ \A k \in DOMAIN Reported' : Reported'[k].success
  <2> SUFFICES ASSUME ~faulty
               PROVE  /\ \A i \in Queues : \A k \in DOMAIN sq'[i] : sq'[i][k].state # "failed"
                      /\ \A k \in DOMAIN Reported' : Reported'[k].success
    OBVIOUS
  <2>1. ASSUME NEW i \in Queues, NEW k \in DOMAIN sq'[i] PROVE sq'[i][k].state # "failed"
    <3>1. CASE k \in DOMAIN sq[i] /\ sq'[i][k] = sq[i][k]
      BY <3>1 DEF FaultsGood
    <3>2. CASE sq'[i][k].state = "posted"
      BY <3>2
    <3> QED
      BY <3>1, <3>2, <1>4
  <2> QED
    BY <2>1, <1>2 DEF FaultsGood
<1> QED
  BY <1>1, <1>5, <1>6 DEF FaultsGood

LEMMA FaultsExecute ==
  ASSUME TypeOK, FaultsGood, NEW j \in Queues, Fabric!Execute(j), crs' = crs, pc' = pc
  PROVE  FaultsGood'
<1>1. /\ cq' = cq /\ faulty' \in BOOLEAN /\ (faulty => faulty')
      /\ \A i \in Queues : DOMAIN sq'[i] = DOMAIN sq[i]
      /\ \A i \in Queues : \A k \in DOMAIN sq[i] :
            sq[i][k].state = "failed" => sq'[i][k].state = "failed"
      /\ ~faulty' => \A i \in Queues : \A k \in DOMAIN sq[i] :
            sq[i][k].state # "failed" => sq'[i][k].state # "failed"
      /\ faulty' => faulty \/ \E i \in Queues : \E k \in DOMAIN sq'[i] :
                                 sq'[i][k].state = "failed"
  BY ExecuteFacts
<1>2. Reported' = Reported
  BY <1>1 DEF Reported
<1>3. faulty' /\ pc' # "failed" =>
         \/ \E i \in Queues : \E k \in DOMAIN sq'[i] : sq'[i][k].state = "failed"
         \/ \E k \in DOMAIN Reported' : ~Reported'[k].success
  <2> SUFFICES ASSUME faulty, pc # "failed"
               PROVE  \/ \E i \in Queues : \E k \in DOMAIN sq'[i] : sq'[i][k].state = "failed"
                      \/ \E k \in DOMAIN Reported' : ~Reported'[k].success
    BY <1>1
  <2>1. CASE \E i \in Queues : \E k \in DOMAIN sq[i] : sq[i][k].state = "failed"
    BY <2>1, <1>1
  <2>2. CASE \E k \in DOMAIN Reported : ~Reported[k].success
    BY <2>2, <1>2
  <2> QED
    BY <2>1, <2>2 DEF FaultsGood
<1>4. ~faulty' => /\ \A i \in Queues : \A k \in DOMAIN sq'[i] : sq'[i][k].state # "failed"
                  /\ \A k \in DOMAIN Reported' : Reported'[k].success
  BY <1>1, <1>2 DEF FaultsGood
<1> QED
  BY <1>3, <1>4 DEF FaultsGood

LEMMA FaultsDeliver ==
  ASSUME TypeOK, FaultsGood, NEW j \in Queues, Fabric!Deliver(j), crs' = crs, pc' = pc
  PROVE  FaultsGood'
<1>1. faulty' = faulty /\ \A i \in Queues \ {j} : sq'[i] = sq[i]
  BY DeliverFacts
<1>2. PICK n \in DOMAIN sq[j] :
        /\ DOMAIN sq'[j] = 1 .. Len(sq[j]) - n
        /\ \A i \in DOMAIN sq'[j] : i + n \in DOMAIN sq[j] /\ sq'[j][i] = sq[j][i + n]
        /\ cq' = Append(cq, [ctx |-> sq[j][n].ctx, success |-> sq[j][n].state = "ok"])
        /\ [ctx |-> sq[j][n].ctx, success |-> sq[j][n].state = "ok"] \in Records
        /\ sq[j][n].state # "posted"
        /\ \A i \in 1..n-1 : sq[j][i].state = "ok"
  BY DeliverFacts
<1>a. DOMAIN sq[j] = 1..Len(sq[j]) /\ Len(sq[j]) \in Nat /\ sq[j][n] \in WorkRequests
  BY RequestTypes
<1>b. PICK new \in Nat : new = Len(Reported) + 1
  BY ReportedType
<1> DEFINE rec == [ctx |-> sq[j][n].ctx, success |-> sq[j][n].state = "ok"]
<1>3. rec \in Records /\ cq' = Append(cq, rec) /\ (rec.success <=> sq[j][n].state = "ok")
  BY <1>2
<1> HIDE DEF rec
<1>4. /\ \A k \in DOMAIN Reported : k \in DOMAIN Reported' /\ Reported'[k] = Reported[k]
      /\ new \in DOMAIN Reported' /\ Reported'[new] = rec
      /\ DOMAIN Reported' = 1..new /\ DOMAIN Reported = 1..Len(Reported) /\ Len(Reported) \in Nat
  BY <1>3, <1>b, RecordAppears, ReportedType
<1>5. sq[j][n].state \in {"ok", "failed"}
  BY <1>2, <1>a DEF WorkRequests
<1>6. faulty /\ pc # "failed" =>
         \/ \E i \in Queues : \E k \in DOMAIN sq'[i] : sq'[i][k].state = "failed"
         \/ \E k \in DOMAIN Reported' : ~Reported'[k].success
  <2> SUFFICES ASSUME faulty, pc # "failed"
               PROVE  \/ \E i \in Queues : \E k \in DOMAIN sq'[i] : sq'[i][k].state = "failed"
                      \/ \E k \in DOMAIN Reported' : ~Reported'[k].success
    OBVIOUS
  <2>1. CASE \E i \in Queues : \E k \in DOMAIN sq[i] : sq[i][k].state = "failed"
    <3>0. PICK i \in Queues : \E k \in DOMAIN sq[i] : sq[i][k].state = "failed"
      BY <2>1
    <3>1. PICK k \in DOMAIN sq[i] : sq[i][k].state = "failed"
      BY <3>0
    <3>2. CASE i # j
      BY <3>1, <3>2, <1>1
    <3>3. CASE i = j /\ k < n
      BY <3>1, <3>3, <1>2, <1>a
    <3>4. CASE i = j /\ k = n
      <4>1. ~Reported'[new].success
        BY <3>1, <3>4, <1>3, <1>4
      <4> QED
        BY <4>1, <1>4
    <3>5. CASE i = j /\ k > n
      <4>1. k - n \in 1 .. Len(sq[j]) - n /\ (k - n) + n = k
        BY <3>5, <1>a
      <4>2. k - n \in DOMAIN sq'[j] /\ sq'[j][k - n] = sq[j][k]
        BY <4>1, <1>2
      <4> QED
        BY <3>1, <3>5, <4>2
    <3> QED
      BY <3>2, <3>3, <3>4, <3>5, <1>a
  <2>2. CASE \E k \in DOMAIN Reported : ~Reported[k].success
    BY <2>2, <1>4
  <2> QED
    BY <2>1, <2>2 DEF FaultsGood
<1>7. ~faulty => /\ \A i \in Queues : \A k \in DOMAIN sq'[i] : sq'[i][k].state # "failed"
                 /\ \A k \in DOMAIN Reported' : Reported'[k].success
  <2> SUFFICES ASSUME ~faulty
               PROVE  /\ \A i \in Queues : \A k \in DOMAIN sq'[i] : sq'[i][k].state # "failed"
                      /\ \A k \in DOMAIN Reported' : Reported'[k].success
    OBVIOUS
  <2>1. ASSUME NEW i \in Queues, NEW k \in DOMAIN sq'[i] PROVE sq'[i][k].state # "failed"
    <3>1. CASE i = j
      BY <3>1, <1>2 DEF FaultsGood
    <3>2. CASE i # j
      BY <3>2, <1>1 DEF FaultsGood
    <3> QED
      BY <3>1, <3>2
  <2>2. ASSUME NEW k \in DOMAIN Reported' PROVE Reported'[k].success
    <3>1. CASE k = new
      <4>1. sq[j][n].state = "ok"
        BY <1>5 DEF FaultsGood
      <4> QED
        BY <3>1, <4>1, <1>3, <1>4
    <3>2. CASE k # new
      <4>1. k \in DOMAIN Reported
        BY <3>2, <1>4, <1>b
      <4> QED
        BY <4>1, <1>4 DEF FaultsGood
    <3> QED
      BY <3>1, <3>2
  <2> QED
    BY <2>1, <2>2
<1> QED
  BY <1>1, <1>6, <1>7 DEF FaultsGood

\* A program that has failed looks no further.
LEMMA FaultsEnd ==
  ASSUME FaultsGood, pc' = "failed",
         ~faulty' => /\ ~faulty /\ sq' = sq
                     /\ \A k \in DOMAIN Reported' : \E m \in DOMAIN Reported : Reported'[k] = Reported[m]
  PROVE  FaultsGood'
<1>1. faulty' \/ ~faulty'
  OBVIOUS
<1> QED
  BY <1>1 DEF FaultsGood

LEMMA FaultsStep ==
  ASSUME TypeOK, SerialGood, FaultsGood, [Next]_vars
  PROVE  FaultsGood'
<1>1. UNCHANGED fabric => sq' = sq /\ cq' = cq /\ faulty' = faulty
  BY DEF fabric
<1>2. UNCHANGED pass => crs' = crs
  BY DEF pass
<1>3. cq' = cq /\ crs' = crs => Reported' = Reported
  BY DEF Reported
<1>4. faulty \in BOOLEAN
  BY DEF TypeOK
<1>5. ASSUME pc' = "failed", sq' = sq, cq' = cq, crs' = crs, faulty => faulty'
      PROVE  FaultsGood'
  <2>1. Reported' = Reported
    BY <1>3, <1>5
  <2>2. \A k \in DOMAIN Reported' : \E m \in DOMAIN Reported : Reported'[k] = Reported[m]
    BY <2>1
  <2> QED
    BY <1>4, <1>5, <2>2, FaultsEnd
<1>6. ASSUME pc' = "failed", faulty'
      PROVE  FaultsGood'
  BY <1>6, FaultsEnd
<1>7. CASE CheckOptions
  BY <1>1, <1>2, <1>3, <1>7, FaultsStay DEF CheckOptions
<1>8. CASE PostSerial
  <2>1. CASE Fabric!Post(0, <<WorkRequest(ReadCtx, TRUE)>>)
    BY <1>2, <1>8, <2>1, SerialTypes, FaultsPost, QueueZero DEF PostSerial
  <2>2. CASE pc' = "failed" /\ faulty'
    BY <1>6, <2>2
  <2>3. CASE pc' = "failed" /\ UNCHANGED fabric
    BY <1>1, <1>2, <1>5, <1>8, <2>3 DEF PostSerial
  <2> QED
    BY <1>8, <2>1, <2>2, <2>3 DEF PostSerial, Fail, Fabric!PostRefused
<1>9. CASE WaitReadSpin
  <2>0. pc = "spin" /\ crs' = crs
    BY <1>2, <1>9 DEF WaitReadSpin
  <2>1. CASE Fabric!Poll(1)
    <3>1. /\ crs = <<>> /\ (\A j \in Queues : sq[j] = <<>>) /\ sq' = sq /\ cq' = <<>>
          /\ Len(cq) = 1 /\ faulty' = faulty /\ cq \in Seq(Records)
      BY <2>0, <2>1, SpinPolls DEF Fabric!Poll, TypeOK
    <3>2. Reported = cq /\ Reported' = <<>>
      BY <2>0, <3>1, ConcatEmptySeq DEF Reported
    <3>3. CASE pc' = "failed"
      <4>1. \A k \in DOMAIN Reported' : \E m \in DOMAIN Reported : Reported'[k] = Reported[m]
        BY <3>2
      <4> QED
        BY <3>1, <3>3, <4>1, FaultsEnd
    <3>4. CASE cq[1].success
      <4>1. \A k \in DOMAIN Reported : k = 1
        BY <3>1, <3>2
      <4>2. ~faulty
        BY <2>0, <3>1, <3>2, <3>4, <4>1 DEF FaultsGood
      <4>3. DOMAIN Reported' = {} /\ \A j \in Queues : DOMAIN sq'[j] = {}
        BY <3>1, <3>2
      <4> QED
        BY <3>1, <4>2, <4>3 DEF FaultsGood
    <3> QED
      BY <1>9, <2>1, <3>3, <3>4 DEF WaitReadSpin, Fail, Fabric!TimedOut, Fabric!PollRefused
  <2>2. CASE pc' = "failed" /\ (Fabric!TimedOut \/ Fabric!PollRefused)
    BY <1>5, <2>0, <2>2 DEF Fabric!TimedOut, Fabric!PollRefused
  <2> QED
    BY <1>9, <2>1, <2>2 DEF WaitReadSpin, Fail
<1>10. CASE EndLatency
  BY <1>1, <1>2, <1>3, <1>10, FaultsStay DEF EndLatency, NextSize
<1>11. CASE StartBandwidth
  <2>1. crs = <<>> /\ crs' = <<>>
    BY <1>11 DEF StartBandwidth, EnterPass, SerialGood
  <2> QED
    BY <1>1, <1>3, <1>11, <2>1, FaultsStay DEF StartBandwidth
<1>12. CASE PostChunk
  <2>1. PICK k \in 0..args.post_list :
          LET j == bw_op_jetty(next)
              wrs == [x \in 1..k |-> WorkRequest(next+x-1, Signaled(next+x-1))]
          IN /\ \/ Fabric!Post(j, wrs)
                \/ Fabric!PostRefused(j, wrs) /\ Fail("Status")
                \/ Fail("Invalid") /\ UNCHANGED fabric
    BY <1>12 DEF PostChunk
  <2>2. crs' = crs /\ pc = "pass" /\ Accepted
    BY <1>12 DEF PostChunk, SerialGood
  <2>3. CASE Fabric!Post(bw_op_jetty(next),
                         [x \in 1..k |-> WorkRequest(next+x-1, Signaled(next+x-1))])
    <3>1. PICK j \in Queues, w \in Seq(Asked) :
              /\ j = bw_op_jetty(next)
              /\ w = [x \in 1..k |-> WorkRequest(next+x-1, Signaled(next+x-1))]
      BY <2>2, ChunkTypes
    <3> QED
      BY <2>2, <2>3, <3>1, FaultsPost
  <2>4. CASE pc' = "failed" /\ faulty'
    BY <1>6, <2>4
  <2>5. CASE pc' = "failed" /\ UNCHANGED fabric
    BY <1>1, <1>5, <2>2, <2>5
  <2> QED
    BY <2>1, <2>3, <2>4, <2>5 DEF Fail, Fabric!PostRefused
<1>13. CASE PostFence
  <2>1. PICK j \in Unfenced :
          LET wrs == <<WorkRequest(FenceCtx(j), TRUE)>>
          IN Fabric!Post(j, wrs) \/ (Fabric!PostRefused(j, wrs) /\ Fail("Status"))
    BY <1>13, LeastUnfenced DEF PostFence
  <2>2. j \in Queues /\ <<WorkRequest(FenceCtx(j), TRUE)>> \in Seq(Asked)
        /\ crs' = crs /\ pc = "pass"
    BY <1>13, <2>1, FenceTypes DEF PostFence, SerialGood
  <2>3. CASE Fabric!Post(j, <<WorkRequest(FenceCtx(j), TRUE)>>)
    <3>1. PICK w \in Seq(Asked) : w = <<WorkRequest(FenceCtx(j), TRUE)>>
      BY <2>2
    <3> QED
      BY <2>2, <2>3, <3>1, FaultsPost
  <2>4. CASE pc' = "failed" /\ faulty'
    BY <1>6, <2>4
  <2> QED
    BY <2>1, <2>3, <2>4 DEF Fail, Fabric!PostRefused
<1>14. CASE EndPass
  <2>1. crs = <<>> /\ crs' = <<>> /\ UNCHANGED fabric /\ pc = "pass"
    BY <1>2, <1>14 DEF EndPass, EnterPass, NextSize
  <2> QED
    BY <1>1, <1>3, <2>1, FaultsStay
<1>15. CASE PollRecords
  <2>1. CASE \E k \in 1..PollBatch : Fabric!Poll(k) /\ crs' = SubSeq(cq, 1, k)
    <3>1. PICK k \in Nat : Fabric!Poll(k) /\ crs' = SubSeq(cq, 1, k)
      BY <2>1, ParametersAssumption
    <3>2. Reported' = Reported /\ sq' = sq /\ faulty' = faulty /\ pc = "pass"
      BY <1>15, <3>1, RecordsPolled DEF PollRecords, Fabric!Poll
    <3> QED
      BY <3>2, FaultsStay
  <2>2. CASE pc' = "failed" /\ (Fabric!TimedOut \/ Fabric!PollRefused) /\ UNCHANGED crs
    BY <1>5, <2>2 DEF Fabric!TimedOut, Fabric!PollRefused
  <2> QED
    BY <1>15, <2>1, <2>2 DEF PollRecords, Fail
<1>16. CASE CountRecord
  <2>0. sq' = sq /\ cq' = cq /\ faulty' = faulty /\ pc = "pass" /\ crs # <<>>
    BY <1>1, <1>16 DEF CountRecord
  <2>1. CASE Head(crs).success /\ crs' = Tail(crs)
    <3>1. /\ DOMAIN Reported' = 1 .. Len(Reported) - 1 /\ DOMAIN Reported = 1..Len(Reported)
          /\ Len(Reported) \in Nat
          /\ 1 \in DOMAIN Reported /\ Reported[1] = Head(crs)
          /\ \A k \in DOMAIN Reported' : k + 1 \in DOMAIN Reported /\ Reported'[k] = Reported[k + 1]
      BY <2>0, <2>1, RecordTaken, ReportedType
    <3>2. faulty /\ pc' # "failed" =>
             \/ \E i \in Queues : \E k \in DOMAIN sq[i] : sq[i][k].state = "failed"
             \/ \E k \in DOMAIN Reported' : ~Reported'[k].success
      <4>1. ASSUME NEW k \in DOMAIN Reported, ~Reported[k].success
            PROVE  \E m \in DOMAIN Reported' : ~Reported'[m].success
        <5>1. k # 1
          BY <2>1, <3>1, <4>1
        <5>2. k - 1 \in DOMAIN Reported' /\ (k - 1) + 1 = k
          BY <3>1, <5>1
        <5> QED
          BY <3>1, <4>1, <5>2
      <4> QED
        BY <2>0, <4>1 DEF FaultsGood
    <3>3. ~faulty => /\ \A i \in Queues : \A k \in DOMAIN sq[i] : sq[i][k].state # "failed"
                     /\ \A k \in DOMAIN Reported' : Reported'[k].success
      BY <3>1 DEF FaultsGood
    <3> QED
      BY <2>0, <3>2, <3>3 DEF FaultsGood
  <2>2. CASE pc' = "failed" /\ crs' = crs
    BY <1>5, <2>0, <2>2
  <2> QED
    BY <1>16, <2>1, <2>2 DEF CountRecord, Fail
<1>17. CASE Environment
  <2>1. PICK j \in Queues : Fabric!Execute(j) \/ Fabric!Deliver(j)
    BY <1>17 DEF Environment, Fabric!Fabric
  <2>2. crs' = crs /\ pc' = pc
    BY <1>2, <1>17 DEF Environment
  <2> QED
    BY <2>1, <2>2, FaultsExecute, FaultsDeliver
<1>18. CASE Tick
  BY <1>1, <1>3, <1>18, FaultsStay DEF Tick
<1>19. CASE UNCHANGED vars
  <2>1. crs' = crs /\ pc' = pc /\ sq' = sq /\ cq' = cq /\ faulty' = faulty
    BY <1>19 DEF vars, pass, fabric
  <2> QED
    BY <1>3, <2>1, FaultsStay
<1> QED
  BY <1>7, <1>8, <1>9, <1>10, <1>11, <1>12, <1>13, <1>14, <1>15, <1>16, <1>17, <1>18, <1>19
  DEF Next, Program

-----------------------------------------------------------------------------
(* The pass.                                                               *)

LEMMA PassStep ==
  ASSUME TypeOK, SerialGood, pc = "pass" => PassGood, [Next]_vars, pc' = "pass"
  PROVE  PassGood'
<1>1. UNCHANGED fabric => sq' = sq /\ cq' = cq
  BY DEF fabric
<1>2. cq' = cq /\ crs' = crs => Reported' = Reported
  BY DEF Reported
<1>3. pc \notin {"start", "failed"} => Accepted
  BY DEF SerialGood
<1>4. expired \in BOOLEAN
  BY DEF TypeOK
<1>5. CASE CheckOptions \/ PostSerial \/ WaitReadSpin \/ EndLatency
  BY <1>5 DEF CheckOptions, PostSerial, WaitReadSpin, EndLatency, NextSize, Fail
<1>6. CASE StartBandwidth
  <2>1. PICK ph \in {"warmup", "timed"} : EnterPass(ph)
    BY <1>6 DEF StartBandwidth
  <2>2. Accepted /\ Fabric!Idle /\ UNCHANGED <<args, fabric>>
    BY <1>3, <1>6 DEF StartBandwidth, SerialGood
  <2> QED
    BY <2>1, <2>2, PassBegins
<1>7. CASE PostChunk
  <2>1. PICK k \in 0..args.post_list, late \in BOOLEAN :
          LET wrs == [x \in 1..k |-> WorkRequest(next+x-1, Signaled(next+x-1))]
          IN /\ late = expired \/ (args.duration /\ late)
             /\ \A l \in 0..k-1 : ~ChunkEnds(l, expired)
             /\ expired' = late
             /\ next' = next + k
             /\ posted' = [posted EXCEPT ![bw_op_jetty(next)] = @ + k]
             /\ \/ k > 0 /\ Fabric!Post(bw_op_jetty(next), wrs)
                \/ Fail("Status")
                \/ Fail("Invalid")
    BY <1>7 DEF PostChunk
  <2>2. k > 0 /\ Fabric!Post(bw_op_jetty(next),
                             [x \in 1..k |-> WorkRequest(next+x-1, Signaled(next+x-1))])
    BY <2>1 DEF Fail
  <2>3. /\ pc = "pass" /\ ~StopPosting(next, expired) /\ Room
        /\ args.duration => next + args.post_list <= MaxOps
        /\ UNCHANGED <<args, phase, done, doneTotal, fenced, crs>>
    BY <1>7 DEF PostChunk
  <2>4. k \in 1..args.post_list
    BY <2>1, <2>2, OptionTypes
  <2> QED
    BY <1>3, <2>1, <2>2, <2>3, <2>4, PassPosts
<1>8. CASE PostFence
  <2>1. PICK j \in Unfenced :
          LET wrs == <<WorkRequest(FenceCtx(j), TRUE)>>
          IN \/ /\ Fabric!Post(j, wrs)
                /\ fenced' = [fenced EXCEPT ![j] = TRUE]
             \/ Fail("Status")
    BY <1>8, LeastUnfenced DEF PostFence
  <2>2. /\ pc = "pass" /\ FenceDue
        /\ UNCHANGED <<args, phase, posted, next, done, doneTotal, expired, crs>>
    BY <1>8 DEF PostFence
  <2> QED
    BY <1>3, <2>1, <2>2, PassFences DEF Fail
<1>9. CASE EndPass
  <2>1. pc = "pass" /\ doneTotal = next /\ UNCHANGED <<args, fabric>>
    BY <1>9 DEF EndPass, PassComplete, NextSize
  <2>2. EnterPass("timed")
    BY <1>9 DEF EndPass, NextSize
  <2>3. Fabric!Idle
    <3>1. doneTotal >= next
      BY <2>1 DEF TypeOK
    <3> QED
      BY <1>3, <2>1, <3>1, PassIdle
  <2> QED
    BY <1>3, <2>1, <2>2, <2>3, PassBegins
<1>10. CASE PollRecords
  <2>1. PICK k \in Nat : Fabric!Poll(k) /\ crs' = SubSeq(cq, 1, k)
    BY <1>10, ParametersAssumption DEF PollRecords, Fail
  <2>2. /\ pc = "pass" /\ crs = <<>>
        /\ UNCHANGED <<args, phase, next, posted, done, doneTotal, fenced, expired>>
    BY <1>10 DEF PollRecords
  <2>3. Reported' = Reported /\ sq' = sq
    BY <2>1, <2>2, RecordsPolled DEF Fabric!Poll
  <2> QED
    BY <1>4, <2>2, <2>3, PassRests
<1>11. CASE CountRecord
  <2>1. /\ pc = "pass" /\ crs # <<>> /\ Head(crs).success
        /\ LET j == RecordJetty(Head(crs).ctx)
               proved == Larger(done[j], RecordTarget(Head(crs).ctx))
           IN /\ doneTotal' = doneTotal + (proved - done[j])
              /\ done' = [done EXCEPT ![j] = proved]
        /\ crs' = Tail(crs)
        /\ UNCHANGED <<args, phase, posted, next, fenced, expired, fabric>>
    BY <1>11 DEF CountRecord, Fail
  <2> QED
    BY <1>3, <2>1, PassCounts
<1>12. CASE Environment
  <2>1. PICK j \in Queues : Fabric!Execute(j) \/ Fabric!Deliver(j)
    BY <1>12 DEF Environment, Fabric!Fabric
  <2>2. /\ pc = "pass"
        /\ UNCHANGED <<args, phase, posted, done, doneTotal, next, fenced, expired, crs>>
    BY <1>12 DEF Environment, pass
  <2> QED
    BY <1>3, <2>1, <2>2, PassExecutes, PassDelivers
<1>13. CASE Tick
  <2>1. /\ pc = "pass" /\ UNCHANGED <<args, phase, posted, done, doneTotal, next, fenced>>
        /\ UNCHANGED crs /\ UNCHANGED fabric /\ expired' = TRUE
    BY <1>13 DEF Tick
  <2> QED
    BY <1>1, <1>2, <2>1, PassRests
<1>14. CASE UNCHANGED vars
  <2>1. /\ pc = "pass" /\ UNCHANGED <<args, phase, posted, done, doneTotal, next, fenced>>
        /\ UNCHANGED <<expired, crs>> /\ UNCHANGED fabric
    BY <1>14 DEF vars, pass
  <2> QED
    BY <1>1, <1>2, <1>4, <2>1, PassRests
<1> QED
  BY <1>5, <1>6, <1>7, <1>8, <1>9, <1>10, <1>11, <1>12, <1>13, <1>14 DEF Next, Program

-----------------------------------------------------------------------------
(* Nothing fails but the fabric.                                           *)

\* Every window of the landing buffer is within it.
LEMMA WindowsFit ==
  ASSUME TypeOK, Accepted, row \in DOMAIN Swept, args.landing_cap >= Swept[Len(Swept)],
         NEW i \in Nat
  PROVE  /\ LandingLen \in Nat /\ Size \in Nat \ {0} /\ Size <= LandingLen
         /\ SgeInBounds(LandingOff(i)) /\ SgeInBounds(0)
<1> DEFINE max == Swept[Len(Swept)]
<1>1. /\ Size \in Nat \ {0} /\ Size <= max /\ max \in Nat \ {0}
  <2>1. row \in 1..Len(Swept) /\ Len(Swept) \in DOMAIN Swept /\ Swept \in Seq(Nat \ {0})
    BY SweptDomain, SweptSizes, AcceptedOptions
  <2> QED
    BY <2>1, SweptSizes DEF Size
<1> HIDE DEF max
<1>2. args.depth \in Nat \ {0} /\ args.landing_cap \in Nat /\ max <= args.landing_cap
  BY OptionTypes, AcceptedOptions DEF max
<1>3. max * args.depth \in Nat /\ max <= max * args.depth
  <2>1. 0 < args.depth /\ max * 0 = 0
    BY <1>1, <1>2
  <2>2. max * args.depth \in Nat /\ max * 0 + max <= max * args.depth
    BY <1>1, <1>2, <2>1, ProductGrows
  <2> QED
    BY <1>1, <2>1, <2>2
<1>4. LandingLen = IF args.depth > 1 THEN Smaller(max * args.depth, args.landing_cap) ELSE max
  BY DEF LandingLen, max
<1>5. LandingLen \in Nat /\ max <= LandingLen
  BY <1>1, <1>2, <1>3, <1>4 DEF Smaller
<1>6. LandingOff(i) \in Nat /\ LandingOff(i) + Size <= LandingLen
  <2>1. PICK size \in Nat \ {0}, len \in Nat : size = Size /\ len = LandingLen
    BY <1>1, <1>5
  <2>2. size <= len
    BY <1>1, <1>5, <2>1
  <2>3. bw_slot_off(i, size, len) \in Nat /\ bw_slot_off(i, size, len) + size <= len
    BY <2>2, SlotFits
  <2> QED
    BY <2>1, <2>3 DEF LandingOff
<1> QED
  BY <1>1, <1>5, <1>6 DEF SgeInBounds

LEMMA Below ==
  ASSUME NEW n \in Nat
  PROVE  IsFiniteSet(0..n-1) /\ Cardinality(0..n-1) = n
<1>1. 0 \in Int /\ n-1 \in Int
  OBVIOUS
<1>2. /\ IsFiniteSet(0..n-1)
      /\ Cardinality(0..n-1) = IF 0 > n-1 THEN 0 ELSE (n-1) - 0 + 1
  BY <1>1, FS_Interval
<1> QED
  BY <1>2

LEMMA Injects ==
  ASSUME NEW S, NEW T, IsFiniteSet(T), NEW f \in [S -> T],
         \A x, y \in S : f[x] = f[y] => x = y
  PROVE  Cardinality(S) <= Cardinality(T)
<1>1. f \in Injection(S, T)
  BY Fun_IsInj
<1> QED
  BY <1>1, FS_Injection

\* Where no record is to come every jetty waits for fewer than Mod operations,
\* all unsignaled, and for no fence.
LEMMA SilentTail ==
  ASSUME TypeOK, Accepted, PassGood, crs = <<>>, Fabric!Silent, NEW j \in Queues
  PROVE  /\ fenced[j] => done[j] = posted[j]
         /\ done[j] < posted[j] => posted[j] % Mod # 0 /\ posted[j] - done[j] < Mod
<1>0. /\ TotalsGood /\ RequestsGood /\ RecordsCome /\ DoneGood
      /\ Mod \in Nat \ {0} /\ done[j] \in Nat /\ posted[j] \in Nat
  BY AcceptedOptions DEF PassGood, TypeOK
<1>1. Reported = <<>>
  BY ConcatEmptySeq DEF Reported, Fabric!Silent
<1>2. ASSUME NEW k \in DOMAIN sq[j]
      PROVE  /\ sq[j][k].ctx \in Nat /\ sq[j][k].ctx < FenceCtxMin
             /\ ~Signaled(sq[j][k].ctx) /\ Request(j, sq[j][k].ctx)
  <2>1. sq[j][k].ctx \in Nat /\ Request(j, sq[j][k].ctx)
    BY <1>0, RequestTypes DEF RequestsGood
  <2>2. ~AsksRecord(sq[j][k].ctx)
    BY <1>0 DEF RequestsGood, Fabric!Silent
  <2>3. FenceCtxMin \in Nat
    BY DEF FenceCtxMin, FenceCtxBase
  <2> HIDE DEF FenceCtxMin
  <2> QED
    BY <2>1, <2>2, <2>3 DEF AsksRecord
<1>3. ASSUME NEW r \in Nat, UnderWay(j, r)
      PROVE  r < posted[j] /\ (r + 1) % Mod # 0
  <2>1. DOMAIN Reported = {}
    BY <1>1
  <2>2. PICK k \in DOMAIN sq[j] : Place(sq[j][k].ctx) = r
    BY <1>3, <2>1 DEF UnderWay
  <2>3. PICK c \in Nat : c = sq[j][k].ctx
    BY <1>2
  <2>4. c < FenceCtxMin /\ ~Signaled(c) /\ Request(j, c) /\ Place(c) = r
    BY <1>2, <2>2, <2>3
  <2>5. Place(c) = bw_op_rank(c) /\ Place(c) < posted[j]
    BY <1>0, <2>4, RequestFacts
  <2> QED
    BY <2>4, <2>5 DEF Signaled, Mod
<1>4. ASSUME NEW r \in done[j] .. posted[j]-1
      PROVE  (r + 1) % Mod # 0
  <2>1. r \in Nat
    BY <1>0
  <2> QED
    BY <1>0, <1>3, <2>1 DEF RecordsCome
<1>5. fenced[j] => done[j] = posted[j]
  BY <1>0, <1>3 DEF RecordsCome
<1>6. ASSUME done[j] < posted[j] PROVE posted[j] % Mod # 0
  <2>1. posted[j] - 1 \in done[j] .. posted[j]-1 /\ (posted[j] - 1) + 1 = posted[j]
    BY <1>0, <1>6
  <2> QED
    BY <1>4, <2>1
<1>7. ASSUME done[j] < posted[j] PROVE posted[j] - done[j] < Mod
  <2>1. done[j] % Mod = 0
    BY <1>0, <1>5, <1>7 DEF DoneGood
  <2>2. (done[j] + Mod) % Mod = 0
    BY <1>0, <2>1, Multiples
  <2> SUFFICES ASSUME Mod <= posted[j] - done[j] PROVE FALSE
    BY <1>0
  <2>3. PICK m \in Nat \ {0} : m = Mod
    BY <1>0
  <2>4. (done[j] + m) - 1 \in done[j] .. posted[j]-1 /\ ((done[j] + m) - 1) + 1 = done[j] + m
    BY <1>0, <2>3
  <2> QED
    BY <1>4, <2>2, <2>3, <2>4
<1> QED
  BY <1>5, <1>6, <1>7

\* So a pass that waits where no record is to come has filled its pipeline with
\* unsignaled operations of several jetties.
LEMMA PassMoves ==
  ASSUME TypeOK, Accepted, PassGood, crs = <<>>, Fabric!Silent, AllPosted, ~PassComplete
  PROVE  ~PipelineMoves
<1>0. /\ TotalsGood /\ PostedGood /\ Shape /\ Mod \in Nat \ {0} /\ Mod <= args.depth
      /\ args.jetties \in 1..MaxJetties /\ args.jetties \in Nat \ {0} /\ args.depth \in Nat
      /\ next \in Nat /\ doneTotal \in Nat /\ MaxJetties \in Nat
  BY AcceptedOptions, ParametersAssumption DEF PassGood, TypeOK
<1>1. ASSUME NEW j \in Queues
      PROVE  /\ done[j] \in Nat /\ posted[j] \in Nat /\ done[j] <= posted[j]
             /\ fenced[j] => done[j] = posted[j]
             /\ done[j] < posted[j] => posted[j] % Mod # 0 /\ posted[j] - done[j] < Mod
  BY <1>0, SilentTail DEF TypeOK, TotalsGood
<1>2. ASSUME NEW j \in Queues, done[j] < posted[j]
      PROVE  j \in 0..args.jetties-1
  <2>1. j \in Nat
    BY DEF Queues
  <2>2. CASE j >= args.jetties
    <3>1. posted[j] = 0
      BY <1>0, <2>1, <2>2 DEF PostedGood, Share
    <3> QED
      BY <1>1, <1>2, <3>1
  <2> QED
    BY <1>0, <2>1, <2>2
<1>3. \/ StopPosting(next, expired) /\ Room /\ Unfenced = {}
      \/ ~Room
  BY DEF AllPosted, FenceDue
<1>4. ASSUME StopPosting(next, expired), Unfenced = {}
      PROVE  FALSE
  <2>1. ASSUME NEW j \in Queues, done[j] < posted[j]
        PROVE  FALSE
    <3>1. ~fenced[j] /\ posted[j] % Mod # 0 /\ j \in 0..args.jetties-1
          /\ posted[j] - done[j] < Mod /\ posted[j] \in Nat /\ done[j] \in Nat
      BY <1>1, <1>2, <2>1
    <3>2. Mod > 1
      BY <1>0, <2>1, <3>1
    <3>3. bw_tail_uncovered(posted[j])
      BY <3>1, <3>2 DEF bw_tail_uncovered, Mod
    <3> QED
      BY <1>4, <3>1, <3>3 DEF Unfenced
  <2>2. Pending = {}
    <3> SUFFICES ASSUME NEW p \in Pending PROVE FALSE
      OBVIOUS
    <3>1. p[1] \in Queues /\ p[2] \in Nat /\ done[p[1]] <= p[2] /\ p[2] < posted[p[1]]
      BY DEF Pending
    <3>2. done[p[1]] < posted[p[1]]
      BY <1>1, <3>1
    <3> QED
      BY <2>1, <3>1, <3>2
  <2>3. next = doneTotal
    BY <1>0, <2>2, FS_EmptySet DEF TotalsGood
  <2> QED
    BY <1>4, <2>3 DEF PassComplete
<1>5. ASSUME ~Room PROVE ~PipelineMoves
  <2> DEFINE J == 0..args.jetties-1
             U == 0..(Mod-1)-1
             f == [p \in Pending |-> <<p[1], p[2] - done[p[1]]>>]
  <2>1. IsFiniteSet(J) /\ Cardinality(J) = args.jetties
    BY <1>0, Below
  <2>2. IsFiniteSet(U) /\ Cardinality(U) = Mod - 1
    <3>1. Mod - 1 \in Nat
      BY <1>0
    <3> QED
      BY <3>1, Below
  <2>3. IsFiniteSet(J \X U) /\ Cardinality(J \X U) = args.jetties * (Mod - 1)
    <3> HIDE DEF J, U
    <3>1. IsFiniteSet(J \X U) /\ Cardinality(J \X U) = Cardinality(J) * Cardinality(U)
      BY <2>1, <2>2, FS_Product
    <3> QED
      BY <2>1, <2>2, <3>1
  <2>4. ASSUME NEW p \in Pending
        PROVE  p = <<p[1], p[2]>> /\ p[1] \in Queues /\ p[1] \in J /\ p[2] \in Nat
               /\ done[p[1]] \in Nat /\ p[2] - done[p[1]] \in U
    <3>1. p = <<p[1], p[2]>> /\ p[1] \in Queues /\ p[2] \in Nat
          /\ done[p[1]] <= p[2] /\ p[2] < posted[p[1]]
      BY DEF Pending
    <3>2. done[p[1]] \in Nat /\ posted[p[1]] \in Nat /\ done[p[1]] < posted[p[1]]
      BY <1>1, <3>1
    <3>3. posted[p[1]] - done[p[1]] < Mod /\ p[1] \in J
      BY <1>1, <1>2, <3>1, <3>2
    <3>4. p[2] - done[p[1]] \in U
      <4>1. PICK a \in Nat, b \in Nat, r \in Nat, m \in Nat \ {0} :
              a = done[p[1]] /\ b = posted[p[1]] /\ r = p[2] /\ m = Mod
        BY <1>0, <3>1, <3>2
      <4>2. a <= r /\ r < b /\ b - a < m
        BY <3>1, <3>3, <4>1
      <4>3. r - a \in 0..(m-1)-1
        BY <4>2
      <4> QED
        BY <4>1, <4>3
    <3> QED
      BY <3>1, <3>2, <3>3, <3>4
  <2>5. f \in [Pending -> J \X U]
    BY <2>4
  <2>6. ASSUME NEW p \in Pending, NEW q \in Pending, f[p] = f[q]
        PROVE  p = q
    <3>1. p[1] = q[1] /\ p[2] - done[p[1]] = q[2] - done[q[1]]
      BY <2>6
    <3>2. p[2] = q[2]
      BY <2>4, <3>1
    <3> QED
      BY <2>4, <3>1, <3>2
  <2>7. Cardinality(Pending) <= args.jetties * (Mod - 1)
    <3> HIDE DEF f, J, U
    <3>1. Cardinality(Pending) <= Cardinality(J \X U)
      BY <2>3, <2>5, <2>6, Injects
    <3> QED
      BY <2>3, <3>1
  <2>8. next - doneTotal = Cardinality(Pending) /\ Cardinality(Pending) \in Nat
        /\ next - doneTotal >= args.depth
    <3>1. Cardinality(Pending) \in Nat
      BY <1>0, FS_CardinalityType DEF TotalsGood
    <3> QED
      BY <1>0, <1>5, <3>1 DEF TotalsGood, Room
  <2>9. args.depth <= args.jetties * (Mod - 1)
    <3>1. args.jetties * (Mod - 1) \in Nat
      BY <1>0
    <3> QED
      BY <1>0, <2>7, <2>8, <3>1
  <2>10. args.jetties # 1
    BY <1>0, <2>9
  <2> QED
    BY <1>0, <2>9, <2>10 DEF PipelineMoves, Mod
<1> QED
  BY <1>3, <1>4, <1>5

LEMMA FaultsStick ==
  ASSUME TypeOK, [Next]_vars, faulty
  PROVE  faulty'
<1>1. UNCHANGED fabric => faulty' = faulty
  BY DEF fabric
<1>2. CASE Environment
  <2>1. PICK j \in Queues : Fabric!Execute(j) \/ Fabric!Deliver(j)
    BY <1>2 DEF Environment, Fabric!Fabric
  <2> QED
    BY <2>1, ExecuteFacts, DeliverFacts
<1>3. CASE CheckOptions \/ EndLatency \/ StartBandwidth \/ EndPass \/ CountRecord \/ Tick
           \/ UNCHANGED vars
  BY <1>1, <1>3 DEF CheckOptions, EndLatency, NextSize, StartBandwidth, EndPass, CountRecord,
                    Tick, vars
<1>4. CASE PostSerial
  BY <1>1, <1>4 DEF PostSerial, Fabric!Post, Fabric!PostRefused
<1>5. CASE WaitReadSpin \/ PollRecords
  BY <1>5 DEF WaitReadSpin, PollRecords, Fabric!Poll, Fabric!TimedOut, Fabric!PollRefused
<1>6. CASE PostChunk
  BY <1>1, <1>6 DEF PostChunk, Fabric!Post, Fabric!PostRefused
<1>7. CASE PostFence
  BY <1>7 DEF PostFence, Fabric!Post, Fabric!PostRefused
<1> QED
  BY <1>2, <1>3, <1>4, <1>5, <1>6, <1>7 DEF Next, Program

\* The record a serialized operation waits for comes.
LEMMA SpinHears ==
  ASSUME TypeOK, SerialGood, pc = "spin"
  PROVE  ~Fabric!Silent
<1>1. CASE cq = <<>> /\ Len(sq[0]) = 1 /\ sq[0][1].signaled
  <2>1. 1 \in DOMAIN sq[0] /\ 0 \in Queues
    BY <1>1, QueueZero, RequestTypes
  <2> QED
    BY <1>1, <2>1 DEF Fabric!Silent
<1>2. CASE Len(cq) = 1
  <2>1. cq # <<>>
    BY <1>2
  <2> QED
    BY <2>1 DEF Fabric!Silent
<1> QED
  BY <1>1, <1>2 DEF SerialGood

\* A list without operations is the deadline's doing.
LEMMA EmptyChunk ==
  ASSUME TypeOK, Accepted, ~StopPosting(next, expired), Room, NEW late, ChunkEnds(0, late)
  PROVE  args.duration
<1>1. next \in Nat /\ doneTotal \in Nat /\ args.depth \in Nat /\ args.post_list \in Nat \ {0}
  BY AcceptedOptions DEF TypeOK, Shape
<1>2. next % args.post_list \in 0..args.post_list-1
  BY <1>1, DivMod
<1>3. next + 0 = next
  BY <1>1
<1>4. 0 # args.post_list - (next % args.post_list)
  BY <1>1, <1>2
<1>5. ~(next + 0 - doneTotal >= args.depth)
  BY <1>1 DEF Room
<1>6. StopPosting(next, late)
  BY <1>3, <1>4, <1>5 DEF ChunkEnds
<1> QED
  BY <1>6 DEF StopPosting

LEMMA NeverFailsStep ==
  ASSUME TypeOK, SerialGood, FaultsGood, pc = "pass" => PassGood, NeverFails, [Next]_vars
  PROVE  NeverFails'
<1> DEFINE Allowed == {"none"} \cup (IF args.duration THEN {"Invalid"} ELSE {})
                               \cup (IF PipelineMoves THEN {} ELSE {"PollTimeout"})
<1>1. args' = args
  BY DEF Next, vars, Program, CheckOptions, PostSerial, WaitReadSpin, EndLatency, NextSize,
         StartBandwidth, PostChunk, PostFence, EndPass, PollRecords, CountRecord,
         Environment, Tick
<1>2. Accepted' = Accepted /\ PipelineMoves' = PipelineMoves
  BY <1>1, SameOptions DEF PipelineMoves, Mod
<1> SUFFICES ASSUME ~faulty', Accepted, args.landing_cap >= Swept[Len(Swept)]
             PROVE  err' \in Allowed
  BY <1>1, <1>2 DEF NeverFails
<1>3. ~faulty
  BY FaultsStick
<1>4. err \in Allowed
  BY <1>3 DEF NeverFails
<1> HIDE DEF Allowed
<1>5. ASSUME err' = err PROVE err' \in Allowed
  BY <1>4, <1>5
<1>6. CASE CheckOptions
  BY <1>5, <1>6 DEF CheckOptions
<1>7. CASE PostSerial
  <2>1. SgeInBounds(0)
    <3>1. row \in DOMAIN Swept
      BY <1>7 DEF PostSerial, TypeOK
    <3>2. 0 \in Nat
      OBVIOUS
    <3> QED
      BY <3>1, <3>2, WindowsFit
  <2>2. err' = err
    BY <1>7, <2>1 DEF PostSerial, Fabric!PostRefused
  <2> QED
    BY <1>5, <2>2
<1>8. CASE WaitReadSpin
  <2>1. pc = "spin"
    BY <1>8 DEF WaitReadSpin
  <2>2. CASE Fabric!Poll(1)
    <3>1. crs = <<>> /\ cq[1].ctx = ReadCtx /\ Len(cq) = 1 /\ cq \in Seq(Records)
      BY <2>1, <2>2, SpinPolls DEF TypeOK
    <3>2. Reported = cq /\ 1 \in DOMAIN cq
      BY <3>1, ConcatEmptySeq DEF Reported
    <3>3. cq[1].success
      BY <1>3, <3>2 DEF FaultsGood
    <3>4. cq # <<>>
      BY <3>1
    <3>5. err' = err
      BY <1>8, <3>1, <3>3, <3>4 DEF WaitReadSpin, Fabric!TimedOut, Fabric!PollRefused
    <3> QED
      BY <1>5, <3>5
  <2>3. CASE Fabric!TimedOut
    BY <2>1, <2>3, SpinHears DEF Fabric!TimedOut
  <2>4. CASE Fabric!PollRefused
    BY <2>4 DEF Fabric!PollRefused
  <2> QED
    BY <1>8, <2>2, <2>3, <2>4 DEF WaitReadSpin
<1>9. CASE PostChunk
  <2>1. PICK k \in 0..args.post_list, late \in BOOLEAN :
          /\ ChunkEnds(k, late)
          /\ \/ UNCHANGED err
             \/ faulty' = TRUE
             \/ /\ k = 0 \/ \E i \in next..next+k-1 : ~SgeInBounds(LandingOff(i))
                /\ Fail("Invalid")
    BY <1>9 DEF PostChunk, Fabric!PostRefused
  <2>2. CASE UNCHANGED err
    BY <1>5, <2>2
  <2>3. CASE k = 0 /\ Fail("Invalid")
    <3>1. args.duration
      BY <1>9, <2>1, <2>3, EmptyChunk DEF PostChunk
    <3> QED
      BY <2>3, <3>1 DEF Fail, Allowed
  <2>4. CASE \E i \in next..next+k-1 : ~SgeInBounds(LandingOff(i))
    <3>1. row \in DOMAIN Swept
      BY <1>9 DEF PostChunk, TypeOK
    <3>2. PICK i \in next..next+k-1 : ~SgeInBounds(LandingOff(i))
      BY <2>4
    <3>3. i \in Nat
      <4>1. next \in Nat /\ k \in Nat
        BY OptionTypes DEF TypeOK
      <4> QED
        BY <4>1
    <3> QED
      BY <3>1, <3>2, <3>3, WindowsFit
  <2> QED
    BY <2>1, <2>2, <2>3, <2>4
<1>10. CASE PostFence
  <2>1. err' = err
    BY <1>10 DEF PostFence, Fabric!PostRefused
  <2> QED
    BY <1>5, <2>1
<1>11. CASE PollRecords
  <2>1. pc = "pass" /\ crs = <<>> /\ AllPosted /\ ~PassComplete
    BY <1>11 DEF PollRecords
  <2>2. CASE UNCHANGED err
    BY <1>5, <2>2
  <2>3. CASE Fabric!TimedOut /\ Fail("PollTimeout")
    <3>1. Fabric!Silent
      BY <2>3 DEF Fabric!TimedOut
    <3>2. ~PipelineMoves
      BY <2>1, <3>1, PassMoves
    <3> QED
      BY <2>3, <3>2 DEF Fail, Allowed
  <2>4. CASE Fabric!PollRefused
    BY <2>4 DEF Fabric!PollRefused
  <2> QED
    BY <1>11, <2>2, <2>3, <2>4 DEF PollRecords
<1>12. CASE CountRecord
  <2>1. /\ DOMAIN Reported = 1..Len(Reported) /\ Len(Reported) = Len(crs) + Len(cq)
        /\ crs \in Seq(Records) /\ cq \in Seq(Records) /\ crs # <<>>
    BY <1>12, ReportedType DEF CountRecord, TypeOK
  <2>2. 1 \in DOMAIN Reported /\ Reported[1] = Head(crs)
    <3>1. Len(crs) \in Nat /\ Len(cq) \in Nat /\ Len(crs) > 0 /\ Head(crs) = crs[1]
      BY <2>1
    <3>2. Reported[1] = crs[1]
      BY <2>1, <3>1 DEF Reported
    <3> QED
      BY <2>1, <3>1, <3>2
  <2>3. Head(crs).success
    BY <1>3, <2>2 DEF FaultsGood
  <2>4. err' = err
    BY <1>12, <2>3 DEF CountRecord
  <2> QED
    BY <1>5, <2>4
<1>13. CASE EndLatency \/ StartBandwidth \/ EndPass \/ Environment \/ Tick \/ UNCHANGED vars
  BY <1>5, <1>13 DEF EndLatency, NextSize, StartBandwidth, EndPass, Environment, Tick, vars
<1> QED
  BY <1>6, <1>7, <1>8, <1>9, <1>10, <1>11, <1>12, <1>13 DEF Next, Program

LEMMA WarmStep ==
  ASSUME OpsPassIsWarm, [Next]_vars
  PROVE  OpsPassIsWarm'
<1>1. args' = args
  BY DEF Next, vars, Program, CheckOptions, PostSerial, WaitReadSpin, EndLatency, NextSize,
         StartBandwidth, PostChunk, PostFence, EndPass, PollRecords, CountRecord,
         Environment, Tick
<1>2. CASE StartBandwidth
  BY <1>1, <1>2 DEF StartBandwidth, EnterPass, OpsPassIsWarm
<1>3. CASE EndPass
  BY <1>1, <1>3 DEF EndPass, EnterPass, NextSize, OpsPassIsWarm
<1>4. CASE CheckOptions \/ PostSerial \/ WaitReadSpin \/ EndLatency
  BY <1>4 DEF CheckOptions, PostSerial, WaitReadSpin, EndLatency, NextSize, Fail, OpsPassIsWarm
<1>5. CASE PostChunk \/ PostFence \/ PollRecords \/ CountRecord \/ Environment \/ Tick
           \/ UNCHANGED vars
  <2>1. phase' = phase /\ warmed' = warmed /\ (pc' = "pass" => pc = "pass")
    BY <1>5 DEF PostChunk, PostFence, PollRecords, CountRecord, Environment, Tick, vars
  <2> QED
    BY <1>1, <2>1 DEF OpsPassIsWarm
<1> QED
  BY <1>2, <1>3, <1>4, <1>5 DEF Next, Program

-----------------------------------------------------------------------------
(* The invariant.                                                          *)

LEMMA PipelineInit == Init => PipelineInv
<1> SUFFICES ASSUME Init PROVE PipelineInv
  OBVIOUS
<1>1. TypeOK
  BY TypeInit
<1>2. /\ pc = "start" /\ row = 1 /\ crs = <<>> /\ err = "none" /\ faulty = FALSE
      /\ cq = <<>> /\ \A j \in Queues : sq[j] = <<>>
  BY DEF Init, Fabric!Init
<1>3. Reported = <<>>
  BY <1>2, ConcatEmptySeq DEF Reported
<1>4. SerialGood
  BY <1>2 DEF SerialGood, Fabric!Idle
<1>5. FaultsGood
  <2>1. DOMAIN Reported = {} /\ \A j \in Queues : DOMAIN sq[j] = {}
    BY <1>2, <1>3
  <2> QED
    BY <1>2, <2>1 DEF FaultsGood
<1>6. NeverFails /\ OpsPassIsWarm
  BY <1>2 DEF NeverFails, OpsPassIsWarm
<1> QED
  BY <1>1, <1>2, <1>4, <1>5, <1>6 DEF PipelineInv

LEMMA PipelineStep == PipelineInv /\ [Next]_vars => PipelineInv'
<1> SUFFICES ASSUME PipelineInv, [Next]_vars PROVE PipelineInv'
  OBVIOUS
<1>1. TypeOK /\ SerialGood /\ FaultsGood /\ NeverFails /\ OpsPassIsWarm /\ (pc = "pass" => PassGood)
  BY DEF PipelineInv
<1>2. TypeOK'
  BY <1>1, TypeStep
<1>3. SerialGood'
  BY <1>1, SerialStep
<1>4. FaultsGood'
  BY <1>1, FaultsStep
<1>5. NeverFails'
  BY <1>1, NeverFailsStep
<1>6. OpsPassIsWarm'
  BY <1>1, WarmStep
<1>7. pc' = "pass" => PassGood'
  BY <1>1, PassStep
<1> QED
  BY <1>2, <1>3, <1>4, <1>5, <1>6, <1>7 DEF PipelineInv

\* What relates the counters of bw_pass, the queues and the CQ holds in every
\* state of every run.
THEOREM PipelineInvariant == Spec => []PipelineInv
<1>1. Init => PipelineInv
  BY PipelineInit
<1>2. PipelineInv /\ [Next]_vars => PipelineInv'
  BY PipelineStep
<1> QED
  BY <1>1, <1>2, PTL DEF Spec

-----------------------------------------------------------------------------
(* What follows.                                                           *)

LEMMA IdleAtRest ==
  ASSUME PipelineInv, AtRest
  PROVE  Fabric!Idle /\ crs = <<>>
<1>1. TypeOK /\ SerialGood /\ (pc = "pass" => PassGood)
  BY DEF PipelineInv
<1>2. CASE pc \in {"serial", "done"}
  BY <1>1, <1>2 DEF SerialGood
<1>3. CASE pc = "pass" /\ next = 0
  <2>1. Accepted /\ doneTotal >= next
    BY <1>1, <1>3 DEF SerialGood, TypeOK
  <2> QED
    BY <1>1, <1>3, <2>1, PassIdle
<1> QED
  BY <1>2, <1>3 DEF AtRest

LEMMA Isolated == PipelineInv => PassesIsolated
  BY IdleAtRest DEF PassesIsolated

LEMMA Seen == PipelineInv => FailureIsSeen
<1> SUFFICES ASSUME PipelineInv, AtRest PROVE ~faulty
  BY DEF FailureIsSeen
<1>1. FaultsGood /\ pc # "failed"
  BY DEF PipelineInv, AtRest
<1> QED
  BY <1>1, IdleAtRest, IdleIsSound

LEMMA Exact == PipelineInv => CountIsExact
<1> SUFFICES ASSUME PipelineInv, pc = "pass" PROVE CountIsExact
  BY DEF CountIsExact
<1>1. TypeOK /\ Accepted /\ TotalsGood /\ RequestsGood
  BY DEF PipelineInv, SerialGood, PassGood
<1>2. ASSUME NEW j \in Queues, NEW c \in Nat, Request(j, c), c < FenceCtxMin
      PROVE  ~Counted(c)
  <2>1. bw_op_jetty(c) = j /\ Place(c) = bw_op_rank(c) /\ Place(c) \in Nat /\ done[j] <= Place(c)
        /\ done[j] \in Nat
    BY <1>1, <1>2, RequestFacts DEF TypeOK
  <2> QED
    BY <2>1 DEF Counted
<1>3. ASSUME NEW j \in Queues, NEW k \in DOMAIN sq[j], sq[j][k].ctx < FenceCtxMin
      PROVE  ~Counted(sq[j][k].ctx)
  BY <1>1, <1>2, <1>3, RequestTypes DEF RequestsGood
<1>4. ASSUME NEW k \in DOMAIN Reported, Reported[k].ctx < FenceCtxMin
      PROVE  ~Counted(Reported[k].ctx)
  <2>1. Reported[k].ctx \in Nat
    BY <1>1, ReportedType DEF Records
  <2>2. PICK c \in Nat : c = Reported[k].ctx
    BY <2>1
  <2>3. RecordJetty(c) \in Queues /\ Request(RecordJetty(c), c)
    BY <1>1, <2>2 DEF RequestsGood
  <2>4. PICK j \in Queues : j = RecordJetty(c)
    BY <2>3
  <2> QED
    BY <1>2, <1>4, <2>2, <2>3, <2>4
<1>5. 1..Len(crs) + Len(cq) = DOMAIN Reported /\ Reported = crs \o cq
  BY <1>1, ReportedType DEF Reported
<1>6. doneTotal >= next => done = posted
  BY <1>1, AllCounted
<1> QED
  BY <1>3, <1>4, <1>5, <1>6 DEF CountIsExact

\* The operations of one jetty are among those the pipeline counts.
LEMMA ColumnFits ==
  ASSUME TypeOK, TotalsGood, NEW j \in Queues
  PROVE  posted[j] - done[j] <= args.depth
<1>1. /\ done[j] \in Nat /\ posted[j] \in Nat /\ done[j] <= posted[j]
      /\ IsFiniteSet(Pending) /\ next = doneTotal + Cardinality(Pending)
      /\ next - doneTotal <= args.depth /\ args.depth \in Nat /\ next \in Nat /\ doneTotal \in Nat
  BY OptionTypes DEF TypeOK, TotalsGood
<1> DEFINE C == {j} \X (done[j] .. posted[j]-1)
<1>2. IsFiniteSet(C) /\ Cardinality(C) = posted[j] - done[j]
  BY <1>1, Column
<1>3. C \in SUBSET Pending
  BY <1>1 DEF Pending
<1> HIDE DEF C
<1>4. Cardinality(C) <= Cardinality(Pending) /\ Cardinality(Pending) \in Nat
  BY <1>1, <1>3, FS_Subset, FS_CardinalityType
<1> QED
  BY <1>1, <1>2, <1>4

\* A record on the CQ stands for an operation that is pending, or for the one
\* fence of its jetty.
LEMMA RecordsFit ==
  ASSUME TypeOK, Accepted, PassGood
  PROVE  Len(cq) <= args.depth + args.jetties
<1>0. /\ TotalsGood /\ RequestsGood /\ OrderGood /\ DoneGood
      /\ args.jetties \in Nat /\ args.depth \in Nat /\ next \in Nat /\ doneTotal \in Nat
  BY OptionTypes DEF PassGood, TypeOK
<1>1. /\ Len(crs) \in Nat /\ Len(cq) \in Nat /\ crs \in Seq(Records) /\ cq \in Seq(Records)
      /\ DOMAIN Reported = 1 .. Len(crs) + Len(cq)
  BY ReportedType DEF TypeOK
<1> DEFINE ctx(k) == Reported[Len(crs) + k].ctx
           jetty(k) == RecordJetty(ctx(k))
           J == 0..args.jetties-1
           F == J \X {-1}
           T == Pending \cup F
           f == [k \in 1..Len(cq) |-> IF ctx(k) >= FenceCtxMin THEN <<jetty(k), -1>>
                                                               ELSE <<jetty(k), Place(ctx(k))>>]
<1>2. ASSUME NEW k \in 1..Len(cq)
      PROVE  /\ ctx(k) \in Nat /\ jetty(k) \in Queues /\ Request(jetty(k), ctx(k))
  <2>1. Len(crs) + k \in DOMAIN Reported
    BY <1>1
  <2> QED
    BY <1>0, <2>1, ReportedType DEF RequestsGood, Records
<1>3. ASSUME NEW k \in 1..Len(cq)
      PROVE  /\ Place(ctx(k)) \in Nat
             /\ ctx(k) >= FenceCtxMin => /\ jetty(k) \in J
                                         /\ Place(ctx(k)) = posted[jetty(k)]
             /\ ~(ctx(k) >= FenceCtxMin) => <<jetty(k), Place(ctx(k))>> \in Pending
  <2>1. PICK c \in Nat : c = ctx(k)
    BY <1>2
  <2>2. PICK j \in Queues : j = RecordJetty(c)
    BY <1>2, <2>1
  <2>3. Request(j, c)
    BY <1>2, <2>1, <2>2
  <2>4. /\ Place(c) \in Nat /\ done[j] <= Place(c)
        /\ c >= FenceCtxMin => fenced[j] /\ Place(c) = posted[j]
        /\ c < FenceCtxMin => Place(c) < posted[j]
    BY <1>0, <2>3, RequestFacts
  <2>5. c >= FenceCtxMin => j \in J
    <3>1. j \in Nat
      BY DEF Queues
    <3>2. fenced[j] => j < args.jetties
      BY <1>0 DEF DoneGood
    <3> QED
      BY <1>0, <2>4, <3>1, <3>2
  <2>6. ~(c >= FenceCtxMin) => c < FenceCtxMin
    <3>1. FenceCtxMin \in Nat
      BY DEF FenceCtxMin, FenceCtxBase
    <3> HIDE DEF FenceCtxMin
    <3> QED
      BY <3>1
  <2>7. ~(c >= FenceCtxMin) => <<j, Place(c)>> \in Pending
    BY <2>4, <2>6 DEF Pending
  <2> QED
    BY <2>1, <2>2, <2>4, <2>5, <2>7
<1>4. ASSUME NEW k \in 1..Len(cq), NEW m \in 1..Len(cq), k < m, jetty(k) = jetty(m)
      PROVE  Place(ctx(k)) < Place(ctx(m))
  <2>1. Len(crs) + k \in DOMAIN Reported /\ Len(crs) + m \in DOMAIN Reported
        /\ Len(crs) + k < Len(crs) + m
    BY <1>1, <1>4
  <2> QED
    BY <1>0, <1>4, <2>1 DEF OrderGood
<1>5. IsFiniteSet(T) /\ Cardinality(T) = Cardinality(Pending) + args.jetties
  <2>1. IsFiniteSet(J) /\ Cardinality(J) = args.jetties
    BY <1>0, Below
  <2>2. IsFiniteSet({-1}) /\ Cardinality({-1}) = 1
    BY FS_Singleton
  <2>3. IsFiniteSet(F) /\ Cardinality(F) = args.jetties
    <3> HIDE DEF J
    <3>1. IsFiniteSet(F) /\ Cardinality(F) = Cardinality(J) * Cardinality({-1})
      BY <2>1, <2>2, FS_Product
    <3> QED
      BY <1>0, <2>1, <2>2, <3>1
  <2>4. Pending \cap F = {}
    BY DEF Pending
  <2>5. IsFiniteSet(Pending)
    BY <1>0 DEF TotalsGood
  <2> HIDE DEF F
  <2> QED
    BY <2>3, <2>4, <2>5, DisjointUnion
<1>6. f \in [1..Len(cq) -> T]
  <2>1. ASSUME NEW k \in 1..Len(cq) PROVE f[k] \in T
    <3>1. CASE ctx(k) >= FenceCtxMin
      <4>1. f[k] = <<jetty(k), -1>> /\ jetty(k) \in J
        BY <1>3, <3>1
      <4> QED
        BY <4>1
    <3>2. CASE ~(ctx(k) >= FenceCtxMin)
      <4>1. f[k] = <<jetty(k), Place(ctx(k))>> /\ f[k] \in Pending
        BY <1>3, <3>2
      <4> QED
        BY <4>1
    <3> QED
      BY <3>1, <3>2
  <2> HIDE DEF T
  <2> QED
    BY <2>1
<1>7. ASSUME NEW k \in 1..Len(cq), NEW m \in 1..Len(cq), f[k] = f[m]
      PROVE  jetty(k) = jetty(m) /\ Place(ctx(k)) = Place(ctx(m))
  <2>1. Place(ctx(k)) \in Nat /\ Place(ctx(m)) \in Nat
    BY <1>3
  <2>2. f[k] = IF ctx(k) >= FenceCtxMin THEN <<jetty(k), -1>> ELSE <<jetty(k), Place(ctx(k))>>
    OBVIOUS
  <2>3. f[m] = IF ctx(m) >= FenceCtxMin THEN <<jetty(m), -1>> ELSE <<jetty(m), Place(ctx(m))>>
    OBVIOUS
  <2>4. ctx(k) >= FenceCtxMin => Place(ctx(k)) = posted[jetty(k)]
    BY <1>3
  <2>5. ctx(m) >= FenceCtxMin => Place(ctx(m)) = posted[jetty(m)]
    BY <1>3
  <2> HIDE DEF f, jetty, ctx
  <2>6. CASE ctx(k) >= FenceCtxMin /\ ctx(m) >= FenceCtxMin
    <3>1. <<jetty(k), -1>> = <<jetty(m), -1>>
      BY <1>7, <2>2, <2>3, <2>6
    <3>2. jetty(k) = jetty(m)
      BY <3>1
    <3> QED
      BY <2>4, <2>5, <2>6, <3>2
  <2>7. CASE ctx(k) >= FenceCtxMin /\ ~(ctx(m) >= FenceCtxMin)
    <3>1. <<jetty(k), -1>> = <<jetty(m), Place(ctx(m))>>
      BY <1>7, <2>2, <2>3, <2>7
    <3>2. Place(ctx(m)) = -1
      BY <3>1
    <3> QED
      BY <2>1, <3>2
  <2>8. CASE ~(ctx(k) >= FenceCtxMin) /\ ctx(m) >= FenceCtxMin
    <3>1. <<jetty(k), Place(ctx(k))>> = <<jetty(m), -1>>
      BY <1>7, <2>2, <2>3, <2>8
    <3>2. Place(ctx(k)) = -1
      BY <3>1
    <3> QED
      BY <2>1, <3>2
  <2>9. CASE ~(ctx(k) >= FenceCtxMin) /\ ~(ctx(m) >= FenceCtxMin)
    <3>1. <<jetty(k), Place(ctx(k))>> = <<jetty(m), Place(ctx(m))>>
      BY <1>7, <2>2, <2>3, <2>9
    <3> QED
      BY <3>1
  <2> QED
    BY <2>6, <2>7, <2>8, <2>9
<1>8. ASSUME NEW k \in 1..Len(cq), NEW m \in 1..Len(cq), f[k] = f[m]
      PROVE  k = m
  <2>1. jetty(k) = jetty(m) /\ Place(ctx(k)) = Place(ctx(m)) /\ Place(ctx(k)) \in Nat
    BY <1>3, <1>7, <1>8
  <2>2. ~(k < m) /\ ~(m < k)
    BY <1>4, <2>1
  <2> QED
    BY <2>2
<1>9. Cardinality(1..Len(cq)) <= Cardinality(T)
  <2> HIDE DEF f, T
  <2> QED
    BY <1>5, <1>6, <1>8, Injects
<1>10. Cardinality(1..Len(cq)) = Len(cq)
  <2>1. 1 \in Int /\ Len(cq) \in Int
    BY <1>1
  <2>2. Cardinality(1..Len(cq)) = IF 1 > Len(cq) THEN 0 ELSE Len(cq) - 1 + 1
    BY <2>1, FS_Interval
  <2> QED
    BY <1>1, <2>2
<1>11. Cardinality(Pending) \in Nat /\ Cardinality(Pending) <= args.depth
  <2>1. Cardinality(Pending) \in Nat
    BY <1>0, FS_CardinalityType DEF TotalsGood
  <2> QED
    BY <1>0, <2>1 DEF TotalsGood
<1> HIDE DEF T
<1> QED
  BY <1>0, <1>1, <1>5, <1>9, <1>10, <1>11

LEMMA Fit == PipelineInv => QueuesFit
<1> SUFFICES ASSUME PipelineInv, pc = "pass" PROVE QueuesFit
  BY DEF QueuesFit
<1>1. TypeOK /\ Accepted /\ TotalsGood /\ PassGood
  BY DEF PipelineInv, SerialGood, PassGood
<1>2. args.depth \in Nat /\ args.jetties \in Nat /\ args.jetties >= 1 /\ DefaultDepth \in Nat
  BY <1>1, AcceptedOptions, OptionTypes, ParametersAssumption
<1>3. QDepth \in Nat /\ args.depth + args.jetties <= QDepth
  BY <1>2 DEF QDepth, Larger
<1>4. Len(cq) <= QDepth
  <2>1. Len(cq) \in Nat
    BY <1>1 DEF TypeOK
  <2> QED
    BY <1>1, <1>2, <1>3, <2>1, RecordsFit
<1>5. ASSUME NEW j \in Queues
      PROVE  posted[j] - done[j] + (IF fenced[j] /\ done[j] < posted[j] THEN 1 ELSE 0) <= QDepth
  <2>1. posted[j] - done[j] <= args.depth /\ posted[j] \in Nat /\ done[j] \in Nat
    BY <1>1, ColumnFits DEF TypeOK
  <2> QED
    BY <1>2, <1>3, <2>1
<1> QED
  BY <1>4, <1>5 DEF QueuesFit

LEMMA RankOnOneJetty ==
  ASSUME Shape, args.jetties = 1, NEW i \in Nat
  PROVE  bw_op_rank(i) = i
<1>1. args.post_list \in Nat \ {0}
  BY DEF Shape
<1>2. PICK L \in Nat \ {0} : L = args.post_list
  BY <1>1
<1>3. L * 1 = L
  BY <1>2
<1>4. i \div L \in Nat /\ i % L \in Nat /\ i = L * (i \div L) + (i % L)
  <2>1. i \div L \in Nat /\ (i % L) \in 0..L-1 /\ i = L * (i \div L) + (i % L)
    BY <1>2, DivMod
  <2> QED
    BY <1>2, <2>1
<1>5. bw_op_rank(i) = (i \div L) * L + (i % L)
  BY <1>2, <1>3 DEF bw_op_rank
<1>6. \A q \in Nat : q * L = L * q
  BY <1>2
<1> QED
  BY <1>4, <1>5, <1>6

\* The sizes of a sweep that runs.
LEMMA SizeTypes ==
  ASSUME TypeOK, Accepted, row \in DOMAIN Swept
  PROVE  /\ Size \in Nat \ {0} /\ Size <= SizeLimit /\ LandingLen \in Nat
<1>1. row \in 1..Len(Swept) /\ Len(Swept) \in DOMAIN Swept /\ Swept \in Seq(Nat \ {0})
  BY SweptDomain, SweptSizes, AcceptedOptions
<1>2. Size \in Nat \ {0} /\ Size <= SizeLimit
  BY <1>1, SweptSizes DEF Size
<1>3. PICK max \in Nat : max = Swept[Len(Swept)]
  BY <1>1
<1>4. max * args.depth \in Nat /\ args.landing_cap \in Nat
  BY OptionTypes
<1>5. LandingLen = IF args.depth > 1 THEN Smaller(max * args.depth, args.landing_cap) ELSE max
  BY <1>3 DEF LandingLen
<1> QED
  BY <1>2, <1>4, <1>5 DEF Smaller

LEMMA Disjoint == PipelineInv => LandingDisjoint
<1> SUFFICES ASSUME PipelineInv, pc = "pass", args.jetties = 1,
                    LandingLen \div Size >= args.depth
             PROVE  LandingDisjoint
  BY DEF LandingDisjoint
<1>1. /\ TypeOK /\ Accepted /\ Shape /\ TotalsGood /\ RequestsGood /\ OrderGood
      /\ row \in DOMAIN Swept /\ args.depth \in Nat
  BY AcceptedOptions DEF PipelineInv, SerialGood, PassGood, TypeOK
<1>2. PICK size \in Nat \ {0}, len \in Nat : size = Size /\ len = LandingLen
  BY <1>1, SizeTypes
<1>3. /\ done[0] \in Nat /\ posted[0] \in Nat /\ posted[0] - done[0] <= args.depth
  BY <1>1, QueueZero, ColumnFits DEF TypeOK
<1>4. ASSUME NEW k \in DOMAIN sq[0], sq[0][k].ctx < FenceCtxMin
      PROVE  /\ sq[0][k].ctx \in Nat /\ Place(sq[0][k].ctx) = sq[0][k].ctx
             /\ done[0] <= sq[0][k].ctx /\ sq[0][k].ctx < posted[0]
  <2>1. sq[0][k].ctx \in Nat /\ Request(0, sq[0][k].ctx)
    BY <1>1, QueueZero, RequestTypes DEF RequestsGood
  <2>2. PICK c \in Nat : c = sq[0][k].ctx
    BY <2>1
  <2>3. Place(c) = bw_op_rank(c) /\ done[0] <= Place(c) /\ Place(c) < posted[0]
    BY <1>1, <1>4, <2>1, <2>2, QueueZero, RequestFacts
  <2>4. bw_op_rank(c) = c
    BY <1>1, RankOnOneJetty
  <2> QED
    BY <2>2, <2>3, <2>4
<1>5. ASSUME NEW k \in DOMAIN sq[0], NEW m \in DOMAIN sq[0], k < m,
             sq[0][k].ctx < FenceCtxMin, sq[0][m].ctx < FenceCtxMin
      PROVE  LandingOff(sq[0][k].ctx) # LandingOff(sq[0][m].ctx)
  <2>1. PICK a \in Nat, b \in Nat : a = sq[0][k].ctx /\ b = sq[0][m].ctx
    BY <1>4, <1>5
  <2>2. /\ Place(a) = a /\ Place(b) = b /\ done[0] <= a /\ b < posted[0]
    BY <1>4, <1>5, <2>1
  <2>3. a < b
    BY <1>1, <1>5, <2>1, <2>2, QueueZero DEF OrderGood
  <2>4. b - a < len \div size
    <3>1. len \div size \in Nat /\ args.depth <= len \div size
      BY <1>2, DivMod
    <3> QED
      BY <1>1, <1>3, <2>2, <2>3, <3>1
  <2>5. bw_slot_off(a, size, len) # bw_slot_off(b, size, len)
    BY <2>3, <2>4, SlotsApart
  <2> QED
    BY <1>2, <2>1, <2>5 DEF LandingOff
<1>6. \A k \in DOMAIN sq[0] : k \in Nat
  BY QueueZero, RequestTypes
<1>7. ASSUME NEW k \in DOMAIN sq[0], NEW m \in DOMAIN sq[0], k # m,
             sq[0][k].ctx < FenceCtxMin, sq[0][m].ctx < FenceCtxMin
      PROVE  LandingOff(sq[0][k].ctx) # LandingOff(sq[0][m].ctx)
  <2>1. k < m \/ m < k
    BY <1>6, <1>7
  <2> QED
    BY <1>5, <1>7, <2>1
<1> QED
  BY <1>7 DEF LandingDisjoint

LEMMA InBounds == PipelineInv => RemoteInBounds
<1> SUFFICES ASSUME PipelineInv, pc = "pass", NEW j \in Queues, NEW k \in DOMAIN sq[j]
             PROVE  RemoteOff(sq[j][k].ctx) + Size <= SegLen
  BY DEF RemoteInBounds
<1>1. TypeOK /\ Accepted /\ row \in DOMAIN Swept
  BY DEF PipelineInv, SerialGood, TypeOK
<1>2. PICK size \in Nat \ {0} : size = Size /\ size <= SizeLimit
  BY <1>1, SizeTypes
<1>3. SegLen \in Nat /\ size <= SegLen
  BY <1>2, ParametersAssumption
<1>4. PICK i \in Nat : i = sq[j][k].ctx
  BY <1>1, RequestTypes
<1>5. bw_slot_off(i, size, SegLen) + size <= SegLen
  BY <1>3, SlotFits
<1> QED
  BY <1>2, <1>4, <1>5 DEF RemoteOff

-----------------------------------------------------------------------------
(* The theorems.                                                           *)

\* Every variable of one_sided_run, run_bw_iters and bw_pass has its type; row
\* is an index into the swept sizes whenever a size is run.
THEOREM TypeCorrect == Spec => []TypeOK
<1>1. PipelineInv => TypeOK
  BY DEF PipelineInv
<1> QED
  BY <1>1, PipelineInvariant, PTL

\* The accounting of bw_pass is exact at any moderation and jetty count: no
\* operation is counted before its record, or a later signaled one of its jetty,
\* has been looked at, and when the total is reached every jetty's is.
THEOREM CountingIsExact == Spec => []CountIsExact
  BY Exact, PipelineInvariant, PTL

\* When a pass returns, and before a verify, no work request and no record of
\* an earlier pass is left, the fences included.
THEOREM PassesStayIsolated == Spec => []PassesIsolated
  BY Isolated, PipelineInvariant, PTL

\* No pass returns, and no verify goes on, after a work request has failed: its
\* record is looked at before the pass can be complete.
THEOREM FailuresAreSeen == Spec => []FailureIsSeen
  BY Seen, PipelineInvariant, PTL

\* The CQ and the jetties that one_sided_run creates with qdepth never overflow,
\* with the fences on top of a full pipeline.
THEOREM QueuesNeverOverflow == Spec => []QueuesFit
  BY Fit, PipelineInvariant, PTL

\* A sweep whose options are accepted fails only when the fabric refuses, fails
\* or delays something, except for a deadline that goes by between two tests of
\* the posting loop and a pipeline that holds unsignaled operations only.
THEOREM SweepNeverFails == Spec => []NeverFails
<1>1. PipelineInv => NeverFails
  BY DEF PipelineInv
<1> QED
  BY <1>1, PipelineInvariant, PTL

\* On one jetty bw_slot_off gives the operations in flight disjoint windows of
\* the landing buffer.
THEOREM WindowsApart == Spec => []LandingDisjoint
  BY Disjoint, PipelineInvariant, PTL

\* bw_slot_off keeps the remote end of every operation within the peer's
\* segment.
THEOREM RemoteWindowsFit == Spec => []RemoteInBounds
  BY InBounds, PipelineInvariant, PTL

\* run_bw_iters makes the warmup pass its options ask for before the timed one.
THEOREM TimedAfterWarmup == Spec => []OpsPassIsWarm
<1>1. PipelineInv => OpsPassIsWarm
  BY DEF PipelineInv
<1> QED
  BY <1>1, PipelineInvariant, PTL
=============================================================================
