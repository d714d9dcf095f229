--------------------------- MODULE BwLedgerProofs ---------------------------
(***************************************************************************)
(* bw_pass keeps the ledger of its operations: BwPipeline implements       *)
(* PassLedger, for any command lines, device limits and sizes and any      *)
(* behaviour of the fabric.                                                *)
(***************************************************************************)
EXTENDS BwPipelineProofs

-----------------------------------------------------------------------------
(* Which operations are counted: those below the jetty's share.            *)

\* Quotient and remainder are ordered as the numbers are.
LEMMA DivOrder ==
  ASSUME NEW b \in Nat \ {0}, NEW i \in Nat, NEW n \in Nat, i < n
  PROVE  i \div b < n \div b \/ (i \div b = n \div b /\ i % b < n % b)
<1> DEFINE p == i \div b
           q == n \div b
           r == i % b
           s == n % b
<1>1. p \in Nat /\ r \in 0..b-1 /\ i = b * p + r
  BY DivMod
<1>2. q \in Nat /\ s \in 0..b-1 /\ n = b * q + s
  BY DivMod
<1> HIDE DEF p, q, r, s
<1>3. b * p \in Nat /\ b * q \in Nat
  BY <1>1, <1>2
<1>4. ~(q < p)
  <2> SUFFICES ASSUME q < p PROVE FALSE
    OBVIOUS
  <2>1. b * q + b <= b * p
    BY <1>1, <1>2, ProductGrows
  <2> QED
    BY <2>1, <1>1, <1>2, <1>3
<1>5. p = q => r < s
  BY <1>1, <1>2, <1>3
<1>6. p < q \/ (p = q /\ r < s)
  BY <1>1, <1>2, <1>4, <1>5
<1> QED
  BY <1>6 DEF p, q, r, s

\* Operation i is below its jetty's share of the first n.
LEMMA RankBelowShare ==
  ASSUME Shape, NEW n \in Nat, NEW i \in Nat, i < n
  PROVE  bw_op_rank(i) < Share(n, bw_op_jetty(i))
<1> DEFINE L == args.post_list
           J == args.jetties
           a == i \div L
           b == n \div L
           p == a \div J
           q == b \div J
           t == a % J
           u == b % J
           r == i % L
           s == n % L
<1>1. L \in Nat \ {0} /\ J \in Nat \ {0}
  BY DEF Shape
<1>2. bw_op_jetty(i) = t /\ bw_op_rank(i) = p * L + r
  BY OpSplit DEF bw_op_jetty
<1>3. Share(n, t) = IF t >= J THEN 0
                    ELSE q * L + (IF t < u THEN L ELSE IF t = u THEN s ELSE 0)
  BY DEF Share
<1> HIDE DEF L, J
<1>4. a \in Nat /\ b \in Nat /\ r \in 0..L-1 /\ s \in 0..L-1
  BY <1>1, DivMod
<1>5. a < b \/ (a = b /\ r < s)
  BY <1>1, DivOrder
<1> HIDE DEF a, b, r, s
<1>6. p \in Nat /\ q \in Nat /\ t \in 0..J-1 /\ u \in 0..J-1
  BY <1>1, <1>4, DivMod
<1>7. a < b => p < q \/ (p = q /\ t < u)
  BY <1>1, <1>4, DivOrder
<1>8. a = b => p = q /\ t = u
  OBVIOUS
<1> HIDE DEF p, q, t, u
<1>9. L * p \in Nat /\ L * q \in Nat /\ p * L = L * p /\ q * L = L * q
  BY <1>1, <1>6
<1>10. ~(t >= J)
  BY <1>1, <1>6
<1>11. CASE p < q
  <2>1. L * p + L <= L * q
    BY <1>1, <1>6, <1>11, ProductGrows
  <2>2. Share(n, t) >= L * q
    BY <1>1, <1>3, <1>4, <1>9, <1>10
  <2>3. p * L + r < L * q
    BY <2>1, <1>1, <1>4, <1>9
  <2>4. Share(n, t) \in Nat
    BY <1>1, <1>3, <1>4, <1>9, <1>10
  <2> QED
    BY <2>2, <2>3, <2>4, <1>1, <1>2, <1>4, <1>9
<1>12. CASE p = q /\ t < u
  BY <1>1, <1>2, <1>3, <1>4, <1>9, <1>10, <1>12
<1>13. CASE p = q /\ t = u /\ r < s
  <2>1. Share(n, t) = L * q + s
    BY <1>3, <1>6, <1>9, <1>10, <1>13
  <2> QED
    BY <2>1, <1>1, <1>2, <1>4, <1>9, <1>13
<1> QED
  BY <1>5, <1>7, <1>8, <1>11, <1>12, <1>13

\* Jetty and rank tell the operations apart.
LEMMA RankTells ==
  ASSUME Shape, NEW i \in Nat, NEW m \in Nat,
         bw_op_jetty(i) = bw_op_jetty(m), bw_op_rank(i) = bw_op_rank(m)
  PROVE  i = m
<1>1. ASSUME NEW x \in Nat, NEW y \in Nat, x < y,
             bw_op_jetty(x) = bw_op_jetty(y), bw_op_rank(x) = bw_op_rank(y)
      PROVE  FALSE
  <2>1. Share(y, bw_op_jetty(y)) = bw_op_rank(y)
    BY ShareIsRank
  <2>2. bw_op_rank(x) < Share(y, bw_op_jetty(x))
    BY <1>1, RankBelowShare
  <2> QED
    BY <2>1, <2>2, <1>1, OpSplit
<1>2. ~(i < m) /\ ~(m < i)
  BY <1>1
<1> QED
  BY <1>2

-----------------------------------------------------------------------------
(* The ledger of a pass.                                                   *)

Fates == {"posted", "executed", "failed", "counted"}

PassLedgerOf == IF pc = "pass" THEN [i \in 1..next |-> FateOf(i - 1)] ELSE <<>>

\* Operation i is in a queue in that state.
Held(i, state) ==
    \E j \in Queues : \E k \in DOMAIN sq[j] : sq[j][k].ctx = i /\ sq[j][k].state = state

\* Its record tells that it has failed.
Refuted(i) == \E k \in DOMAIN Reported : Reported[k].ctx = i /\ ~Reported[k].success

LEMMA FateIs ==
  ASSUME NEW i
  PROVE  FateOf(i) = IF Counted(i) THEN "counted"
                     ELSE IF Held(i, "posted") THEN "posted"
                     ELSE IF Held(i, "failed") \/ Refuted(i) THEN "failed" ELSE "executed"
  BY DEF FateOf, Held, Refuted, Reported

LEMMA FateBecomes ==
  ASSUME NEW i
  PROVE  FateOf(i)' = IF Counted(i)' THEN "counted"
                      ELSE IF Held(i, "posted")' THEN "posted"
                      ELSE IF Held(i, "failed")' \/ Refuted(i)' THEN "failed" ELSE "executed"
  BY DEF FateOf, Held, Refuted, Reported

LEMMA SameFate ==
  ASSUME NEW i, Counted(i)' <=> Counted(i), Held(i, "posted")' <=> Held(i, "posted"),
         (Held(i, "failed") \/ Refuted(i))' <=> (Held(i, "failed") \/ Refuted(i))
  PROVE  FateOf(i)' = FateOf(i)
  BY FateIs, FateBecomes

LEMMA SameCount ==
  ASSUME args' = args, done' = done, NEW i \in Nat
  PROVE  Counted(i)' <=> Counted(i)
  BY SameOptions DEF Counted

LedgerTyped ==
    pc = "pass" => /\ PassLedgerOf \in Seq(Fates) /\ Len(PassLedgerOf) = next
                   /\ DOMAIN PassLedgerOf = 1..next
                   /\ \A i \in 1..next : PassLedgerOf[i] = FateOf(i - 1)

LEMMA LedgerShape == TypeOK => LedgerTyped
<1> SUFFICES ASSUME TypeOK, pc = "pass"
             PROVE  /\ PassLedgerOf \in Seq(Fates) /\ Len(PassLedgerOf) = next
                    /\ DOMAIN PassLedgerOf = 1..next
                    /\ \A i \in 1..next : PassLedgerOf[i] = FateOf(i - 1)
  BY DEF LedgerTyped
<1> DEFINE l == [i \in 1..next |-> FateOf(i - 1)]
<1>1. next \in Nat /\ PassLedgerOf = l
  BY DEF TypeOK, PassLedgerOf
<1>2. \A i : FateOf(i) \in Fates
  BY DEF FateOf, Fates
<1>3. l \in [1..next -> Fates]
  BY <1>2
<1>4. /\ l \in Seq(Fates) /\ Len(l) = next /\ DOMAIN l = 1..next
      /\ \A i \in 1..next : l[i] = FateOf(i - 1)
  <2>1. l \in Seq(Fates)
    <3> HIDE DEF l
    <3> QED
      BY <1>1, <1>3
  <2>2. DOMAIN l = 1..next /\ \A i \in 1..next : l[i] = FateOf(i - 1)
    OBVIOUS
  <2> HIDE DEF l
  <2>3. Len(l) = next
    BY <1>1, <2>1, <2>2
  <2> QED
    BY <2>1, <2>2, <2>3
<1> HIDE DEF l
<1> QED
  BY <1>1, <1>4

\* An operation of the pass, and where its request is when it has one.
LEMMA Operation ==
  ASSUME PipelineInv, pc = "pass", NEW i \in 0..next-1
  PROVE  /\ i \in Nat /\ i < FenceCtxMin /\ bw_op_jetty(i) \in Queues /\ bw_op_rank(i) \in Nat
         /\ bw_op_rank(i) < posted[bw_op_jetty(i)]
         /\ \A j \in Queues : \A k \in DOMAIN sq[j] :
               sq[j][k].ctx = i => /\ j = bw_op_jetty(i) /\ Place(i) = bw_op_rank(i)
                                   /\ ~Counted(i)
         /\ \A k \in DOMAIN Reported :
               Reported[k].ctx = i => /\ RecordJetty(i) = bw_op_jetty(i)
                                      /\ Place(i) = bw_op_rank(i) /\ ~Counted(i)
<1>1. TypeOK /\ Accepted /\ TotalsGood /\ PostedGood /\ RequestsGood
  BY DEF PipelineInv, SerialGood, PassGood
<1>2. next \in Nat /\ next <= FenceCtxMin /\ i \in Nat /\ i < next /\ i < FenceCtxMin
  BY <1>1 DEF TypeOK, TotalsGood, FenceCtxMin, FenceCtxBase
<1>3. Shape /\ args.jetties \in 1..MaxJetties /\ MaxJetties \in Nat
  BY <1>1, AcceptedOptions, ParametersAssumption
<1>4. bw_op_jetty(i) \in Queues /\ bw_op_rank(i) \in Nat
  <2>1. bw_op_jetty(i) \in 0..args.jetties-1 /\ bw_op_rank(i) \in Nat
    BY <1>2, <1>3, OpSplit
  <2> QED
    BY <2>1, <1>3 DEF Queues
<1>5. bw_op_rank(i) < posted[bw_op_jetty(i)]
  <2>1. posted[bw_op_jetty(i)] = Share(next, bw_op_jetty(i))
    BY <1>1, <1>4 DEF PostedGood
  <2> QED
    BY <2>1, <1>2, <1>3, RankBelowShare
<1>6. ~(i >= FenceCtxMin)
  BY <1>2 DEF FenceCtxMin, FenceCtxBase
<1>7. Place(i) = bw_op_rank(i) /\ RecordJetty(i) = bw_op_jetty(i)
  BY <1>6 DEF Place, RecordJetty
<1>8. CountIsExact
  BY Exact
<1>9. ASSUME NEW j \in Queues, NEW k \in DOMAIN sq[j], sq[j][k].ctx = i
      PROVE  j = bw_op_jetty(i) /\ ~Counted(i)
  <2>1. Request(j, i)
    BY <1>1, <1>9 DEF RequestsGood
  <2>2. RecordJetty(i) = j /\ done[j] <= bw_op_rank(i)
    BY <1>1, <1>2, <1>7, <2>1, RequestFacts
  <2>3. done[j] \in Nat
    BY <1>1 DEF TypeOK
  <2> QED
    BY <2>2, <2>3, <1>4, <1>7 DEF Counted
<1>10. ASSUME NEW k \in DOMAIN Reported, Reported[k].ctx = i
       PROVE  ~Counted(i)
  <2>1. Request(RecordJetty(i), i)
    BY <1>1, <1>10 DEF RequestsGood
  <2>2. done[bw_op_jetty(i)] <= bw_op_rank(i)
    BY <1>1, <1>2, <1>4, <1>7, <2>1, RequestFacts
  <2>3. done[bw_op_jetty(i)] \in Nat
    BY <1>1, <1>4 DEF TypeOK
  <2> QED
    BY <2>2, <2>3, <1>4 DEF Counted
<1> QED
  BY <1>2, <1>4, <1>5, <1>7, <1>9, <1>10

\* An operation has one request, or one record, or neither.
LEMMA OneRequest ==
  ASSUME PipelineInv, pc = "pass", NEW i \in 0..next-1,
         NEW j \in Queues, NEW k \in DOMAIN sq[j], sq[j][k].ctx = i
  PROVE  /\ \A h \in Queues : \A m \in DOMAIN sq[h] : sq[h][m].ctx = i => h = j /\ m = k
         /\ \A m \in DOMAIN Reported : Reported[m].ctx # i
<1>1. TypeOK /\ Accepted /\ OrderGood
  BY DEF PipelineInv, SerialGood, PassGood
<1>2. j = bw_op_jetty(i) /\ Place(i) = bw_op_rank(i) /\ bw_op_rank(i) \in Nat
  BY Operation
<1>3. ASSUME NEW h \in Queues, NEW m \in DOMAIN sq[h], sq[h][m].ctx = i
      PROVE  h = j /\ m = k
  <2>1. h = j
    BY <1>2, <1>3, Operation
  <2>2. m \in DOMAIN sq[j]
    BY <1>3, <2>1
  <2>3. m \in Nat /\ k \in Nat
    BY <1>1, <2>2, RequestTypes
  <2>4. m < k => Place(i) < Place(i)
    BY <1>1, <1>3, <2>1, <2>2 DEF OrderGood
  <2>5. k < m => Place(i) < Place(i)
    BY <1>1, <1>3, <2>1, <2>2 DEF OrderGood
  <2> QED
    BY <1>2, <2>1, <2>3, <2>4, <2>5
<1>4. ASSUME NEW m \in DOMAIN Reported, Reported[m].ctx = i
      PROVE  FALSE
  <2>1. RecordJetty(i) = j
    BY <1>2, <1>4, Operation
  <2>2. Place(i) < Place(i)
    BY <1>1, <1>4, <2>1 DEF OrderGood
  <2> QED
    BY <1>2, <2>2
<1> QED
  BY <1>3, <1>4

\* The operations that are not counted are no more than Depth.
OpenBound ==
    pc = "pass" => LET open == {i \in 1..next : ~Counted(i - 1)}
                   IN IsFiniteSet(open) /\ Cardinality(open) <= args.depth

LEMMA OpenFits == PipelineInv => OpenBound
<1> SUFFICES ASSUME PipelineInv, pc = "pass"
             PROVE  LET open == {i \in 1..next : ~Counted(i - 1)}
                    IN IsFiniteSet(open) /\ Cardinality(open) <= args.depth
  BY DEF OpenBound
<1> DEFINE open == {i \in 1..next : ~Counted(i - 1)}
           f == [i \in open |-> <<bw_op_jetty(i - 1), bw_op_rank(i - 1)>>]
<1>1. TypeOK /\ Accepted /\ TotalsGood /\ Shape
  BY AcceptedOptions DEF PipelineInv, SerialGood, PassGood
<1>2. next \in Nat /\ doneTotal \in Nat /\ args.depth \in Nat
  BY <1>1, OptionTypes DEF TypeOK
<1>3. ASSUME NEW i \in open
      PROVE  f[i] \in Pending
  <2>1. i - 1 \in 0..next-1 /\ ~Counted(i - 1)
    BY <1>2
  <2>2. PICK x \in 0..next-1 : x = i - 1
    BY <2>1
  <2>3. /\ bw_op_jetty(x) \in Queues /\ bw_op_rank(x) \in Nat
        /\ bw_op_rank(x) < posted[bw_op_jetty(x)]
    BY Operation
  <2>4. done[bw_op_jetty(x)] \in Nat /\ ~(bw_op_rank(x) < done[bw_op_jetty(x)])
    BY <1>1, <2>1, <2>2, <2>3 DEF TypeOK, Counted
  <2>5. done[bw_op_jetty(x)] <= bw_op_rank(x)
    BY <2>3, <2>4
  <2>6. <<bw_op_jetty(x), bw_op_rank(x)>> \in Pending
    BY <2>3, <2>5 DEF Pending
  <2> QED
    BY <2>2, <2>6
<1>4. ASSUME NEW i \in open, NEW m \in open, f[i] = f[m]
      PROVE  i = m
  <2>1. PICK x \in Nat : x = i - 1
    BY <1>2
  <2>2. PICK y \in Nat : y = m - 1
    BY <1>2
  <2>3. bw_op_jetty(x) = bw_op_jetty(y) /\ bw_op_rank(x) = bw_op_rank(y)
    BY <1>4, <2>1, <2>2
  <2>4. x = y
    BY <1>1, <2>3, RankTells
  <2> QED
    BY <2>1, <2>2, <2>4, <1>2
<1>5. f \in [open -> Pending]
  BY <1>3
<1>6. IsFiniteSet(Pending) /\ Cardinality(Pending) <= args.depth
  <2>1. IsFiniteSet(Pending) /\ Cardinality(Pending) \in Nat
    BY <1>1, FS_CardinalityType DEF TotalsGood
  <2> QED
    BY <1>1, <1>2, <2>1 DEF TotalsGood
<1> HIDE DEF open, f
<1>7. f \in Injection(open, Pending)
  BY <1>4, <1>5, Fun_IsInj
<1>8. IsFiniteSet(open) /\ Cardinality(open) <= Cardinality(Pending)
  BY <1>6, <1>7, FS_Injection
<1>9. Cardinality(open) \in Nat /\ Cardinality(Pending) \in Nat
  BY <1>6, <1>8, FS_CardinalityType
<1>10. Cardinality(open) <= args.depth
  BY <1>2, <1>6, <1>8, <1>9
<1> QED
  BY <1>8, <1>10 DEF open

-----------------------------------------------------------------------------
(* What a step of a pass does to the fates of its operations.              *)

\* Polling, the clock.
LEMMA RestFates ==
  ASSUME args' = args, done' = done, sq' = sq, Reported' = Reported, NEW i \in Nat
  PROVE  FateOf(i)' = FateOf(i)
<1>1. Counted(i)' <=> Counted(i)
  BY SameCount
<1>2. /\ Held(i, "posted")' <=> Held(i, "posted")
      /\ Held(i, "failed")' <=> Held(i, "failed")
      /\ Refuted(i)' <=> Refuted(i)
  BY DEF Held, Refuted
<1> QED
  BY <1>1, <1>2, SameFate

\* Requests with other contexts are added to a queue.
LEMMA PostFates ==
  ASSUME TypeOK, NEW j \in Queues, NEW wrs \in Seq(Asked), Fabric!Post(j, wrs),
         args' = args, done' = done, crs' = crs, NEW i \in Nat,
         \A x \in 1..Len(wrs) : wrs[x].ctx # i
  PROVE  FateOf(i)' = FateOf(i)
<1>1. Counted(i)' <=> Counted(i)
  BY SameCount
<1>2. /\ cq' = cq /\ \A h \in Queues \ {j} : sq'[h] = sq[h]
      /\ DOMAIN sq'[j] = 1 .. Len(sq[j]) + Len(wrs)
      /\ \A k \in DOMAIN sq[j] : k \in DOMAIN sq'[j] /\ sq'[j][k] = sq[j][k]
      /\ \A x \in 1..Len(wrs) : sq'[j][Len(sq[j]) + x].ctx = wrs[x].ctx
  BY PostFacts
<1>3. DOMAIN sq[j] = 1..Len(sq[j]) /\ Len(sq[j]) \in Nat /\ Len(wrs) \in Nat
  BY RequestTypes
<1>4. Refuted(i)' <=> Refuted(i)
  BY <1>2 DEF Refuted, Reported
<1>5. ASSUME NEW state PROVE Held(i, state)' <=> Held(i, state)
  <2>1. ASSUME NEW k \in DOMAIN sq'[j], sq'[j][k].ctx = i
        PROVE  k \in DOMAIN sq[j]
    <3>1. CASE k \in 1..Len(sq[j])
      BY <1>3, <3>1
    <3>2. CASE k \notin 1..Len(sq[j])
      <4>1. k - Len(sq[j]) \in 1..Len(wrs) /\ Len(sq[j]) + (k - Len(sq[j])) = k
        BY <1>2, <1>3, <3>2
      <4>2. PICK x \in 1..Len(wrs) : x = k - Len(sq[j])
        BY <4>1
      <4> QED
        BY <1>2, <2>1, <4>1, <4>2
    <3> QED
      BY <3>1, <3>2
  <2>2. ASSUME Held(i, state)' PROVE Held(i, state)
    <3>1. PICK h \in Queues : \E k \in DOMAIN sq'[h] : sq'[h][k].ctx = i /\ sq'[h][k].state = state
      BY <2>2 DEF Held
    <3>2. PICK k \in DOMAIN sq'[h] : sq'[h][k].ctx = i /\ sq'[h][k].state = state
      BY <3>1
    <3>3. k \in DOMAIN sq[h] /\ sq'[h][k] = sq[h][k]
      BY <1>2, <2>1, <3>2
    <3> QED
      BY <3>2, <3>3 DEF Held
  <2>3. ASSUME Held(i, state) PROVE Held(i, state)'
    <3>1. PICK h \in Queues : \E k \in DOMAIN sq[h] : sq[h][k].ctx = i /\ sq[h][k].state = state
      BY <2>3 DEF Held
    <3>2. PICK k \in DOMAIN sq[h] : sq[h][k].ctx = i /\ sq[h][k].state = state
      BY <3>1
    <3>3. k \in DOMAIN sq'[h] /\ sq'[h][k] = sq[h][k]
      BY <1>2, <3>2
    <3> QED
      BY <3>2, <3>3 DEF Held
  <2> QED
    BY <2>2, <2>3
<1> QED
  BY <1>1, <1>4, <1>5, SameFate

\* A record appears: what it tells was known of its request, and the requests
\* that vanish with it have executed.
LEMMA DeliverFates ==
  ASSUME TypeOK, NEW j \in Queues, Fabric!Deliver(j),
         args' = args, done' = done, crs' = crs, NEW i \in Nat
  PROVE  FateOf(i)' = FateOf(i)
<1>1. Counted(i)' <=> Counted(i)
  BY SameCount
<1>2. PICK k \in DOMAIN sq[j] :
         /\ DOMAIN sq'[j] = 1 .. Len(sq[j]) - k
         /\ \A m \in DOMAIN sq'[j] : m + k \in DOMAIN sq[j] /\ sq'[j][m] = sq[j][m + k]
         /\ cq' = Append(cq, [ctx |-> sq[j][k].ctx, success |-> sq[j][k].state = "ok"])
         /\ [ctx |-> sq[j][k].ctx, success |-> sq[j][k].state = "ok"] \in Records
         /\ sq[j][k].state # "posted"
         /\ \A m \in 1..k-1 : sq[j][m].state = "ok"
  BY DeliverFacts
<1>3. \A h \in Queues \ {j} : sq'[h] = sq[h]
  BY DeliverFacts
<1>4. DOMAIN sq[j] = 1..Len(sq[j]) /\ Len(sq[j]) \in Nat /\ sq[j][k] \in WorkRequests
  BY RequestTypes
<1>5. PICK rec \in Records : rec = [ctx |-> sq[j][k].ctx, success |-> sq[j][k].state = "ok"]
  BY <1>2
<1>6. cq' = Append(cq, rec) /\ rec.ctx = sq[j][k].ctx /\ (rec.success <=> sq[j][k].state = "ok")
  BY <1>2, <1>5
<1>7. /\ DOMAIN Reported' = 1 .. Len(Reported) + 1 /\ DOMAIN Reported = 1..Len(Reported)
      /\ Len(Reported) \in Nat
      /\ \A m \in DOMAIN Reported : m \in DOMAIN Reported' /\ Reported'[m] = Reported[m]
      /\ Len(Reported) + 1 \in DOMAIN Reported' /\ Reported'[Len(Reported) + 1] = rec
  BY <1>6, RecordAppears, ReportedType
<1>8. ASSUME NEW state, Held(i, state)' PROVE Held(i, state)
  <2>1. PICK h \in Queues : \E m \in DOMAIN sq'[h] : sq'[h][m].ctx = i /\ sq'[h][m].state = state
    BY <1>8 DEF Held
  <2>2. PICK m \in DOMAIN sq'[h] : sq'[h][m].ctx = i /\ sq'[h][m].state = state
    BY <2>1
  <2>3. CASE h = j
    BY <1>2, <2>2, <2>3 DEF Held
  <2>4. CASE h # j
    BY <1>3, <2>2, <2>4 DEF Held
  <2> QED
    BY <2>3, <2>4
<1>9. ASSUME NEW state \in {"posted", "failed"}, NEW h \in Queues, NEW m \in DOMAIN sq[h],
             sq[h][m].ctx = i, sq[h][m].state = state
      PROVE  Held(i, state)' \/ (state = "failed" /\ h = j /\ m = k)
  <2>1. CASE h # j
    BY <1>3, <1>9, <2>1 DEF Held
  <2>2. CASE h = j /\ m \in 1..k-1
    BY <1>2, <1>9, <2>2
  <2>3. CASE h = j /\ m = k
    BY <1>2, <1>9, <2>3
  <2>4. CASE h = j /\ m \in k+1..Len(sq[j])
    <3>1. m - k \in DOMAIN sq'[j] /\ (m - k) + k = m
      BY <1>2, <1>4, <2>4
    <3>2. sq'[j][m - k] = sq[j][m]
      BY <1>2, <3>1
    <3> QED
      BY <1>9, <2>4, <3>1, <3>2 DEF Held
  <2>5. h = j => m \in 1..k-1 \/ m = k \/ m \in k+1..Len(sq[j])
    BY <1>4
  <2> QED
    BY <2>1, <2>2, <2>3, <2>4, <2>5
<1>10. Held(i, "posted")' <=> Held(i, "posted")
  <2>1. ASSUME Held(i, "posted") PROVE Held(i, "posted")'
    <3>1. PICK h \in Queues : \E m \in DOMAIN sq[h] : sq[h][m].ctx = i /\ sq[h][m].state = "posted"
      BY <2>1 DEF Held
    <3> QED
      BY <3>1, <1>9
  <2> QED
    BY <1>8, <2>1
<1>11. Refuted(i) => Refuted(i)'
  BY <1>7 DEF Refuted
<1>12. ASSUME Held(i, "failed") PROVE Held(i, "failed")' \/ Refuted(i)'
  <2>1. PICK h \in Queues : \E m \in DOMAIN sq[h] : sq[h][m].ctx = i /\ sq[h][m].state = "failed"
    BY <1>12 DEF Held
  <2>2. PICK m \in DOMAIN sq[h] : sq[h][m].ctx = i /\ sq[h][m].state = "failed"
    BY <2>1
  <2>3. CASE Held(i, "failed")'
    BY <2>3
  <2>4. CASE h = j /\ m = k
    <3>1. rec.ctx = i /\ ~rec.success
      BY <1>6, <2>2, <2>4
    <3> QED
      BY <1>7, <3>1 DEF Refuted
  <2> QED
    BY <1>9, <2>2, <2>3, <2>4
<1>13. ASSUME Refuted(i)' PROVE Held(i, "failed") \/ Refuted(i)
  <2>1. PICK m \in DOMAIN Reported' : Reported'[m].ctx = i /\ ~Reported'[m].success
    BY <1>13 DEF Refuted
  <2>2. CASE m \in DOMAIN Reported
    BY <1>7, <2>1, <2>2 DEF Refuted
  <2>3. CASE m = Len(Reported) + 1
    <3>1. sq[j][k].ctx = i /\ sq[j][k].state # "ok"
      BY <1>6, <1>7, <2>1, <2>3
    <3>2. sq[j][k].state = "failed"
      BY <1>2, <1>4, <3>1 DEF WorkRequests
    <3> QED
      BY <3>1, <3>2 DEF Held
  <2> QED
    BY <1>7, <2>2, <2>3
<1>14. (Held(i, "failed") \/ Refuted(i))' <=> (Held(i, "failed") \/ Refuted(i))
  BY <1>8, <1>11, <1>12, <1>13
<1> QED
  BY <1>1, <1>10, <1>14, SameFate

\* One request changes its state.
LEMMA ExecutesOne ==
  ASSUME TypeOK, NEW j \in Queues, Fabric!Execute(j)
  PROVE  /\ cq' = cq
         /\ \E k \in DOMAIN sq[j], result \in {"ok", "failed"} :
               /\ sq[j][k].state = "posted" /\ k \in DOMAIN sq'[j]
               /\ sq'[j][k].state = result /\ sq'[j][k].ctx = sq[j][k].ctx
               /\ \A h \in Queues : DOMAIN sq'[h] = DOMAIN sq[h]
               /\ \A h \in Queues : \A m \in DOMAIN sq[h] :
                     h # j \/ m # k => sq'[h][m] = sq[h][m]
<1>1. PICK k \in DOMAIN sq[j], result \in {"ok", "failed"} :
          /\ sq[j][k].state = "posted"
          /\ sq' = [sq EXCEPT ![j][k].state = result]
  BY DEF Fabric!Execute
<1>2. /\ cq' = cq /\ \A h \in Queues : DOMAIN sq'[h] = DOMAIN sq[h]
      /\ \A h \in Queues : \A m \in DOMAIN sq[h] : sq'[h][m].ctx = sq[h][m].ctx
  BY ExecuteFacts
<1>3. sq \in [Queues -> Seq(WorkRequests)] /\ sq[j][k] \in WorkRequests
  BY RequestTypes DEF TypeOK
<1> DEFINE old == sq[j]
           entry == [old[k] EXCEPT !.state = result]
           new == [old EXCEPT ![k] = entry]
<1>4. sq' = [sq EXCEPT ![j] = new]
  BY <1>1
<1>5. new[k] = entry /\ \A m \in DOMAIN old : m # k => new[m] = old[m]
  BY <1>1
<1>6. entry.state = result
  BY <1>3 DEF WorkRequests
<1> HIDE DEF new, entry
<1>7. sq'[j] = new /\ \A h \in Queues : h # j => sq'[h] = sq[h]
  BY <1>3, <1>4
<1>8. k \in DOMAIN sq'[j] /\ sq'[j][k].state = result /\ sq'[j][k].ctx = sq[j][k].ctx
  BY <1>2, <1>5, <1>6, <1>7
<1>9. ASSUME NEW h \in Queues, NEW m \in DOMAIN sq[h], h # j \/ m # k
      PROVE  sq'[h][m] = sq[h][m]
  BY <1>5, <1>7, <1>9
<1> QED
  BY <1>1, <1>2, <1>8, <1>9

\* At most one operation leaves "posted", for "executed" or "failed".
LEMMA ExecuteFates ==
  ASSUME PipelineInv, pc = "pass", NEW j \in Queues, Fabric!Execute(j),
         args' = args, done' = done, crs' = crs
  PROVE  \/ \A i \in 0..next-1 : FateOf(i)' = FateOf(i)
         \/ \E c \in 0..next-1 :
               /\ FateOf(c) = "posted" /\ FateOf(c)' \in {"executed", "failed"}
               /\ \A i \in 0..next-1 : i # c => FateOf(i)' = FateOf(i)
<1>1. TypeOK
  BY DEF PipelineInv
<1>2. PICK k \in DOMAIN sq[j], result \in {"ok", "failed"} :
         /\ sq[j][k].state = "posted" /\ k \in DOMAIN sq'[j]
         /\ sq'[j][k].state = result /\ sq'[j][k].ctx = sq[j][k].ctx
         /\ \A h \in Queues : DOMAIN sq'[h] = DOMAIN sq[h]
         /\ \A h \in Queues : \A m \in DOMAIN sq[h] :
               h # j \/ m # k => sq'[h][m] = sq[h][m]
  BY <1>1, ExecutesOne
<1>3. Reported' = Reported
  BY <1>1, ExecutesOne DEF Reported
<1>4. PICK c \in Nat : c = sq[j][k].ctx
  BY <1>1, RequestTypes
<1>5. ASSUME NEW i \in Nat, i # c PROVE FateOf(i)' = FateOf(i)
  <2>1. ASSUME NEW h \in Queues, NEW m \in DOMAIN sq[h], sq[h][m].ctx = i \/ sq'[h][m].ctx = i
        PROVE  sq'[h][m] = sq[h][m]
    BY <1>2, <1>4, <1>5, <2>1
  <2>2. ASSUME NEW state PROVE Held(i, state)' <=> Held(i, state)
    BY <1>2, <2>1 DEF Held
  <2>3. Refuted(i)' <=> Refuted(i)
    BY <1>3 DEF Refuted
  <2>4. Counted(i)' <=> Counted(i)
    BY SameCount
  <2> QED
    BY <2>2, <2>3, <2>4, SameFate
<1>6. next \in Nat /\ \A i \in 0..next-1 : i \in Nat
  BY <1>1 DEF TypeOK
<1>7. CASE c \notin 0..next-1
  BY <1>5, <1>6, <1>7
<1>8. CASE c \in 0..next-1
  <2>1. ~Counted(c)
    BY <1>2, <1>4, <1>8, Operation
  <2>2. Held(c, "posted")
    BY <1>2, <1>4 DEF Held
  <2>3. FateOf(c) = "posted"
    BY <2>1, <2>2, FateIs
  <2>4. ~Counted(c)'
    BY <2>1, SameCount
  <2>5. \A h \in Queues : \A m \in DOMAIN sq[h] : sq[h][m].ctx = c => h = j /\ m = k
    BY <1>2, <1>4, <1>8, OneRequest
  <2>6. ~Held(c, "posted")'
    <3> SUFFICES ASSUME NEW h \in Queues, NEW m \in DOMAIN sq'[h],
                        sq'[h][m].ctx = c, sq'[h][m].state = "posted"
                 PROVE  FALSE
      BY DEF Held
    <3>1. CASE h = j /\ m = k
      BY <1>2, <3>1
    <3>2. CASE h # j \/ m # k
      BY <1>2, <2>5, <3>2
    <3> QED
      BY <3>1, <3>2
  <2>7. FateOf(c)' \in {"executed", "failed"}
    BY <2>4, <2>6, FateBecomes
  <2> QED
    BY <1>5, <1>6, <1>8, <2>3, <2>7
<1> QED
  BY <1>7, <1>8

\* An operation that a record proves complete has executed.
LEMMA CountFates ==
  ASSUME PipelineInv, pc = "pass", crs # <<>>, Head(crs).success,
         done' = [done EXCEPT ![RecordJetty(Head(crs).ctx)] =
                     Larger(@, RecordTarget(Head(crs).ctx))],
         crs' = Tail(crs), args' = args, sq' = sq, cq' = cq, NEW i \in 0..next-1
  PROVE  FateOf(i)' = FateOf(i) \/ (FateOf(i) = "executed" /\ FateOf(i)' = "counted")
<1>1. TypeOK /\ Accepted /\ TotalsGood /\ RequestsGood /\ OrderGood
  BY DEF PipelineInv, SerialGood, PassGood
<1>2. /\ Head(crs) \in Records
      /\ DOMAIN Reported' = 1 .. Len(Reported) - 1
      /\ 1 \in DOMAIN Reported /\ Reported[1] = Head(crs)
      /\ \A k \in DOMAIN Reported' : k + 1 \in DOMAIN Reported /\ Reported'[k] = Reported[k + 1]
  BY <1>1, RecordTaken
<1>3. DOMAIN Reported = 1..Len(Reported) /\ Len(Reported) \in Nat
  BY <1>1, ReportedType
<1>4. PICK c \in Nat : c = Head(crs).ctx
  BY <1>2 DEF Records
<1>5. PICK j \in Queues : j = RecordJetty(c)
  BY <1>1, <1>2, <1>4 DEF RequestsGood
<1>6. Request(j, c)
  BY <1>1, <1>2, <1>4, <1>5 DEF RequestsGood
<1>7. PICK t \in Nat : t = RecordTarget(c)
  BY <1>1, <1>6, RequestFacts
<1>8. Place(c) \in Nat /\ t <= Place(c) + 1 /\ done[j] < t
      /\ (c >= FenceCtxMin => t = Place(c)) /\ done \in [Queues -> Nat] /\ done[j] \in Nat
  <2>1. /\ Place(c) \in Nat /\ done[j] < RecordTarget(c)
        /\ (c >= FenceCtxMin => RecordTarget(c) = Place(c))
        /\ (c < FenceCtxMin => RecordTarget(c) = Place(c) + 1)
    BY <1>1, <1>6, RequestFacts
  <2>2. c >= FenceCtxMin \/ c < FenceCtxMin
    BY DEF FenceCtxMin, FenceCtxBase
  <2> QED
    BY <1>1, <1>7, <2>1, <2>2 DEF TypeOK
<1>9. done' = [done EXCEPT ![j] = t]
  <2>1. Larger(done[j], t) = t
    BY <1>7, <1>8 DEF Larger
  <2> QED
    BY <1>4, <1>5, <1>7, <1>8, <2>1
<1>10. PICK r \in Nat : r = bw_op_rank(i)
  BY Operation
<1>11. PICK h \in Queues : h = bw_op_jetty(i)
  BY Operation
<1>12. (Counted(i) <=> r < done[h]) /\ (Counted(i)' <=> r < done'[h])
  <2>1. i \in Nat
    BY Operation
  <2>2. bw_op_rank(i)' = bw_op_rank(i) /\ bw_op_jetty(i)' = bw_op_jetty(i)
    BY <2>1, SameOptions
  <2> QED
    BY <1>10, <1>11, <2>2 DEF Counted
<1>13. Held(i, "posted")' <=> Held(i, "posted")
  BY DEF Held
<1>14. Held(i, "failed")' <=> Held(i, "failed")
  BY DEF Held
<1>15. Refuted(i)' <=> Refuted(i)
  <2>1. ASSUME Refuted(i) PROVE Refuted(i)'
    <3>1. PICK k \in DOMAIN Reported : Reported[k].ctx = i /\ ~Reported[k].success
      BY <2>1 DEF Refuted
    <3>2. k # 1
      BY <1>2, <3>1
    <3>3. k - 1 \in DOMAIN Reported' /\ (k - 1) + 1 = k
      BY <1>2, <1>3, <3>2
    <3>4. Reported'[k - 1] = Reported[k]
      BY <1>2, <3>3
    <3> QED
      BY <3>1, <3>3, <3>4 DEF Refuted
  <2>2. ASSUME Refuted(i)' PROVE Refuted(i)
    BY <1>2, <2>2 DEF Refuted
  <2> QED
    BY <2>1, <2>2
<1>16. CASE Counted(i)' <=> Counted(i)
  BY <1>13, <1>14, <1>15, <1>16, SameFate
<1>17. ASSUME ~(Counted(i)' <=> Counted(i))
       PROVE  FateOf(i) = "executed" /\ FateOf(i)' = "counted"
  <2>1. h = j /\ ~Counted(i) /\ Counted(i)' /\ r < t
    BY <1>8, <1>9, <1>12, <1>17
\* Its place is not after the record's.
  <2>2. r <= Place(c)
    BY <1>8, <2>1
  <2>3. ASSUME NEW q \in Queues, NEW k \in DOMAIN sq[q], sq[q][k].ctx = i
        PROVE  FALSE
    <3>1. q = h /\ Place(i) = r
      BY <1>10, <1>11, <2>3, Operation
    <3>2. Place(c) < Place(i)
      BY <1>1, <1>2, <1>4, <1>5, <2>1, <2>3, <3>1 DEF OrderGood
    <3> QED
      BY <1>8, <2>2, <3>1, <3>2
  <2>4. ~Refuted(i)
    <3> SUFFICES ASSUME NEW k \in DOMAIN Reported, Reported[k].ctx = i, ~Reported[k].success
                 PROVE  FALSE
      BY DEF Refuted
    <3>1. k # 1 /\ 1 < k
      BY <1>2, <1>3
    <3>2. RecordJetty(i) = j /\ Place(i) = r
      BY <1>10, <1>11, <2>1, Operation
    <3>3. Place(c) < Place(i)
      BY <1>1, <1>2, <1>4, <1>5, <3>1, <3>2 DEF OrderGood
    <3> QED
      BY <1>8, <2>2, <3>2, <3>3
  <2>5. ~Held(i, "posted") /\ ~Held(i, "failed")
    BY <2>3 DEF Held
  <2>6. FateOf(i) = "executed"
    BY <2>1, <2>4, <2>5, FateIs
  <2>7. FateOf(i)' = "counted"
    BY <2>1, FateBecomes
  <2> QED
    BY <2>6, <2>7
<1> QED
  BY <1>16, <1>17

\* The same of the state a step leads to.
OperationsSound ==
    pc = "pass" => \A i \in 0..next-1 : \A j \in Queues : \A k \in DOMAIN sq[j] :
                       sq[j][k].ctx = i => ~Counted(i)

LEMMA OperationAfter == PipelineInv' => OperationsSound'
<1>1. PipelineInv => OperationsSound
  BY Operation DEF OperationsSound
<1> QED
  BY <1>1, PTL

-----------------------------------------------------------------------------
(* Each step of the program is a step of the ledger, or none.              *)

\* What holds in the state a step leads to.
LEMMA After == PipelineInv' => TypeOK' /\ LedgerTyped' /\ OpenBound'
<1>1. PipelineInv => TypeOK /\ LedgerTyped /\ OpenBound
  BY LedgerShape, OpenFits DEF PipelineInv
<1> QED
  BY <1>1, PTL

LEMMA Rests ==
  ASSUME PassLedgerOf' = PassLedgerOf, args' = args, pc' = "failed" <=> pc = "failed"
  PROVE  UNCHANGED Ledger!vars
  BY DEF Ledger!vars, PassLedgerOf

LEMMA SameFates ==
  ASSUME PipelineInv, PipelineInv', pc = "pass", pc' = "pass", next' = next, args' = args,
         \A i \in 0..next-1 : FateOf(i)' = FateOf(i)
  PROVE  UNCHANGED Ledger!vars
<1>1. PassLedgerOf' = PassLedgerOf
  <2>1. next \in Nat
    BY DEF PipelineInv, TypeOK
  <2>2. \A i \in 1..next : i - 1 \in 0..next-1
    BY <2>1
  <2>3. PassLedgerOf = [i \in 1..next |-> FateOf(i - 1)]
    BY DEF PassLedgerOf
  <2>4. PassLedgerOf' = [i \in 1..next |-> FateOf(i - 1)']
    BY DEF PassLedgerOf
  <2> QED
    BY <2>2, <2>3, <2>4
<1> QED
  BY <1>1, Rests

LEMMA GivesUp ==
  ASSUME pc # "failed", pc' = "failed", args' = args
  PROVE  Ledger!Next
  BY DEF Ledger!Next, Ledger!GiveUp

LEMMA Outside ==
  ASSUME pc # "pass", pc' # "pass", pc # "failed", pc' # "failed", args' = args
  PROVE  UNCHANGED Ledger!vars
  BY Rests DEF PassLedgerOf

\* A pass begins with an empty ledger.
LedgerStarts == pc = "pass" /\ next = 0 => PassLedgerOf = <<>>

LEMMA EmptyLedger == LedgerStarts
<1> SUFFICES ASSUME pc = "pass", next = 0 PROVE PassLedgerOf = <<>>
  BY DEF LedgerStarts
<1>1. 1..next = {}
  OBVIOUS
<1>2. PassLedgerOf = [i \in {} |-> FateOf(i - 1)]
  BY <1>1 DEF PassLedgerOf
<1> QED
  BY <1>2

LEMMA EmptyAfter == LedgerStarts'
  BY EmptyLedger, PTL

LEMMA FunctionOf ==
  ASSUME NEW S, NEW s \in Seq(S), NEW n, DOMAIN s = 1..n
  PROVE  s \in [1..n -> S]
<1>1. s \in [1..Len(s) -> S]
  BY LenProperties
<1>2. DOMAIN s = 1..Len(s)
  BY <1>1
<1> QED
  BY <1>1, <1>2

\* The instance's Cardinality is the one of this module.
LEMMA SameCardinality == \A S : Ledger!Cardinality(S) = Cardinality(S)
  BY DEF Ledger!Cardinality, Cardinality

LEMMA Posts ==
  ASSUME PipelineInv, PipelineInv', pc = "pass", pc' = "pass", args' = args,
         NEW k \in Nat \ {0}, next' = next + k,
         \A i \in 0..next-1 : FateOf(i)' = FateOf(i),
         \A i \in next .. next+k-1 : FateOf(i)' = "posted"
  PROVE  Ledger!Next
<1>1. /\ next \in Nat /\ PassLedgerOf \in Seq(Fates) /\ Len(PassLedgerOf) = next
      /\ \A i \in 1..next : PassLedgerOf[i] = FateOf(i - 1)
  BY LedgerShape DEF PipelineInv, LedgerTyped, TypeOK
<1>2. /\ PassLedgerOf' \in Seq(Fates) /\ Len(PassLedgerOf)' = next + k
      /\ DOMAIN PassLedgerOf' = 1 .. next + k
      /\ \A i \in 1 .. next + k : PassLedgerOf'[i] = FateOf(i - 1)'
  BY After DEF LedgerTyped
<1>3. ASSUME NEW i \in 1 .. next + k
      PROVE  PassLedgerOf'[i] = IF i <= next THEN PassLedgerOf[i] ELSE "posted"
  <2>1. CASE i <= next
    <3>1. i \in 1..next /\ i - 1 \in 0..next-1
      BY <1>1, <2>1
    <3>2. PICK x \in 0..next-1 : x = i - 1
      BY <3>1
    <3> QED
      BY <1>1, <1>2, <2>1, <3>1, <3>2
  <2>2. CASE ~(i <= next)
    <3>1. i - 1 \in next .. next+k-1
      BY <1>1, <2>2
    <3>2. PICK x \in next .. next+k-1 : x = i - 1
      BY <3>1
    <3> QED
      BY <1>2, <2>2, <3>2
  <2> QED
    BY <2>1, <2>2
<1>4. Cardinality({i \in DOMAIN PassLedgerOf' : PassLedgerOf'[i] # "counted"}) <= args.depth
  <2> DEFINE open == {i \in 1 .. next + k : ~Counted(i - 1)'}
  <2>1. Cardinality(open) <= args.depth
    BY After DEF OpenBound
  <2>2. \A i \in 1 .. next + k : PassLedgerOf'[i] # "counted" <=> ~Counted(i - 1)'
    <3> SUFFICES ASSUME NEW i \in 1 .. next + k
                 PROVE  PassLedgerOf'[i] # "counted" <=> ~Counted(i - 1)'
      OBVIOUS
    <3>1. PassLedgerOf'[i] = FateOf(i - 1)'
      BY <1>2
    <3> QED
      BY <3>1, FateBecomes
  <2>3. {i \in DOMAIN PassLedgerOf' : PassLedgerOf'[i] # "counted"} = open
    BY <1>2, <2>2
  <2> QED
    BY <2>1, <2>3
<1>5. /\ PassLedgerOf' \in Seq(Fates) /\ Len(PassLedgerOf') > Len(PassLedgerOf)
      /\ \A i \in DOMAIN PassLedgerOf' :
            PassLedgerOf'[i] = IF i <= Len(PassLedgerOf) THEN PassLedgerOf[i] ELSE "posted"
  BY <1>1, <1>2, <1>3
<1>6. Ledger!Post
  BY <1>4, <1>5, SameCardinality DEF PassLedgerOf, Ledger!Post, Ledger!Open, Ledger!Fates, Fates
<1> QED
  BY <1>6 DEF Ledger!Next

LEMMA Executes ==
  ASSUME PipelineInv, PipelineInv', pc = "pass", pc' = "pass", args' = args, next' = next,
         NEW c \in 0..next-1, FateOf(c) = "posted", FateOf(c)' \in {"executed", "failed"},
         \A i \in 0..next-1 : i # c => FateOf(i)' = FateOf(i)
  PROVE  Ledger!Next
<1>1. /\ next \in Nat /\ PassLedgerOf \in Seq(Fates) /\ DOMAIN PassLedgerOf = 1..next
      /\ \A i \in 1..next : PassLedgerOf[i] = FateOf(i - 1)
  BY LedgerShape DEF PipelineInv, LedgerTyped, TypeOK
<1>2. /\ PassLedgerOf' \in Seq(Fates) /\ DOMAIN PassLedgerOf' = 1..next
      /\ \A i \in 1..next : PassLedgerOf'[i] = FateOf(i - 1)'
  BY After DEF LedgerTyped
<1>3. PICK fate \in {"executed", "failed"} : fate = FateOf(c)'
  OBVIOUS
<1>4. PICK n \in 1..next : n = c + 1
  BY <1>1
<1>5. n - 1 = c
  BY <1>4
<1>6. PassLedgerOf[n] = "posted" /\ PassLedgerOf'[n] = fate
  BY <1>1, <1>2, <1>3, <1>5
<1>7. ASSUME NEW i \in 1..next, i # n PROVE PassLedgerOf'[i] = PassLedgerOf[i]
  <2>1. PICK x \in 0..next-1 : x = i - 1 /\ x # c
    BY <1>1, <1>4, <1>7
  <2> QED
    BY <1>1, <1>2, <2>1
<1> DEFINE l == PassLedgerOf
<1>8. l = IF pc = "pass" THEN [i \in 1..next |-> FateOf(i - 1)] ELSE <<>>
  BY DEF PassLedgerOf
<1>9. l' = (IF pc = "pass" THEN [i \in 1..next |-> FateOf(i - 1)] ELSE <<>>)'
  BY DEF PassLedgerOf
<1>10. n \in DOMAIN l /\ l[n] = "posted" /\ l' = [l EXCEPT ![n] = fate]
  <2>1. l \in Seq(Fates) /\ l' \in Seq(Fates) /\ DOMAIN l = 1..next /\ DOMAIN l' = 1..next
    BY <1>1, <1>2
  <2>2. l \in [1..next -> Fates] /\ l' \in [1..next -> Fates]
    <3> HIDE DEF l
    <3> QED
      BY <2>1, FunctionOf
  <2>3. l[n] = "posted" /\ l'[n] = fate /\ \A i \in 1..next : i # n => l'[i] = l[i]
    BY <1>6, <1>7
  <2> HIDE DEF l
  <2> QED
    BY <2>1, <2>2, <2>3
<1> HIDE DEF l
<1>11. Ledger!Execute
  BY <1>8, <1>9, <1>10 DEF Ledger!Execute
<1> QED
  BY <1>11 DEF Ledger!Next

LEMMA Counts ==
  ASSUME PipelineInv, PipelineInv', pc = "pass", pc' = "pass", args' = args, next' = next,
         \A i \in 0..next-1 : \/ FateOf(i)' = FateOf(i)
                              \/ FateOf(i) = "executed" /\ FateOf(i)' = "counted"
  PROVE  Ledger!Next
<1>1. /\ next \in Nat /\ DOMAIN PassLedgerOf = 1..next
      /\ \A i \in 1..next : PassLedgerOf[i] = FateOf(i - 1)
  BY LedgerShape DEF PipelineInv, LedgerTyped, TypeOK
<1>2. /\ DOMAIN PassLedgerOf' = 1..next
      /\ \A i \in 1..next : PassLedgerOf'[i] = FateOf(i - 1)'
  BY After DEF LedgerTyped
<1>3. ASSUME NEW i \in 1..next
      PROVE  \/ PassLedgerOf'[i] = PassLedgerOf[i]
             \/ PassLedgerOf[i] = "executed" /\ PassLedgerOf'[i] = "counted"
  <2>1. PICK x \in 0..next-1 : x = i - 1
    BY <1>1
  <2> QED
    BY <1>1, <1>2, <2>1
<1> DEFINE l == PassLedgerOf
<1>4. l = IF pc = "pass" THEN [i \in 1..next |-> FateOf(i - 1)] ELSE <<>>
  BY DEF PassLedgerOf
<1>5. l' = (IF pc = "pass" THEN [i \in 1..next |-> FateOf(i - 1)] ELSE <<>>)'
  BY DEF PassLedgerOf
<1>6. DOMAIN l' = DOMAIN l /\ \A i \in DOMAIN l : \/ l'[i] = l[i]
                                                  \/ l[i] = "executed" /\ l'[i] = "counted"
  BY <1>1, <1>2, <1>3
<1> HIDE DEF l
<1>7. Ledger!Count
  BY <1>4, <1>5, <1>6 DEF Ledger!Count
<1> QED
  BY <1>7 DEF Ledger!Next

LEMMA Returns ==
  ASSUME PipelineInv, pc = "pass", doneTotal = next, args' = args,
         pc' # "failed", PassLedgerOf' = <<>>
  PROVE  Ledger!Next
<1>1. TypeOK /\ Accepted /\ TotalsGood
  BY DEF PipelineInv, SerialGood, PassGood
<1>2. /\ next \in Nat /\ DOMAIN PassLedgerOf = 1..next
      /\ \A i \in 1..next : PassLedgerOf[i] = FateOf(i - 1)
  BY LedgerShape DEF PipelineInv, LedgerTyped, TypeOK
<1>3. doneTotal >= next
  BY <1>2
<1>4. done = posted
  BY <1>1, <1>3, AllCounted
<1>5. ASSUME NEW i \in 1..next PROVE PassLedgerOf[i] = "counted"
  <2>1. PICK x \in 0..next-1 : x = i - 1
    BY <1>2
  <2>2. Counted(x)
    BY <1>4, Operation DEF Counted
  <2>3. FateOf(x) = "counted"
    BY <2>2, FateIs
  <2> QED
    BY <1>2, <2>1, <2>3
<1> DEFINE l == PassLedgerOf
<1>6. l = IF pc = "pass" THEN [i \in 1..next |-> FateOf(i - 1)] ELSE <<>>
  BY DEF PassLedgerOf
<1>7. l' = (IF pc = "pass" THEN [i \in 1..next |-> FateOf(i - 1)] ELSE <<>>)'
  BY DEF PassLedgerOf
<1>8. l' = <<>> /\ {i \in DOMAIN l : l[i] # "counted"} = {}
  BY <1>2, <1>5
<1> HIDE DEF l
<1>9. Ledger!Return
  BY <1>6, <1>7, <1>8 DEF Ledger!Return, Ledger!Open
<1> QED
  BY <1>9 DEF Ledger!Next

LEMMA LedgerStep == PipelineInv /\ PipelineInv' /\ [Next]_vars => [Ledger!Next]_(Ledger!vars)
<1> SUFFICES ASSUME PipelineInv, PipelineInv', [Next]_vars
             PROVE  Ledger!Next \/ UNCHANGED Ledger!vars
  OBVIOUS
<1>1. TypeOK /\ SerialGood /\ (pc = "pass" => Accepted /\ PassGood) /\ next \in Nat
  BY DEF PipelineInv, SerialGood, TypeOK
<1>2. args' = args
  BY DEF Next, vars, Program, CheckOptions, PostSerial, WaitReadSpin, EndLatency, NextSize,
         StartBandwidth, PostChunk, PostFence, EndPass, PollRecords, CountRecord,
         Environment, Tick
<1>3. CASE pc # "failed" /\ pc' = "failed"
  BY <1>2, <1>3, GivesUp
<1>4. CASE pc = "failed"
  <2>1. pc' = "failed"
    BY <1>4 DEF Next, vars, Program, CheckOptions, PostSerial, WaitReadSpin, EndLatency,
           StartBandwidth, PostChunk, PostFence, EndPass, PollRecords, CountRecord,
           Environment, Tick
  <2>2. PassLedgerOf' = PassLedgerOf
    BY <1>4, <2>1 DEF PassLedgerOf
  <2> QED
    BY <1>2, <1>4, <2>1, <2>2, Rests
<1>5. ASSUME pc # "failed", pc' # "failed"
      PROVE  Ledger!Next \/ UNCHANGED Ledger!vars
  <2>1. CASE CheckOptions \/ PostSerial \/ WaitReadSpin \/ EndLatency
    <3>1. pc # "pass" /\ pc' # "pass"
      BY <2>1 DEF CheckOptions, PostSerial, WaitReadSpin, EndLatency, NextSize, Fail
    <3> QED
      BY <1>2, <1>5, <3>1, Outside
  <2>2. CASE StartBandwidth
    <3>1. pc # "pass" /\ pc' = "pass" /\ next' = 0
      BY <2>2 DEF StartBandwidth, EnterPass
    <3>2. PassLedgerOf' = PassLedgerOf
      BY <3>1, EmptyAfter DEF PassLedgerOf, LedgerStarts
    <3> QED
      BY <1>2, <1>5, <3>2, Rests
  <2>3. CASE PostChunk
    <3>1. pc = "pass" /\ pc' = "pass" /\ args' = args /\ done' = done /\ crs' = crs
      BY <1>5, <2>3 DEF PostChunk, Fail
    <3>2. PICK k \in 0..args.post_list :
             /\ k > 0 /\ next' = next + k
             /\ Fabric!Post(bw_op_jetty(next),
                            [x \in 1..k |-> WorkRequest(next+x-1, Signaled(next+x-1))])
      BY <1>5, <2>3 DEF PostChunk, Fail
    <3>3. k \in Nat \ {0}
      BY <1>1, <3>2, OptionTypes
    <3>4. PICK j \in Queues : j = bw_op_jetty(next)
      BY <1>1, <3>1, ChunkTypes
    <3>5. PICK wrs \in Seq(Asked) :
             wrs = [x \in 1..k |-> WorkRequest(next+x-1, Signaled(next+x-1))]
      BY <1>1, <3>1, ChunkTypes
    <3>6. /\ Fabric!Post(j, wrs) /\ Len(wrs) = k
          /\ \A x \in 1..k : wrs[x].ctx = next + x - 1
      <4>1. Fabric!Post(j, wrs)
        BY <3>2, <3>4, <3>5
      <4>2. DOMAIN wrs = 1..k /\ \A x \in 1..k : wrs[x] = WorkRequest(next+x-1, Signaled(next+x-1))
        BY <3>5
      <4>3. Len(wrs) = k
        BY <3>3, <4>2
      <4>4. \A x \in 1..k : wrs[x].ctx = next + x - 1
        BY <4>2 DEF WorkRequest
      <4> QED
        BY <4>1, <4>3, <4>4
    <3>7. ASSUME NEW i \in 0..next-1 PROVE FateOf(i)' = FateOf(i)
      <4>1. i \in Nat /\ \A x \in 1..k : next + x - 1 # i
        BY <1>1, <3>3
      <4>2. \A x \in 1..Len(wrs) : wrs[x].ctx # i
        BY <3>6, <4>1
      <4> QED
        BY <1>1, <3>1, <3>6, <4>1, <4>2, PostFates
    <3>8. ASSUME NEW i \in next .. next+k-1 PROVE FateOf(i)' = "posted"
      <4>1. PICK x \in 1..k : i = next + x - 1
        <5>1. i - next + 1 \in 1..k /\ i = next + (i - next + 1) - 1
          BY <1>1, <3>3
        <5> QED
          BY <5>1
      <4>2. /\ DOMAIN sq'[j] = 1 .. Len(sq[j]) + Len(wrs)
            /\ sq'[j][Len(sq[j]) + x].ctx = i
            /\ sq'[j][Len(sq[j]) + x].state = "posted"
        <5>1. x \in 1..Len(wrs) /\ wrs[x].ctx = i
          BY <3>6, <4>1
        <5> QED
          BY <1>1, <3>6, <5>1, PostFacts
      <4>3. Len(sq[j]) + x \in DOMAIN sq'[j]
        <5>1. Len(sq[j]) \in Nat
          BY <1>1, RequestTypes
        <5> QED
          BY <3>3, <3>6, <4>2, <5>1
      <4>4. Held(i, "posted")'
        BY <4>2, <4>3 DEF Held
      <4>5. ~Counted(i)'
        <5>1. i \in 0..next'-1
          BY <1>1, <3>2, <3>3
        <5> QED
          BY <3>1, <4>2, <4>3, <5>1, OperationAfter DEF OperationsSound
      <4> QED
        BY <4>4, <4>5, FateBecomes
    <3> QED
      BY <3>1, <3>2, <3>3, <3>7, <3>8, Posts
  <2>4. CASE PostFence
    <3>1. /\ pc = "pass" /\ pc' = "pass" /\ args' = args /\ done' = done /\ crs' = crs
          /\ next' = next
      BY <1>5, <2>4 DEF PostFence, Fail
    <3>2. PICK j \in Unfenced : Fabric!Post(j, <<WorkRequest(FenceCtx(j), TRUE)>>)
      BY <1>5, <2>4, LeastUnfenced DEF PostFence, Fail
    <3>3. j \in Queues
      BY <1>1, <3>1, FenceTypes
    <3>4. PICK wrs \in Seq(Asked) : wrs = <<WorkRequest(FenceCtx(j), TRUE)>>
      BY <1>1, <3>1, FenceTypes
    <3>5. Len(wrs) = 1 /\ wrs[1].ctx = FenceCtx(j)
      BY <3>4 DEF WorkRequest
    <3>6. FenceCtx(j) >= FenceCtxMin
      BY <3>3, ParametersAssumption DEF Queues, FenceCtx, FenceCtxMin, FenceCtxBase
    <3>7. ASSUME NEW i \in 0..next-1 PROVE FateOf(i)' = FateOf(i)
      <4>1. i \in Nat /\ i < FenceCtxMin
        BY <3>1, Operation
      <4>2. FenceCtx(j) # i
        BY <3>6, <4>1 DEF FenceCtxMin, FenceCtxBase
      <4>3. \A x \in 1..Len(wrs) : wrs[x].ctx # i
        BY <3>5, <4>2
      <4> QED
        BY <1>1, <3>1, <3>2, <3>3, <3>4, <4>1, <4>3, PostFates
    <3> QED
      BY <3>1, <3>7, SameFates
  <2>5. CASE EndPass
    <3>1. pc = "pass" /\ doneTotal = next
      BY <2>5 DEF EndPass, PassComplete
    <3>2. PassLedgerOf' = <<>>
      <4>1. CASE EnterPass("timed")
        BY <4>1, EmptyAfter DEF EnterPass, LedgerStarts
      <4>2. CASE NextSize
        BY <4>2 DEF NextSize, PassLedgerOf
      <4> QED
        BY <2>5, <4>1, <4>2 DEF EndPass
    <3> QED
      BY <1>2, <1>5, <3>1, <3>2, Returns
  <2>6. CASE PollRecords
    <3>1. /\ pc = "pass" /\ pc' = "pass" /\ args' = args /\ done' = done /\ next' = next
          /\ crs = <<>>
      BY <1>5, <2>6 DEF PollRecords, Fail
    <3>2. PICK k \in Nat : Fabric!Poll(k) /\ crs' = SubSeq(cq, 1, k)
      BY <1>5, <2>6, ParametersAssumption DEF PollRecords, Fail
    <3>3. Reported' = Reported /\ sq' = sq
      BY <1>1, <3>1, <3>2, RecordsPolled DEF Fabric!Poll
    <3>4. \A i \in 0..next-1 : i \in Nat
      BY <1>1
    <3> QED
      BY <3>1, <3>3, <3>4, RestFates, SameFates
  <2>7. CASE CountRecord
    <3>1. /\ pc = "pass" /\ pc' = "pass" /\ args' = args /\ next' = next
          /\ crs # <<>> /\ Head(crs).success /\ crs' = Tail(crs)
          /\ sq' = sq /\ cq' = cq
          /\ done' = [done EXCEPT ![RecordJetty(Head(crs).ctx)] =
                         Larger(done[RecordJetty(Head(crs).ctx)], RecordTarget(Head(crs).ctx))]
      BY <1>5, <2>7 DEF CountRecord, Fail, fabric
    <3>2. done' = [done EXCEPT ![RecordJetty(Head(crs).ctx)] =
                     Larger(@, RecordTarget(Head(crs).ctx))]
      BY <3>1
    <3> QED
      BY <3>1, <3>2, CountFates, Counts
  <2>8. CASE Environment
    <3>1. /\ pc' = pc /\ args' = args /\ done' = done /\ next' = next /\ crs' = crs
      BY <2>8 DEF Environment, pass
    <3>2. PICK j \in Queues : Fabric!Execute(j) \/ Fabric!Deliver(j)
      BY <2>8 DEF Environment, Fabric!Fabric
    <3>3. CASE pc # "pass"
      BY <1>5, <3>1, <3>3, Outside
    <3>4. CASE pc = "pass" /\ Fabric!Deliver(j)
      <4>1. \A i \in 0..next-1 : i \in Nat
        BY <1>1
      <4> QED
        BY <1>1, <3>1, <3>4, <4>1, DeliverFates, SameFates
    <3>5. CASE pc = "pass" /\ Fabric!Execute(j)
      <4>1. CASE \A i \in 0..next-1 : FateOf(i)' = FateOf(i)
        BY <3>1, <3>5, <4>1, SameFates
      <4>2. CASE \E c \in 0..next-1 :
                   /\ FateOf(c) = "posted" /\ FateOf(c)' \in {"executed", "failed"}
                   /\ \A i \in 0..next-1 : i # c => FateOf(i)' = FateOf(i)
        BY <3>1, <3>5, <4>2, Executes
      <4> QED
        BY <3>1, <3>5, <4>1, <4>2, ExecuteFates
    <3> QED
      BY <3>2, <3>3, <3>4, <3>5
  <2>9. CASE Tick
    <3>1. /\ pc = "pass" /\ pc' = pc /\ args' = args /\ done' = done /\ next' = next
          /\ crs' = crs /\ sq' = sq /\ cq' = cq
      BY <2>9 DEF Tick, fabric
    <3>2. Reported' = Reported /\ \A i \in 0..next-1 : i \in Nat
      BY <1>1, <3>1 DEF Reported
    <3> QED
      BY <3>1, <3>2, RestFates, SameFates
  <2>10. CASE UNCHANGED vars
    <3>1. /\ pc' = pc /\ args' = args /\ done' = done /\ next' = next
          /\ crs' = crs /\ sq' = sq /\ cq' = cq
      BY <2>10 DEF vars, pass, fabric
    <3>2. Reported' = Reported /\ \A i \in 0..next-1 : i \in Nat
      BY <1>1, <3>1 DEF Reported
    <3>3. CASE pc = "pass"
      BY <3>1, <3>2, <3>3, RestFates, SameFates
    <3>4. CASE pc # "pass"
      BY <1>5, <3>1, <3>4, Outside
    <3> QED
      BY <3>3, <3>4
  <2> QED
    BY <2>1, <2>2, <2>3, <2>4, <2>5, <2>6, <2>7, <2>8, <2>9, <2>10 DEF Next, Program
<1> QED
  BY <1>3, <1>4, <1>5

LEMMA LedgerInit == Init => Ledger!Init
<1> SUFFICES ASSUME Init PROVE Ledger!Init
  OBVIOUS
<1>1. TypeOK /\ pc = "start"
  BY TypeInit DEF Init
<1>2. args.depth \in Nat
  BY <1>1, OptionTypes
<1> QED
  BY <1>1, <1>2 DEF Ledger!Init

\* bw_pass keeps the ledger of PassLedger, whatever the jetties, the lists, the
\* moderation and the fences: no more than --depth operations wait to be counted,
\* each executes or fails once, only an executed one is counted, each only once
\* and a failed one never, and a pass returns when all of its operations are.
THEOREM KeepsTheLedger == Spec => LedgerSpec
<1>1. Init => Ledger!Init
  BY LedgerInit
<1>2. PipelineInv /\ PipelineInv' /\ [Next]_vars => [Ledger!Next]_(Ledger!vars)
  BY LedgerStep
<1> QED
  BY <1>1, <1>2, PipelineInvariant, PTL DEF Spec, LedgerSpec, Ledger!Spec
=============================================================================
