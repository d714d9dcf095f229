---------------------------- MODULE BwArithmetic ----------------------------
(***************************************************************************)
(* Lemmas about the functions of urma_bench's bandwidth mode: how operation *)
(* indexes are spread over jetties (bw_op_jetty, bw_op_rank), where their  *)
(* windows lie (bw_slot_off), and which sizes are swept.                   *)
(***************************************************************************)
EXTENDS BwPipeline, FiniteSetTheorems, TLAPS

-----------------------------------------------------------------------------
(* Division.                                                               *)

LEMMA DivMod ==
  ASSUME NEW n \in Nat, NEW b \in Nat \ {0}
  PROVE  /\ n \div b \in Nat /\ n % b \in 0..b-1
         /\ n = b * (n \div b) + (n % b)
  OBVIOUS

LEMMA ProductGrows ==
  ASSUME NEW a \in Nat, NEW c \in Nat, NEW b \in Nat, a < c
  PROVE  b * a \in Nat /\ b * c \in Nat /\ b * a + b <= b * c
<1>1. b * (a + 1) <= b * c
  OBVIOUS
<1>2. b * (a + 1) = b * a + b
  OBVIOUS
<1> QED
  BY <1>1, <1>2

\* Quotient and remainder are the only ones.
LEMMA DivUnique ==
  ASSUME NEW b \in Nat \ {0}, NEW a \in Nat, NEW s \in 0..b-1, NEW n \in Nat,
         n = b * a + s
  PROVE  n \div b = a /\ n % b = s
<1> DEFINE d == n \div b
<1>1. d \in Nat /\ n % b \in 0..b-1 /\ n = b * d + (n % b)
  BY DivMod
<1> HIDE DEF d
<1>2. ~(d < a)
  <2> SUFFICES ASSUME d < a PROVE FALSE
    OBVIOUS
  <2>1. b * d + b <= b * a
    BY <1>1, ProductGrows
  <2>2. b * d \in Nat /\ b * a \in Nat
    BY <1>1
  <2> QED
    BY <1>1, <2>1, <2>2
<1>3. ~(a < d)
  <2> SUFFICES ASSUME a < d PROVE FALSE
    OBVIOUS
  <2>1. b * a + b <= b * d
    BY <1>1, ProductGrows
  <2>2. b * d \in Nat /\ b * a \in Nat
    BY <1>1
  <2> QED
    BY <1>1, <2>1, <2>2
<1>4. d = a
  BY <1>1, <1>2, <1>3
<1> QED
  BY <1>1, <1>4 DEF d

LEMMA Multiples ==
  ASSUME NEW b \in Nat \ {0}
  PROVE  /\ 0 % b = 0
         /\ \A n \in Nat : n % b = 0 => (n + b) % b = 0
<1>1. ASSUME NEW n \in Nat, n % b = 0 PROVE (n + b) % b = 0
  <2>1. n \div b \in Nat /\ n = b * (n \div b)
    BY <1>1, DivMod
  <2> DEFINE q == (n \div b) + 1
             m == n + b
  <2>2. m \in Nat /\ q \in Nat /\ m = b * q + 0
    BY <2>1
  <2> HIDE DEF m, q
  <2>3. m % b = 0
    BY <2>2, DivUnique
  <2> QED
    BY <2>3 DEF m
<1> QED
  BY <1>1

\* Within a list of L, the quotient stays and the remainder goes on.
LEMMA SameList ==
  ASSUME NEW L \in Nat \ {0}, NEW n \in Nat, NEW x \in Nat, (n % L) + x < L
  PROVE  (n + x) \div L = n \div L /\ (n + x) % L = (n % L) + x
<1> DEFINE a == n \div L
           s == (n % L) + x
           m == n + x
<1>1. a \in Nat /\ n % L \in 0..L-1 /\ n = L * a + (n % L)
  BY DivMod
<1>2. L * a \in Nat
  BY <1>1
<1>3. a \in Nat /\ s \in 0..L-1 /\ m = L * a + s /\ m \in Nat
  BY <1>1, <1>2
<1> HIDE DEF a, s, m
<1>4. m \div L = a /\ m % L = s
  BY <1>3, DivUnique
<1> QED
  BY <1>4 DEF a, s, m

\* From the end of a list the next one begins.
LEMMA NextList ==
  ASSUME NEW L \in Nat \ {0}, NEW n \in Nat
  PROVE  LET m == n + (L - (n % L))
         IN  m \in Nat /\ m \div L = (n \div L) + 1 /\ m % L = 0
<1> DEFINE a == (n \div L) + 1
           m == n + (L - (n % L))
<1>1. a \in Nat /\ m \in Nat /\ m = L * a + 0
  <2>1. n \div L \in Nat /\ n % L \in 0..L-1 /\ n = L * (n \div L) + (n % L)
    BY DivMod
  <2>2. L * ((n \div L) + 1) = L * (n \div L) + L
    BY <2>1
  <2> QED
    BY <2>1, <2>2
<1> HIDE DEF a, m
<1>2. m \div L = a /\ m % L = 0
  BY <1>1, DivUnique
<1> QED
  BY <1>1, <1>2 DEF a, m

\* Counting in lists of L and those in rounds of J is counting in L * J.
LEMMA Rounds ==
  ASSUME NEW L \in Nat \ {0}, NEW J \in Nat \ {0}, NEW n \in Nat
  PROVE  n \div (L * J) = (n \div L) \div J
<1> DEFINE a == n \div L
           s == n % L
           q == a \div J
           w == a % J
<1>1. a \in Nat /\ s \in 0..L-1 /\ n = L * a + s
  BY DivMod
<1>2. q \in Nat /\ w \in 0..J-1 /\ a = J * q + w
  BY <1>1, DivMod
<1> HIDE DEF a, s, q, w
<1>3. L * w + s \in 0 .. (L * J) - 1
  <2>1. L * w + L <= L * J /\ L * w \in Nat
    BY <1>2, ProductGrows
  <2> QED
    BY <1>1, <2>1
<1>4. n = (L * J) * q + (L * w + s)
  <2>1. L * a = L * (J * q) + L * w
    BY <1>1, <1>2
  <2>2. L * (J * q) = (L * J) * q
    BY <1>2
  <2> QED
    BY <1>1, <1>2, <2>1, <2>2
<1>5. L * J \in Nat \ {0}
  OBVIOUS
<1>6. n \div (L * J) = q
  BY <1>2, <1>3, <1>4, <1>5, DivUnique
<1> QED
  BY <1>6 DEF q, a

-----------------------------------------------------------------------------
(* Which jetty an operation is on, and the how manieth there.              *)

Shape == args.post_list \in Nat \ {0} /\ args.jetties \in Nat \ {0}

LEMMA OpSplit ==
  ASSUME Shape, NEW i \in Nat
  PROVE  /\ bw_op_jetty(i) \in 0 .. args.jetties - 1 /\ bw_op_rank(i) \in Nat
         /\ bw_op_rank(i) = ((i \div args.post_list) \div args.jetties) * args.post_list
                             + (i % args.post_list)
         /\ ((i \div args.post_list) \div args.jetties) * args.post_list \in Nat
         /\ i % args.post_list \in Nat
<1> DEFINE L == args.post_list
           J == args.jetties
           a == i \div L
           q == a \div J
<1>0. L \in Nat \ {0} /\ J \in Nat \ {0}
  BY DEF Shape
<1>1. /\ bw_op_jetty(i) = a % J
      /\ bw_op_rank(i) = (i \div (L * J)) * L + (i % L)
  BY DEF bw_op_jetty, bw_op_rank
<1> HIDE DEF L, J
<1>2. a \in Nat /\ i % L \in Nat
  BY <1>0, DivMod
<1>3. q \in Nat /\ a % J \in 0..J-1
  <2> HIDE DEF a
  <2> QED
    BY <1>0, <1>2, DivMod
<1>4. i \div (L * J) = q
  BY <1>0, Rounds
<1>5. q * L \in Nat
  BY <1>0, <1>3
<1>6. bw_op_rank(i) = q * L + (i % L) /\ bw_op_jetty(i) \in 0..J-1
  BY <1>1, <1>3, <1>4
<1> QED
  BY <1>2, <1>5, <1>6 DEF L, J

\* The operations of one list follow each other on one jetty.
LEMMA OpsOfList ==
  ASSUME Shape, NEW i \in Nat, NEW x \in Nat,
         (i % args.post_list) + x < args.post_list
  PROVE  bw_op_jetty(i + x) = bw_op_jetty(i) /\ bw_op_rank(i + x) = bw_op_rank(i) + x
<1>1. /\ (i + x) \div args.post_list = i \div args.post_list
      /\ (i + x) % args.post_list = (i % args.post_list) + x
  BY SameList DEF Shape
<1>2. /\ bw_op_rank(i + x) = ((i \div args.post_list) \div args.jetties) * args.post_list
                              + ((i % args.post_list) + x)
      /\ bw_op_rank(i) = ((i \div args.post_list) \div args.jetties) * args.post_list
                          + (i % args.post_list)
  BY <1>1, OpSplit
<1>3. /\ ((i \div args.post_list) \div args.jetties) * args.post_list \in Nat
      /\ i % args.post_list \in Nat
  BY OpSplit
<1> QED
  BY <1>1, <1>2, <1>3 DEF bw_op_jetty

\* How many of the first n operations are on jetty j.
Share(n, j) ==
    LET list == n \div args.post_list
        turn == list % args.jetties
    IN IF j >= args.jetties THEN 0
       ELSE (list \div args.jetties) * args.post_list
            + (IF j < turn THEN args.post_list
                           ELSE IF j = turn THEN n % args.post_list ELSE 0)

LEMMA ShareOfNone ==
  ASSUME Shape
  PROVE  \A j \in Nat : Share(0, j) = 0
<1>1. 0 \div args.post_list = 0 /\ 0 % args.post_list = 0
  BY DEF Shape
<1>2. 0 \div args.jetties = 0 /\ 0 % args.jetties = 0
  BY DEF Shape
<1> QED
  BY <1>1, <1>2 DEF Share, Shape

\* The next operation has the rank of the jetty's share.
LEMMA ShareIsRank ==
  ASSUME Shape, NEW n \in Nat
  PROVE  Share(n, bw_op_jetty(n)) = bw_op_rank(n)
  BY OpSplit DEF Share, bw_op_jetty, Shape

\* A chunk of one list adds to one share.
LEMMA ShareGrows ==
  ASSUME Shape, NEW n \in Nat, NEW k \in 0 .. args.post_list - (n % args.post_list),
         NEW j \in Nat
  PROVE  Share(n + k, j) = Share(n, j) + (IF j = bw_op_jetty(n) THEN k ELSE 0)
<1> DEFINE L == args.post_list
           J == args.jetties
           list == n \div L
           turn == list % J
           q == list \div J
<1>1. L \in Nat \ {0} /\ J \in Nat \ {0} /\ k \in Nat
  <2>1. L \in Nat \ {0} /\ J \in Nat \ {0}
    BY DEF Shape
  <2>2. n % L \in Nat
    <3> HIDE DEF L
    <3> QED
      BY <2>1, DivMod
  <2> QED
    BY <2>1, <2>2
<1>2. list \in Nat /\ n % L \in 0..L-1
  BY <1>1, DivMod
<1>3. q \in Nat /\ turn \in 0..J-1 /\ list = J * q + turn
  BY <1>1, <1>2, DivMod
<1>4. Share(n, j) = IF j >= J THEN 0
                    ELSE q * L + (IF j < turn THEN L ELSE IF j = turn THEN n % L ELSE 0)
  BY DEF Share
<1>5. bw_op_jetty(n) = turn
  BY DEF bw_op_jetty
<1>6. CASE (n % L) + k < L
  <2>1. (n + k) \div L = list /\ (n + k) % L = (n % L) + k
    <3> HIDE DEF L
    <3> QED
      BY <1>1, <1>6, SameList
  <2>2. Share(n + k, j) =
            IF j >= J THEN 0
            ELSE q * L + (IF j < turn THEN L ELSE IF j = turn THEN (n % L) + k ELSE 0)
    BY <2>1 DEF Share
  <2> HIDE DEF L, J, list, turn, q
  <2>3. q * L \in Nat
    BY <1>1, <1>3
  <2> QED
    BY <1>1, <1>2, <1>3, <1>4, <1>5, <2>2, <2>3
<1>7. CASE (n % L) + k = L
  <2> DEFINE m == n + k
  <2>0. m = n + (L - (n % L))
    BY <1>2, <1>7
  <2>1. m \in Nat /\ m \div L = list + 1 /\ m % L = 0
    <3> HIDE DEF L, m
    <3> QED
      BY <1>1, <2>0, NextList
  <2>2. Share(m, j) =
            IF j >= J THEN 0
            ELSE ((list + 1) \div J) * L + (IF j < (list + 1) % J THEN L ELSE 0)
    BY <2>1 DEF Share
  <2> HIDE DEF L, J, list, turn, q, m
  <2> DEFINE nextlist == list + 1
  <2>a. nextlist \in Nat
    BY <1>2
  <2>3. CASE turn + 1 < J
    <3>1. nextlist = J * q + (turn + 1) /\ turn + 1 \in 0..J-1
      BY <1>1, <1>3, <2>3
    <3>2. nextlist \div J = q /\ nextlist % J = turn + 1
      <4> DEFINE t == turn + 1
      <4>1. nextlist = J * q + t /\ t \in 0..J-1
        BY <3>1
      <4> HIDE DEF nextlist, t
      <4>2. nextlist \div J = q /\ nextlist % J = t
        BY <1>1, <1>3, <2>a, <4>1, DivUnique
      <4> QED
        BY <4>2 DEF t
    <3>3. q * L \in Nat
      BY <1>1, <1>3
    <3> QED
      BY <1>1, <1>2, <1>3, <1>4, <1>5, <1>7, <2>2, <2>3, <3>2, <3>3 DEF m
  <2>4. CASE turn + 1 = J
    <3>1. nextlist = J * (q + 1) + 0 /\ q + 1 \in Nat
      <4>1. J * (q + 1) = J * q + J
        BY <1>1, <1>3
      <4>2. J * q \in Nat
        BY <1>1, <1>3
      <4> QED
        BY <1>1, <1>3, <2>4, <4>1, <4>2
    <3>2. nextlist \div J = q + 1 /\ nextlist % J = 0
      <4> DEFINE q1 == q + 1
      <4>1. nextlist = J * q1 + 0 /\ q1 \in Nat
        BY <3>1
      <4> HIDE DEF nextlist, q1
      <4>2. nextlist \div J = q1 /\ nextlist % J = 0
        BY <1>1, <2>a, <4>1, DivUnique
      <4> QED
        BY <4>2 DEF q1
    <3>3. q * L \in Nat /\ (q + 1) * L = q * L + L
      BY <1>1, <1>3
    <3> QED
      BY <1>1, <1>2, <1>3, <1>4, <1>5, <1>7, <2>2, <2>4, <3>2, <3>3 DEF m
  <2>5. turn + 1 < J \/ turn + 1 = J
    BY <1>1, <1>3
  <2> QED
    BY <2>3, <2>4, <2>5
<1>8. (n % L) + k < L \/ (n % L) + k = L
  <2> DEFINE s == n % L
  <2>1. k \in 0 .. L - s /\ s \in 0..L-1
    BY <1>2
  <2> HIDE DEF L, s
  <2>2. s + k < L \/ s + k = L
    BY <1>1, <2>1
  <2> QED
    BY <2>2 DEF s
<1> QED
  BY <1>6, <1>7, <1>8

-----------------------------------------------------------------------------
(* Windows.                                                                *)

\* A window lies inside a buffer that has room for one.
LEMMA SlotFits ==
  ASSUME NEW i \in Nat, NEW size \in Nat \ {0}, NEW len \in Nat, size <= len
  PROVE  bw_slot_off(i, size, len) \in Nat /\ bw_slot_off(i, size, len) + size <= len
<1> DEFINE w == len \div size
           x == i % w
<1>1. w \in Nat /\ len % size \in 0..size-1 /\ len = size * w + (len % size)
  BY DivMod
<1>2. w \in Nat \ {0}
  BY <1>1
<1>3. x \in 0..w-1
  BY <1>2, DivMod
<1>4. bw_slot_off(i, size, len) = x * size
  BY <1>2 DEF bw_slot_off, Larger
<1> HIDE DEF w, x
<1>5. size * x + size <= size * w /\ size * x \in Nat /\ size * w \in Nat
  BY <1>2, <1>3, ProductGrows
<1>6. x * size = size * x
  BY <1>3
<1> QED
  BY <1>1, <1>4, <1>5, <1>6

\* Operations that are closer than there are windows do not share one.
LEMMA SlotsApart ==
  ASSUME NEW i \in Nat, NEW m \in Nat, NEW size \in Nat \ {0}, NEW len \in Nat,
         i < m, m - i < len \div size
  PROVE  bw_slot_off(i, size, len) # bw_slot_off(m, size, len)
<1> DEFINE w == len \div size
           x == i % w
           y == m % w
           a == i \div w
           b == m \div w
<1>1. w \in Nat
  BY DivMod
<1>2. w \in Nat \ {0} /\ m - i < w
  BY <1>1
<1>3. a \in Nat /\ x \in 0..w-1 /\ i = w * a + x
  BY <1>2, DivMod
<1>4. b \in Nat /\ y \in 0..w-1 /\ m = w * b + y
  BY <1>2, DivMod
<1>5. bw_slot_off(i, size, len) = x * size /\ bw_slot_off(m, size, len) = y * size
  BY <1>2 DEF bw_slot_off, Larger
<1> HIDE DEF w, x, y, a, b
<1>6. x # y
  <2> SUFFICES ASSUME x = y PROVE FALSE
    OBVIOUS
  <2>1. w * a \in Nat /\ w * b \in Nat
    BY <1>2, <1>3, <1>4
  <2>2. w * a < w * b
    BY <1>3, <1>4, <2>1
  <2>3. a < b
    BY <1>2, <1>3, <1>4, <2>2
  <2>4. w * a + w <= w * b
    BY <1>2, <1>3, <1>4, <2>3, ProductGrows
  <2> QED
    BY <1>2, <1>3, <1>4, <2>1, <2>4
<1>7. x < y => x * size # y * size
  BY <1>3, <1>4, ProductGrows
<1>8. y < x => x * size # y * size
  BY <1>3, <1>4, ProductGrows
<1> QED
  BY <1>3, <1>4, <1>5, <1>6, <1>7, <1>8

-----------------------------------------------------------------------------
(* The sweep.                                                              *)

\* What is left of an ascending list are the sizes up to the ceiling.
LEMMA SweptSizes ==
  /\ Swept \in Seq(Nat \ {0})
  /\ \A r \in DOMAIN Swept : Swept[r] <= SizeLimit /\ Swept[r] <= Swept[Len(Swept)]
<1> DEFINE D == {r \in DOMAIN Sizes : Sizes[r] <= SizeLimit}
           n == Len(Sizes)
           c == Cardinality(D)
<1>1. /\ n \in Nat /\ DOMAIN Sizes = 1..n /\ \A r \in 1..n : Sizes[r] \in Nat \ {0}
      /\ \A r, t \in 1..n : r < t => Sizes[r] < Sizes[t]
      /\ SizeLimit \in Nat /\ Sizes \in Seq(Nat \ {0})
  BY ParametersAssumption
<1>2. IsFiniteSet(1..n) /\ Cardinality(1..n) = n
  <2> HIDE DEF n
  <2>1. 1 \in Int /\ n \in Int /\ (1 > n => n = 0)
    BY <1>1
  <2> QED
    BY <1>1, <2>1, FS_Interval
<1>3. IsFiniteSet(D) /\ c <= n /\ c \in Nat
  <2>1. D \in SUBSET (1..n)
    BY <1>1
  <2> QED
    BY <1>2, <2>1, FS_Subset, FS_CardinalityType
<1>4. D \subseteq 1..c
  <2> SUFFICES ASSUME NEW r \in D PROVE r \in 1..c
    OBVIOUS
  <2>1. 1..r \subseteq D
    <3> SUFFICES ASSUME NEW t \in 1..r PROVE t \in D
      OBVIOUS
    <3>1. t \in 1..n /\ Sizes[t] <= Sizes[r]
      BY <1>1
    <3> QED
      BY <1>1, <3>1
  <2>2. r \in Nat \ {0}
    BY <1>1
  <2>3. Cardinality(1..r) = r
    BY <2>2, FS_Interval
  <2>4. Cardinality(1..r) <= c
    BY <1>3, <2>1, FS_Subset
  <2> QED
    BY <1>3, <2>2, <2>3, <2>4
<1>5. D = 1..c
  <2>1. IsFiniteSet(1..c) /\ Cardinality(1..c) = c
    BY <1>3, FS_Interval
  <2> QED
    BY <1>4, <2>1, FS_Subset
<1>6. Swept = SubSeq(Sizes, 1, c)
  BY DEF Swept
<1> HIDE DEF c
<1>7. /\ Swept \in Seq(Nat \ {0}) /\ Len(Swept) = c /\ DOMAIN Swept = 1..c
      /\ \A r \in 1..c : Swept[r] = Sizes[r]
  BY <1>1, <1>3, <1>6
<1>8. \A r \in 1..c : Sizes[r] <= SizeLimit
  BY <1>5
<1>9. ASSUME NEW r \in 1..c PROVE Swept[r] <= SizeLimit /\ Swept[r] <= Swept[c]
  <2>1. r \in 1..n /\ c \in 1..n /\ c \in 1..c
    BY <1>3
  <2>2. Sizes[r] <= Sizes[c]
    <3>1. r = c \/ r < c
      BY <1>3
    <3>2. Sizes[r] \in Nat
      BY <1>1, <2>1
    <3> QED
      BY <1>1, <2>1, <3>1, <3>2
  <2> QED
    BY <1>7, <1>8, <2>1, <2>2
<1> QED
  BY <1>7, <1>9
=============================================================================
