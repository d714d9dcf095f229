--------------------------- MODULE BwInputsProofs ---------------------------
(***************************************************************************)
(* Proofs that the sizes typed, the percentiles reported (SweepAsAsked)    *)
(* and the descriptors carried (DescTravels) are what they should be, for  *)
(* every width and limit and whatever is typed and exported.               *)
(*                                                                         *)
(* Loops are recursive functions; LoopExists gives their values and Upward *)
(* what holds after every turn.  A list is what its tokens name, sorted    *)
(* (SortExists); a range is doubled until it has passed its end            *)
(* (DoubledDoubles).  A descriptor is pieces laid one after the other      *)
(* (Flattened), each taken again from where it begins; other bytes that    *)
(* begin like it are of another length, which the counts they begin with   *)
(* give away (CliReads, BenchReads); and texts are to their bytes what     *)
(* bytes are to numbers (WholeText, CutText, LongText).                    *)
(***************************************************************************)
EXTENDS BwInputs, BwArithmetic, FunctionTheorems, SequenceTheorems, WellFoundedInduction

-----------------------------------------------------------------------------
(* Loops.                                                                  *)

\* Induction over a set.
LEMMA Upward ==
  ASSUME NEW S, 0 \in S, \A i \in S \cap Nat : i + 1 \in S
  PROVE  \A i \in Nat : i \in S
<1> SUFFICES ASSUME Nat \ S # {} PROVE FALSE
  OBVIOUS
<1>1. PICK m \in Nat \ S : \A k \in Nat \ S : <<k, m>> \notin OpToRel(<, Nat)
  BY NatLessThanWellFounded, WFMin
<1>2. m - 1 \in Nat /\ <<m - 1, m>> \in OpToRel(<, Nat)
  BY <1>1 DEF OpToRel
<1>3. m - 1 \in S \cap Nat
  BY <1>1, <1>2
<1>4. (m - 1) + 1 = m
  OBVIOUS
<1>5. (m - 1) + 1 \in S
  BY <1>3
<1> QED
  BY <1>4, <1>5

\* What a loop computes in n turns of a step that is a function.
Turns(f, n, x0, step) ==
    f = [i \in 0 .. n |-> IF i = 0 THEN x0 ELSE step[<<i, f[i - 1]>>]]

LEMMA LoopExists ==
  ASSUME NEW n \in Nat, NEW X, NEW x0 \in X, NEW step \in [Nat \X X -> X]
  PROVE  \E f \in [0 .. n -> X] : Turns(f, n, x0, step)
<1> DEFINE Runs(m, f) == f[0] = x0 /\ \A i \in 1 .. m : f[i] = step[<<i, f[i - 1]>>]
           S == {m \in Nat : \E f \in [0 .. m -> X] : Runs(m, f)}
<1>1. 0 \in S
  <2>1. [i \in 0 .. 0 |-> x0] \in [0 .. 0 -> X] /\ Runs(0, [i \in 0 .. 0 |-> x0])
    OBVIOUS
  <2> QED
    BY <2>1
<1>2. ASSUME NEW m \in S \cap Nat
      PROVE  m + 1 \in S
  <2>1. PICK f \in [0 .. m -> X] : Runs(m, f)
    OBVIOUS
  <2> DEFINE x == step[<<m + 1, f[m]>>]
             g == [i \in 0 .. m + 1 |-> IF i = m + 1 THEN x ELSE f[i]]
  <2>2. f[m] \in X /\ <<m + 1, f[m]>> \in Nat \X X
    OBVIOUS
  <2>3. x \in X
    BY <2>2
  <2> HIDE DEF x
  <2>4. g \in [0 .. m + 1 -> X]
    BY <2>3
  <2>5. \A i \in 0 .. m : g[i] = f[i]
    OBVIOUS
  <2>6. g[m + 1] = step[<<m + 1, g[m]>>]
    <3>1. g[m + 1] = x /\ g[m] = f[m]
      BY <2>5
    <3> QED
      BY <3>1 DEF x
  <2>7. g[0] = x0 /\ \A i \in 1 .. m : g[i] = step[<<i, g[i - 1]>>]
    BY <2>1, <2>5
  <2> HIDE DEF g
  <2>9. \A i \in 1 .. m + 1 : i = m + 1 \/ i \in 1 .. m
    OBVIOUS
  <2>10. (m + 1) - 1 = m
    OBVIOUS
  <2>11. \A i \in 1 .. m + 1 : g[i] = step[<<i, g[i - 1]>>]
    BY <2>6, <2>7, <2>9, <2>10
  <2>8. Runs(m + 1, g)
    BY <2>7, <2>11
  <2> QED
    BY <2>4, <2>8
<1> HIDE DEF S
<1>3. n \in S
  BY <1>1, <1>2, Upward
<1>4. PICK f \in [0 .. n -> X] : Runs(n, f)
  BY <1>3 DEF S
<1>5. Turns(f, n, x0, step)
  BY <1>4 DEF Turns
<1> QED
  BY <1>5

-----------------------------------------------------------------------------
(* Sizes and percentiles.                                                  *)

\* A finite set of numbers has a greatest.
LEMMA GreatestOne ==
  ASSUME NEW S \in SUBSET Nat, IsFiniteSet(S), S # {}
  PROVE  \E m \in S : \A x \in S : x <= m
<1> DEFINE Good == {n \in Nat : \A T \in SUBSET Nat :
                      IsFiniteSet(T) /\ T # {} /\ Cardinality(T) = n =>
                          \E m \in T : \A x \in T : x <= m}
<1>1. 0 \in Good
  BY FS_EmptySet
<1>2. ASSUME NEW n \in Good \cap Nat
      PROVE  n + 1 \in Good
  <2> SUFFICES ASSUME NEW T \in SUBSET Nat, IsFiniteSet(T), T # {}, Cardinality(T) = n + 1
               PROVE  \E m \in T : \A x \in T : x <= m
    OBVIOUS
  <2>1. PICK a \in T : TRUE
    OBVIOUS
  <2>2. CASE T \ {a} = {}
    BY <2>2
  <2>3. CASE T \ {a} # {}
    <3>1. IsFiniteSet(T \ {a}) /\ Cardinality(T \ {a}) = n
      <4>1. Cardinality(T \ {a}) = (n + 1) - 1
        BY FS_RemoveElement
      <4> QED
        BY <4>1, FS_RemoveElement
    <3>2. T \ {a} \in SUBSET Nat
      OBVIOUS
    <3>3. PICK m \in T \ {a} : \A x \in T \ {a} : x <= m
      BY <2>3, <3>1, <3>2
    <3>4. CASE a <= m
      BY <3>3, <3>4
    <3>5. CASE ~(a <= m)
      BY <3>3, <3>5
    <3> QED
      BY <3>4, <3>5
  <2> QED
    BY <2>2, <2>3
<1> HIDE DEF Good
<1>3. Cardinality(S) \in Good
  BY <1>1, <1>2, Upward, FS_CardinalityType
<1> QED
  BY <1>3 DEF Good

\* Every finite set of numbers can be sorted.
LEMMA SortExists ==
  ASSUME NEW S \in SUBSET Nat, IsFiniteSet(S)
  PROVE  \E s \in [1 .. Cardinality(S) -> S] : IsAscending(s)
<1> DEFINE Sorted == {n \in Nat : \A T \in SUBSET Nat :
                        IsFiniteSet(T) /\ Cardinality(T) = n =>
                            \E s \in [1 .. n -> T] : IsAscending(s)}
<1>1. 0 \in Sorted
  <2> SUFFICES ASSUME NEW T \in SUBSET Nat, IsFiniteSet(T), Cardinality(T) = 0
               PROVE  \E s \in [1 .. 0 -> T] : IsAscending(s)
    OBVIOUS
  <2>1. <<>> \in [1 .. 0 -> T] /\ IsAscending(<<>>)
    BY DEF IsAscending
  <2> QED
    BY <2>1
<1>2. ASSUME NEW n \in Sorted \cap Nat
      PROVE  n + 1 \in Sorted
  <2> SUFFICES ASSUME NEW T \in SUBSET Nat, IsFiniteSet(T), Cardinality(T) = n + 1
               PROVE  \E s \in [1 .. n + 1 -> T] : IsAscending(s)
    OBVIOUS
  <2>1. PICK m \in T : \A x \in T : x <= m
    <3>1. T # {}
      BY FS_EmptySet
    <3> QED
      BY <3>1, GreatestOne
  <2>2. IsFiniteSet(T \ {m}) /\ Cardinality(T \ {m}) = n
    <3>1. Cardinality(T \ {m}) = (n + 1) - 1
      BY FS_RemoveElement
    <3> QED
      BY <3>1, FS_RemoveElement
  <2>3. PICK s \in [1 .. n -> T \ {m}] : IsAscending(s)
    <3>1. T \ {m} \in SUBSET Nat
      OBVIOUS
    <3> QED
      BY <2>2, <3>1
  <2> DEFINE t == [i \in 1 .. n + 1 |-> IF i = n + 1 THEN m ELSE s[i]]
  <2>4. t \in [1 .. n + 1 -> T]
    OBVIOUS
  <2>5. \A i \in 1 .. n : s[i] \in T /\ s[i] < m
    <3> SUFFICES ASSUME NEW i \in 1 .. n PROVE s[i] \in T /\ s[i] < m
      OBVIOUS
    <3>1. s[i] \in T \ {m}
      OBVIOUS
    <3>2. s[i] \in Nat /\ m \in Nat /\ s[i] # m /\ s[i] <= m
      BY <2>1, <3>1
    <3> QED
      BY <3>1, <3>2
  <2>6. IsAscending(t)
    <3> SUFFICES ASSUME NEW i \in 1 .. n + 1, NEW k \in 1 .. n + 1, i < k
                 PROVE  t[i] < t[k]
      BY DEF IsAscending
    <3>1. CASE k = n + 1
      BY <3>1, <2>5
    <3>2. CASE k # n + 1
      BY <3>2, <2>3 DEF IsAscending
    <3> QED
      BY <3>1, <3>2
  <2> HIDE DEF t
  <2> QED
    BY <2>4, <2>6
<1> HIDE DEF Sorted
<1>3. Cardinality(S) \in Sorted
  BY <1>1, <1>2, Upward, FS_CardinalityType
<1> QED
  BY <1>3 DEF Sorted

\* The order that ascending chooses is one.
LEMMA AscendingSorts ==
  ASSUME NEW S \in SUBSET Nat, IsFiniteSet(S)
  PROVE  /\ ascending(S) \in [1 .. Cardinality(S) -> S] /\ IsAscending(ascending(S))
         /\ Cardinality(S) \in Nat /\ ToSet(ascending(S)) = S
<1> DEFINE s == ascending(S)
           n == Cardinality(S)
<1>1. s \in [1 .. n -> S] /\ IsAscending(s)
  BY SortExists DEF ascending
<1>2. n \in Nat
  BY FS_CardinalityType
<1> HIDE DEF s, n
<1>3. ToSet(s) \in SUBSET S
  BY <1>1 DEF ToSet
<1>4. s \in [1 .. n -> ToSet(s)]
  BY <1>1 DEF ToSet
<1>5. \A i, k \in 1 .. n : s[i] = s[k] => i = k
  <2> SUFFICES ASSUME NEW i \in 1 .. n, NEW k \in 1 .. n, i < k
               PROVE  s[i] # s[k]
    BY <1>2
  <2>1. s[i] < s[k] /\ s[i] \in Nat /\ s[k] \in Nat
    BY <1>1 DEF IsAscending
  <2> QED
    BY <2>1
<1>6. s \in Injection(1 .. n, ToSet(s))
  BY <1>4, <1>5, Fun_IsInj
<1>7. s \in Surjection(1 .. n, ToSet(s))
  BY <1>4, Fun_IsSurj DEF ToSet
<1>8. IsFiniteSet(1 .. n) /\ Cardinality(1 .. n) = n
  <2>1. 1 \in Int /\ n \in Int
    BY <1>2
  <2>2. IsFiniteSet(1 .. n) /\ Cardinality(1 .. n) = IF 1 > n THEN 0 ELSE n - 1 + 1
    BY <2>1, FS_Interval
  <2> QED
    BY <1>2, <2>2
<1>9. Cardinality(ToSet(s)) = n
  BY <1>6, <1>7, <1>8, FS_Surjection
<1>10. ToSet(s) = S
  BY <1>3, <1>9, FS_Subset DEF n
<1> QED
  BY <1>1, <1>2, <1>10 DEF s, n

\* What grows from each place to the next is ascending.
LEMMA AdjacentAscends ==
  ASSUME NEW n \in Nat, NEW s \in [1 .. n -> Nat], \A i \in 1 .. n - 1 : s[i] < s[i + 1]
  PROVE  IsAscending(s)
<1> DEFINE S == {d \in Nat : \A i \in 1 .. n : i + d + 1 <= n => s[i] < s[i + d + 1]}
<1>1. 0 \in S
  OBVIOUS
<1>2. ASSUME NEW d \in S \cap Nat
      PROVE  d + 1 \in S
  <2> SUFFICES ASSUME NEW i \in 1 .. n, i + (d + 1) + 1 <= n
               PROVE  s[i] < s[i + (d + 1) + 1]
    OBVIOUS
  <2>1. s[i] < s[i + d + 1]
    OBVIOUS
  <2>2. i + d + 1 \in 1 .. n - 1 /\ (i + d + 1) + 1 = i + (d + 1) + 1
    OBVIOUS
  <2>3. s[i + d + 1] < s[i + (d + 1) + 1]
    BY <2>2
  <2>4. s[i] \in Nat /\ s[i + d + 1] \in Nat /\ s[i + (d + 1) + 1] \in Nat
    BY <2>2
  <2> QED
    BY <2>1, <2>3, <2>4
<1> HIDE DEF S
<1>3. \A d \in Nat : d \in S
  BY <1>1, <1>2, Upward
<1> SUFFICES ASSUME NEW i \in 1 .. n, NEW k \in 1 .. n, i < k
             PROVE  s[i] < s[k]
  BY DEF IsAscending
<1>4. k - i - 1 \in Nat /\ i + (k - i - 1) + 1 = k
  OBVIOUS
<1>5. k - i - 1 \in S
  BY <1>3, <1>4
<1>6. s[i] < s[i + (k - i - 1) + 1]
  BY <1>4, <1>5 DEF S
<1> QED
  BY <1>4, <1>6

\* The loop of a range reaches its end.
LEMMA DoubledDoubles ==
  ASSUME NEW first \in Nat \ {0}, NEW last \in Nat, first <= last
  PROVE  /\ doubled(first, last) \in Seq(Nat)
         /\ Doubles(doubled(first, last), first, last)
         /\ IsAscending(doubled(first, last))
         /\ \A i \in DOMAIN doubled(first, last) : doubled(first, last)[i] \in 1 .. last
<1> DEFINE X == {s \in Seq(Nat) : Len(s) >= 1}
           End(s) == s[Len(s)]
           Pushed(s) == IF 2 * End(s) <= last THEN Append(s, 2 * End(s)) ELSE s
           step == [p \in Nat \X X |-> Pushed(p[2])]
<1>1. \A s \in X : Len(s) \in Nat \ {0} /\ End(s) \in Nat
  BY ElementOfSeq, LenProperties
<1>2. \A s \in X : Pushed(s) \in X
  <2> SUFFICES ASSUME NEW s \in X, 2 * End(s) <= last
               PROVE  Append(s, 2 * End(s)) \in X
    OBVIOUS
  <2>1. 2 * End(s) \in Nat /\ s \in Seq(Nat) /\ Len(s) \in Nat \ {0}
    BY <1>1
  <2> HIDE DEF End
  <2> QED
    BY <2>1, AppendProperties
<1>3. step \in [Nat \X X -> X]
  BY <1>2
<1>4. <<first>> \in X
  OBVIOUS
<1> HIDE DEF X
<1>5. PICK f \in [0 .. last -> X] : Turns(f, last, <<first>>, step)
  <2> HIDE DEF step
  <2> QED
    BY <1>3, <1>4, LoopExists
<1>6. f = [i \in 0 .. last |-> IF i = 0 THEN <<first>> ELSE Pushed(f[i - 1])]
  <2>1. \A i \in 1 .. last : step[<<i, f[i - 1]>>] = Pushed(f[i - 1])
    OBVIOUS
  <2> HIDE DEF step, Pushed
  <2>0. f = [i \in 0 .. last |-> IF i = 0 THEN <<first>> ELSE step[<<i, f[i - 1]>>]]
    BY <1>5 DEF Turns
  <2>2. \A i \in 0 .. last :
           (IF i = 0 THEN <<first>> ELSE step[<<i, f[i - 1]>>])
               = (IF i = 0 THEN <<first>> ELSE Pushed(f[i - 1]))
    BY <2>1
  <2> QED
    BY <2>0, <2>2
<1> DEFINE g == CHOOSE h : h = [i \in 0 .. last |-> IF i = 0 THEN <<first>> ELSE Pushed(h[i - 1])]
<1>7. doubled(first, last) = g[last]
  BY DEF doubled
<1>8. g = [i \in 0 .. last |-> IF i = 0 THEN <<first>> ELSE Pushed(g[i - 1])]
  <2> HIDE DEF Pushed
  <2> QED
    BY <1>6
<1> HIDE DEF g
<1> DEFINE Fine(s, i) == /\ s \in Seq(Nat) /\ Len(s) >= 1 /\ s[1] = first
                         /\ \A k \in 1 .. Len(s) - 1 : s[k + 1] = 2 * s[k]
                         /\ \A k \in 1 .. Len(s) : s[k] >= k
                         /\ End(s) <= last
                         /\ last < 2 * End(s) \/ Len(s) = i + 1
           S == {i \in Nat : i <= last => Fine(g[i], i)}
<1>9. 0 \in S
  <2>1. g[0] = <<first>>
    BY <1>8
  <2>2. Fine(<<first>>, 0)
    OBVIOUS
  <2> HIDE DEF Fine
  <2> QED
    BY <2>1, <2>2
<1>10. ASSUME NEW s, NEW i \in Nat, Fine(s, i)
       PROVE  Fine(Pushed(s), i + 1)
  <2>1. Len(s) \in Nat \ {0} /\ End(s) \in Nat /\ s \in Seq(Nat)
    BY <1>10, ElementOfSeq, LenProperties
  <2>2. CASE ~(2 * End(s) <= last)
    BY <1>10, <2>1, <2>2
  <2>3. CASE 2 * End(s) <= last
    <3> DEFINE e == 2 * s[Len(s)]
               t == Append(s, e)
    <3>1. e \in Nat /\ Pushed(s) = t
      BY <2>1, <2>3
    <3>2. Len(s) = i + 1 /\ s[Len(s)] >= Len(s)
      BY <1>10, <2>1, <2>3
    <3>3. /\ t \in Seq(Nat) /\ Len(t) = Len(s) + 1
          /\ \A k \in 1 .. Len(s) : t[k] = s[k]
          /\ t[Len(s) + 1] = e
      BY <2>1, <3>1, AppendProperties
    <3>4. e >= Len(s) + 1 /\ e <= last
      BY <2>1, <2>3, <3>2
    <3>5. e = 2 * s[Len(s)]
      OBVIOUS
    <3> HIDE DEF e, t
    <3>6. \A k \in 1 .. Len(t) - 1 : t[k + 1] = 2 * t[k]
      <4> SUFFICES ASSUME NEW k \in 1 .. Len(t) - 1 PROVE t[k + 1] = 2 * t[k]
        OBVIOUS
      <4>1. CASE k = Len(s)
        BY <2>1, <3>3, <3>5, <4>1
      <4>2. CASE k # Len(s)
        <5>1. k \in 1 .. Len(s) - 1 /\ k \in 1 .. Len(s) /\ k + 1 \in 1 .. Len(s)
          BY <2>1, <3>3, <4>2
        <5>2. s[k + 1] = 2 * s[k]
          BY <1>10, <5>1
        <5> QED
          BY <3>3, <5>1, <5>2
      <4> QED
        BY <4>1, <4>2
    <3>7. \A k \in 1 .. Len(t) : t[k] >= k
      <4> SUFFICES ASSUME NEW k \in 1 .. Len(t) PROVE t[k] >= k
        OBVIOUS
      <4>1. CASE k = Len(s) + 1
        BY <3>3, <3>4, <4>1
      <4>2. CASE k # Len(s) + 1
        <5>1. k \in 1 .. Len(s)
          BY <2>1, <3>3, <4>2
        <5>2. s[k] >= k
          BY <1>10, <5>1
        <5> QED
          BY <3>3, <5>1, <5>2
      <4> QED
        BY <4>1, <4>2
    <3>8. Len(t) >= 1 /\ t[1] = first /\ t[Len(t)] <= last /\ Len(t) = (i + 1) + 1
      BY <1>10, <2>1, <3>2, <3>3, <3>4
    <3>9. Fine(t, i + 1)
      BY <3>3, <3>6, <3>7, <3>8
    <3> QED
      BY <3>1, <3>9
  <2> QED
    BY <2>2, <2>3
<1>11. ASSUME NEW i \in S \cap Nat
       PROVE  i + 1 \in S
  <2> SUFFICES ASSUME i + 1 <= last PROVE Fine(g[i + 1], i + 1)
    OBVIOUS
  <2>1. Fine(g[i], i)
    OBVIOUS
  <2> HIDE DEF Pushed, Fine
  <2>2. g[i + 1] = Pushed(g[i])
    <3>1. i + 1 \in 0 .. last /\ i + 1 # 0 /\ (i + 1) - 1 = i
      OBVIOUS
    <3> QED
      BY <1>8, <3>1
  <2> QED
    BY <1>10, <2>1, <2>2
<1> HIDE DEF S
<1>12. last \in S
  BY <1>9, <1>11, Upward
<1>13. Fine(g[last], last)
  BY <1>12 DEF S
<1> DEFINE d == g[last]
           n == Len(d)
<1>14. /\ d \in Seq(Nat) /\ n \in Nat \ {0} /\ d \in [1 .. n -> Nat] /\ DOMAIN d = 1 .. n
       /\ d[1] = first /\ d[n] <= last
       /\ \A k \in 1 .. n - 1 : d[k + 1] = 2 * d[k]
       /\ \A k \in 1 .. n : d[k] >= k
       /\ last < 2 * d[n] \/ n = last + 1
  <2> HIDE DEF Fine
  <2>1. Fine(d, last)
    BY <1>13
  <2> HIDE DEF d
  <2>2. /\ d \in Seq(Nat) /\ Len(d) >= 1 /\ d[1] = first /\ d[Len(d)] <= last
        /\ \A k \in 1 .. Len(d) - 1 : d[k + 1] = 2 * d[k]
        /\ \A k \in 1 .. Len(d) : d[k] >= k
        /\ last < 2 * d[Len(d)] \/ Len(d) = last + 1
    BY <2>1 DEF Fine
  <2>3. Len(d) \in Nat /\ d \in [1 .. Len(d) -> Nat] /\ DOMAIN d = 1 .. Len(d)
    BY <2>2, LenProperties
  <2>4. n \in Nat \ {0}
    <3>1. Len(d) >= 1
      BY <2>2
    <3>2. Len(d) \in Nat
      BY <2>3
    <3> QED
      BY <3>1, <3>2
  <2> QED
    <3> HIDE DEF n
    <3>1. n = Len(d)
      BY DEF n
    <3> QED
      BY <2>2, <2>3, <2>4, <3>1
<1> HIDE DEF d, n
<1>15. last < 2 * d[n]
  BY <1>14
<1>16. IsAscending(d)
  <2>1. ASSUME NEW i \in 1 .. n - 1 PROVE d[i] < d[i + 1]
    <3>1. i \in 1 .. n /\ n \in Nat
      BY <1>14
    <3>2. d[i] \in Nat /\ d[i] >= i /\ d[i + 1] = 2 * d[i]
      BY <1>14, <3>1
    <3> QED
      BY <3>1, <3>2
  <2> QED
    BY <1>14, <2>1, AdjacentAscends
<1>17. \A i \in 1 .. n : d[i] \in 1 .. last
  <2> SUFFICES ASSUME NEW i \in 1 .. n PROVE d[i] \in 1 .. last
    OBVIOUS
  <2>1. i = n \/ d[i] < d[n]
    BY <1>14, <1>16 DEF IsAscending
  <2>2. d[i] >= i /\ d[n] <= last
    BY <1>14
  <2>3. n \in 1 .. n
    BY <1>14
  <2>4. d[i] \in Nat /\ d[n] \in Nat
    BY <1>14, <2>3
  <2> QED
    BY <2>1, <2>2, <2>4
<1>18. Doubles(d, first, last)
  <2>1. n >= 1
    BY <1>14
  <2>2. n = Len(d)
    BY DEF n
  <2> QED
    BY <1>14, <1>15, <2>1, <2>2 DEF Doubles
<1> QED
  BY <1>7, <1>14, <1>16, <1>17, <1>18 DEF d

\* A token is read as its value or refused.
LEMMA TokenRead ==
  ASSUME NEW tok \in Tokens
  PROVE  /\ Legal(tok) => parse_one_size(tok) = Value(tok)
         /\ ~Legal(tok) => parse_one_size(tok) = TooBad
         /\ tok # None
<1>1. CASE tok \in {JunkPart, BlankPart}
  BY <1>1 DEF Legal, parse_one_size, JunkPart, BlankPart, None
<1>2. CASE tok \notin {JunkPart, BlankPart}
  <2>1. tok.num \in Nat /\ tok.suffix \in 0 .. 3
    BY <1>2, TokensAssumption
  <2>2. K \in Nat /\ K * K \in Nat /\ K * K * K \in Nat
    BY LimitsAssumption
  <2>3. <<1, K, K * K, K * K * K>>[tok.suffix + 1] \in Nat
    BY <2>1, <2>2
  <2>4. Value(tok) \in Nat
    BY <2>1, <2>3 DEF Value
  <2>5. tok # None
    BY <2>1 DEF None
  <2> QED
    BY <1>2, <2>4, <2>5, LimitsAssumption DEF Legal, parse_one_size, TooBad
<1> QED
  BY <1>1, <1>2

\* resolve_buf_len takes the last size of an ascending sweep, the greatest.
LEMMA LastIsGreatest ==
  ASSUME NEW spec, spec # NoSizes, NEW n \in Nat \ {0},
         parse_sizes(spec) \in [1 .. n -> 1 .. SgeLimit], IsAscending(parse_sizes(spec))
  PROVE  Fits(parse_sizes(spec), spec)
<1> DEFINE s == parse_sizes(spec)
<1>1. s \in Seq(1 .. SgeLimit) /\ Len(s) = n /\ s # NoSweep
  <2>1. s \in [1 .. n -> 1 .. SgeLimit]
    OBVIOUS
  <2> HIDE DEF s
  <2>2. s \in Seq(1 .. SgeLimit) /\ Len(s) = n
    <3>1. s \in Seq(1 .. SgeLimit)
      BY <2>1, SeqDef
    <3>2. 1 .. n = 1 .. Len(s) /\ Len(s) \in Nat
      BY <2>1, <3>1, LenProperties
    <3> QED
      BY <3>1, <3>2
  <2>3. Len(NoSweep) = 0
    BY DEF NoSweep
  <2> QED
    BY <2>2, <2>3
<1>2. resolve_buf_len(None, spec) = s[n]
  BY <1>1 DEF resolve_buf_len
<1>3. s \in [1 .. n -> 1 .. SgeLimit] /\ IsAscending(s) /\ SgeLimit \in Nat
  BY LimitsAssumption
<1> HIDE DEF s
<1>4. \A i \in 1 .. n : s[i] <= s[n]
  <2> SUFFICES ASSUME NEW i \in 1 .. n PROVE s[i] <= s[n]
    OBVIOUS
  <2>1. i = n \/ s[i] < s[n]
    BY <1>3 DEF IsAscending
  <2>2. s[i] \in Nat /\ s[n] \in Nat
    BY <1>3
  <2> QED
    BY <2>1, <2>2
<1>5. ToSet(s) \subseteq 1 .. SgeLimit /\ \A x \in ToSet(s) : x <= s[n]
  BY <1>3, <1>4 DEF ToSet
<1>6. Fits(s, spec)
  BY <1>2, <1>3, <1>5 DEF Fits
<1> QED
  BY <1>6 DEF s

\* parse_sizes of a comma list.
LEMMA ListsParsed == ListsAsAsked
<1> SUFFICES ASSUME NEW spec \in Lists
             PROVE  IF IsLegalList(spec)
                    THEN /\ ToSet(parse_sizes(spec)) = {Value(tok) : tok \in Named(spec)}
                         /\ Fits(parse_sizes(spec), spec)
                    ELSE IsRefused(spec)
  BY DEF ListsAsAsked
<1> DEFINE Values == {parse_one_size(tok) : tok \in Named(spec)}
<1>1. PICK l \in Nat : spec.list \in [1 .. l -> Tokens]
  BY BoundsAssumption DEF Lists
<1>2. "list" \in DOMAIN spec
  BY DEF Lists
<1>3. Named(spec) \subseteq Tokens /\ spec # NoSizes
  <2>1. ToSet(spec.list) \subseteq Tokens
    BY <1>1 DEF ToSet
  <2>2. ASSUME spec = NoSizes PROVE FALSE
    <3>1. None \in ToSet(spec.list)
      BY <2>2 DEF NoSizes, ToSet
    <3> QED
      BY <2>1, <3>1, TokenRead
  <2> QED
    BY <2>1, <2>2 DEF Named
<1>4. parse_sizes(spec) = IF TooBad \in Values \/ Named(spec) = {} THEN NoSweep
                          ELSE ascending(Values)
  BY <1>2 DEF parse_sizes, parse_list, Named
<1>5. CASE ~IsLegalList(spec)
  <2>1. TooBad \in Values \/ Named(spec) = {}
    BY <1>3, <1>5, TokenRead DEF IsLegalList
  <2>2. parse_sizes(spec) = NoSweep
    BY <1>4, <2>1
  <2>3. resolve_buf_len(None, spec) = TooBad
    BY <1>3, <2>2 DEF resolve_buf_len
  <2> QED
    BY <1>5, <2>2, <2>3 DEF IsRefused
<1>6. CASE IsLegalList(spec)
  <2>1. \A tok \in Named(spec) : parse_one_size(tok) = Value(tok) /\ Value(tok) \in 1 .. SgeLimit
    BY <1>3, <1>6, TokenRead DEF IsLegalList, Legal
  <2>2. Values = {Value(tok) : tok \in Named(spec)} /\ Values \subseteq 1 .. SgeLimit /\ Values # {}
    BY <1>6, <2>1 DEF IsLegalList
  <2> HIDE DEF Values
  <2>3. TooBad \notin Values
    BY <2>2 DEF TooBad
  <2>4. IsFiniteSet(Values)
    <3>1. 1 \in Int /\ SgeLimit \in Int
      BY LimitsAssumption
    <3>2. IsFiniteSet(1 .. SgeLimit)
      BY <3>1, FS_Interval
    <3> QED
      BY <2>2, <3>2, FS_Subset
  <2>5. parse_sizes(spec) = ascending(Values)
    BY <1>4, <1>6, <2>3 DEF IsLegalList
  <2>6. Values \in SUBSET Nat
    BY <2>2, LimitsAssumption
  <2> DEFINE n == Cardinality(Values)
  <2>7. /\ ascending(Values) \in [1 .. n -> Values] /\ IsAscending(ascending(Values))
        /\ n \in Nat /\ ToSet(ascending(Values)) = Values
    BY <2>4, <2>6, AscendingSorts
  <2>8. n # 0
    BY <2>2, <2>4, FS_EmptySet
  <2> HIDE DEF n
  <2>9. parse_sizes(spec) \in [1 .. n -> 1 .. SgeLimit]
    BY <2>2, <2>5, <2>7
  <2>10. Fits(parse_sizes(spec), spec)
    BY <1>3, <2>5, <2>7, <2>8, <2>9, LastIsGreatest
  <2> QED
    BY <1>6, <2>2, <2>5, <2>7, <2>10
<1> QED
  BY <1>5, <1>6

\* parse_sizes of first..last.
LEMMA RangesParsed == RangesAsAsked
<1> SUFFICES ASSUME NEW spec \in Ranges
             PROVE  IF IsLegalRange(spec)
                    THEN /\ Doubles(parse_sizes(spec), Value(spec.first), Value(spec.last))
                         /\ Fits(parse_sizes(spec), spec)
                    ELSE IsRefused(spec)
  BY DEF RangesAsAsked
<1> DEFINE lo == parse_one_size(spec.first)
           hi == parse_one_size(spec.last)
<1>1. spec.first \in Tokens /\ spec.last \in Tokens
  BY DEF Ranges
<1>2. "list" \notin DOMAIN spec /\ spec # NoSizes
  BY DEF Ranges, NoSizes
<1>3. parse_sizes(spec) = IF lo = TooBad \/ hi = TooBad \/ hi < lo THEN NoSweep
                          ELSE doubled(lo, hi)
  BY <1>2 DEF parse_sizes, parse_range
<1>4. CASE ~IsLegalRange(spec)
  <2>1. lo = TooBad \/ hi = TooBad \/ hi < lo
    <3>1. CASE Legal(spec.first) /\ Legal(spec.last)
      <4>1. lo = Value(spec.first) /\ hi = Value(spec.last) /\ lo \in Int /\ hi \in Int
        BY <1>1, <3>1, TokenRead DEF Legal
      <4> QED
        BY <1>4, <3>1, <4>1 DEF IsLegalRange
    <3> QED
      BY <1>1, <3>1, TokenRead
  <2>2. parse_sizes(spec) = NoSweep
    BY <1>3, <2>1
  <2>3. resolve_buf_len(None, spec) = TooBad
    BY <1>2, <2>2 DEF resolve_buf_len
  <2> QED
    BY <1>4, <2>2, <2>3 DEF IsRefused
<1>5. CASE IsLegalRange(spec)
  <2>1. /\ lo = Value(spec.first) /\ hi = Value(spec.last)
        /\ lo \in 1 .. SgeLimit /\ hi \in 1 .. SgeLimit /\ lo <= hi
    BY <1>1, <1>5, TokenRead DEF IsLegalRange, Legal
  <2> HIDE DEF lo, hi
  <2>2. lo \in Nat \ {0} /\ hi \in Nat \ {0} /\ SgeLimit \in Nat
    BY <2>1, LimitsAssumption
  <2>3. parse_sizes(spec) = doubled(lo, hi)
    BY <1>3, <2>1, <2>2 DEF TooBad
  <2> DEFINE s == doubled(lo, hi)
  <2>4. /\ s \in Seq(Nat) /\ Doubles(s, lo, hi) /\ IsAscending(s)
        /\ \A i \in DOMAIN s : s[i] \in 1 .. hi
    BY <2>1, <2>2, DoubledDoubles
  <2> HIDE DEF s
  <2>5. Len(s) \in Nat \ {0} /\ s \in [1 .. Len(s) -> 1 .. SgeLimit]
    <3>1. Len(s) \in Nat /\ s \in [1 .. Len(s) -> Nat] /\ DOMAIN s = 1 .. Len(s)
      BY <2>4, LenProperties
    <3>2. Len(s) >= 1
      BY <2>4 DEF Doubles
    <3>3. \A i \in 1 .. Len(s) : s[i] \in 1 .. SgeLimit
      BY <2>1, <2>2, <2>4, <3>1
    <3> QED
      BY <3>1, <3>2, <3>3
  <2>6. Fits(parse_sizes(spec), spec)
    BY <1>2, <2>3, <2>4, <2>5, LastIsGreatest DEF s
  <2> QED
    BY <1>5, <2>1, <2>3, <2>4, <2>6 DEF s
<1> QED
  BY <1>4, <1>5

\* The greater and the smaller of two numbers.
LEMMA TwoNumbers ==
  ASSUME NEW a \in Int, NEW b \in Int
  PROVE  Max({a, b}) = (IF a >= b THEN a ELSE b) /\ Min({a, b}) = (IF a <= b THEN a ELSE b)
<1>1. Max({a, b}) \in {a, b} /\ \A y \in {a, b} : Max({a, b}) >= y
  <2>1. \E x \in {a, b} : \A y \in {a, b} : x >= y
    OBVIOUS
  <2> QED
    BY <2>1 DEF Max
<1>2. Min({a, b}) \in {a, b} /\ \A y \in {a, b} : Min({a, b}) <= y
  <2>1. \E x \in {a, b} : \A y \in {a, b} : x <= y
    OBVIOUS
  <2> QED
    BY <2>1 DEF Min
<1> QED
  BY <1>1, <1>2

\* The percentiles of stats.
LEMMA RanksFound == RanksAreNearest
<1> SUFFICES ASSUME NEW n \in 1 .. MaxSamples, NEW p \in {50, 99}
             PROVE  /\ rank_index(p, n) \in 0 .. n - 1
                    /\ (rank_index(p, n) + 1) * 100 >= p * n
                    /\ rank_index(p, n) * 100 < p * n
  BY DEF RanksAreNearest
<1>1. n \in Nat \ {0}
  BY BoundsAssumption
<1> DEFINE c == CeilDiv(p * n, 100)
<1>2. c \in Nat \ {0} /\ c <= n /\ c * 100 >= p * n /\ (c - 1) * 100 < p * n
  BY <1>1 DEF CeilDiv
<1> HIDE DEF c
<1>3. Max({c - 1, 0}) = c - 1
  BY <1>2, TwoNumbers
<1>4. Min({c - 1, n - 1}) = c - 1
  <2>1. c - 1 \in Int /\ n - 1 \in Int /\ c - 1 <= n - 1
    BY <1>1, <1>2
  <2> HIDE DEF c
  <2> QED
    BY <2>1, TwoNumbers
<1>5. rank_index(p, n) = c - 1
  BY <1>3, <1>4 DEF rank_index, c
<1> QED
  BY <1>1, <1>2, <1>5

-----------------------------------------------------------------------------
(* Sequences.                                                              *)

\* A function on 1 .. n is a sequence of length n.
LEMMA FunctionIsSeq ==
  ASSUME NEW S, NEW n \in Nat, NEW s \in [1 .. n -> S]
  PROVE  s \in Seq(S) /\ Len(s) = n
<1>1. s \in Seq(S)
  BY SeqDef
<1>2. 1 .. n = 1 .. Len(s) /\ Len(s) \in Nat
  BY <1>1, LenProperties
<1> QED
  BY <1>1, <1>2

\* Sequences are what they hold.
LEMMA SameSeq ==
  ASSUME NEW S, NEW s \in Seq(S), NEW T, NEW t \in Seq(T), Len(s) = Len(t),
         \A i \in 1 .. Len(s) : s[i] = t[i]
  PROVE  s = t
<1>1. s \in [1 .. Len(s) -> S] /\ t \in [1 .. Len(s) -> T]
  BY LenProperties
<1> QED
  BY <1>1

-----------------------------------------------------------------------------
(* Numbers.                                                                *)

\* A byte has more than one value.
LEMMA ByteIs ==
  /\ Byte \in Nat \ {0} /\ Byte > 1 /\ Bytes = 0 .. Byte - 1
  /\ Digit \in Nat /\ Digit > 1
<1>1. Digit \in Nat /\ Digit >= 2
  BY WidthsAssumption
<1>2. Digit * Digit >= 2 * 2
  BY <1>1
<1> QED
  BY <1>1, <1>2 DEF Byte, Bytes

\* Quotients divides again and again.
LEMMA QuotientsAre ==
  ASSUME NEW n \in Nat, NEW w \in Nat
  PROVE  /\ Quotients(n, w) \in [0 .. w -> Nat]
         /\ Quotients(n, w)[0] = n
         /\ \A i \in 1 .. w : Quotients(n, w)[i] = Quotients(n, w)[i - 1] \div Byte
<1> DEFINE step == [p \in Nat \X Nat |-> p[2] \div Byte]
           g == CHOOSE h : h = [i \in 0 .. w |-> IF i = 0 THEN n ELSE h[i - 1] \div Byte]
<1>1. step \in [Nat \X Nat -> Nat]
  BY ByteIs
<1>2. PICK f \in [0 .. w -> Nat] : Turns(f, w, n, step)
  <2> HIDE DEF step
  <2> QED
    BY <1>1, LoopExists
<1>3. f = [i \in 0 .. w |-> IF i = 0 THEN n ELSE f[i - 1] \div Byte]
  <2>1. \A i \in 1 .. w : step[<<i, f[i - 1]>>] = f[i - 1] \div Byte
    OBVIOUS
  <2> HIDE DEF step
  <2> QED
    BY <1>2, <2>1 DEF Turns
<1>4. g = [i \in 0 .. w |-> IF i = 0 THEN n ELSE g[i - 1] \div Byte]
  BY <1>3
<1>5. Quotients(n, w) = g
  BY DEF Quotients
<1> HIDE DEF g
<1> DEFINE S == {i \in Nat : i <= w => g[i] \in Nat}
<1>6. 0 \in S
  BY <1>4
<1>7. ASSUME NEW i \in S \cap Nat
      PROVE  i + 1 \in S
  <2> SUFFICES ASSUME i + 1 <= w PROVE g[i + 1] \in Nat
    OBVIOUS
  <2>1. g[i] \in Nat
    OBVIOUS
  <2>2. g[i + 1] = g[i] \div Byte
    <3>1. i + 1 \in 0 .. w /\ i + 1 # 0 /\ (i + 1) - 1 = i
      OBVIOUS
    <3> QED
      BY <1>4, <3>1
  <2>3. \A x \in Nat : x \div Byte \in Nat
    BY ByteIs, DivMod
  <2> QED
    BY <2>1, <2>2, <2>3
<1> HIDE DEF S
<1>8. \A i \in Nat : i \in S
  BY <1>6, <1>7, Upward
<1>9. \A i \in 0 .. w : g[i] \in Nat
  BY <1>8 DEF S
<1>10. g \in [0 .. w -> Nat]
  BY <1>4, <1>9
<1>11. g[0] = n /\ \A i \in 1 .. w : g[i] = g[i - 1] \div Byte
  BY <1>4
<1> QED
  BY <1>5, <1>10, <1>11

\* to_le_bytes gives as many bytes as asked.
LEMMA BytesOf ==
  ASSUME NEW n \in Nat, NEW w \in Nat
  PROVE  to_le_bytes(n, w) \in Seq(Bytes) /\ Len(to_le_bytes(n, w)) = w
<1>1. \A i \in 1 .. w : Quotients(n, w)[i - 1] % Byte \in Bytes
  <2> SUFFICES ASSUME NEW i \in 1 .. w
               PROVE  Quotients(n, w)[i - 1] % Byte \in Bytes
    OBVIOUS
  <2>1. i - 1 \in 0 .. w
    OBVIOUS
  <2>2. Quotients(n, w)[i - 1] \in Nat
    BY <2>1, QuotientsAre
  <2> QED
    BY <2>2, ByteIs, DivMod
<1>2. to_le_bytes(n, w) \in [1 .. w -> Bytes]
  BY <1>1 DEF to_le_bytes
<1> QED
  BY <1>2, FunctionIsSeq

\* What is split into bytes and put together again.
LEMMA NumberTravels ==
  ASSUME NEW n, NEW w \in Nat, IsOfWidth(n, w)
  PROVE  from_le_bytes(to_le_bytes(n, w)) = n
<1> DEFINE q == Quotients(n, w)
           b == to_le_bytes(n, w)
           g == CHOOSE h : h = [i \in 0 .. Len(b) |->
                     IF i = 0 THEN 0 ELSE b[Len(b) - i + 1] + Byte * h[i - 1]]
           v == [i \in 0 .. w |-> q[w - i]]
<1>1. n \in Nat /\ q[w] = 0
  BY DEF IsOfWidth
<1>2. /\ q \in [0 .. w -> Nat] /\ q[0] = n
      /\ \A i \in 1 .. w : q[i] = q[i - 1] \div Byte
  BY <1>1, QuotientsAre
<1>3. Len(b) = w
  BY <1>1, BytesOf
<1>4. \A i \in 1 .. w : b[i] = q[i - 1] % Byte
  BY DEF to_le_bytes
<1>5. from_le_bytes(b) = g[w]
  BY <1>3 DEF from_le_bytes
<1> HIDE DEF q, b
<1>6. \A i \in 1 .. w : v[i] = b[w - i + 1] + Byte * v[i - 1]
  <2> SUFFICES ASSUME NEW i \in 1 .. w PROVE v[i] = b[w - i + 1] + Byte * v[i - 1]
    OBVIOUS
  <2>1. w - i \in 0 .. w /\ w - i + 1 \in 1 .. w /\ (w - i + 1) - 1 = w - i
        /\ w - (i - 1) = w - i + 1 /\ i - 1 \in 0 .. w
    OBVIOUS
  <2>2. v[i] = q[w - i] /\ v[i - 1] = q[w - i + 1]
    BY <2>1
  <2>3. b[w - i + 1] = q[w - i] % Byte /\ q[w - i + 1] = q[w - i] \div Byte /\ q[w - i] \in Nat
    BY <1>2, <1>4, <2>1
  <2>4. \A x \in Nat : (x % Byte) + Byte * (x \div Byte) = x
    <3> SUFFICES ASSUME NEW x \in Nat
                 PROVE  (x % Byte) + Byte * (x \div Byte) = x
      OBVIOUS
    <3> DEFINE m == x % Byte
               p == x \div Byte
    <3>1. p \in Nat /\ m \in 0 .. Byte - 1 /\ x = Byte * p + m
      BY ByteIs, DivMod
    <3> HIDE DEF m, p
    <3>2. m + Byte * p = x
      BY <3>1, ByteIs
    <3> QED
      BY <3>2 DEF m, p
  <2>5. (q[w - i] % Byte) + Byte * (q[w - i] \div Byte) = q[w - i]
    BY <2>3, <2>4
  <2> QED
    BY <2>2, <2>3, <2>5
<1>7. v[0] = 0 /\ v[w] = n
  BY <1>1, <1>2
<1> HIDE DEF v
<1>8. v = [i \in 0 .. w |-> IF i = 0 THEN 0 ELSE b[w - i + 1] + Byte * v[i - 1]]
  <2>1. v = [i \in 0 .. w |-> v[i]]
    BY DEF v
  <2>2. \A i \in 0 .. w : v[i] = IF i = 0 THEN 0 ELSE b[w - i + 1] + Byte * v[i - 1]
    BY <1>6, <1>7
  <2> QED
    BY <2>1, <2>2
<1>9. g = [i \in 0 .. w |-> IF i = 0 THEN 0 ELSE b[w - i + 1] + Byte * g[i - 1]]
  BY <1>3, <1>8
<1> HIDE DEF g
<1> DEFINE S == {i \in Nat : i <= w => g[i] = v[i]}
<1>10. 0 \in S
  BY <1>7, <1>9
<1>11. ASSUME NEW i \in S \cap Nat
       PROVE  i + 1 \in S
  <2> SUFFICES ASSUME i + 1 <= w PROVE g[i + 1] = v[i + 1]
    OBVIOUS
  <2>1. g[i] = v[i] /\ i + 1 \in 1 .. w /\ i + 1 \in 0 .. w /\ (i + 1) - 1 = i /\ i + 1 # 0
    OBVIOUS
  <2>2. g[i + 1] = b[w - (i + 1) + 1] + Byte * g[i]
    BY <1>9, <2>1
  <2>3. v[i + 1] = b[w - (i + 1) + 1] + Byte * v[i]
    BY <1>6, <2>1
  <2> QED
    BY <2>1, <2>2, <2>3
<1> HIDE DEF S
<1>12. w \in S
  BY <1>10, <1>11, Upward
<1> QED
  BY <1>5, <1>7, <1>12 DEF S, b

-----------------------------------------------------------------------------
(* Things that lie one after the other.                                    *)

\* Ends adds the lengths up.
LEMMA EndsAre ==
  ASSUME NEW start \in Nat, NEW lens \in Seq(Nat)
  PROVE  LET e == Ends(start, lens)
         IN /\ e \in [0 .. Len(lens) -> Nat] /\ e[0] = start
            /\ \A i \in 1 .. Len(lens) : e[i] = e[i - 1] + lens[i]
<1> DEFINE n == Len(lens)
           step == [p \in Nat \X Nat |-> IF p[1] \in 1 .. n THEN p[2] + lens[p[1]] ELSE p[2]]
           g == CHOOSE h : h = [i \in 0 .. n |-> IF i = 0 THEN start ELSE h[i - 1] + lens[i]]
<1>1. n \in Nat /\ \A i \in 1 .. n : lens[i] \in Nat
  BY LenProperties
<1>2. Ends(start, lens) = g
  BY DEF Ends
<1> HIDE DEF n
<1>3. step \in [Nat \X Nat -> Nat]
  BY <1>1
<1>4. PICK f \in [0 .. n -> Nat] : Turns(f, n, start, step)
  <2> HIDE DEF step
  <2> QED
    BY <1>1, <1>3, LoopExists
<1>5. f = [i \in 0 .. n |-> IF i = 0 THEN start ELSE f[i - 1] + lens[i]]
  <2>1. \A i \in 1 .. n : step[<<i, f[i - 1]>>] = f[i - 1] + lens[i]
    <3> SUFFICES ASSUME NEW i \in 1 .. n PROVE step[<<i, f[i - 1]>>] = f[i - 1] + lens[i]
      OBVIOUS
    <3>1. i - 1 \in 0 .. n /\ i \in Nat
      BY <1>1
    <3>2. f[i - 1] \in Nat
      BY <3>1
    <3> QED
      BY <3>1, <3>2
  <2> HIDE DEF step
  <2>2. f = [i \in 0 .. n |-> IF i = 0 THEN start ELSE step[<<i, f[i - 1]>>]]
    BY <1>4 DEF Turns
  <2>3. \A i \in 0 .. n : f[i] = IF i = 0 THEN start ELSE f[i - 1] + lens[i]
    <3> SUFFICES ASSUME NEW i \in 0 .. n
                 PROVE  f[i] = IF i = 0 THEN start ELSE f[i - 1] + lens[i]
      OBVIOUS
    <3>1. f[i] = IF i = 0 THEN start ELSE step[<<i, f[i - 1]>>]
      BY <2>2
    <3>2. CASE i = 0
      BY <3>1, <3>2
    <3>3. CASE i # 0
      <4>1. i \in 1 .. n
        BY <1>1, <3>3
      <4> QED
        BY <2>1, <3>1, <3>3, <4>1
    <3> QED
      BY <3>2, <3>3
  <2>4. f = [i \in 0 .. n |-> f[i]]
    OBVIOUS
  <2> QED
    BY <2>3, <2>4
<1>6. g = [i \in 0 .. n |-> IF i = 0 THEN start ELSE g[i - 1] + lens[i]]
  <2> HIDE DEF step
  <2> QED
    BY <1>5
<1> HIDE DEF g
<1> DEFINE S == {i \in Nat : i <= n => g[i] \in Nat}
<1>7. 0 \in S
  BY <1>1, <1>6
<1>8. ASSUME NEW i \in S \cap Nat
      PROVE  i + 1 \in S
  <2> SUFFICES ASSUME i + 1 <= n PROVE g[i + 1] \in Nat
    OBVIOUS
  <2>1. g[i] \in Nat /\ lens[i + 1] \in Nat
    BY <1>1
  <2>2. g[i + 1] = g[i] + lens[i + 1]
    <3>1. i + 1 \in 0 .. n /\ i + 1 # 0 /\ (i + 1) - 1 = i
      BY <1>1
    <3> QED
      BY <1>6, <3>1
  <2> QED
    BY <2>1, <2>2
<1> HIDE DEF S
<1>9. \A i \in Nat : i \in S
  BY <1>7, <1>8, Upward
<1>10. \A i \in 0 .. n : g[i] \in Nat
  BY <1>9 DEF S
<1>11. g \in [0 .. n -> Nat] /\ g[0] = start
  BY <1>1, <1>6, <1>10
<1>12. \A i \in 1 .. n : g[i] = g[i - 1] + lens[i]
  <2> SUFFICES ASSUME NEW i \in 1 .. n PROVE g[i] = g[i - 1] + lens[i]
    OBVIOUS
  <2>1. i \in 0 .. n /\ i # 0
    BY <1>1
  <2> QED
    BY <1>6, <2>1
<1> QED
  BY <1>2, <1>11, <1>12 DEF n

Lengths(pieces) == [i \in 1 .. Len(pieces) |-> Len(pieces[i])]

LEMMA LengthsAre ==
  ASSUME NEW S, NEW pieces \in Seq(Seq(S))
  PROVE  /\ Lengths(pieces) \in Seq(Nat) /\ Len(Lengths(pieces)) = Len(pieces)
         /\ \A i \in 1 .. Len(pieces) : Lengths(pieces)[i] = Len(pieces[i])
<1>1. Len(pieces) \in Nat /\ \A i \in 1 .. Len(pieces) : Len(pieces[i]) \in Nat
  BY ElementOfSeq, LenProperties
<1>2. Lengths(pieces) \in [1 .. Len(pieces) -> Nat]
  BY <1>1 DEF Lengths
<1> QED
  BY <1>1, <1>2, FunctionIsSeq DEF Lengths

\* In a flattened sequence piece i lies from the end of piece i - 1 to its own.
LEMMA Flattened ==
  ASSUME NEW S, NEW pieces \in Seq(Seq(S)), Len(pieces) > 0
  PROVE  LET e == Ends(0, Lengths(pieces))
             b == FlattenSeq(pieces)
         IN /\ b \in Seq(S) /\ Len(b) = e[Len(pieces)]
            /\ \A i \in 1 .. Len(pieces) : SubSeq(b, e[i - 1] + 1, e[i]) = pieces[i]
<1> DEFINE n == Len(pieces)
           e == Ends(0, Lengths(pieces))
           step == [p \in Nat \X Seq(S) |->
                      IF p[1] \in 1 .. n THEN p[2] \o pieces[p[1]] ELSE p[2]]
           g == CHOOSE h : h = [i \in 1 .. n |->
                      IF i = 1 THEN pieces[i] ELSE h[i - 1] \o pieces[i]]
<1>1. n \in Nat \ {0} /\ \A i \in 1 .. n : pieces[i] \in Seq(S) /\ Len(pieces[i]) \in Nat
  BY ElementOfSeq, LenProperties
<1>2. FlattenSeq(pieces) = g[n]
  BY <1>1 DEF FlattenSeq
<1>3. /\ e \in [0 .. n -> Nat] /\ e[0] = 0
      /\ \A i \in 1 .. n : e[i] = e[i - 1] + Len(pieces[i])
  BY LengthsAre, EndsAre
<1> HIDE DEF n, e
<1>4. step \in [Nat \X Seq(S) -> Seq(S)]
  <2> SUFFICES ASSUME NEW i \in 1 .. n, NEW s \in Seq(S) PROVE s \o pieces[i] \in Seq(S)
    OBVIOUS
  <2> QED
    BY <1>1, ConcatProperties
<1>5. <<>> \in Seq(S)
  BY EmptySeq
<1>6. PICK f \in [0 .. n -> Seq(S)] : Turns(f, n, <<>>, step)
  <2> HIDE DEF step
  <2> QED
    BY <1>1, <1>4, <1>5, LoopExists
<1>7. f[0] = <<>> /\ \A i \in 1 .. n : f[i] = f[i - 1] \o pieces[i]
  <2>1. \A i \in 1 .. n : i - 1 \in 0 .. n /\ i \in Nat /\ f[i - 1] \in Seq(S)
    BY <1>1
  <2>2. \A i \in 1 .. n : step[<<i, f[i - 1]>>] = f[i - 1] \o pieces[i]
    BY <2>1
  <2> HIDE DEF step
  <2>3. f = [i \in 0 .. n |-> IF i = 0 THEN <<>> ELSE step[<<i, f[i - 1]>>]]
    BY <1>6 DEF Turns
  <2>4. f[0] = <<>>
    BY <1>1, <2>3
  <2>5. \A i \in 1 .. n : f[i] = step[<<i, f[i - 1]>>]
    <3> SUFFICES ASSUME NEW i \in 1 .. n PROVE f[i] = step[<<i, f[i - 1]>>]
      OBVIOUS
    <3>1. i \in 0 .. n /\ i # 0
      BY <1>1
    <3> QED
      BY <2>3, <3>1
  <2> QED
    BY <2>2, <2>4, <2>5
<1> DEFINE f1 == [i \in 1 .. n |-> f[i]]
<1>8. f1 = [i \in 1 .. n |-> IF i = 1 THEN pieces[i] ELSE f1[i - 1] \o pieces[i]]
  <2>1. f[1] = pieces[1]
    <3>1. 1 \in 1 .. n /\ 1 - 1 = 0
      BY <1>1
    <3>2. f[1] = f[1 - 1] \o pieces[1]
      BY <1>7, <3>1
    <3>3. f[1] = <<>> \o pieces[1]
      BY <1>7, <3>1, <3>2
    <3>4. pieces[1] \in Seq(S)
      BY <1>1, <3>1
    <3> QED
      BY <3>3, <3>4, ConcatEmptySeq
  <2>2. \A i \in 1 .. n : f[i] = IF i = 1 THEN pieces[i] ELSE f1[i - 1] \o pieces[i]
    <3> SUFFICES ASSUME NEW i \in 1 .. n
                 PROVE  f[i] = IF i = 1 THEN pieces[i] ELSE f1[i - 1] \o pieces[i]
      OBVIOUS
    <3>1. CASE i = 1
      BY <2>1, <3>1
    <3>2. CASE i # 1
      <4>1. i - 1 \in 1 .. n
        BY <1>1, <3>2
      <4>2. f1[i - 1] = f[i - 1]
        BY <4>1
      <4> QED
        BY <1>7, <3>2, <4>2
    <3> QED
      BY <3>1, <3>2
  <2>3. f1 = [i \in 1 .. n |-> f1[i]] /\ \A i \in 1 .. n : f1[i] = f[i]
    OBVIOUS
  <2> HIDE DEF f1
  <2>4. \A i \in 1 .. n : f1[i] = IF i = 1 THEN pieces[i] ELSE f1[i - 1] \o pieces[i]
    BY <2>2, <2>3, Zenon
  <2>5. f1 = [i \in 1 .. n |-> f1[i]]
    BY <2>3
  <2> QED
    BY <2>4, <2>5, Zenon
<1>9. g = [i \in 1 .. n |-> IF i = 1 THEN pieces[i] ELSE g[i - 1] \o pieces[i]]
  <2> HIDE DEF f1
  <2> QED
    BY <1>8
<1> HIDE DEF g, f1, step
<1> DEFINE Good(i) == /\ g[i] \in Seq(S) /\ Len(g[i]) = e[i]
                      /\ \A j \in 1 .. i : /\ e[j] <= e[i]
                                           /\ \A k \in 1 .. Len(pieces[j]) :
                                                g[i][e[j - 1] + k] = pieces[j][k]
           T == {i \in Nat : i + 1 <= n => Good(i + 1)}
<1>10. 0 \in T
  <2>1. g[1] = pieces[1] /\ 1 \in 1 .. n
    BY <1>1, <1>9
  <2>2. e[1] = Len(pieces[1]) /\ e[1 - 1] = 0 /\ Len(pieces[1]) \in Nat
    BY <1>1, <1>3, <2>1
  <2>3. Good(1)
    BY <1>1, <2>1, <2>2
  <2> HIDE DEF Good
  <2> QED
    BY <2>3
<1>11. ASSUME NEW m \in T \cap Nat
       PROVE  m + 1 \in T
  <2> SUFFICES ASSUME (m + 1) + 1 <= n PROVE Good((m + 1) + 1)
    OBVIOUS
  <2> DEFINE i == m + 1
             p == pieces[i + 1]
  <2>1. Good(i)
    <3> HIDE DEF Good
    <3>1. m + 1 <= n
      BY <1>1
    <3> QED
      BY <3>1
  <2>2. i \in 1 .. n /\ i + 1 \in 1 .. n /\ i + 1 # 1 /\ (i + 1) - 1 = i /\ i \in Nat
    BY <1>1
  <2>3. g[i + 1] = g[i] \o p
    BY <1>9, <2>2
  <2>4. p \in Seq(S) /\ Len(p) \in Nat /\ e[i] \in Nat /\ e[i + 1] = e[i] + Len(p)
    <3> HIDE DEF i
    <3>1. i \in 0 .. n
      BY <1>1, <2>2
    <3>2. e[i + 1] = e[(i + 1) - 1] + Len(pieces[i + 1])
      BY <1>3, <2>2
    <3>3. e[i + 1] = e[i] + Len(pieces[i + 1])
      BY <2>2, <3>2
    <3> QED
      BY <1>1, <1>3, <2>2, <3>1, <3>3
  <2>5. g[i] \in Seq(S) /\ Len(g[i]) = e[i]
    BY <2>1
  <2> HIDE DEF i, p
  <2>6. /\ g[i + 1] \in Seq(S) /\ Len(g[i + 1]) = e[i + 1]
        /\ \A k \in 1 .. e[i] + Len(p) :
              g[i + 1][k] = IF k <= e[i] THEN g[i][k] ELSE p[k - e[i]]
    <3> DEFINE h == g[i]
               c == h \o p
    <3>1. h \in Seq(S) /\ p \in Seq(S)
      BY <2>4, <2>5
    <3> HIDE DEF h
    <3>2. /\ c \in Seq(S) /\ Len(c) = Len(h) + Len(p)
          /\ \A k \in 1 .. Len(h) + Len(p) : c[k] = IF k <= Len(h) THEN h[k] ELSE p[k - Len(h)]
      BY <3>1, ConcatProperties
    <3>3. g[i + 1] = c /\ Len(h) = e[i]
      BY <2>3, <2>5 DEF h
    <3> HIDE DEF c
    <3> QED
      BY <2>4, <3>2, <3>3 DEF h
  <2>7. ASSUME NEW j \in 1 .. i + 1
        PROVE  /\ e[j] <= e[i + 1]
               /\ \A k \in 1 .. Len(pieces[j]) : g[i + 1][e[j - 1] + k] = pieces[j][k]
    <3>1. CASE j = i + 1
      <4>1. \A k \in 1 .. Len(p) : e[i] + k \in 1 .. e[i] + Len(p) /\ ~(e[i] + k <= e[i])
                                   /\ (e[i] + k) - e[i] = k
        BY <2>4, SMTT(20)
      <4>2. \A k \in 1 .. Len(p) : g[i + 1][e[i] + k] = p[k]
        BY <2>6, <4>1
      <4>3. e[i] <= e[i + 1] /\ e[i + 1] <= e[i + 1]
        BY <2>4
      <4>4. j - 1 = i /\ p = pieces[j]
        BY <2>2, <3>1 DEF p
      <4> QED
        BY <3>1, <4>2, <4>3, <4>4
    <3>2. CASE j # i + 1
      <4>1. j \in 1 .. i /\ j \in 1 .. n /\ j - 1 \in 0 .. n /\ j \in 0 .. n
        <5>1. n \in Nat /\ i \in 1 .. n
          BY <1>1, <2>2
        <5>2. j \in 1 .. i
          BY <2>2, <3>2
        <5> QED
          BY <5>1, <5>2
      <4>2. /\ e[j] <= e[i] /\ e[j] \in Nat /\ e[j - 1] \in Nat
            /\ e[j] = e[j - 1] + Len(pieces[j]) /\ Len(pieces[j]) \in Nat
            /\ \A k \in 1 .. Len(pieces[j]) : g[i][e[j - 1] + k] = pieces[j][k]
        <5>1. e[j] \in Nat /\ e[j - 1] \in Nat
          BY <1>3, <4>1
        <5>2. e[j] = e[j - 1] + Len(pieces[j]) /\ Len(pieces[j]) \in Nat
          BY <1>1, <1>3, <4>1
        <5>3. e[j] <= e[i] /\ \A k \in 1 .. Len(pieces[j]) : g[i][e[j - 1] + k] = pieces[j][k]
          BY <2>1, <4>1
        <5> QED
          BY <5>1, <5>2, <5>3
      <4> DEFINE x == e[j - 1]
                 y == e[i]
                 l == Len(pieces[j])
      <4>3. \A k \in 1 .. l : x + k \in 1 .. y + Len(p) /\ x + k <= y
        <5>1. x \in Nat /\ y \in Nat /\ l \in Nat /\ Len(p) \in Nat /\ x + l <= y
          BY <2>4, <4>2
        <5> HIDE DEF x, y, l
        <5> QED
          BY <5>1, SMTT(20)
      <4>4. \A k \in 1 .. l : g[i + 1][x + k] = g[i][x + k]
        <5>1. \A k \in 1 .. y + Len(p) : k <= y => g[i + 1][k] = g[i][k]
          BY <2>6
        <5> HIDE DEF x, y, l
        <5> QED
          BY <4>3, <5>1
      <4>5. e[i + 1] >= e[i] /\ e[i + 1] \in Nat
        BY <2>4
      <4>6. e[j] <= e[i + 1]
        BY <2>4, <4>2, <4>5
      <4> QED
        BY <4>2, <4>4, <4>6
    <3> QED
      BY <3>1, <3>2
  <2>8. Good(i + 1)
    BY <2>6, <2>7
  <2> QED
    BY <2>8 DEF i
<1> HIDE DEF T
<1>12. n - 1 \in T
  <2>1. \A m \in Nat : m \in T
    BY <1>10, <1>11, Upward
  <2>2. n - 1 \in Nat
    BY <1>1
  <2> QED
    BY <2>1, <2>2
<1>13. Good(n)
  <2>1. (n - 1) + 1 = n /\ n <= n
    BY <1>1
  <2> HIDE DEF Good
  <2> QED
    BY <1>12, <2>1 DEF T
<1> DEFINE b == FlattenSeq(pieces)
<1>14. /\ b \in Seq(S) /\ Len(b) = e[n] /\ b = g[n]
  BY <1>2, <1>13
<1> HIDE DEF b
<1>15. ASSUME NEW i \in 1 .. n
       PROVE  SubSeq(b, e[i - 1] + 1, e[i]) = pieces[i]
  <2> DEFINE lo == e[i - 1] + 1
             hi == e[i]
             s == SubSeq(b, lo, hi)
  <2>1. /\ e[i - 1] \in Nat /\ e[i] \in Nat /\ e[i] = e[i - 1] + Len(pieces[i])
        /\ e[i] <= e[n] /\ pieces[i] \in Seq(S) /\ Len(pieces[i]) \in Nat
    <3>1. i \in 0 .. n /\ i - 1 \in 0 .. n
      BY <1>1
    <3>2. e[i - 1] \in Nat /\ e[i] \in Nat
      BY <1>3, <3>1
    <3>3. e[i] <= e[n]
      BY <1>13
    <3> QED
      BY <1>1, <1>3, <3>2, <3>3
  <2>2. \A k \in lo .. hi : b[k] \in S
    <3>1. \A k \in lo .. hi : k \in 1 .. Len(b)
      BY <1>14, <2>1
    <3> QED
      BY <1>14, <3>1, ElementOfSeq
  <2>3. lo \in Int /\ hi \in Int
    BY <2>1
  <2>4. /\ s \in Seq(S) /\ Len(s) = Len(pieces[i])
        /\ \A k \in 1 .. Len(pieces[i]) : s[k] = b[e[i - 1] + k]
    <3> HIDE DEF lo, hi
    <3>1. /\ s \in Seq(S) /\ Len(s) = IF lo <= hi THEN hi - lo + 1 ELSE 0
          /\ \A k \in 1 .. hi - lo + 1 : s[k] = b[lo + k - 1]
      BY <2>2, <2>3, SubSeqProperties
    <3> HIDE DEF s
    <3> DEFINE x == e[i - 1]
               l == Len(pieces[i])
    <3>2. x \in Nat /\ l \in Nat /\ lo = x + 1 /\ hi = x + l
      BY <2>1 DEF lo, hi
    <3> HIDE DEF x, l
    <3>3. hi - lo + 1 = l /\ \A k \in Int : lo + k - 1 = x + k
      BY <3>2
    <3>4. Len(s) = l
      BY <3>1, <3>2
    <3>5. \A k \in 1 .. l : s[k] = b[x + k]
      BY <3>1, <3>2, <3>3
    <3> QED
      BY <3>1, <3>4, <3>5 DEF x, l
  <2> HIDE DEF s
  <2>5. \A k \in 1 .. Len(s) : s[k] = pieces[i][k]
    BY <1>13, <1>14, <2>4
  <2>6. s = pieces[i]
    BY <2>1, <2>4, <2>5, SameSeq
  <2> QED
    BY <2>6 DEF s
<1> QED
  BY <1>14, <1>15 DEF e, n, b

-----------------------------------------------------------------------------
(* Texts.                                                                  *)

Digits == 0 .. Digit - 1

\* A byte is its two digits.
LEMMA DigitsOfByte ==
  ASSUME NEW b \in Bytes
  PROVE  /\ b \div Digit \in Digits /\ b % Digit \in Digits
         /\ (b \div Digit) * Digit + (b % Digit) = b
<1> DEFINE q == b \div Digit
           r == b % Digit
<1>1. b \in Nat /\ b < Digit * Digit /\ Digit \in Nat \ {0}
  BY ByteIs DEF Bytes, Byte
<1>2. q \in Nat /\ r \in 0 .. Digit - 1 /\ b = Digit * q + r
  BY <1>1, DivMod
<1> HIDE DEF q, r
<1>3. Digit * q = q * Digit
  BY <1>1, <1>2
<1>4. ~(q >= Digit)
  <2> SUFFICES ASSUME q >= Digit PROVE FALSE
    OBVIOUS
  <2>1. q * Digit >= Digit * Digit
    BY <1>1, <1>2
  <2> QED
    BY <1>1, <1>2, <1>3, <2>1
<1> QED
  BY <1>1, <1>2, <1>3, <1>4 DEF q, r, Digits

\* hex_enc writes two digits for a byte.
LEMMA Encoded ==
  ASSUME NEW P \in Seq(Bytes)
  PROVE  /\ hex_enc(P) \in Seq(Digits) /\ Len(hex_enc(P)) = 2 * Len(P)
         /\ \A i \in 1 .. Len(P) : /\ hex_enc(P)[2 * i - 1] = P[i] \div Digit
                                   /\ hex_enc(P)[2 * i] = P[i] % Digit
<1> DEFINE l == Len(P)
           T == hex_enc(P)
<1>1. l \in Nat /\ \A i \in 1 .. l : P[i] \in Bytes
  BY ElementOfSeq, LenProperties
<1> HIDE DEF l
<1>2. T = [i \in 1 .. 2 * l |->
             IF i % 2 = 1 THEN P[(i + 1) \div 2] \div Digit ELSE P[(i + 1) \div 2] % Digit]
  BY DEF hex_enc, l
<1> HIDE DEF T
<1>3. \A i \in 1 .. 2 * l : (i + 1) \div 2 \in 1 .. l
  BY <1>1
<1>4. \A i \in 1 .. 2 * l : T[i] \in Digits
  <2> SUFFICES ASSUME NEW i \in 1 .. 2 * l PROVE T[i] \in Digits
    OBVIOUS
  <2> DEFINE b == P[(i + 1) \div 2]
  <2>1. b \in Bytes
    BY <1>1, <1>3
  <2>2. T[i] = IF i % 2 = 1 THEN b \div Digit ELSE b % Digit
    BY <1>2
  <2> HIDE DEF b
  <2>3. b \div Digit \in Digits /\ b % Digit \in Digits
    BY <2>1, DigitsOfByte
  <2> QED
    BY <2>2, <2>3
<1>5. T \in [1 .. 2 * l -> Digits]
  BY <1>2, <1>4
<1>6. T \in Seq(Digits) /\ Len(T) = 2 * l
  <2>1. 2 * l \in Nat
    BY <1>1
  <2> QED
    BY <1>5, <2>1, FunctionIsSeq
<1>7. ASSUME NEW i \in 1 .. l
      PROVE  T[2 * i - 1] = P[i] \div Digit /\ T[2 * i] = P[i] % Digit
  <2>1. /\ 2 * i - 1 \in 1 .. 2 * l /\ 2 * i \in 1 .. 2 * l
        /\ (2 * i - 1) % 2 = 1 /\ (2 * i) % 2 = 0
        /\ ((2 * i - 1) + 1) \div 2 = i /\ (2 * i + 1) \div 2 = i
    BY <1>1
  <2> QED
    BY <1>2, <2>1
<1> QED
  BY <1>6, <1>7 DEF l, T

\* A text that begins like the encoding of P is decoded to what P begins with.
LEMMA Decoded ==
  ASSUME NEW P \in Seq(Bytes), NEW t, NEW m \in 0 .. Len(P), Len(t) = 2 * m,
         \A i \in 1 .. 2 * m : t[i] = hex_enc(P)[i]
  PROVE  hex_dec(t) = SubSeq(P, 1, m)
<1>1. Len(P) \in Nat /\ \A i \in 1 .. Len(P) : P[i] \in Bytes
  BY ElementOfSeq, LenProperties
<1>2. m \in Nat /\ (2 * m) \div 2 = m
  BY <1>1
<1>3. hex_dec(t) = [i \in 1 .. m |-> t[2 * i - 1] * Digit + t[2 * i]]
  BY <1>2 DEF hex_dec
<1>4. ASSUME NEW i \in 1 .. m
      PROVE  t[2 * i - 1] * Digit + t[2 * i] = P[i]
  <2>1. i \in 1 .. Len(P) /\ 2 * i - 1 \in 1 .. 2 * m /\ 2 * i \in 1 .. 2 * m
    BY <1>1, <1>2
  <2>2. t[2 * i - 1] = P[i] \div Digit /\ t[2 * i] = P[i] % Digit
    BY <2>1, Encoded
  <2>3. (P[i] \div Digit) * Digit + (P[i] % Digit) = P[i]
    BY <1>1, <2>1, DigitsOfByte
  <2> QED
    BY <2>2, <2>3
<1>5. hex_dec(t) = [i \in 1 .. m |-> P[i]]
  BY <1>3, <1>4
<1>6. \A i \in 1 .. m : i \in 1 .. Len(P)
  BY <1>1, <1>2
<1>7. hex_dec(t) \in Seq(Bytes) /\ Len(hex_dec(t)) = m
  <2>1. hex_dec(t) \in [1 .. m -> Bytes]
    BY <1>1, <1>5, <1>6
  <2> QED
    BY <1>2, <2>1, FunctionIsSeq
<1>8. /\ SubSeq(P, 1, m) \in Seq(Bytes) /\ Len(SubSeq(P, 1, m)) = m
      /\ \A i \in 1 .. m : SubSeq(P, 1, m)[i] = P[i]
  <2>1. \A i \in 1 .. m : P[i] \in Bytes
    BY <1>1, <1>6
  <2>2. 1 \in Int /\ m \in Int
    BY <1>2
  <2> DEFINE s == SubSeq(P, 1, m)
  <2>3. /\ s \in Seq(Bytes) /\ Len(s) = IF 1 <= m THEN m - 1 + 1 ELSE 0
        /\ \A i \in 1 .. m - 1 + 1 : s[i] = P[1 + i - 1]
    BY <2>1, <2>2, SubSeqProperties
  <2> HIDE DEF s
  <2>4. m - 1 + 1 = m /\ \A i \in 1 .. m : 1 + i - 1 = i
    BY <1>2
  <2>5. Len(s) = m
    BY <1>2, <2>3, <2>4
  <2>6. \A i \in 1 .. m : s[i] = P[i]
    BY <2>3, <2>4
  <2> QED
    BY <2>3, <2>5, <2>6 DEF s
<1>9. \A i \in 1 .. m : hex_dec(t)[i] = SubSeq(P, 1, m)[i]
  BY <1>5, <1>8
<1> QED
  BY <1>7, <1>8, <1>9, SameSeq

LEMMA WiderSeq ==
  ASSUME NEW A, NEW B, A \subseteq B, NEW s \in Seq(A)
  PROVE  s \in Seq(B)
<1>1. s \in [1 .. Len(s) -> A] /\ Len(s) \in Nat
  BY LenProperties
<1>2. s \in [1 .. Len(s) -> B]
  BY <1>1
<1> QED
  BY <1>1, <1>2, FunctionIsSeq

\* SubSeq from after place a to place b.
LEMMA PartOfSeq ==
  ASSUME NEW S, NEW s \in Seq(S), NEW a \in Nat, NEW b \in Nat, a <= b, b <= Len(s)
  PROVE  /\ SubSeq(s, a + 1, b) \in Seq(S) /\ Len(SubSeq(s, a + 1, b)) = b - a
         /\ \A i \in 1 .. b - a : SubSeq(s, a + 1, b)[i] = s[a + i]
<1> DEFINE t == SubSeq(s, a + 1, b)
<1>1. Len(s) \in Nat /\ \A i \in 1 .. Len(s) : s[i] \in S
  BY ElementOfSeq, LenProperties
<1>2. \A i \in a + 1 .. b : i \in 1 .. Len(s)
  BY <1>1
<1>3. \A i \in a + 1 .. b : s[i] \in S
  BY <1>1, <1>2
<1>4. a + 1 \in Int /\ b \in Int
  OBVIOUS
<1>5. /\ t \in Seq(S) /\ Len(t) = IF a + 1 <= b THEN b - (a + 1) + 1 ELSE 0
      /\ \A i \in 1 .. b - (a + 1) + 1 : t[i] = s[(a + 1) + i - 1]
  BY <1>3, <1>4, SubSeqProperties
<1> HIDE DEF t
<1>6. b - (a + 1) + 1 = b - a /\ \A i \in Int : (a + 1) + i - 1 = a + i
  OBVIOUS
<1>7. Len(t) = b - a
  BY <1>5, <1>6
<1>8. \A i \in 1 .. b - a : t[i] = s[a + i]
  BY <1>5, <1>6
<1> QED
  BY <1>5, <1>7, <1>8 DEF t

InkedOf(t) == {i \in DOMAIN t : t[i] # Blank}

\* trim cuts before the first and after the last character that is not blank.
LEMMA TrimTo ==
  ASSUME NEW t, NEW a \in Int, NEW b \in Int,
         \A i \in InkedOf(t) : i \in Int /\ a <= i /\ i <= b,
         a \in InkedOf(t), b \in InkedOf(t)
  PROVE  trim(t) = SubSeq(t, a, b)
<1> DEFINE I == InkedOf(t)
<1>1. trim(t) = IF I = {} THEN <<>>
                ELSE SubSeq(t, CHOOSE i \in I : \A k \in I : i <= k,
                               CHOOSE i \in I : \A k \in I : k <= i)
  BY DEF trim, InkedOf
<1> HIDE DEF I
<1>4. a \in I /\ b \in I /\ \A i \in I : i \in Int /\ a <= i /\ i <= b
  BY DEF I
<1>2. (CHOOSE i \in I : \A k \in I : i <= k) = a
  <2> DEFINE c == CHOOSE i \in I : \A k \in I : i <= k
  <2>1. c \in I /\ \A k \in I : c <= k
    BY <1>4
  <2> HIDE DEF c
  <2>2. c = a
    BY <1>4, <2>1
  <2> QED
    BY <2>2 DEF c
<1>3. (CHOOSE i \in I : \A k \in I : k <= i) = b
  <2> DEFINE c == CHOOSE i \in I : \A k \in I : k <= i
  <2>1. c \in I /\ \A k \in I : k <= c
    BY <1>4
  <2> HIDE DEF c
  <2>2. c = b
    BY <1>4, <2>1
  <2> QED
    BY <2>2 DEF c
<1> QED
  BY <1>1, <1>2, <1>3, <1>4

\* A text without blanks is left as it is.
LEMMA TrimNothing ==
  ASSUME NEW S, NEW t \in Seq(S), \A i \in 1 .. Len(t) : t[i] # Blank
  PROVE  trim(t) = t
<1>1. Len(t) \in Nat /\ DOMAIN t = 1 .. Len(t)
  BY LenProperties
<1>2. InkedOf(t) = 1 .. Len(t)
  BY <1>1 DEF InkedOf
<1>3. CASE Len(t) = 0
  <2>1. t = <<>>
    BY <1>3, EmptySeq
  <2>2. InkedOf(t) = {}
    BY <1>2, <1>3
  <2>3. trim(t) = IF InkedOf(t) = {} THEN <<>>
                  ELSE SubSeq(t, CHOOSE i \in InkedOf(t) : \A k \in InkedOf(t) : i <= k,
                                 CHOOSE i \in InkedOf(t) : \A k \in InkedOf(t) : k <= i)
    BY DEF trim, InkedOf
  <2> QED
    BY <2>1, <2>2, <2>3
<1>4. CASE Len(t) # 0
  <2>1. 1 \in 1 .. Len(t) /\ Len(t) \in 1 .. Len(t) /\ Len(t) \in Int /\ 1 \in Int
    BY <1>1, <1>4
  <2>2. \A i \in 1 .. Len(t) : i \in Int /\ 1 <= i /\ i <= Len(t)
    BY <1>1
  <2>3. trim(t) = SubSeq(t, 1, Len(t))
    BY <1>2, <2>1, <2>2, TrimTo
  <2>4. /\ SubSeq(t, 0 + 1, Len(t)) \in Seq(S) /\ Len(SubSeq(t, 0 + 1, Len(t))) = Len(t) - 0
        /\ \A i \in 1 .. Len(t) - 0 : SubSeq(t, 0 + 1, Len(t))[i] = t[0 + i]
    BY <1>1, PartOfSeq
  <2> DEFINE s == SubSeq(t, 1, Len(t))
  <2>5. s \in Seq(S) /\ Len(s) = Len(t) /\ \A i \in 1 .. Len(t) : s[i] = t[i]
    BY <1>1, <2>4
  <2> HIDE DEF s
  <2>6. s = t
    BY <2>5, SameSeq
  <2> QED
    BY <2>3, <2>6 DEF s
<1> QED
  BY <1>3, <1>4

\* Blanks at both ends are cut off.
LEMMA TrimPadding ==
  ASSUME NEW T \in Seq(Digits)
  PROVE  trim(<<Blank>> \o T \o <<Blank, Blank>>) = T
<1> DEFINE l == Len(T)
           u == <<Blank>> \o T
           t == u \o <<Blank, Blank>>
<1>1. l \in Nat /\ \A i \in 1 .. l : T[i] \in Digits /\ T[i] # Blank /\ T[i] \in Int
  BY ElementOfSeq, LenProperties, ByteIs DEF Digits, Blank
<1>2. T \in Seq(Int)
  BY WiderSeq, ByteIs DEF Digits
<1>3. /\ <<Blank>> \in Seq(Int) /\ Len(<<Blank>>) = 1 /\ <<Blank>>[1] = Blank
      /\ <<Blank, Blank>> \in Seq(Int) /\ Len(<<Blank, Blank>>) = 2
      /\ <<Blank, Blank>>[1] = Blank /\ <<Blank, Blank>>[2] = Blank
  BY DEF Blank
<1>4. /\ u \in Seq(Int) /\ Len(u) = 1 + l
      /\ \A i \in 1 .. 1 + l : u[i] = IF i <= 1 THEN <<Blank>>[i] ELSE T[i - 1]
  BY <1>2, <1>3, ConcatProperties
<1> HIDE DEF u
<1>5. /\ t \in Seq(Int) /\ Len(t) = (1 + l) + 2
      /\ \A i \in 1 .. (1 + l) + 2 :
            t[i] = IF i <= 1 + l THEN u[i] ELSE <<Blank, Blank>>[i - (1 + l)]
  BY <1>3, <1>4, ConcatProperties
<1> HIDE DEF t, l
<1>6. /\ t[1] = Blank /\ t[l + 2] = Blank /\ t[l + 3] = Blank
      /\ \A i \in 1 .. l : t[i + 1] = T[i]
  <2>1. t[1] = Blank
    BY <1>1, <1>3, <1>4, <1>5
  <2>2. /\ l + 2 \in 1 .. (1 + l) + 2 /\ ~(l + 2 <= 1 + l) /\ (l + 2) - (1 + l) = 1
        /\ l + 3 \in 1 .. (1 + l) + 2 /\ ~(l + 3 <= 1 + l) /\ (l + 3) - (1 + l) = 2
    BY <1>1
  <2>3. t[l + 2] = Blank /\ t[l + 3] = Blank
    BY <1>3, <1>5, <2>2
  <2>4. ASSUME NEW i \in 1 .. l PROVE t[i + 1] = T[i]
    <3>1. /\ i + 1 \in 1 .. (1 + l) + 2 /\ i + 1 <= 1 + l /\ i + 1 \in 1 .. 1 + l
          /\ ~(i + 1 <= 1) /\ (i + 1) - 1 = i
      BY <1>1
    <3> QED
      BY <1>4, <1>5, <3>1
  <2> QED
    BY <2>1, <2>3, <2>4
<1>7. InkedOf(t) = 2 .. l + 1
  <2>1. DOMAIN t = 1 .. l + 3
    BY <1>1, <1>5, LenProperties
  <2>2. ASSUME NEW i \in 2 .. l + 1 PROVE t[i] # Blank
    <3>1. i - 1 \in 1 .. l /\ (i - 1) + 1 = i
      BY <1>1
    <3>2. t[(i - 1) + 1] = T[i - 1]
      BY <1>6, <3>1
    <3> QED
      BY <1>1, <3>1, <3>2
  <2>3. \A i \in 1 .. l + 3 : i \in 2 .. l + 1 \/ i = 1 \/ i = l + 2 \/ i = l + 3
    BY <1>1
  <2>4. \A i \in 2 .. l + 1 : i \in 1 .. l + 3
    BY <1>1
  <2> QED
    BY <1>6, <2>1, <2>2, <2>3, <2>4 DEF InkedOf
<1>8. CASE l = 0
  <2>1. InkedOf(t) = {}
    BY <1>7, <1>8
  <2>2. trim(t) = <<>>
    <3>1. trim(t) = IF InkedOf(t) = {} THEN <<>>
                    ELSE SubSeq(t, CHOOSE i \in InkedOf(t) : \A k \in InkedOf(t) : i <= k,
                                   CHOOSE i \in InkedOf(t) : \A k \in InkedOf(t) : k <= i)
      BY DEF trim, InkedOf
    <3> QED
      BY <2>1, <3>1
  <2>3. T = <<>>
    BY <1>8, EmptySeq DEF l
  <2> QED
    BY <2>2, <2>3 DEF t, u
<1>9. CASE l # 0
  <2>1. 2 \in 2 .. l + 1 /\ l + 1 \in 2 .. l + 1 /\ l + 1 \in Int /\ 2 \in Int
    BY <1>1, <1>9
  <2>2. \A i \in 2 .. l + 1 : i \in Int /\ 2 <= i /\ i <= l + 1
    BY <1>1
  <2>3. trim(t) = SubSeq(t, 2, l + 1)
    BY <1>7, <2>1, <2>2, TrimTo
  <2> DEFINE s == SubSeq(t, 1 + 1, l + 1)
  <2>4. /\ s \in Seq(Int) /\ Len(s) = (l + 1) - 1
        /\ \A i \in 1 .. (l + 1) - 1 : s[i] = t[1 + i]
    <3>1. 1 \in Nat /\ l + 1 \in Nat /\ 1 <= l + 1 /\ l + 1 <= Len(t)
      BY <1>1, <1>5
    <3> QED
      BY <1>5, <3>1, PartOfSeq
  <2>5. s = SubSeq(t, 2, l + 1)
    OBVIOUS
  <2> HIDE DEF s
  <2>6. (l + 1) - 1 = l /\ \A i \in Int : 1 + i = i + 1
    BY <1>1
  <2>7. Len(s) = l /\ \A i \in 1 .. l : s[i] = T[i]
    <3>1. Len(s) = l /\ \A i \in 1 .. l : s[i] = t[1 + i]
      BY <2>4, <2>6
    <3>2. \A i \in 1 .. l : i \in Int /\ t[i + 1] = T[i]
      BY <1>6
    <3>3. \A i \in 1 .. l : t[1 + i] = t[i + 1]
      BY <2>6, <3>2
    <3> QED
      BY <3>1, <3>2, <3>3
  <2>8. s = T
    BY <1>2, <2>4, <2>7, SameSeq DEF l
  <2> QED
    BY <2>3, <2>5, <2>8 DEF t, u
<1> QED
  BY <1>1, <1>8, <1>9 DEF l

LEMMA WholeSeq ==
  ASSUME NEW S, NEW s \in Seq(S)
  PROVE  SubSeq(s, 1, Len(s)) = s
<1> DEFINE t == SubSeq(s, 0 + 1, Len(s))
<1>1. Len(s) \in Nat
  BY LenProperties
<1>2. t \in Seq(S) /\ Len(t) = Len(s) - 0 /\ \A i \in 1 .. Len(s) - 0 : t[i] = s[0 + i]
  BY <1>1, PartOfSeq
<1>3. SubSeq(s, 1, Len(s)) = t
  OBVIOUS
<1> HIDE DEF t
<1>4. Len(t) = Len(s) /\ \A i \in 1 .. Len(s) : t[i] = s[i]
  BY <1>1, <1>2
<1> QED
  BY <1>2, <1>3, <1>4, SameSeq

\* Blanks around a text are nothing to it.
LEMMA WholeText ==
  ASSUME NEW P \in Seq(Bytes)
  PROVE  LET t == trim(<<Blank>> \o hex_enc(P) \o <<Blank, Blank>>)
         IN IsHex(t) /\ hex_dec(t) = P
<1> DEFINE T == hex_enc(P)
<1>1. T \in Seq(Digits) /\ Len(T) = 2 * Len(P) /\ Len(P) \in Nat
  BY Encoded, LenProperties
<1>2. trim(<<Blank>> \o T \o <<Blank, Blank>>) = T
  BY <1>1, TrimPadding
<1>3. \A i \in DOMAIN T : T[i] \notin {Blank, Junk}
  BY <1>1, LenProperties, ElementOfSeq, ByteIs DEF Digits, Blank, Junk
<1>4. Len(T) % 2 = 0
  BY <1>1
<1>5. IsHex(T)
  BY <1>3, <1>4 DEF IsHex
<1>6. hex_dec(T) = P
  <2>1. Len(P) \in 0 .. Len(P)
    BY <1>1
  <2>2. hex_dec(T) = SubSeq(P, 1, Len(P))
    BY <1>1, <2>1, Decoded
  <2> QED
    BY <2>2, WholeSeq
<1> QED
  BY <1>2, <1>5, <1>6

\* A part of a text is a part of its bytes, or no text.
LEMMA CutText ==
  ASSUME NEW P \in Seq(Bytes), NEW n \in 0 .. Len(hex_enc(P)) - 1
  PROVE  LET t == trim(SubSeq(hex_enc(P), 1, n))
         IN IsHex(t) => \E m \in 0 .. Len(P) - 1 : hex_dec(t) = SubSeq(P, 1, m)
<1> DEFINE T == hex_enc(P)
           t == SubSeq(T, 0 + 1, n)
<1>1. T \in Seq(Digits) /\ Len(T) = 2 * Len(P) /\ Len(P) \in Nat /\ n \in Nat /\ n < Len(T)
  BY Encoded, LenProperties
<1> HIDE DEF T
<1>2. t \in Seq(Digits) /\ Len(t) = n - 0 /\ \A i \in 1 .. n - 0 : t[i] = T[0 + i]
  BY <1>1, PartOfSeq
<1>3. SubSeq(T, 1, n) = t
  OBVIOUS
<1> HIDE DEF t
<1>4. Len(t) = n /\ \A i \in 1 .. n : t[i] = T[i]
  BY <1>1, <1>2
<1>5. \A i \in 1 .. Len(t) : t[i] # Blank
  BY <1>2, ElementOfSeq, ByteIs DEF Digits, Blank
<1>6. trim(t) = t
  BY <1>2, <1>5, TrimNothing
<1>7. ASSUME IsHex(t)
      PROVE  \E m \in 0 .. Len(P) - 1 : hex_dec(t) = SubSeq(P, 1, m)
  <2>1. n % 2 = 0
    BY <1>4, <1>7 DEF IsHex
  <2>2. PICK m \in Nat : n = 2 * m
    BY <1>1, <2>1
  <2>3. m \in 0 .. Len(P) - 1 /\ m \in 0 .. Len(P)
    BY <1>1, <2>2
  <2>4. Len(t) = 2 * m /\ \A i \in 1 .. 2 * m : t[i] = hex_enc(P)[i]
    BY <1>4, <2>2 DEF T
  <2>5. hex_dec(t) = SubSeq(P, 1, m)
    BY <2>3, <2>4, Decoded
  <2> QED
    BY <2>3, <2>5
<1> QED
  BY <1>3, <1>6, <1>7 DEF T

\* More than a text is one byte more, or no text.
LEMMA LongText ==
  ASSUME NEW P \in Seq(Bytes), NEW more \in {<< 0 >>, <<0, 0>>, <<Junk, Junk>>}
  PROVE  LET t == trim(hex_enc(P) \o more)
         IN IsHex(t) => hex_dec(t) = P \o <<0>>
<1> DEFINE T == hex_enc(P)
           l == Len(P)
           t == T \o more
<1>1. T \in Seq(Digits) /\ Len(T) = 2 * l /\ l \in Nat
  BY Encoded, LenProperties
<1>2. T \in Seq(Int)
  BY <1>1, WiderSeq, ByteIs DEF Digits
<1>3. /\ more \in Seq(Int) /\ Len(more) \in {1, 2}
      /\ \A i \in 1 .. Len(more) : more[i] # Blank
  <2>1. CASE more = <<0>>
    <3>1. <<0>> \in Seq(Int) /\ Len(<<0>>) = 1 /\ <<0>>[1] = 0 /\ 0 # Blank
      BY DEF Blank
    <3>2. \A i \in 1 .. 1 : i = 1
      OBVIOUS
    <3> QED
      BY <2>1, <3>1, <3>2
  <2>2. CASE more = <<0, 0>>
    <3>1. /\ <<0, 0>> \in Seq(Int) /\ Len(<<0, 0>>) = 2 /\ <<0, 0>>[1] = 0
          /\ <<0, 0>>[2] = 0 /\ 0 # Blank
      BY DEF Blank
    <3>2. \A i \in 1 .. 2 : i = 1 \/ i = 2
      OBVIOUS
    <3> QED
      BY <2>2, <3>1, <3>2
  <2>3. CASE more = <<Junk, Junk>>
    <3>1. /\ <<Junk, Junk>> \in Seq(Int) /\ Len(<<Junk, Junk>>) = 2 /\ <<Junk, Junk>>[1] = Junk
          /\ <<Junk, Junk>>[2] = Junk /\ Junk # Blank
      BY DEF Blank, Junk
    <3>2. \A i \in 1 .. 2 : i = 1 \/ i = 2
      OBVIOUS
    <3> QED
      BY <2>3, <3>1, <3>2
  <2> QED
    BY <2>1, <2>2, <2>3
<1> HIDE DEF T, l
<1>4. /\ t \in Seq(Int) /\ Len(t) = 2 * l + Len(more)
      /\ \A i \in 1 .. 2 * l + Len(more) : t[i] = IF i <= 2 * l THEN T[i] ELSE more[i - 2 * l]
  <2>1. /\ t \in Seq(Int) /\ Len(t) = Len(T) + Len(more)
        /\ \A i \in 1 .. Len(T) + Len(more) :
              t[i] = IF i <= Len(T) THEN T[i] ELSE more[i - Len(T)]
    BY <1>2, <1>3, ConcatProperties
  <2> HIDE DEF t
  <2> QED
    BY <1>1, <2>1
<1>5. \A i \in 1 .. 2 * l : T[i] # Blank
  BY <1>1, ElementOfSeq, ByteIs DEF Digits, Blank
<1> HIDE DEF t
<1>6. \A i \in 1 .. Len(t) : t[i] # Blank
  <2> SUFFICES ASSUME NEW i \in 1 .. 2 * l + Len(more) PROVE t[i] # Blank
    BY <1>4
  <2>1. CASE i <= 2 * l
    <3>1. i \in 1 .. 2 * l
      BY <1>1, <2>1
    <3> QED
      BY <1>4, <1>5, <2>1, <3>1
  <2>2. CASE ~(i <= 2 * l)
    <3>1. i - 2 * l \in 1 .. Len(more)
      BY <1>1, <1>3, <2>2
    <3> QED
      BY <1>3, <1>4, <2>2, <3>1
  <2> QED
    BY <2>1, <2>2
<1>7. trim(t) = t
  BY <1>4, <1>6, TrimNothing
<1>8. CASE more = <<0>>
  <2>1. Len(t) = 2 * l + 1
    BY <1>4, <1>8
  <2>2. (2 * l + 1) % 2 = 1
    BY <1>1
  <2> QED
    BY <1>7, <2>1, <2>2 DEF IsHex, T, t
<1>9. CASE more = <<Junk, Junk>>
  <2>4. Len(more) = 2 /\ more[1] = Junk
    BY <1>9
  <2>1. Len(t) = 2 * l + 2 /\ 2 * l + 1 \in 1 .. 2 * l + 2 /\ ~(2 * l + 1 <= 2 * l)
        /\ (2 * l + 1) - 2 * l = 1
    BY <1>1, <1>4, <2>4
  <2>2. t[2 * l + 1] = Junk
    BY <1>4, <2>1, <2>4
  <2>3. 2 * l + 1 \in DOMAIN t
    BY <1>4, <2>1, LenProperties
  <2> QED
    BY <1>7, <2>2, <2>3 DEF IsHex, T, t
<1>10. CASE more = <<0, 0>>
  <2> DEFINE Q == P \o <<0>>
             U == hex_enc(Q)
  <2>1. Len(more) = 2 /\ more[1] = 0 /\ more[2] = 0
    BY <1>10
  <2>2. <<0>> \in Seq(Bytes) /\ Len(<<0>>) = 1 /\ <<0>>[1] = 0
    BY ByteIs
  <2>3. /\ Q \in Seq(Bytes) /\ Len(Q) = l + 1
        /\ \A i \in 1 .. l + 1 : Q[i] = IF i <= l THEN P[i] ELSE <<0>>[i - l]
    BY <2>2, ConcatProperties DEF l
  <2> HIDE DEF Q
  <2>4. Q[l + 1] = 0 /\ \A i \in 1 .. l : Q[i] = P[i]
    BY <1>1, <2>2, <2>3
  <2>5. /\ U \in Seq(Digits) /\ Len(U) = 2 * (l + 1)
        /\ \A i \in 1 .. l + 1 : U[2 * i - 1] = Q[i] \div Digit /\ U[2 * i] = Q[i] % Digit
    BY <2>3, Encoded
  <2> HIDE DEF U
  <2>6. \A i \in 1 .. l : T[2 * i - 1] = P[i] \div Digit /\ T[2 * i] = P[i] % Digit
    BY Encoded DEF T, l
  <2>7. \A i \in 1 .. l : U[2 * i - 1] = t[2 * i - 1] /\ U[2 * i] = t[2 * i]
    <3> SUFFICES ASSUME NEW i \in 1 .. l
                 PROVE  U[2 * i - 1] = t[2 * i - 1] /\ U[2 * i] = t[2 * i]
      OBVIOUS
    <3>1. /\ i \in 1 .. l + 1 /\ 2 * i \in 1 .. 2 * l + 2 /\ 2 * i - 1 \in 1 .. 2 * l + 2
          /\ 2 * i <= 2 * l /\ 2 * i - 1 <= 2 * l
      BY <1>1
    <3>2. t[2 * i] = T[2 * i] /\ t[2 * i - 1] = T[2 * i - 1]
      BY <1>4, <2>1, <3>1
    <3>3. U[2 * i - 1] = Q[i] \div Digit /\ U[2 * i] = Q[i] % Digit
      BY <2>5, <3>1
    <3> QED
      BY <2>4, <2>6, <3>2, <3>3
  <2>8. U[2 * (l + 1) - 1] = t[2 * (l + 1) - 1] /\ U[2 * (l + 1)] = t[2 * (l + 1)]
    <3>1. 0 \div Digit = 0 /\ 0 % Digit = 0
      <4>1. 0 \div Digit \in Nat /\ 0 % Digit \in 0 .. Digit - 1
            /\ 0 = Digit * (0 \div Digit) + (0 % Digit)
        BY ByteIs, DivMod
      <4> DEFINE q == 0 \div Digit
                 r == 0 % Digit
      <4>2. q \in Nat /\ r \in Nat /\ 0 = Digit * q + r /\ Digit \in Nat /\ Digit > 1
        BY <4>1, ByteIs
      <4> HIDE DEF q, r
      <4>3. Digit * q \in Nat
        BY <4>2
      <4>4. r = 0 /\ Digit * q = 0
        BY <4>2, <4>3
      <4>5. q = 0
        BY <4>2, <4>4
      <4> QED
        BY <4>4, <4>5 DEF q, r
    <3>2. l + 1 \in 1 .. l + 1
      BY <1>1
    <3>3. U[2 * (l + 1) - 1] = 0 /\ U[2 * (l + 1)] = 0
      BY <2>4, <2>5, <3>1, <3>2
    <3>4. /\ 2 * (l + 1) - 1 = 2 * l + 1 /\ 2 * (l + 1) = 2 * l + 2
          /\ 2 * l + 1 \in 1 .. 2 * l + 2 /\ 2 * l + 2 \in 1 .. 2 * l + 2
          /\ ~(2 * l + 1 <= 2 * l) /\ ~(2 * l + 2 <= 2 * l)
          /\ (2 * l + 1) - 2 * l = 1 /\ (2 * l + 2) - 2 * l = 2
      BY <1>1
    <3>5. t[2 * l + 1] = 0 /\ t[2 * l + 2] = 0
      BY <1>4, <2>1, <3>4
    <3> QED
      BY <3>3, <3>4, <3>5
  <2>9. \A i \in 1 .. 2 * (l + 1) : t[i] = U[i]
    <3> SUFFICES ASSUME NEW i \in 1 .. 2 * (l + 1) PROVE t[i] = U[i]
      OBVIOUS
    <3>1. \E k \in 1 .. l + 1 : i = 2 * k - 1 \/ i = 2 * k
      <4>1. CASE i % 2 = 0
        <5>1. i \div 2 \in 1 .. l + 1 /\ i = 2 * (i \div 2)
          BY <1>1, <4>1
        <5> QED
          BY <5>1
      <4>2. CASE i % 2 = 1
        <5>1. (i + 1) \div 2 \in 1 .. l + 1 /\ i = 2 * ((i + 1) \div 2) - 1
          BY <1>1, <4>2
        <5> QED
          BY <5>1
      <4> QED
        BY <1>1, <4>1, <4>2
    <3>2. PICK k \in 1 .. l + 1 : i = 2 * k - 1 \/ i = 2 * k
      BY <3>1
    <3>3. CASE k \in 1 .. l
      BY <2>7, <3>2, <3>3
    <3>4. CASE k = l + 1
      BY <2>8, <3>2, <3>4
    <3> QED
      BY <1>1, <3>3, <3>4
  <2>10. Len(t) = 2 * (l + 1) /\ l + 1 \in 0 .. Len(Q)
    BY <1>1, <1>4, <2>1, <2>3
  <2>11. hex_dec(t) = SubSeq(Q, 1, l + 1)
    BY <2>3, <2>9, <2>10, Decoded DEF U
  <2>12. SubSeq(Q, 1, l + 1) = Q
    BY <2>3, WholeSeq
  <2> QED
    BY <1>7, <2>11, <2>12 DEF Q, t, T
<1> QED
  BY <1>8, <1>9, <1>10

-----------------------------------------------------------------------------
(* Bytes.                                                                  *)

\* Rd::take of a piece from where it begins.
LEMMA PieceTaken ==
  ASSUME NEW pieces \in Seq(Seq(Bytes)), NEW i \in 1 .. Len(pieces)
  PROVE  LET e == Ends(0, Lengths(pieces))
             b == FlattenSeq(pieces)
         IN /\ Take(b, e[i - 1], Len(pieces[i])) = pieces[i]
            /\ e[i - 1] \in Nat /\ e[i] \in Nat /\ e[i] = e[i - 1] + Len(pieces[i])
            /\ e[0] = 0
<1> DEFINE e == Ends(0, Lengths(pieces))
           b == FlattenSeq(pieces)
<1>1. Len(pieces) \in Nat /\ Len(pieces) > 0 /\ i - 1 \in 0 .. Len(pieces)
      /\ i \in 0 .. Len(pieces)
  BY LenProperties
<1>2. /\ e \in [0 .. Len(pieces) -> Nat] /\ e[0] = 0
      /\ \A k \in 1 .. Len(pieces) : e[k] = e[k - 1] + Lengths(pieces)[k]
  BY LengthsAre, EndsAre
<1>3. e[i] = e[i - 1] + Len(pieces[i])
  BY <1>2, LengthsAre
<1>4. SubSeq(b, e[i - 1] + 1, e[i]) = pieces[i]
  BY <1>1, Flattened
<1>5. Take(b, e[i - 1], Len(pieces[i])) = pieces[i]
  BY <1>3, <1>4 DEF Take
<1> QED
  BY <1>1, <1>2, <1>3, <1>5

\* Rd::u32 and Rd::u64 of a number from where it begins.
LEMMA NumberTaken ==
  ASSUME NEW pieces \in Seq(Seq(Bytes)), NEW i \in 1 .. Len(pieces), NEW n, NEW w \in Nat,
         IsOfWidth(n, w), pieces[i] = to_le_bytes(n, w)
  PROVE  LET e == Ends(0, Lengths(pieces))
         IN /\ Number(FlattenSeq(pieces), e[i - 1], w) = n
            /\ e[i - 1] \in Nat /\ e[i] = e[i - 1] + w
<1>1. Len(pieces[i]) = w /\ n \in Nat
  BY BytesOf DEF IsOfWidth
<1>2. from_le_bytes(pieces[i]) = n
  BY NumberTravels
<1> QED
  BY <1>1, <1>2, PieceTaken DEF Number

IsHead(pieces, seg, x, y) ==
    /\ Len(pieces) >= 8
    /\ pieces[1] = seg.eid /\ pieces[2] = to_le_bytes(seg.uasid, U32)
    /\ pieces[3] = to_le_bytes(seg.va, U64) /\ pieces[4] = to_le_bytes(seg.len, U64)
    /\ pieces[5] = to_le_bytes(seg.attr, U32) /\ pieces[6] = to_le_bytes(seg.token_id, U32)
    /\ pieces[7] = to_le_bytes(x, U32) /\ pieces[8] = to_le_bytes(y, U32)
    /\ IsOfWidth(x, U32) /\ IsOfWidth(y, U32)

\* What the two descriptors begin with is read as it was written.
LEMMA HeadTravels ==
  ASSUME NEW seg \in Segs, NEW x, NEW y, NEW pieces \in Seq(Seq(Bytes)),
         IsHead(pieces, seg, x, y)
  PROVE  LET b == FlattenSeq(pieces)
         IN /\ Ends(0, Lengths(pieces))[8] = HeadBytes
            /\ unpack_seg(b) = seg
            /\ Number(b, SegBytes, U32) = x /\ Number(b, SegBytes + U32, U32) = y
<1> DEFINE e == Ends(0, Lengths(pieces))
           b == FlattenSeq(pieces)
<1>1. Len(pieces) \in Nat /\ U32 \in Nat /\ U64 \in Nat /\ EidLen \in Nat
  BY LenProperties, WidthsAssumption
<1> DEFINE l == Len(pieces)
<1>19. l \in Nat /\ l >= 8
  BY <1>1 DEF IsHead
<1>20. \A i \in 1 .. l : \A n : \A w \in Nat :
         IsOfWidth(n, w) /\ pieces[i] = to_le_bytes(n, w)
            => Number(b, e[i - 1], w) = n /\ e[i] = e[i - 1] + w
  BY NumberTaken
<1>2. /\ 1 \in 1 .. l /\ 2 \in 1 .. l /\ 3 \in 1 .. l /\ 4 \in 1 .. l
      /\ 5 \in 1 .. l /\ 6 \in 1 .. l /\ 7 \in 1 .. l /\ 8 \in 1 .. l
  <2> HIDE DEF l
  <2> QED
    BY <1>19
<1>3. /\ seg = [eid |-> seg.eid, uasid |-> seg.uasid, va |-> seg.va, len |-> seg.len,
                attr |-> seg.attr, token_id |-> seg.token_id]
      /\ seg.eid \in [1 .. EidLen -> Bytes]
      /\ IsOfWidth(seg.va, U64) /\ IsOfWidth(seg.len, U64)
      /\ IsOfWidth(seg.uasid, U32) /\ IsOfWidth(seg.attr, U32) /\ IsOfWidth(seg.token_id, U32)
  BY SegsAssumption
<1>4. Len(seg.eid) = EidLen
  BY <1>1, <1>3, FunctionIsSeq
<1>5. Take(b, e[1 - 1], EidLen) = seg.eid /\ e[0] = 0 /\ e[1] = e[1 - 1] + EidLen
  BY <1>2, <1>4, PieceTaken DEF IsHead
<1> HIDE DEF e, b, l
<1>6. Number(b, e[2 - 1], U32) = seg.uasid /\ e[2] = e[2 - 1] + U32
  <2>1. pieces[2] = to_le_bytes(seg.uasid, U32) /\ IsOfWidth(seg.uasid, U32)
    BY <1>3 DEF IsHead
  <2> QED
    BY <1>1, <1>2, <1>20, <2>1
<1>7. Number(b, e[3 - 1], U64) = seg.va /\ e[3] = e[3 - 1] + U64
  <2>1. pieces[3] = to_le_bytes(seg.va, U64) /\ IsOfWidth(seg.va, U64)
    BY <1>3 DEF IsHead
  <2> QED
    BY <1>1, <1>2, <1>20, <2>1
<1>8. Number(b, e[4 - 1], U64) = seg.len /\ e[4] = e[4 - 1] + U64
  <2>1. pieces[4] = to_le_bytes(seg.len, U64) /\ IsOfWidth(seg.len, U64)
    BY <1>3 DEF IsHead
  <2> QED
    BY <1>1, <1>2, <1>20, <2>1
<1>9. Number(b, e[5 - 1], U32) = seg.attr /\ e[5] = e[5 - 1] + U32
  <2>1. pieces[5] = to_le_bytes(seg.attr, U32) /\ IsOfWidth(seg.attr, U32)
    BY <1>3 DEF IsHead
  <2> QED
    BY <1>1, <1>2, <1>20, <2>1
<1>10. Number(b, e[6 - 1], U32) = seg.token_id /\ e[6] = e[6 - 1] + U32
  <2>1. pieces[6] = to_le_bytes(seg.token_id, U32) /\ IsOfWidth(seg.token_id, U32)
    BY <1>3 DEF IsHead
  <2> QED
    BY <1>1, <1>2, <1>20, <2>1
<1>11. Number(b, e[7 - 1], U32) = x /\ e[7] = e[7 - 1] + U32
  <2>1. pieces[7] = to_le_bytes(x, U32) /\ IsOfWidth(x, U32)
    BY <1>3 DEF IsHead
  <2> QED
    BY <1>1, <1>2, <1>20, <2>1
<1>12. Number(b, e[8 - 1], U32) = y /\ e[8] = e[8 - 1] + U32
  <2>1. pieces[8] = to_le_bytes(y, U32) /\ IsOfWidth(y, U32)
    BY <1>3 DEF IsHead
  <2> QED
    BY <1>1, <1>2, <1>20, <2>1
<1>13. /\ 1 - 1 = 0 /\ 2 - 1 = 1 /\ 3 - 1 = 2 /\ 4 - 1 = 3 /\ 5 - 1 = 4 /\ 6 - 1 = 5
       /\ 7 - 1 = 6 /\ 8 - 1 = 7
  OBVIOUS
<1>14. /\ e[0] = 0 /\ e[1] = e[0] + EidLen /\ e[2] = e[1] + U32 /\ e[3] = e[2] + U64
       /\ e[4] = e[3] + U64 /\ e[5] = e[4] + U32 /\ e[6] = e[5] + U32 /\ e[7] = e[6] + U32
       /\ e[8] = e[7] + U32
  BY <1>5, <1>6, <1>7, <1>8, <1>9, <1>10, <1>11, <1>12, <1>13
<1>15. /\ e[1] = EidLen /\ e[2] = EidLen + U32 /\ e[3] = EidLen + U32 + U64
       /\ e[4] = EidLen + U32 + 2 * U64 /\ e[5] = EidLen + 2 * U32 + 2 * U64
       /\ e[6] = SegBytes /\ e[7] = SegBytes + U32 /\ e[8] = HeadBytes
  BY <1>1, <1>14 DEF SegBytes, HeadBytes
<1>16. /\ Take(b, 0, EidLen) = seg.eid
       /\ Number(b, EidLen, U32) = seg.uasid
       /\ Number(b, EidLen + U32, U64) = seg.va
       /\ Number(b, EidLen + U32 + U64, U64) = seg.len
       /\ Number(b, EidLen + U32 + 2 * U64, U32) = seg.attr
       /\ Number(b, EidLen + 2 * U32 + 2 * U64, U32) = seg.token_id
  BY <1>5, <1>6, <1>7, <1>8, <1>9, <1>10, <1>13, <1>15
<1>17. unpack_seg(b) = seg
  BY <1>3, <1>16 DEF unpack_seg
<1>18. Number(b, SegBytes, U32) = x /\ Number(b, SegBytes + U32, U32) = y
  BY <1>11, <1>12, <1>13, <1>15
<1> QED
  BY <1>15, <1>17, <1>18 DEF e, b

\* Bytes that are P's as far as both go.
Continues(b, P) ==
    b \in Seq(Bytes) /\ \A i \in 1 .. Len(P) : i <= Len(b) => b[i] = P[i]

\* Rd::take from within what is common.
LEMMA SameTake ==
  ASSUME NEW P \in Seq(Bytes), NEW b, Continues(b, P), NEW off \in Nat, NEW w \in Nat,
         off + w <= Len(b), off + w <= Len(P)
  PROVE  Take(b, off, w) = Take(P, off, w)
<1> DEFINE hi == off + w
           s == SubSeq(b, off + 1, hi)
           t == SubSeq(P, off + 1, hi)
<1>1. b \in Seq(Bytes) /\ Len(b) \in Nat /\ Len(P) \in Nat
  BY LenProperties DEF Continues
<1>2. hi \in Nat /\ off <= hi
  OBVIOUS
<1>3. s \in Seq(Bytes) /\ Len(s) = hi - off /\ \A i \in 1 .. hi - off : s[i] = b[off + i]
  <2> HIDE DEF hi
  <2> QED
    BY <1>1, <1>2, PartOfSeq DEF hi
<1>4. t \in Seq(Bytes) /\ Len(t) = hi - off /\ \A i \in 1 .. hi - off : t[i] = P[off + i]
  <2> HIDE DEF hi
  <2> QED
    BY <1>1, <1>2, PartOfSeq DEF hi
<1>5. \A i \in 1 .. hi - off : b[off + i] = P[off + i]
  <2> SUFFICES ASSUME NEW i \in 1 .. hi - off PROVE b[off + i] = P[off + i]
    OBVIOUS
  <2>1. off + i \in 1 .. Len(P) /\ off + i <= Len(b)
    BY <1>1
  <2> QED
    BY <2>1 DEF Continues
<1> HIDE DEF s, t
<1>6. Len(s) = Len(t) /\ \A i \in 1 .. Len(s) : s[i] = t[i]
  BY <1>3, <1>4, <1>5
<1>7. s = t
  BY <1>3, <1>4, <1>6, SameSeq
<1> QED
  BY <1>7 DEF Take, s, t

\* Common counts are read the same.
LEMMA SameHead ==
  ASSUME NEW P \in Seq(Bytes), NEW b, Continues(b, P), HeadBytes <= Len(b), HeadBytes <= Len(P)
  PROVE  /\ Number(b, SegBytes, U32) = Number(P, SegBytes, U32)
         /\ Number(b, SegBytes + U32, U32) = Number(P, SegBytes + U32, U32)
<1>1. U32 \in Nat /\ U64 \in Nat /\ EidLen \in Nat /\ Len(P) \in Nat /\ Len(b) \in Nat
  BY WidthsAssumption, LenProperties DEF Continues
<1>2. SegBytes \in Nat /\ SegBytes + U32 \in Nat /\ (SegBytes + U32) + U32 = HeadBytes
      /\ SegBytes + U32 <= HeadBytes
  BY <1>1 DEF SegBytes, HeadBytes
<1>3. SegBytes + U32 <= Len(b) /\ SegBytes + U32 <= Len(P)
      /\ (SegBytes + U32) + U32 <= Len(b) /\ (SegBytes + U32) + U32 <= Len(P)
  BY <1>1, <1>2
<1>4. Take(b, SegBytes, U32) = Take(P, SegBytes, U32)
  BY <1>1, <1>2, <1>3, SameTake
<1>5. Take(b, SegBytes + U32, U32) = Take(P, SegBytes + U32, U32)
  BY <1>1, <1>2, <1>3, SameTake
<1> QED
  BY <1>4, <1>5 DEF Number

LEMMA CutContinues ==
  ASSUME NEW P \in Seq(Bytes), NEW m \in 0 .. Len(P) - 1
  PROVE  Continues(SubSeq(P, 1, m), P) /\ Len(SubSeq(P, 1, m)) # Len(P)
<1> DEFINE s == SubSeq(P, 0 + 1, m)
<1>1. Len(P) \in Nat /\ m \in Nat /\ m <= Len(P) /\ m # Len(P)
  BY LenProperties
<1>2. s \in Seq(Bytes) /\ Len(s) = m - 0 /\ \A i \in 1 .. m - 0 : s[i] = P[0 + i]
  BY <1>1, PartOfSeq
<1>3. SubSeq(P, 1, m) = s
  OBVIOUS
<1> HIDE DEF s
<1>4. Len(s) = m /\ \A i \in 1 .. m : s[i] = P[i]
  BY <1>1, <1>2
<1>5. Continues(s, P)
  BY <1>1, <1>2, <1>4 DEF Continues
<1> QED
  BY <1>1, <1>3, <1>4, <1>5

LEMMA LongContinues ==
  ASSUME NEW P \in Seq(Bytes)
  PROVE  Continues(P \o <<0>>, P) /\ Len(P \o <<0>>) # Len(P)
<1>1. <<0>> \in Seq(Bytes) /\ Len(<<0>>) = 1
  BY ByteIs
<1>2. /\ P \o <<0>> \in Seq(Bytes) /\ Len(P \o <<0>>) = Len(P) + 1
      /\ \A i \in 1 .. Len(P) + 1 : (P \o <<0>>)[i] = IF i <= Len(P) THEN P[i] ELSE <<0>>[i - Len(P)]
  BY <1>1, ConcatProperties
<1>3. Len(P) \in Nat
  BY LenProperties
<1>4. \A i \in 1 .. Len(P) : (P \o <<0>>)[i] = P[i]
  BY <1>2, <1>3
<1> QED
  BY <1>2, <1>3, <1>4 DEF Continues

-----------------------------------------------------------------------------
(* urma_cli.                                                               *)

\* The six fields of a segment.
LEMMA SegFieldsAre ==
  ASSUME NEW seg \in Segs
  PROVE  /\ seg_fields(seg) \in Seq(Seq(Bytes)) /\ Len(seg_fields(seg)) = 6
         /\ seg_fields(seg)[1] = seg.eid /\ seg_fields(seg)[2] = to_le_bytes(seg.uasid, U32)
         /\ seg_fields(seg)[3] = to_le_bytes(seg.va, U64)
         /\ seg_fields(seg)[4] = to_le_bytes(seg.len, U64)
         /\ seg_fields(seg)[5] = to_le_bytes(seg.attr, U32)
         /\ seg_fields(seg)[6] = to_le_bytes(seg.token_id, U32)
<1>1. U32 \in Nat /\ U64 \in Nat /\ EidLen \in Nat
  BY WidthsAssumption
<1>2. /\ seg.eid \in [1 .. EidLen -> Bytes] /\ seg.va \in Nat /\ seg.len \in Nat
      /\ seg.uasid \in Nat /\ seg.attr \in Nat /\ seg.token_id \in Nat
  BY SegsAssumption DEF IsOfWidth
<1>3. seg.eid \in Seq(Bytes)
  BY <1>1, <1>2, FunctionIsSeq
<1>4. /\ to_le_bytes(seg.uasid, U32) \in Seq(Bytes) /\ to_le_bytes(seg.va, U64) \in Seq(Bytes)
      /\ to_le_bytes(seg.len, U64) \in Seq(Bytes) /\ to_le_bytes(seg.attr, U32) \in Seq(Bytes)
      /\ to_le_bytes(seg.token_id, U32) \in Seq(Bytes)
  BY <1>1, <1>2, BytesOf
<1> DEFINE S == Seq(Bytes)
<1> HIDE DEF S
<1>5. ASSUME NEW a \in S, NEW b \in S, NEW c \in S, NEW d \in S, NEW e \in S, NEW f \in S
      PROVE  <<a, b, c, d, e, f>> \in Seq(S) /\ Len(<<a, b, c, d, e, f>>) = 6
  OBVIOUS
<1>6. seg_fields(seg) \in Seq(S) /\ Len(seg_fields(seg)) = 6
  BY <1>3, <1>4, <1>5 DEF seg_fields, S
<1> QED
  BY <1>6 DEF seg_fields, S

CliPieces(d) ==
    seg_fields(d.seg) \o <<to_le_bytes(Len(d.seg_ctx), U32), to_le_bytes(Len(d.rjetty), U32),
                           d.seg_ctx, d.rjetty>>

\* The ten pieces of urma_cli's descriptor.
LEMMA CliPiecesAre ==
  ASSUME NEW d \in CliDescs
  PROVE  LET p == CliPieces(d)
         IN /\ p \in Seq(Seq(Bytes)) /\ Len(p) = 10
            /\ \A i \in 1 .. 6 : p[i] = seg_fields(d.seg)[i]
            /\ p[7] = to_le_bytes(Len(d.seg_ctx), U32) /\ p[8] = to_le_bytes(Len(d.rjetty), U32)
            /\ p[9] = d.seg_ctx /\ p[10] = d.rjetty
<1> DEFINE x == to_le_bytes(Len(d.seg_ctx), U32)
           y == to_le_bytes(Len(d.rjetty), U32)
           S == Seq(Bytes)
           t == <<x, y, d.seg_ctx, d.rjetty>>
<1>1. d.seg \in Segs /\ d.seg_ctx \in Blobs /\ d.rjetty \in Blobs
  BY DEF CliDescs
<1>2. d.seg_ctx \in S /\ d.rjetty \in S
  BY <1>1, BlobsAssumption
<1>3. Len(d.seg_ctx) \in Nat /\ Len(d.rjetty) \in Nat
  BY <1>2, LenProperties
<1>4. x \in S /\ y \in S
  BY <1>3, BytesOf, WidthsAssumption
<1>5. seg_fields(d.seg) \in Seq(S) /\ Len(seg_fields(d.seg)) = 6
  BY <1>1, SegFieldsAre
<1> HIDE DEF S, x, y
<1>6. t \in Seq(S) /\ Len(t) = 4 /\ t[1] = x /\ t[2] = y /\ t[3] = d.seg_ctx /\ t[4] = d.rjetty
  BY <1>2, <1>4
<1>7. CliPieces(d) = seg_fields(d.seg) \o t
  BY DEF CliPieces, x, y
<1> HIDE DEF t
<1>8. /\ CliPieces(d) \in Seq(S) /\ Len(CliPieces(d)) = 6 + 4
      /\ \A i \in 1 .. 6 + 4 : CliPieces(d)[i] = IF i <= 6 THEN seg_fields(d.seg)[i] ELSE t[i - 6]
  <2> DEFINE f == seg_fields(d.seg)
             p == f \o t
  <2>1. f \in Seq(S) /\ Len(f) = 6 /\ CliPieces(d) = p
    BY <1>5, <1>7
  <2> HIDE DEF f
  <2>2. /\ p \in Seq(S) /\ Len(p) = Len(f) + Len(t)
        /\ \A i \in 1 .. Len(f) + Len(t) : p[i] = IF i <= Len(f) THEN f[i] ELSE t[i - Len(f)]
    BY <1>6, <2>1, ConcatProperties
  <2> HIDE DEF p
  <2>3. /\ p \in Seq(S) /\ Len(p) = 6 + 4
        /\ \A i \in 1 .. 6 + 4 : p[i] = IF i <= 6 THEN f[i] ELSE t[i - 6]
    BY <1>6, <2>1, <2>2
  <2> QED
    BY <2>1, <2>3 DEF f
<1>9. /\ \A i \in 1 .. 6 : CliPieces(d)[i] = seg_fields(d.seg)[i]
      /\ CliPieces(d)[7] = t[1] /\ CliPieces(d)[8] = t[2]
      /\ CliPieces(d)[9] = t[3] /\ CliPieces(d)[10] = t[4]
  BY <1>8
<1> QED
  BY <1>6, <1>8, <1>9 DEF S, x, y

\* urma_cli reads its descriptor, and nothing of another length that begins like it.
LEMMA CliReads ==
  ASSUME NEW d \in CliDescs
  PROVE  LET P == FlattenSeq(CliPieces(d))
         IN /\ P \in Seq(Bytes) /\ cli_read(P) = d
            /\ \A b : Continues(b, P) /\ Len(b) # Len(P) => cli_read(b) = Rejected
<1> DEFINE pieces == CliPieces(d)
           P == FlattenSeq(pieces)
           e == Ends(0, Lengths(pieces))
           s == Len(d.seg_ctx)
           r == Len(d.rjetty)
<1>1. d.seg \in Segs /\ d.seg_ctx \in Blobs /\ d.rjetty \in Blobs
      /\ d = [seg |-> d.seg, seg_ctx |-> d.seg_ctx, rjetty |-> d.rjetty]
  BY DEF CliDescs
<1>2. /\ d.seg_ctx \in Seq(Bytes) /\ d.rjetty \in Seq(Bytes)
      /\ IsOfWidth(s, U32) /\ IsOfWidth(r, U32) /\ s \in Nat /\ r \in Nat
  BY <1>1, BlobsAssumption DEF IsOfWidth
<1>3. /\ pieces \in Seq(Seq(Bytes)) /\ Len(pieces) = 10
      /\ \A i \in 1 .. 6 : pieces[i] = seg_fields(d.seg)[i]
      /\ pieces[7] = to_le_bytes(s, U32) /\ pieces[8] = to_le_bytes(r, U32)
      /\ pieces[9] = d.seg_ctx /\ pieces[10] = d.rjetty
  BY CliPiecesAre
<1> HIDE DEF pieces
<1>4. /\ pieces[1] = d.seg.eid /\ pieces[2] = to_le_bytes(d.seg.uasid, U32)
      /\ pieces[3] = to_le_bytes(d.seg.va, U64) /\ pieces[4] = to_le_bytes(d.seg.len, U64)
      /\ pieces[5] = to_le_bytes(d.seg.attr, U32)
      /\ pieces[6] = to_le_bytes(d.seg.token_id, U32)
  <2> DEFINE f == seg_fields(d.seg)
  <2>1. /\ f[1] = d.seg.eid /\ f[2] = to_le_bytes(d.seg.uasid, U32)
        /\ f[3] = to_le_bytes(d.seg.va, U64) /\ f[4] = to_le_bytes(d.seg.len, U64)
        /\ f[5] = to_le_bytes(d.seg.attr, U32) /\ f[6] = to_le_bytes(d.seg.token_id, U32)
    BY <1>1, SegFieldsAre
  <2>2. \A i \in 1 .. 6 : pieces[i] = f[i]
    BY <1>3
  <2> HIDE DEF f
  <2>3. /\ pieces[1] = f[1] /\ pieces[2] = f[2] /\ pieces[3] = f[3]
        /\ pieces[4] = f[4] /\ pieces[5] = f[5] /\ pieces[6] = f[6]
    BY <2>2
  <2> QED
    BY <2>1, <2>3
<1>5. /\ e[8] = HeadBytes /\ unpack_seg(P) = d.seg
      /\ Number(P, SegBytes, U32) = s /\ Number(P, SegBytes + U32, U32) = r
  <2> DEFINE seg == d.seg
  <2> HIDE DEF s, r
  <2>1. pieces \in Seq(Seq(Bytes)) /\ seg \in Segs
    BY <1>1, <1>3
  <2>2. IsHead(pieces, seg, s, r)
    BY <1>2, <1>3, <1>4 DEF IsHead
  <2> HIDE DEF seg
  <2>3. /\ e[8] = HeadBytes /\ unpack_seg(P) = seg
        /\ Number(P, SegBytes, U32) = s /\ Number(P, SegBytes + U32, U32) = r
    BY <2>1, <2>2, HeadTravels
  <2> QED
    BY <2>3 DEF seg
<1>6. /\ Take(P, e[8], s) = d.seg_ctx /\ e[9] = e[8] + s
      /\ Take(P, e[9], r) = d.rjetty /\ e[10] = e[9] + r
  <2>1. 9 \in 1 .. Len(pieces) /\ 10 \in 1 .. Len(pieces)
    BY <1>3
  <2>2. /\ Take(P, e[9 - 1], Len(pieces[9])) = pieces[9] /\ e[9] = e[9 - 1] + Len(pieces[9])
    BY <1>3, <2>1, PieceTaken
  <2>3. /\ Take(P, e[10 - 1], Len(pieces[10])) = pieces[10]
        /\ e[10] = e[10 - 1] + Len(pieces[10])
    BY <1>3, <2>1, PieceTaken
  <2> HIDE DEF e, P
  <2>4. 9 - 1 = 8 /\ 10 - 1 = 9
    OBVIOUS
  <2> QED
    BY <1>3, <2>2, <2>3, <2>4
<1>7. P \in Seq(Bytes) /\ Len(P) = e[10]
  <2>1. Len(pieces) > 0
    BY <1>3
  <2> QED
    BY <1>3, <2>1, Flattened
<1> HIDE DEF e, P
<1>8. HeadBytes \in Nat
  BY WidthsAssumption DEF HeadBytes, SegBytes
<1>9. Len(P) = HeadBytes + s + r /\ ~(Len(P) < HeadBytes)
  <2> HIDE DEF s, r
  <2> QED
    BY <1>2, <1>5, <1>6, <1>7, <1>8
<1>10. Take(P, HeadBytes, s) = d.seg_ctx /\ Take(P, HeadBytes + s, r) = d.rjetty
  BY <1>5, <1>6
<1>11. cli_read(P) = d
  <2> HIDE DEF s, r
  <2> QED
    BY <1>1, <1>5, <1>9, <1>10 DEF cli_read
<1>12. ASSUME NEW b, Continues(b, P), Len(b) # Len(P)
       PROVE  cli_read(b) = Rejected
  <2>1. Len(b) \in Nat
    BY <1>12, LenProperties DEF Continues
  <2>2. CASE Len(b) < HeadBytes
    BY <2>2 DEF cli_read
  <2>3. CASE ~(Len(b) < HeadBytes)
    <3>1. HeadBytes <= Len(b) /\ HeadBytes <= Len(P)
      <4>1. HeadBytes <= Len(b)
        BY <1>8, <2>1, <2>3
      <4>2. HeadBytes <= Len(P)
        <5> HIDE DEF s, r
        <5> QED
          BY <1>2, <1>8, <1>9
      <4> QED
        BY <4>1, <4>2
    <3>2. Number(b, SegBytes, U32) = s /\ Number(b, SegBytes + U32, U32) = r
      BY <1>5, <1>7, <1>12, <3>1, SameHead
    <3> HIDE DEF s, r
    <3> QED
      BY <1>9, <1>12, <2>3, <3>2 DEF cli_read
  <2> QED
    BY <2>2, <2>3
<1> QED
  BY <1>7, <1>11, <1>12 DEF P, pieces

LEMMA CliTravels == CliDescsTravel
<1> SUFFICES ASSUME NEW d \in CliDescs
             PROVE  Travels(cli_pack_desc(d), d, cli_unpack_desc)
  BY DEF CliDescsTravel
<1> DEFINE P == FlattenSeq(CliPieces(d))
           T == hex_enc(P)
<1>1. /\ P \in Seq(Bytes) /\ cli_read(P) = d
      /\ \A b : Continues(b, P) /\ Len(b) # Len(P) => cli_read(b) = Rejected
  BY CliReads
<1>2. cli_pack_desc(d) = T
  BY DEF cli_pack_desc, CliPieces
<1> HIDE DEF P
<1>3. cli_unpack_desc(<<Blank>> \o T \o <<Blank, Blank>>) = d
  BY <1>1, WholeText DEF cli_unpack_desc
<1>4. ASSUME NEW n \in 0 .. Len(T) - 1
      PROVE  cli_unpack_desc(SubSeq(T, 1, n)) = Rejected
  <2> DEFINE t == trim(SubSeq(T, 1, n))
  <2>1. IsHex(t) => \E m \in 0 .. Len(P) - 1 : hex_dec(t) = SubSeq(P, 1, m)
    BY <1>1, CutText
  <2>2. cli_unpack_desc(SubSeq(T, 1, n)) = IF IsHex(t) THEN cli_read(hex_dec(t)) ELSE Rejected
    BY DEF cli_unpack_desc
  <2> HIDE DEF t
  <2> QED
    BY <1>1, <2>1, <2>2, CutContinues
<1>5. ASSUME NEW more \in {<< 0 >>, <<0, 0>>, <<Junk, Junk>>}
      PROVE  cli_unpack_desc(T \o more) = Rejected
  <2> DEFINE t == trim(T \o more)
  <2>1. IsHex(t) => hex_dec(t) = P \o <<0>>
    BY <1>1, LongText
  <2>2. cli_unpack_desc(T \o more) = IF IsHex(t) THEN cli_read(hex_dec(t)) ELSE Rejected
    BY DEF cli_unpack_desc
  <2> HIDE DEF t
  <2> QED
    BY <1>1, <2>1, <2>2, LongContinues
<1> QED
  BY <1>2, <1>3, <1>4, <1>5 DEF Travels

-----------------------------------------------------------------------------
(* urma_bench.                                                             *)

IsJoin(u, s, t) ==
    /\ Len(u) = Len(s) + Len(t)
    /\ \A i \in 1 .. Len(s) : u[i] = s[i]
    /\ \A i \in 1 .. Len(t) : u[Len(s) + i] = t[i]

\* Concatenation, place by place.
LEMMA Joined ==
  ASSUME NEW S, NEW s \in Seq(S), NEW t \in Seq(S)
  PROVE  s \o t \in Seq(S) /\ IsJoin(s \o t, s, t)
<1> DEFINE u == s \o t
<1>1. /\ u \in Seq(S) /\ Len(u) = Len(s) + Len(t)
      /\ \A i \in 1 .. Len(s) + Len(t) : u[i] = IF i <= Len(s) THEN s[i] ELSE t[i - Len(s)]
  BY ConcatProperties
<1> HIDE DEF u
<1> DEFINE m == Len(s)
           n == Len(t)
<1>2. u \in Seq(S) /\ Len(u) = m + n /\ m \in Nat /\ n \in Nat
  BY <1>1, LenProperties
<1>3. ASSUME NEW i \in 1 .. m PROVE u[i] = s[i]
  BY <1>1
<1>4. ASSUME NEW i \in 1 .. n PROVE u[m + i] = t[i]
  <2>1. m + i \in 1 .. m + n /\ ~(m + i <= m) /\ (m + i) - m = i
    <3> HIDE DEF m, n
    <3> QED
      BY <1>2
  <2> QED
    BY <1>1, <2>1
<1> QED
  BY <1>2, <1>3, <1>4 DEF u, IsJoin

\* Where things of one width begin.
LEMMA EvenlySpaced ==
  ASSUME NEW w \in Nat, NEW n \in Nat, NEW i \in 1 .. n
  PROVE  /\ (i - 1) * w \in Nat /\ i * w \in Nat /\ n * w \in Nat
         /\ (i - 1) * w + w = i * w /\ i * w <= n * w
<1>1. i - 1 \in Nat /\ i \in Nat /\ n - i \in Nat
  OBVIOUS
<1>2. (i - 1) * w \in Nat /\ i * w \in Nat /\ n * w \in Nat /\ (n - i) * w \in Nat
  BY <1>1
<1>3. (i - 1) * w + w = i * w
  OBVIOUS
<1>4. n * w = i * w + (n - i) * w
  OBVIOUS
<1> QED
  BY <1>2, <1>3, <1>4

LEMMA BenchDescIs ==
  ASSUME NEW d \in BenchDescs
  PROVE  /\ d = [seg |-> d.seg, seg_ctx |-> d.seg_ctx, rjetty |-> d.rjetty]
         /\ d.seg \in Segs /\ d.seg_ctx \in Seq(Bytes) /\ IsOfWidth(Len(d.seg_ctx), U32)
         /\ d.rjetty \in Seq(Seq(Bytes)) /\ Len(d.rjetty) \in Nat \ {0}
         /\ IsOfWidth(Len(d.rjetty), U32)
         /\ \A i \in 1 .. Len(d.rjetty) : IsOfWidth(Len(d.rjetty[i]), U32)
<1>1. /\ d = [seg |-> d.seg, seg_ctx |-> d.seg_ctx, rjetty |-> d.rjetty]
      /\ d.seg \in Segs /\ d.seg_ctx \in Blobs
      /\ d.rjetty \in UNION {[1 .. n -> Blobs] : n \in 1 .. MaxBlobs}
  BY DEF BenchDescs
<1>2. PICK n \in 1 .. MaxBlobs : d.rjetty \in [1 .. n -> Blobs]
  BY <1>1
<1>3. n \in Nat \ {0} /\ IsOfWidth(n, U32)
  BY BlobsAssumption
<1>4. d.rjetty \in Seq(Blobs) /\ Len(d.rjetty) = n
  BY <1>2, <1>3, FunctionIsSeq
<1>5. Blobs \subseteq Seq(Bytes)
  BY BlobsAssumption
<1>6. d.rjetty \in Seq(Seq(Bytes))
  BY <1>4, <1>5, WiderSeq
<1>7. \A i \in 1 .. n : d.rjetty[i] \in Blobs
  BY <1>2
<1> QED
  BY <1>1, <1>3, <1>4, <1>6, <1>7, BlobsAssumption

BenchPieces(d) ==
    seg_fields(d.seg)
       \o <<to_le_bytes(Len(d.seg_ctx), U32), to_le_bytes(Len(d.rjetty), U32)>>
       \o [i \in 1 .. Len(d.rjetty) |-> to_le_bytes(Len(d.rjetty[i]), U32)]
       \o <<d.seg_ctx>> \o d.rjetty

\* The pieces of urma_bench's descriptor, the counted blobs last.
LEMMA BenchPiecesAre ==
  ASSUME NEW d \in BenchDescs
  PROVE  LET p == BenchPieces(d)
             n == Len(d.rjetty)
         IN /\ p \in Seq(Seq(Bytes)) /\ Len(p) = 9 + n + n
            /\ \A i \in 1 .. 6 : p[i] = seg_fields(d.seg)[i]
            /\ p[7] = to_le_bytes(Len(d.seg_ctx), U32) /\ p[8] = to_le_bytes(n, U32)
            /\ \A i \in 1 .. n : p[8 + i] = to_le_bytes(Len(d.rjetty[i]), U32)
            /\ p[9 + n] = d.seg_ctx
            /\ \A i \in 1 .. n : p[9 + n + i] = d.rjetty[i]
<1> DEFINE S == Seq(Bytes)
           n == Len(d.rjetty)
           x == to_le_bytes(Len(d.seg_ctx), U32)
           y == to_le_bytes(n, U32)
           f == seg_fields(d.seg)
           h == <<x, y>>
           l == [i \in 1 .. n |-> to_le_bytes(Len(d.rjetty[i]), U32)]
           c == <<d.seg_ctx>>
           r == d.rjetty
<1>1. /\ d.seg \in Segs /\ d.seg_ctx \in S /\ r \in Seq(S) /\ n \in Nat \ {0} /\ Len(r) = n
      /\ \A i \in 1 .. n : r[i] \in S
  BY BenchDescIs, ElementOfSeq
<1>2. x \in S /\ y \in S /\ \A i \in 1 .. n : to_le_bytes(Len(r[i]), U32) \in S
  BY <1>1, BytesOf, LenProperties, WidthsAssumption
<1>3. f \in Seq(S) /\ Len(f) = 6
  BY <1>1, SegFieldsAre
<1>4. l \in Seq(S) /\ Len(l) = n /\ \A i \in 1 .. n : l[i] = to_le_bytes(Len(d.rjetty[i]), U32)
  <2>1. l \in [1 .. n -> S]
    BY <1>2
  <2> HIDE DEF n
  <2>2. n \in Nat
    BY <1>1
  <2>3. l \in Seq(S) /\ Len(l) = n
    BY <2>1, <2>2, FunctionIsSeq
  <2> QED
    BY <2>3
<1>5. BenchPieces(d) = (((f \o h) \o l) \o c) \o r
  BY DEF BenchPieces
<1> HIDE DEF S, n, x, y, f, l, r
<1>6. h \in Seq(S) /\ Len(h) = 2 /\ h[1] = x /\ h[2] = y
  BY <1>2
<1>7. c \in Seq(S) /\ Len(c) = 1 /\ c[1] = d.seg_ctx
  BY <1>1
<1> HIDE DEF h, c
<1> DEFINE p1 == f \o h
           p2 == p1 \o l
           p3 == p2 \o c
           p == p3 \o r
<1>8. /\ p1 \in Seq(S) /\ Len(p1) = 6 + 2 /\ \A i \in 1 .. 6 : p1[i] = f[i]
      /\ \A i \in 1 .. 2 : p1[6 + i] = h[i]
  <2>1. p1 \in Seq(S) /\ IsJoin(p1, f, h)
    BY <1>3, <1>6, Joined
  <2> HIDE DEF p1
  <2> QED
    BY <1>3, <1>6, <2>1 DEF IsJoin
<1> HIDE DEF p1
<1>9. /\ p1 \in Seq(S) /\ Len(p1) = 8 /\ 8 \in Nat /\ n \in Nat
      /\ \A i \in 1 .. 6 : p1[i] = f[i]
      /\ p1[7] = x /\ p1[8] = y
  BY <1>1, <1>6, <1>8
<1>10. /\ p2 \in Seq(S) /\ Len(p2) = 8 + n /\ \A i \in 1 .. 8 : p2[i] = p1[i]
       /\ \A i \in 1 .. n : p2[8 + i] = l[i]
  <2>1. p2 \in Seq(S) /\ IsJoin(p2, p1, l)
    BY <1>4, <1>9, Joined
  <2> HIDE DEF p2
  <2> QED
    BY <1>4, <1>9, <2>1 DEF IsJoin
<1> HIDE DEF p2
<1>11. /\ p3 \in Seq(S) /\ Len(p3) = (8 + n) + 1 /\ \A i \in 1 .. 8 + n : p3[i] = p2[i]
       /\ \A i \in 1 .. 1 : p3[(8 + n) + i] = c[i]
  <2>1. 8 + n \in Nat /\ 1 \in Nat
    BY <1>9
  <2> QED
    <3>1. p3 \in Seq(S) /\ IsJoin(p3, p2, c)
      BY <1>7, <1>10, Joined
    <3> HIDE DEF p3
    <3> QED
      BY <1>7, <1>10, <2>1, <3>1 DEF IsJoin
<1> HIDE DEF p3
<1>12. p3 \in Seq(S) /\ Len(p3) = 9 + n /\ 9 + n \in Nat /\ p3[9 + n] = d.seg_ctx
  BY <1>7, <1>9, <1>11
<1>13. /\ p \in Seq(S) /\ Len(p) = (9 + n) + n /\ \A i \in 1 .. 9 + n : p[i] = p3[i]
       /\ \A i \in 1 .. n : p[(9 + n) + i] = r[i]
  <2>1. p \in Seq(S) /\ IsJoin(p, p3, r)
    BY <1>1, <1>9, <1>12, Joined
  <2> HIDE DEF p
  <2> QED
    BY <1>1, <1>9, <1>12, <2>1 DEF IsJoin
<1> HIDE DEF p
<1>14. \A i \in 1 .. 8 : p[i] = p1[i]
  <2>1. \A i \in 1 .. 8 : i \in 1 .. 8 + n /\ i \in 1 .. 9 + n
    BY <1>9
  <2> QED
    BY <1>10, <1>11, <1>13, <2>1
<1>15. \A i \in 1 .. n : p[8 + i] = l[i]
  <2>1. \A i \in 1 .. n : 8 + i \in 1 .. 8 + n /\ 8 + i \in 1 .. 9 + n
    BY <1>9
  <2> QED
    BY <1>10, <1>11, <1>13, <2>1
<1>16. p[9 + n] = d.seg_ctx
  <2>1. 9 + n \in 1 .. 9 + n
    BY <1>9
  <2> QED
    BY <1>12, <1>13, <2>1
<1>17. (\A i \in 1 .. 6 : p[i] = f[i]) /\ p[7] = x /\ p[8] = y
  BY <1>9, <1>14
<1>18. BenchPieces(d) = p
  BY <1>5 DEF p, p1, p2, p3
<1> QED
  BY <1>4, <1>13, <1>15, <1>16, <1>17, <1>18 DEF S, n, x, y, f, r

CountsAre(b, s, n, lens) ==
    /\ Number(b, SegBytes, U32) = s /\ Number(b, SegBytes + U32, U32) = n
    /\ ~(Len(b) < HeadBytes) /\ n # 0 /\ ~(Len(b) < HeadBytes + n * U32)
    /\ lens = [i \in 1 .. n |-> Number(b, HeadBytes + (i - 1) * U32, U32)]

\* What is left to be found wrong once the counts have been read.
LEMMA BenchReadIs ==
  ASSUME NEW b, NEW s, NEW n, NEW lens, CountsAre(b, s, n, lens)
  PROVE  LET ctx_off == HeadBytes + n * U32
             ends == Ends(ctx_off + s, lens)
         IN bench_read(b) =
              IF Len(b) # ends[n] THEN Rejected
              ELSE [seg |-> unpack_seg(b), seg_ctx |-> Take(b, ctx_off, s),
                    rjetty |-> [i \in 1 .. n |-> Take(b, ends[i - 1], lens[i])]]
BY DEF bench_read, CountsAre

\* urma_bench reads its descriptor, and nothing of another length that begins like it.
LEMMA BenchReads ==
  ASSUME NEW d \in BenchDescs
  PROVE  LET P == FlattenSeq(BenchPieces(d))
         IN /\ P \in Seq(Bytes) /\ bench_read(P) = d
            /\ \A b : Continues(b, P) /\ Len(b) # Len(P) => bench_read(b) = Rejected
<1> DEFINE pieces == BenchPieces(d)
           P == FlattenSeq(pieces)
           e == Ends(0, Lengths(pieces))
           s == Len(d.seg_ctx)
           r == d.rjetty
           n == Len(r)
           w == U32
           lens == Lengths(r)
           ctx_off == HeadBytes + n * w
           ends == Ends(ctx_off + s, lens)
<1>1. /\ d = [seg |-> d.seg, seg_ctx |-> d.seg_ctx, rjetty |-> r]
      /\ d.seg \in Segs /\ d.seg_ctx \in Seq(Bytes) /\ IsOfWidth(s, w) /\ s \in Nat
      /\ r \in Seq(Seq(Bytes)) /\ n \in Nat \ {0} /\ IsOfWidth(n, w)
      /\ \A i \in 1 .. n : IsOfWidth(Len(r[i]), w)
  BY BenchDescIs, LenProperties
<1>2. w \in Nat /\ HeadBytes \in Nat
  BY WidthsAssumption DEF HeadBytes, SegBytes
<1>3. /\ pieces \in Seq(Seq(Bytes)) /\ Len(pieces) = 9 + n + n
      /\ \A i \in 1 .. 6 : pieces[i] = seg_fields(d.seg)[i]
      /\ pieces[7] = to_le_bytes(s, w) /\ pieces[8] = to_le_bytes(n, w)
      /\ \A i \in 1 .. n : pieces[8 + i] = to_le_bytes(Len(r[i]), w)
      /\ pieces[9 + n] = d.seg_ctx
      /\ \A i \in 1 .. n : pieces[9 + n + i] = r[i]
  BY BenchPiecesAre
<1> HIDE DEF pieces, s, r, n, w
<1>4. /\ e[8] = HeadBytes /\ unpack_seg(P) = d.seg
      /\ Number(P, SegBytes, w) = s /\ Number(P, SegBytes + w, w) = n
  <2> DEFINE seg == d.seg
  <2>1. pieces \in Seq(Seq(Bytes)) /\ seg \in Segs
    BY <1>1, <1>3
  <2>2. /\ pieces[1] = d.seg.eid /\ pieces[2] = to_le_bytes(d.seg.uasid, U32)
        /\ pieces[3] = to_le_bytes(d.seg.va, U64) /\ pieces[4] = to_le_bytes(d.seg.len, U64)
        /\ pieces[5] = to_le_bytes(d.seg.attr, U32)
        /\ pieces[6] = to_le_bytes(d.seg.token_id, U32)
    <3> DEFINE f == seg_fields(d.seg)
    <3>1. /\ f[1] = d.seg.eid /\ f[2] = to_le_bytes(d.seg.uasid, U32)
          /\ f[3] = to_le_bytes(d.seg.va, U64) /\ f[4] = to_le_bytes(d.seg.len, U64)
          /\ f[5] = to_le_bytes(d.seg.attr, U32) /\ f[6] = to_le_bytes(d.seg.token_id, U32)
      BY <1>1, SegFieldsAre
    <3>2. \A i \in 1 .. 6 : pieces[i] = f[i]
      BY <1>3
    <3> HIDE DEF f
    <3>3. /\ pieces[1] = f[1] /\ pieces[2] = f[2] /\ pieces[3] = f[3]
          /\ pieces[4] = f[4] /\ pieces[5] = f[5] /\ pieces[6] = f[6]
      BY <3>2
    <3> QED
      BY <3>1, <3>3
  <2>3. Len(pieces) >= 8
    BY <1>1, <1>3
  <2>4. IsHead(pieces, seg, s, n)
    BY <1>1, <1>3, <2>2, <2>3 DEF IsHead, w
  <2> HIDE DEF seg
  <2>5. /\ e[8] = HeadBytes /\ unpack_seg(P) = seg
        /\ Number(P, SegBytes, U32) = s /\ Number(P, SegBytes + U32, U32) = n
    BY <2>1, <2>4, HeadTravels
  <2> QED
    BY <2>5 DEF seg, w
\* Where the pieces lie.
<1>5. /\ lens \in Seq(Nat) /\ Len(lens) = n /\ \A i \in 1 .. n : lens[i] = Len(r[i])
  BY <1>1, LengthsAre DEF n
<1>6. lens = [i \in 1 .. n |-> Len(r[i])]
  BY DEF Lengths, n
<1> HIDE DEF lens
<1>7. n * w \in Nat /\ ctx_off \in Nat /\ ctx_off + s \in Nat
  <2> DEFINE x == n * w
  <2>1. x \in Nat
    BY <1>1, <1>2
  <2>2. s \in Nat
    BY <1>1
  <2> HIDE DEF x
  <2>3. HeadBytes + x \in Nat /\ HeadBytes + x + s \in Nat
    BY <1>2, <2>1, <2>2
  <2> QED
    BY <2>1, <2>3 DEF x
<1>8. /\ ends \in [0 .. n -> Nat] /\ ends[0] = ctx_off + s
      /\ \A i \in 1 .. n : ends[i] = ends[i - 1] + lens[i]
  <2> HIDE DEF ctx_off
  <2> QED
    BY <1>5, <1>7, EndsAre
<1>24. n \in Nat /\ Len(pieces) = 9 + n + n /\ pieces \in Seq(Seq(Bytes))
  BY <1>1, <1>3
<1>27. pieces \in Seq(Seq(Bytes))
  BY <1>3
<1>25. \A i \in 1 .. Len(pieces) : \A x :
         IsOfWidth(x, w) /\ pieces[i] = to_le_bytes(x, w)
            => Number(P, e[i - 1], w) = x /\ e[i] = e[i - 1] + w
  <2>1. \A i \in 1 .. Len(pieces) : \A x : \A v \in Nat :
           IsOfWidth(x, v) /\ pieces[i] = to_le_bytes(x, v)
              => Number(P, e[i - 1], v) = x /\ e[i] = e[i - 1] + v
    BY <1>27, NumberTaken
  <2> HIDE DEF P, e
  <2> QED
    BY <1>2, <2>1
<1>26. \A i \in 1 .. Len(pieces) :
         /\ Take(P, e[i - 1], Len(pieces[i])) = pieces[i]
         /\ e[i] = e[i - 1] + Len(pieces[i])
  BY <1>24, PieceTaken
<1>12. P \in Seq(Bytes) /\ Len(P) = e[9 + n + n]
  <2>1. Len(pieces) > 0
    BY <1>24
  <2> QED
    BY <1>24, <2>1, Flattened
<1> HIDE DEF P, e, ends, ctx_off
<1>9. ASSUME NEW i \in 1 .. n
      PROVE  /\ Number(P, e[(8 + i) - 1], w) = lens[i]
             /\ e[8 + i] = e[(8 + i) - 1] + w
  <2>1. 8 + i \in 1 .. Len(pieces)
    BY <1>24
  <2>2. IsOfWidth(lens[i], w) /\ pieces[8 + i] = to_le_bytes(lens[i], w)
    BY <1>1, <1>3, <1>5
  <2> QED
    BY <2>1, <2>2, <1>25
<1>10. /\ Take(P, e[(9 + n) - 1], s) = d.seg_ctx
       /\ e[9 + n] = e[(9 + n) - 1] + s
  <2>1. 9 + n \in 1 .. Len(pieces)
    BY <1>24
  <2> QED
    BY <1>3, <1>26, <2>1 DEF s
<1>11. ASSUME NEW i \in 1 .. n
       PROVE  /\ Take(P, e[(9 + n + i) - 1], lens[i]) = r[i]
              /\ e[9 + n + i] = e[(9 + n + i) - 1] + lens[i]
  <2>1. 9 + n + i \in 1 .. Len(pieces)
    BY <1>24
  <2>2. pieces[9 + n + i] = r[i] /\ Len(r[i]) = lens[i]
    BY <1>3, <1>5
  <2> QED
    BY <1>26, <2>1, <2>2
<1>13. \A i \in 0 .. n : e[8 + i] = HeadBytes + i * w
  <2> DEFINE S == {i \in Nat : i <= n => e[8 + i] = HeadBytes + i * w}
  <2>1. 0 \in S
    <3>1. 0 * w = 0 /\ 8 + 0 = 8
      BY <1>2
    <3>2. e[8 + 0] = HeadBytes + 0 * w
      BY <1>2, <1>4, <3>1
    <3> QED
      BY <3>2
  <2>2. ASSUME NEW i \in S \cap Nat PROVE i + 1 \in S
    <3> SUFFICES ASSUME i + 1 <= n PROVE e[8 + (i + 1)] = HeadBytes + (i + 1) * w
      OBVIOUS
    <3>1. i + 1 \in 1 .. n /\ (8 + (i + 1)) - 1 = 8 + i /\ (i + 1) - 1 = i
      BY <1>1
    <3>2. e[8 + (i + 1)] = e[8 + i] + w
      BY <1>9, <3>1
    <3>3. e[8 + i] = HeadBytes + i * w
      BY <1>1
    <3>4. ((i + 1) - 1) * w + w = (i + 1) * w /\ ((i + 1) - 1) * w \in Nat
          /\ (i + 1) * w \in Nat
      BY <1>1, <1>2, <3>1, EvenlySpaced
    <3>5. i * w + w = (i + 1) * w /\ i * w \in Nat
      BY <3>1, <3>4
    <3> QED
      BY <1>2, <3>2, <3>3, <3>4, <3>5
  <2> HIDE DEF S
  <2>3. \A i \in Nat : i \in S
    BY <2>1, <2>2, Upward
  <2> QED
    BY <2>3 DEF S
<1>14. e[8 + n] = ctx_off
  <2>1. n \in 0 .. n
    BY <1>1
  <2> QED
    BY <1>13, <2>1 DEF ctx_off
<1>15. \A i \in 0 .. n : e[9 + n + i] = ends[i]
  <2> DEFINE S == {i \in Nat : i <= n => e[9 + n + i] = ends[i]}
  <2>1. 0 \in S
    <3>1. (9 + n) - 1 = 8 + n /\ 9 + n + 0 = 9 + n
      BY <1>1
    <3>2. e[9 + n + 0] = ends[0]
      BY <1>8, <1>10, <1>14, <3>1
    <3> QED
      BY <3>2
  <2>2. ASSUME NEW i \in S \cap Nat PROVE i + 1 \in S
    <3> SUFFICES ASSUME i + 1 <= n PROVE e[9 + n + (i + 1)] = ends[i + 1]
      OBVIOUS
    <3>1. i + 1 \in 1 .. n /\ (9 + n + (i + 1)) - 1 = 9 + n + i /\ (i + 1) - 1 = i
      BY <1>1
    <3>2. e[9 + n + (i + 1)] = e[9 + n + i] + lens[i + 1]
      BY <1>11, <3>1
    <3>3. e[9 + n + i] = ends[i]
      BY <1>1
    <3>4. ends[i + 1] = ends[i] + lens[i + 1]
      BY <1>8, <3>1
    <3> QED
      BY <3>2, <3>3, <3>4
  <2> HIDE DEF S
  <2>3. \A i \in Nat : i \in S
    BY <2>1, <2>2, Upward
  <2> QED
    BY <2>3 DEF S
<1>16. \A i \in 1 .. n : Number(P, HeadBytes + (i - 1) * w, w) = lens[i]
  <2> SUFFICES ASSUME NEW i \in 1 .. n PROVE Number(P, HeadBytes + (i - 1) * w, w) = lens[i]
    OBVIOUS
  <2>1. i - 1 \in 0 .. n /\ (8 + i) - 1 = 8 + (i - 1)
    BY <1>1
  <2>2. e[8 + (i - 1)] = HeadBytes + (i - 1) * w
    BY <1>13, <2>1
  <2> QED
    BY <1>9, <2>1, <2>2
<1>17. Take(P, ctx_off, s) = d.seg_ctx
  <2>1. (9 + n) - 1 = 8 + n
    BY <1>1
  <2> QED
    BY <1>10, <1>14, <2>1
<1>18. \A i \in 1 .. n : Take(P, ends[i - 1], lens[i]) = r[i]
  <2> SUFFICES ASSUME NEW i \in 1 .. n PROVE Take(P, ends[i - 1], lens[i]) = r[i]
    OBVIOUS
  <2>1. i - 1 \in 0 .. n /\ (9 + n + i) - 1 = 9 + n + (i - 1)
    BY <1>1
  <2>2. e[9 + n + (i - 1)] = ends[i - 1]
    BY <1>15, <2>1
  <2> QED
    BY <1>11, <2>1, <2>2
<1>19. Len(P) = ends[n] /\ Len(P) \in Nat
  <2>1. n \in 0 .. n
    BY <1>1
  <2> QED
    BY <1>8, <1>12, <1>15, <2>1
\* Where they end is not before the counts.
<1>20. ctx_off <= Len(P)
  <2> DEFINE S == {i \in Nat : i <= n => ctx_off <= ends[i]}
  <2>1. 0 \in S
    BY <1>1, <1>7, <1>8
  <2>2. ASSUME NEW i \in S \cap Nat PROVE i + 1 \in S
    <3> SUFFICES ASSUME i + 1 <= n PROVE ctx_off <= ends[i + 1]
      OBVIOUS
    <3>1. i + 1 \in 1 .. n /\ i \in 0 .. n /\ (i + 1) - 1 = i
      BY <1>1
    <3>2. ends[i + 1] = ends[i] + lens[i + 1] /\ ends[i] \in Nat
      BY <1>8, <3>1
    <3>3. lens[i + 1] \in Nat
      BY <1>5, <3>1, ElementOfSeq
    <3>4. ctx_off <= ends[i]
      BY <1>1
    <3> QED
      BY <1>7, <3>2, <3>3, <3>4
  <2> HIDE DEF S
  <2>3. n \in S
    BY <1>1, <2>1, <2>2, Upward
  <2> QED
    BY <1>1, <1>19, <2>3 DEF S
<1>21. HeadBytes <= ctx_off
  BY <1>2, <1>7 DEF ctx_off
<1>22. bench_read(P) = d
  <2>1. lens = [i \in 1 .. n |-> Number(P, HeadBytes + (i - 1) * w, w)]
    <3>1. lens = [i \in 1 .. n |-> lens[i]]
      BY <1>6
    <3> QED
      BY <1>16, <3>1
  <2>2. ~(Len(P) < HeadBytes) /\ ~(Len(P) < ctx_off) /\ n # 0
    BY <1>1, <1>2, <1>7, <1>19, <1>20, <1>21
  <2>3. bench_read(P) =
           IF Len(P) # ends[n] THEN Rejected
           ELSE [seg |-> unpack_seg(P), seg_ctx |-> Take(P, ctx_off, s),
                 rjetty |-> [i \in 1 .. n |-> Take(P, ends[i - 1], lens[i])]]
    <3>1. CountsAre(P, s, n, lens)
      BY <1>4, <2>1, <2>2 DEF CountsAre, ctx_off, w
    <3> QED
      BY <3>1, BenchReadIs DEF ctx_off, ends, w
  <2>4. [i \in 1 .. n |-> Take(P, ends[i - 1], lens[i])] = r
    <3>1. r \in [1 .. n -> Seq(Bytes)]
      BY <1>1, LenProperties DEF n
    <3> QED
      BY <1>18, <3>1
  <2> QED
    BY <1>1, <1>4, <1>17, <1>19, <2>3, <2>4
<1>23. ASSUME NEW b, Continues(b, P), Len(b) # Len(P)
       PROVE  bench_read(b) = Rejected
  <2>1. Len(b) \in Nat
    BY <1>23, LenProperties DEF Continues
  <2>2. CASE Len(b) < HeadBytes
    BY <2>2 DEF bench_read
  <2>3. CASE ~(Len(b) < HeadBytes)
    <3>1. HeadBytes <= Len(b) /\ HeadBytes <= Len(P)
      BY <1>2, <1>7, <1>19, <1>20, <1>21, <2>1, <2>3
    <3>2. Number(b, SegBytes, w) = s /\ Number(b, SegBytes + w, w) = n
      BY <1>4, <1>12, <1>23, <3>1, SameHead DEF w
    <3>3. CASE Len(b) < ctx_off
      BY <2>3, <3>2, <3>3 DEF bench_read, ctx_off, w
    <3>4. CASE ~(Len(b) < ctx_off)
      <4>1. \A i \in 1 .. n : Number(b, HeadBytes + (i - 1) * w, w) = lens[i]
        <5> SUFFICES ASSUME NEW i \in 1 .. n
                     PROVE  Number(b, HeadBytes + (i - 1) * w, w) = lens[i]
          OBVIOUS
        <5> DEFINE off == HeadBytes + (i - 1) * w
        <5>1. (i - 1) * w \in Nat /\ (i - 1) * w + w <= n * w
          BY <1>1, <1>2, EvenlySpaced
        <5>2. off \in Nat /\ off + w <= ctx_off
          BY <1>2, <1>7, <5>1 DEF ctx_off
        <5> HIDE DEF off
        <5>3. off + w <= Len(b) /\ off + w <= Len(P)
          BY <1>2, <1>7, <1>19, <1>20, <2>1, <3>4, <5>2
        <5>4. Take(b, off, w) = Take(P, off, w)
          BY <1>2, <1>12, <1>23, <5>2, <5>3, SameTake
        <5> QED
          BY <1>16, <5>4 DEF off, Number
      <4>2. lens = [i \in 1 .. n |-> Number(b, HeadBytes + (i - 1) * w, w)]
        <5>1. lens = [i \in 1 .. n |-> lens[i]]
          BY <1>6
        <5> QED
          BY <4>1, <5>1
      <4>3. n # 0
        BY <1>1
      <4>4. bench_read(b) =
               IF Len(b) # ends[n] THEN Rejected
               ELSE [seg |-> unpack_seg(b), seg_ctx |-> Take(b, ctx_off, s),
                     rjetty |-> [i \in 1 .. n |-> Take(b, ends[i - 1], lens[i])]]
        <5>1. CountsAre(b, s, n, lens)
          BY <2>3, <3>2, <3>4, <4>2, <4>3 DEF CountsAre, ctx_off, w
        <5> QED
          BY <5>1, BenchReadIs DEF ctx_off, ends, w
      <4> QED
        BY <1>19, <1>23, <4>4
    <3> QED
      BY <3>3, <3>4
  <2> QED
    BY <2>2, <2>3
<1> QED
  BY <1>12, <1>22, <1>23 DEF P, pieces

LEMMA BenchTravels == BenchDescsTravel
<1> SUFFICES ASSUME NEW d \in BenchDescs
             PROVE  Travels(bench_pack_desc(d), d, bench_unpack_desc)
  BY DEF BenchDescsTravel
<1> DEFINE P == FlattenSeq(BenchPieces(d))
           T == hex_enc(P)
<1>1. /\ P \in Seq(Bytes) /\ bench_read(P) = d
      /\ \A b : Continues(b, P) /\ Len(b) # Len(P) => bench_read(b) = Rejected
  BY BenchReads
<1>2. bench_pack_desc(d) = T
  BY DEF bench_pack_desc, BenchPieces
<1> HIDE DEF P
<1>3. bench_unpack_desc(<<Blank>> \o T \o <<Blank, Blank>>) = d
  BY <1>1, WholeText DEF bench_unpack_desc
<1>4. ASSUME NEW n \in 0 .. Len(T) - 1
      PROVE  bench_unpack_desc(SubSeq(T, 1, n)) = Rejected
  <2> DEFINE t == trim(SubSeq(T, 1, n))
  <2>1. IsHex(t) => \E m \in 0 .. Len(P) - 1 : hex_dec(t) = SubSeq(P, 1, m)
    BY <1>1, CutText
  <2>2. bench_unpack_desc(SubSeq(T, 1, n)) = IF IsHex(t) THEN bench_read(hex_dec(t)) ELSE Rejected
    BY DEF bench_unpack_desc
  <2> HIDE DEF t
  <2> QED
    BY <1>1, <2>1, <2>2, CutContinues
<1>5. ASSUME NEW more \in {<< 0 >>, <<0, 0>>, <<Junk, Junk>>}
      PROVE  bench_unpack_desc(T \o more) = Rejected
  <2> DEFINE t == trim(T \o more)
  <2>1. IsHex(t) => hex_dec(t) = P \o <<0>>
    BY <1>1, LongText
  <2>2. bench_unpack_desc(T \o more) = IF IsHex(t) THEN bench_read(hex_dec(t)) ELSE Rejected
    BY DEF bench_unpack_desc
  <2> HIDE DEF t
  <2> QED
    BY <1>1, <2>1, <2>2, LongContinues
<1> QED
  BY <1>2, <1>3, <1>4, <1>5 DEF Travels

-----------------------------------------------------------------------------

\* What is typed for --sizes is swept as it was asked for, or refused, and the
\* percentiles are of the nearest rank (parse_sizes, resolve_buf_len, stats):
\* whatever is typed, for any limits and numbers of samples.
THEOREM SweepIsAsAsked == Spec => []SweepAsAsked
<1>1. SweepAsAsked
  BY ListsParsed, RangesParsed, RanksFound DEF SweepAsAsked
<1> QED
  BY <1>1, PTL

\* A descriptor is read as it was written, and is refused when it is cut short
\* or goes on (pack_desc, unpack_desc of urma_cli and of urma_bench): whatever is
\* exported and for any widths of bytes and fields.
THEOREM DescAlwaysTravels == Spec => []DescTravels
<1>1. DescTravels
  BY CliTravels, BenchTravels DEF DescTravels
<1> QED
  BY <1>1, PTL
=============================================================================
