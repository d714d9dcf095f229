----------------------------- MODULE BenchInputs -----------------------------
(***************************************************************************)
(* urma_bench.rs before and after the transfers: --sizes and --buf-len are *)
(* parsed, the samples of a size are reduced to percentiles.               *)
(*                                                                         *)
(* A token is [num, suffix], or JunkPart where num.parse() fails; a        *)
(* --sizes argument is [list: tokens] (a blank part being BlankPart) or    *)
(* [first, last].                                                          *)
(***************************************************************************)
EXTENDS Integers, Sequences, FiniteSets, FiniteSetsExt, SequencesExt

CONSTANTS K,           \* what the suffix k multiplies by, 1024
          SgeLimit,    \* u32::MAX
          UsizeMax,    \* usize::MAX
          Tokens,      \* what is typed for a size
          MaxParts,    \* bound on the parts of a list
          MaxSamples   \* bound on the samples of a size

JunkPart == [num |-> -1, suffix |-> 0]
BlankPart == [num |-> -2, suffix |-> 0]

ASSUME LimitsAssumption == K \in Nat \ {0} /\ SgeLimit \in Nat /\ UsizeMax \in Nat
                              /\ SgeLimit <= UsizeMax
ASSUME TokensAssumption ==
    Tokens \subseteq [num : Nat, suffix : 0 .. 3] \cup {JunkPart, BlankPart}
ASSUME BoundsAssumption == MaxParts \in Nat /\ MaxSamples \in Nat

NoSweep == <<>>
TooBad == 0

-------------------------------------------------------------------------------
\* k, m and g multiply by 2^10, 2^20 and 2^30.
Value(tok) == tok.num * <<1, K, K * K, K * K * K>>[tok.suffix + 1]

parse_one_size(tok) ==
    IF tok \in {JunkPart, BlankPart} THEN TooBad
    ELSE IF Value(tok) > UsizeMax \/ Value(tok) = 0 \/ Value(tok) > SgeLimit THEN TooBad
    ELSE Value(tok)

\* The loop pushes the double of the last size while it is not above the end;
\* it has stopped after last turns, which double a size beyond last.
\* A slip in it: one step past the end.
doubled_past(first, last) ==
    LET sizes[i \in 0 .. last] ==
            IF i = 0 THEN <<first>>
            ELSE LET s == sizes[i - 1]
                 IN IF s[Len(s)] <= last THEN Append(s, 2 * s[Len(s)]) ELSE s
    IN sizes[last]

doubled(first, last) ==
    LET sizes[i \in 0 .. last] ==
            IF i = 0 THEN <<first>>
            ELSE LET s == sizes[i - 1]
                 IN IF 2 * s[Len(s)] <= last THEN Append(s, 2 * s[Len(s)]) ELSE s
    IN sizes[last]

parse_range(spec) ==
    LET first == parse_one_size(spec.first)
        last == parse_one_size(spec.last)
    IN IF first = TooBad \/ last = TooBad \/ last < first THEN NoSweep
       ELSE doubled(first, last)

IsAscending(s) == \A i, k \in DOMAIN s : i < k => s[i] < s[k]

\* Sorted and deduplicated.
ascending(S) == CHOOSE s \in [1 .. Cardinality(S) -> S] : IsAscending(s)

parse_list(spec) ==
    LET Parts == ToSet(spec.list) \ {BlankPart}
        Values == {parse_one_size(tok) : tok \in Parts}
    IN IF TooBad \in Values \/ Parts = {} THEN NoSweep ELSE ascending(Values)

parse_sizes(spec) == IF "list" \in DOMAIN spec THEN parse_list(spec) ELSE parse_range(spec)

DefaultBufLen == K * K

None == [num |-> -3, suffix |-> 0]
NoSizes == [list |-> <<None>>]

\* --buf-len has been parsed by clap with parse_one_size; TooBad is an error.
resolve_buf_len(buf_len, sizes) ==
    IF buf_len # None THEN parse_one_size(buf_len)
    ELSE IF sizes = NoSizes THEN DefaultBufLen
    ELSE LET s == parse_sizes(sizes) IN IF s = NoSweep THEN TooBad ELSE s[Len(s)]

-------------------------------------------------------------------------------
(* stats: nearest rank.                                                    *)

CeilDiv(a, b) == (a + b - 1) \div b

\* The 0-based index of the p-th percentile of n sorted samples.  For p of 50
\* and 99 the code's doubles have the same ceiling.
rank_index(p, n) == Min({Max({CeilDiv(p * n, 100) - 1, 0}), n - 1})

-------------------------------------------------------------------------------
(* What is asked for.                                                      *)

Lists == [list : UNION {[1 .. n -> Tokens] : n \in 0 .. MaxParts}]
Ranges == [first : Tokens \ {BlankPart}, last : Tokens \ {BlankPart}]

Legal(tok) == tok \notin {JunkPart, BlankPart} /\ Value(tok) \in 1 .. SgeLimit

Named(spec) == ToSet(spec.list) \ {BlankPart}
IsLegalList(spec) == Named(spec) # {} /\ \A tok \in Named(spec) : Legal(tok)

IsLegalRange(spec) ==
    Legal(spec.first) /\ Legal(spec.last) /\ Value(spec.first) <= Value(spec.last)

\* From one end, each twice the one before, as long as they do not exceed the
\* other end.
Doubles(s, lo, hi) ==
    /\ Len(s) >= 1 /\ s[1] = lo
    /\ \A i \in 1 .. Len(s) - 1 : s[i + 1] = 2 * s[i]
    /\ s[Len(s)] <= hi /\ hi < 2 * s[Len(s)]

\* What serve allocates for the same argument without --buf-len.
Fits(s, spec) ==
    /\ IsAscending(s) /\ ToSet(s) \subseteq 1 .. SgeLimit
    /\ \A n \in ToSet(s) : n <= resolve_buf_len(None, spec)

IsRefused(spec) == parse_sizes(spec) = NoSweep /\ resolve_buf_len(None, spec) = TooBad

\* A list is swept in ascending order, each size it names once.
ListsAsAsked ==
    \A spec \in Lists :
        IF IsLegalList(spec)
        THEN /\ ToSet(parse_sizes(spec)) = {Value(tok) : tok \in Named(spec)}
             /\ Fits(parse_sizes(spec), spec)
        ELSE IsRefused(spec)

\* A range is swept by doubling.
RangesAsAsked ==
    \A spec \in Ranges :
        IF IsLegalRange(spec)
        THEN /\ Doubles(parse_sizes(spec), Value(spec.first), Value(spec.last))
             /\ Fits(parse_sizes(spec), spec)
        ELSE IsRefused(spec)

\* At least p% of the samples are at or below the one reported as the p-th
\* percentile, which no earlier sample achieves.
RanksAreNearest ==
    \A n \in 1 .. MaxSamples, p \in {50, 99} :
        LET i == rank_index(p, n)
        IN i \in 0 .. n - 1 /\ (i + 1) * 100 >= p * n /\ i * 100 < p * n
===============================================================================
