----------------------------- MODULE MCBwInputs -----------------------------
(***************************************************************************)
(* TLC instance of BwInputs: the command lines of MCBwPipeline, and what   *)
(* is typed, measured and carried scaled down: K to 4, the limits to 40    *)
(* and 100, a digit to two values, a u32 to one byte, a u64 and an eid to  *)
(* two.                                                                    *)
(***************************************************************************)
EXTENDS MCBwPipeline, BwInputs

Tok(n) == [num |-> n, suffix |-> 0]

\* Values at the limits and around them, and suffixes that reach beyond.
TypedTokens ==
    {JunkPart, BlankPart} \cup {Tok(n) : n \in {0, 1, 3, 8, 11, 40, 41}}
       \cup [num : {1, 2, 26}, suffix : {1, 2}]

\* --sizes 9,1,2,1
ParsedSizes == parse_sizes([list |-> <<Tok(9), Tok(1), Tok(2), Tok(1)>>])

\* Values at both ends of their fields; blobs of up to three bytes, the most
\* that a scaled u32 can count.
ExportedSegs ==
    [eid : {<<1, 2>>}, uasid : {3}, va : {1, 7}, len : {15, 4}, attr : {2}, token_id : {0}]
OpaqueBlobs == {<<>>, <<2>>, <<0, 3, 1>>}
=============================================================================
