------------------------------- MODULE WireDesc -------------------------------
(***************************************************************************)
(* The descriptor line that is carried by hand from serve to read: the     *)
(* pack_desc and unpack_desc of urma_cli.rs and of urma_bench.rs, which    *)
(* differ in the rjetty blobs they carry (one, or a counted list).         *)
(*                                                                         *)
(* A text is a sequence of hex digits and other characters, a byte is two  *)
(* digits.                                                                 *)
(***************************************************************************)
EXTENDS Integers, Sequences, SequencesExt

CONSTANTS Digit,        \* values of a hex digit, 16
          U32, U64,     \* bytes of a u32 and of a u64, 4 and 8
          EidLen,       \* bytes of an eid, 16
          Segs,         \* segments that are exported
          Blobs,        \* and the opaque blobs beside them
          MaxBlobs      \* bound on the jetties of a descriptor

Byte == Digit * Digit
Bytes == 0 .. Byte - 1

\* What is left of n after each of w bytes has been taken off its low end.
Quotients(n, w) == LET q[i \in 0 .. w] == IF i = 0 THEN n ELSE q[i - 1] \div Byte IN q
IsOfWidth(n, w) == n \in Nat /\ Quotients(n, w)[w] = 0

ASSUME WidthsAssumption ==
    Digit \in Nat \ {0, 1} /\ U32 \in Nat /\ U64 \in Nat /\ EidLen \in Nat
ASSUME SegsAssumption ==
    \A seg \in Segs :
        /\ seg = [eid |-> seg.eid, uasid |-> seg.uasid, va |-> seg.va, len |-> seg.len,
                  attr |-> seg.attr, token_id |-> seg.token_id]
        /\ seg.eid \in [1 .. EidLen -> Bytes]
        /\ IsOfWidth(seg.va, U64) /\ IsOfWidth(seg.len, U64)
        /\ IsOfWidth(seg.uasid, U32) /\ IsOfWidth(seg.attr, U32) /\ IsOfWidth(seg.token_id, U32)
ASSUME BlobsAssumption ==
    /\ \A blob \in Blobs : blob \in Seq(Bytes) /\ IsOfWidth(Len(blob), U32)
    /\ MaxBlobs \in Nat /\ \A n \in 1 .. MaxBlobs : IsOfWidth(n, U32)

Blank == -1
Junk == -2
Rejected == [rejected |-> TRUE]

-------------------------------------------------------------------------------
(* hex_enc, hex_dec, to_le_bytes and from_le_bytes.                        *)

hex_enc(bytes) ==
    [i \in 1 .. 2 * Len(bytes) |->
        LET b == bytes[(i + 1) \div 2] IN IF i % 2 = 1 THEN b \div Digit ELSE b % Digit]

trim(text) ==
    LET Inked == {i \in DOMAIN text : text[i] # Blank}
    IN IF Inked = {} THEN <<>>
       ELSE SubSeq(text, CHOOSE i \in Inked : \A k \in Inked : i <= k,
                         CHOOSE i \in Inked : \A k \in Inked : k <= i)

\* Whole bytes of hex digits.
IsHex(s) == Len(s) % 2 = 0 /\ \A i \in DOMAIN s : s[i] \notin {Blank, Junk}

hex_dec(s) == [i \in 1 .. Len(s) \div 2 |-> s[2 * i - 1] * Digit + s[2 * i]]

to_le_bytes(n, w) == [i \in 1 .. w |-> Quotients(n, w)[i - 1] % Byte]

\* A slip in it: the bytes in the other order.
from_be_bytes(b) ==
    LET v[i \in 0 .. Len(b)] == IF i = 0 THEN 0 ELSE b[i] + Byte * v[i - 1] IN v[Len(b)]
from_le_bytes(b) ==
    LET v[i \in 0 .. Len(b)] == IF i = 0 THEN 0 ELSE b[Len(b) - i + 1] + Byte * v[i - 1]
    IN v[Len(b)]

-------------------------------------------------------------------------------
(* The fields both descriptors begin with, and Rd::take: the w bytes after *)
(* the first off.                                                          *)

seg_fields(seg) ==
    <<seg.eid, to_le_bytes(seg.uasid, U32), to_le_bytes(seg.va, U64),
      to_le_bytes(seg.len, U64), to_le_bytes(seg.attr, U32), to_le_bytes(seg.token_id, U32)>>

SegBytes == EidLen + 3 * U32 + 2 * U64

\* The segment and two counts.
HeadBytes == SegBytes + 2 * U32

Take(b, off, w) == SubSeq(b, off + 1, off + w)
Number(b, off, w) == from_le_bytes(Take(b, off, w))

unpack_seg(b) ==
    [eid |-> Take(b, 0, EidLen),
     uasid |-> Number(b, EidLen, U32),
     va |-> Number(b, EidLen + U32, U64),
     len |-> Number(b, EidLen + U32 + U64, U64),
     attr |-> Number(b, EidLen + U32 + 2 * U64, U32),
     token_id |-> Number(b, EidLen + 2 * U32 + 2 * U64, U32)]

\* Where things of these lengths end that lie one after the other from start.
Ends(start, lens) ==
    LET e[i \in 0 .. Len(lens)] == IF i = 0 THEN start ELSE e[i - 1] + lens[i] IN e

-------------------------------------------------------------------------------
(* urma_cli: the two lengths, then the two blobs.                          *)

cli_pack_desc(d) ==
    hex_enc(FlattenSeq(seg_fields(d.seg)
                       \o <<to_le_bytes(Len(d.seg_ctx), U32), to_le_bytes(Len(d.rjetty), U32),
                            d.seg_ctx, d.rjetty>>))

\* Any field that is cut short and any trailing byte is refused.
cli_read(b) ==
    LET seg_len == Number(b, SegBytes, U32)
        rj_len == Number(b, SegBytes + U32, U32)
    IN IF Len(b) < HeadBytes THEN Rejected
       ELSE IF Len(b) # HeadBytes + seg_len + rj_len THEN Rejected
       ELSE [seg |-> unpack_seg(b), seg_ctx |-> Take(b, HeadBytes, seg_len),
             rjetty |-> Take(b, HeadBytes + seg_len, rj_len)]

cli_unpack_desc(text) ==
    IF IsHex(trim(text)) THEN cli_read(hex_dec(trim(text))) ELSE Rejected

-------------------------------------------------------------------------------
(* urma_bench: a count, and the length of each rjetty blob.                *)

bench_pack_desc(d) ==
    hex_enc(FlattenSeq(seg_fields(d.seg)
                       \o <<to_le_bytes(Len(d.seg_ctx), U32), to_le_bytes(Len(d.rjetty), U32)>>
                       \o [i \in 1 .. Len(d.rjetty) |-> to_le_bytes(Len(d.rjetty[i]), U32)]
                       \o <<d.seg_ctx>> \o d.rjetty))

bench_read(b) ==
    LET seg_len == Number(b, SegBytes, U32)
        rj_cnt == Number(b, SegBytes + U32, U32)
        ctx_off == HeadBytes + rj_cnt * U32
        rj_lens == [i \in 1 .. rj_cnt |-> Number(b, HeadBytes + (i - 1) * U32, U32)]
        ends == Ends(ctx_off + seg_len, rj_lens)
    IN IF Len(b) < HeadBytes THEN Rejected
       ELSE IF rj_cnt = 0 \/ Len(b) < ctx_off THEN Rejected
       ELSE IF Len(b) # ends[rj_cnt] THEN Rejected
       ELSE [seg |-> unpack_seg(b), seg_ctx |-> Take(b, ctx_off, seg_len),
             rjetty |-> [i \in 1 .. rj_cnt |-> Take(b, ends[i - 1], rj_lens[i])]]

bench_unpack_desc(text) ==
    IF IsHex(trim(text)) THEN bench_read(hex_dec(trim(text))) ELSE Rejected

-------------------------------------------------------------------------------
(* What a descriptor line is for.                                          *)

CliDescs == [seg : Segs, seg_ctx : Blobs, rjetty : Blobs]
BenchDescs ==
    [seg : Segs, seg_ctx : Blobs, rjetty : UNION {[1 .. n -> Blobs] : n \in 1 .. MaxBlobs}]

\* A text survives blanks around it; a part of it, or more than it, does not.
Travels(text, d, unpack(_)) ==
    /\ unpack(<<Blank>> \o text \o <<Blank, Blank>>) = d
    /\ \A n \in 0 .. Len(text) - 1 : unpack(SubSeq(text, 1, n)) = Rejected
    /\ \A more \in {<<0>>, <<0, 0>>, <<Junk, Junk>>} : unpack(text \o more) = Rejected

\* The descriptor read-side imports is the one serve-side exported.
CliDescsTravel == \A d \in CliDescs : Travels(cli_pack_desc(d), d, cli_unpack_desc)

\* Jetty for jetty.
BenchDescsTravel == \A d \in BenchDescs : Travels(bench_pack_desc(d), d, bench_unpack_desc)
===============================================================================
