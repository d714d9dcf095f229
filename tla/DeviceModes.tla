----------------------------- MODULE DeviceModes -----------------------------
(***************************************************************************)
(* Device capabilities: what DeviceCap::from_raw reads from the bit fields *)
(* of urma_device_cap_t, which (mode, tp) combinations it reports, and the *)
(* choices the examples base on it.  Operators only; the programs that     *)
(* check a device before they create anything use them.                    *)
(***************************************************************************)
EXTENDS Integers

Modes == {"RM", "RC", "UM"}
Tps == {"RTP", "CTP", "UTP"}

-------------------------------------------------------------------------------
(* Raw words of liburma and the bits read from them.                       *)

HasBit(word, b) == (word \div 2^b) % 2 = 1

\* URMA_TM_*, URMA_TP_TYPE_CAP_*, URMA_FEATURE_CTP_EN, URMA_TP_FEAT_*.
ModeBit(m) == CASE m = "RM" -> 0 [] m = "RC" -> 1 [] m = "UM" -> 2
TpBit(tp) == CASE tp = "RTP" -> 0 [] tp = "CTP" -> 1 [] tp = "UTP" -> 2
CtpEnBit == 18

TpTypes(word) == {tp \in Tps : HasBit(word, TpBit(tp))}

\* UM has no multi-path bit.
MultiPathModes(word) == {m \in {"RM", "RC"} : HasBit(word, ModeBit(m))}

from_raw(raw) ==
    [trans_modes |-> raw.trans_mode,
     ctp_en |-> HasBit(raw.feature, CtpEnBit),
     tp_cap |-> [m \in Modes |-> TpTypes(raw.tp_cap[m])],
     multi_path |-> MultiPathModes(raw.tp_feature),
     priority_tp |-> [i \in DOMAIN raw.priority_info |-> TpTypes(raw.priority_info[i])]]

-------------------------------------------------------------------------------
(* DeviceCap.                                                              *)

supports_mode(cap, m) == HasBit(cap.trans_modes, ModeBit(m))

supports_multi_path(cap, m) == m \in cap.multi_path

\* Slips in it: the device's CTP gate forgotten, the mode bitmap forgotten.
supports_ungated(cap, m, tp) == supports_mode(cap, m) /\ tp \in cap.tp_cap[m]
supports_any_mode(cap, m, tp) == tp \in cap.tp_cap[m] /\ (tp = "CTP" => cap.ctp_en)

supports(cap, m, tp) ==
    supports_mode(cap, m) /\ tp \in cap.tp_cap[m] /\ (tp = "CTP" => cap.ctp_en)

\* As a set: their order is that of a message.
supported_combos(cap) == {c \in Modes \X Tps : supports(cap, c[1], c[2])}

NoSlot == -1

\* Slots count from 0.
priority_for(cap, tp) ==
    LET Slots == {i \in DOMAIN cap.priority_tp : tp \in cap.priority_tp[i]}
    IN IF Slots = {} THEN NoSlot ELSE (CHOOSE i \in Slots : \A k \in Slots : i <= k) - 1

-------------------------------------------------------------------------------
(* The checks of the programs.                                             *)

\* common::check_mode_support: CTP on RM, multi-path on a bonding device.
check_mode_support(cap, bonding) ==
    /\ supports(cap, "RM", "CTP")
    /\ bonding => supports_multi_path(cap, "RM")

\* preflight of urma_cli and urma_bench: multi-path asked for on the command
\* line must be there, multi-path a bonding device implies is given up instead.
preflight(cap, m, tp, asked, bonding) ==
    [ok |-> supports(cap, m, tp) /\ (asked => supports_multi_path(cap, m)),
     multi_path |-> (asked \/ bonding) /\ (asked \/ supports_multi_path(cap, m))]

DefaultPriority == 15

\* A slip in it: the first slot, whatever it serves.
resolve_first(cap, explicit, tp) == IF explicit # NoSlot THEN explicit ELSE 0

resolve_priority(cap, explicit, tp) ==
    IF explicit # NoSlot THEN explicit
    ELSE IF priority_for(cap, tp) # NoSlot THEN priority_for(cap, tp)
    ELSE DefaultPriority

-------------------------------------------------------------------------------
(* The ceilings one_sided_run derives; a field of 0 is not reported.       *)

Least(S) == CHOOSE x \in S : \A y \in S : x <= y

depth_limit(caps, default_depth) ==
    LET Reported == {caps.max_jfs_depth, caps.max_jfc_depth, caps.max_jfr_depth} \ {0}
    IN IF Reported = {} THEN default_depth ELSE Least(Reported)

\* What bounds an operation when nothing is reported.
Unbounded == 1000000000

op_cap(caps, v) ==
    IF v # 0 THEN v ELSE IF caps.max_msg_size # 0 THEN caps.max_msg_size ELSE Unbounded

\* WRITE's verify reads the range back: it needs both ceilings.
size_limit(caps, write, seg_len) ==
    Least({op_cap(caps, caps.max_read_size), seg_len}
          \cup IF write THEN {op_cap(caps, caps.max_write_size)} ELSE {})

-------------------------------------------------------------------------------
(* What a device advertises, and the words in which liburma reports it.    *)

\* The combinations a device can run, and the modes it can run multi-path.
Advertised == [modes : SUBSET Modes, ctp : BOOLEAN, tps : [Modes -> SUBSET Tps],
               multi : SUBSET {"RM", "RC"}]

\* The three bits of a field that say S.
Word(S, All, Bit(_)) == CHOOSE w \in 0 .. 7 : \A x \in All : HasBit(w, Bit(x)) <=> x \in S

\* The other bits of the feature word are noise.
RawOf(adv) ==
    [trans_mode |-> Word(adv.modes, Modes, ModeBit),
     feature |-> 5 + (IF adv.ctp THEN 2^CtpEnBit ELSE 0) + 2^20,
     tp_cap |-> [m \in Modes |-> Word(adv.tps[m], Tps, TpBit)],
     tp_feature |-> Word(adv.multi, Modes, ModeBit),
     priority_info |-> <<0, Word(adv.tps["RC"], Tps, TpBit), Word(adv.tps["RM"], Tps, TpBit)>>]

Usable(adv) ==
    {c \in Modes \X Tps :
        c[1] \in adv.modes /\ c[2] \in adv.tps[c[1]] /\ (c[2] = "CTP" => adv.ctp)}

\* A mode choice that passes a preflight is one the device really offers: what
\* the programs create and import with is in supported_combos, multi-path is on
\* only where it is offered, the fixed check of the examples accepts what
\* preflight accepts for CTP on RM with multi-path insisted on, and the
\* priority slot picked serves the tp type whenever some slot does.
ModesAgree ==
    \A adv \in Advertised :
        LET cap == from_raw(RawOf(adv))
        IN /\ supported_combos(cap) = Usable(adv)
           /\ \A bonding \in BOOLEAN :
                /\ check_mode_support(cap, bonding)
                       = preflight(cap, "RM", "CTP", bonding, bonding).ok
                /\ \A c \in Modes \X Tps, asked \in BOOLEAN :
                      LET p == preflight(cap, c[1], c[2], asked, bonding)
                      IN p.ok => /\ c \in Usable(adv)
                                 /\ p.multi_path => c[1] \in adv.multi
           /\ \A tp \in Tps :
                LET slot == resolve_priority(cap, NoSlot, tp)
                IN (\E i \in DOMAIN cap.priority_tp : tp \in cap.priority_tp[i])
                       => tp \in cap.priority_tp[slot + 1]
===============================================================================
