---------------------------- MODULE MCBwPipeline ----------------------------
(***************************************************************************)
(* TLC instances of BwPipeline.                                            *)
(***************************************************************************)
EXTENDS BwPipeline

\* An option record: jetties, depth, post-list, cq-mod, warmup and iters.
Options(n, d, l, m, w, i) ==
    [jetties |-> n, depth |-> d, post_list |-> l, cq_mod |-> m, warmup |-> w,
     iters |-> i, landing_cap |-> 100, duration |-> FALSE, write |-> FALSE]

\* Command lines the checks refuse.
Refused ==
    {Options(1, 0, 0, 0, 1, 1), Options(2, 1, 1, 0, 1, 1), Options(1, 2, 3, 0, 1, 1),
     Options(0, 2, 1, 0, 1, 1), Options(1, 2, 1, 0, 1, 0), Options(9, 2, 1, 0, 1, 1)}

\* Latency mode, one jetty at full and at clamped moderation, two and three
\* jetties that just keep moving (5 > 2 * 2, 4 > 3 * 1), two that stall, and a
\* deadline and a landing buffer capped below the larger size.
Sweeps ==
    {[Options(1, 1, 1, 0, 1, 2) EXCEPT !.write = TRUE],
     Options(1, 5, 4, 0, 3, 8), Options(1, 3, 2, 9, 0, 5),
     Options(2, 5, 2, 3, 2, 9), Options(3, 4, 2, 2, 0, 8), Options(2, 4, 2, 3, 0, 5),
     [Options(2, 3, 2, 2, 1, 1) EXCEPT !.duration = TRUE],
     [Options(1, 2, 1, 0, 0, 2) EXCEPT !.landing_cap = 1]}

AllLines == Refused \cup Sweeps

Stalling == {Options(2, 4, 2, 3, 2, 11)}

ToDeadline == {[Options(1, 4, 2, 2, 2, 11) EXCEPT !.duration = TRUE]}

Caps == INSTANCE DeviceModes

\* Three sizes, the last above the limit; the landing buffer has a window per
\* operation in flight of the largest size swept and more of the smaller.
ThreeSizes == <<1, 2, 9>>

\* A device that reports no jfr depth and no write size, and whose messages are
\* longer than its READs.
DeviceCaps ==
    [max_jfs_depth |-> 8, max_jfc_depth |-> 20, max_jfr_depth |-> 0,
     max_read_size |-> 6, max_write_size |-> 0, max_msg_size |-> 7]

LongestSeg == 5
DeviceDepth == Caps!depth_limit(DeviceCaps, 1)
DeviceSize == Caps!size_limit(DeviceCaps, TRUE, LongestSeg)
=============================================================================
