------------------------------ MODULE BwInputs ------------------------------
(***************************************************************************)
(* urma_bench as one program: the sweep of BwPipeline, what its command    *)
(* line and its percentiles are computed with (BenchInputs) and the        *)
(* descriptor that is carried to it (WireDesc).                            *)
(***************************************************************************)
EXTENDS BwPipeline, BenchInputs, WireDesc

\* What is typed for --sizes is swept in ascending order, a range by doubling,
\* or refused, serve allocates enough for it, and the percentiles of the samples
\* are of the nearest rank (parse_sizes, resolve_buf_len, stats).
SweepAsAsked == pc = "start" => ListsAsAsked /\ RangesAsAsked /\ RanksAreNearest

\* The descriptor line is read as it was written, blanks around it aside, and is
\* refused when it is cut short or goes on (pack_desc, unpack_desc of urma_cli
\* and of urma_bench).
DescTravels == pc = "start" => CliDescsTravel /\ BenchDescsTravel
=============================================================================
