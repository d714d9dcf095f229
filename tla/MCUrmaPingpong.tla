---------------------------- MODULE MCUrmaPingpong ----------------------------
(***************************************************************************)
(* TLC instances of UrmaPingpong.                                          *)
(***************************************************************************)
EXTENDS UrmaPingpong

CONSTANTS a, b

TwoNodes == {a, b}

\* Over HTTP on one machine; on two machines; on one.
ThreeSetups ==
    {[hook |-> TRUE, loopback |-> TRUE], [hook |-> FALSE, loopback |-> FALSE],
     [hook |-> FALSE, loopback |-> TRUE]}

TwoMachines == {[hook |-> FALSE, loopback |-> FALSE]}
===============================================================================
