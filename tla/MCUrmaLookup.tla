----------------------------- MODULE MCUrmaLookup -----------------------------
(***************************************************************************)
(* TLC instance of UrmaLookup: three starts of the client program.         *)
(***************************************************************************)
EXTENDS UrmaLookup

CONSTANTS c1, c2, c3

ThreeClients == {c1, c2, c3}

\* The first holds two records, so that ranges are not all of one length.
Counts == [c \in ThreeClients |-> IF c = c1 THEN 2 ELSE 1]

\* All three expected; one more than expected; one that is killed and started
\* again, or started in its place; a master that is started again.
FourPlans ==
    {[expect |-> 3, users |-> ThreeClients, kills |-> 0, crashes |-> 0],
     [expect |-> 2, users |-> ThreeClients, kills |-> 1, crashes |-> 0],
     [expect |-> 2, users |-> {c1, c2}, kills |-> 1, crashes |-> 0],
     [expect |-> 2, users |-> {c2, c3}, kills |-> 0, crashes |-> 1]}
===============================================================================
