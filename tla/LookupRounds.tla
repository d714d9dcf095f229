----------------------------- MODULE LookupRounds -----------------------------
(***************************************************************************)
(* What urma_lookup promises, without the master: records are exchanged in *)
(* rounds.  A client reads the others' records only once `expect' clients  *)
(* have written theirs, and gives its own memory back only once `expect'   *)
(* clients have finished reading.  A client may stop at any point, which   *)
(* is a client that takes no further step.                                 *)
(***************************************************************************)
EXTENDS Integers, FiniteSets

CONSTANT Clients  \* the client processes, each start of the program being one

VARIABLES expect,   \* the clients a round waits for
          level     \* how far each client has come

vars == <<expect, level>>

Out == 0   Joined == 1   Written == 2   Reading == 3   Finished == 4   Left == 5
Levels == Out .. Left

Reached(l) == {c \in Clients : level[c] >= l}

TypeOK == expect \in Nat \ {0} /\ level \in [Clients -> Levels]

Init == expect \in Nat \ {0} /\ level = [c \in Clients |-> Out]

MoveTo(c, l) ==
    /\ level[c] = l - 1
    /\ level' = [level EXCEPT ![c] = l]
    /\ UNCHANGED expect

Join(c)   == MoveTo(c, Joined)
Write(c)  == MoveTo(c, Written)
Read(c)   == Cardinality(Reached(Written)) >= expect /\ MoveTo(c, Reading)
Finish(c) == MoveTo(c, Finished)
Leave(c)  == Cardinality(Reached(Finished)) >= expect /\ MoveTo(c, Left)

Next == \E c \in Clients :
            Join(c) \/ Write(c) \/ Read(c) \/ Finish(c) \/ Leave(c)

Spec == Init /\ [][Next]_vars
===============================================================================
