------------------------------ MODULE PassLedger ------------------------------
(***************************************************************************)
(* What the comments of urma_bench's bandwidth mode promise of its passes: *)
(* the operations of a pass are numbered in the order they are posted, no  *)
(* more than depth of them are waiting to be counted, each executes or     *)
(* fails once, whichever comes first, one is counted only when it has      *)
(* executed and a failed one never, and a pass ends when all of its        *)
(* operations are counted.  Nothing is said of jetties, lists, moderation, *)
(* fences or records: BwPipeline implements this.                          *)
(***************************************************************************)
EXTENDS Integers, Sequences, FiniteSets

VARIABLES depth,   \* --depth
          running, \* has the program not given up?
          ledger   \* ledger[i]: what became of the i-th operation of this pass

vars == <<depth, running, ledger>>

Fates == {"posted", "executed", "failed", "counted"}

\* The operations a ledger still waits for.
Open(l) == {i \in DOMAIN l : l[i] # "counted"}

TypeOK == depth \in Nat /\ running \in BOOLEAN /\ ledger \in Seq(Fates)

Init == depth \in Nat /\ running = TRUE /\ ledger = <<>>

\* Several operations are posted as one list.
Post ==
    /\ ledger' \in Seq(Fates) /\ Len(ledger') > Len(ledger)
    /\ \A i \in DOMAIN ledger' :
          ledger'[i] = IF i <= Len(ledger) THEN ledger[i] ELSE "posted"
    /\ Cardinality(Open(ledger')) <= depth

\* The fabric executes an operation, or fails it.
Execute ==
    \E i \in DOMAIN ledger, fate \in {"executed", "failed"} :
        ledger[i] = "posted" /\ ledger' = [ledger EXCEPT ![i] = fate]

\* One record may stand for several operations.
Count ==
    /\ DOMAIN ledger' = DOMAIN ledger
    /\ \A i \in DOMAIN ledger :
          \/ ledger'[i] = ledger[i]
          \/ ledger[i] = "executed" /\ ledger'[i] = "counted"

\* The pass is over, and the next one begins with an empty ledger.
Return == Open(ledger) = {} /\ ledger' = <<>>

\* The program ends with an error.
GiveUp == running' = FALSE /\ ledger' = <<>>

Next ==
    /\ running
    /\ \/ (Post \/ Execute \/ Count \/ Return) /\ UNCHANGED running
       \/ GiveUp
    /\ UNCHANGED depth

Spec == Init /\ [][Next]_vars
===============================================================================
