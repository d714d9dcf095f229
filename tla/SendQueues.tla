----------------------------- MODULE SendQueues -----------------------------
(***************************************************************************)
(* What the callers in src/ rely on of the send queues of liburma and of   *)
(* the one CQ they share (external to this repository).                    *)
(*                                                                         *)
(* The work requests of one queue execute in any order: place_order and    *)
(* fence stay off.  A signaled work request also sets comp_order: its      *)
(* record appears only when every earlier request of the same queue has    *)
(* executed.  A request that fails has a record even when unsignaled.      *)
(* Records of different queues reach the CQ in any order.                  *)
(***************************************************************************)
EXTENDS Naturals, Sequences

CONSTANT Queues

VARIABLES sq,     \* sq[j]: the work requests of queue j not yet retired, oldest first
          cq,     \* the records not yet polled, oldest first
          faulty  \* has the fabric refused, failed or delayed anything?

Init == /\ sq = [j \in Queues |-> <<>>]
        /\ cq = <<>>
        /\ faulty = FALSE

\* Every work request has retired and every record has been polled.
Idle == cq = <<>> /\ \A j \in Queues : sq[j] = <<>>

\* urma_post_jetty_send_wr queues a linked list of requests.  When it returns
\* an error it has queued those before bad_wr.
Post(j, wrs) ==
    /\ sq' = [sq EXCEPT ![j] = @ \o [k \in DOMAIN wrs |->
                 [ctx |-> wrs[k].ctx, signaled |-> wrs[k].signaled, state |-> "posted"]]]
    /\ UNCHANGED <<cq, faulty>>

PostRefused(j, wrs) ==
    /\ \E k \in 0..Len(wrs)-1 :
          sq' = [sq EXCEPT ![j] = @ \o [i \in 1..k |->
                    [ctx |-> wrs[i].ctx, signaled |-> wrs[i].signaled, state |-> "posted"]]]
    /\ faulty' = TRUE
    /\ UNCHANGED cq

\* The fabric executes some request of queue j, or fails it.
Execute(j) ==
    /\ \E k \in DOMAIN sq[j], result \in {"ok", "failed"} :
          /\ sq[j][k].state = "posted"
          /\ sq' = [sq EXCEPT ![j][k].state = result]
          /\ faulty' = (faulty \/ result = "failed")
    /\ UNCHANGED cq

\* The next record of queue j: for its first request that is signaled or has
\* failed.
Recorded(j, k) == sq[j][k].signaled \/ sq[j][k].state = "failed"

Deliver(j) ==
    \E k \in DOMAIN sq[j] :
        /\ Recorded(j, k)
        /\ \A i \in 1..k : sq[j][i].state # "posted"
        /\ \A i \in 1..k-1 : ~Recorded(j, i)
        /\ cq' = Append(cq, [ctx |-> sq[j][k].ctx, success |-> sq[j][k].state = "ok"])
        /\ sq' = [sq EXCEPT ![j] = SubSeq(@, k + 1, Len(@))]
        /\ UNCHANGED faulty

\* No record will ever appear: everything has executed, and what is left of it
\* was posted unsignaled.
Silent == /\ cq = <<>>
          /\ \A j \in Queues : \A k \in DOMAIN sq[j] :
                sq[j][k].state = "ok" /\ ~sq[j][k].signaled

\* urma_poll_jfc for k records, or its error.
Poll(k) == /\ k \in 1..Len(cq)
           /\ cq' = SubSeq(cq, k + 1, Len(cq))
           /\ UNCHANGED <<sq, faulty>>

PollRefused == /\ faulty' = TRUE
               /\ UNCHANGED <<sq, cq>>

\* No record for READ_TIMEOUT: none will ever appear, or the fabric hangs.
TimedOut == /\ cq = <<>>
            /\ faulty' = (faulty \/ ~Silent)
            /\ UNCHANGED <<sq, cq>>

Fabric(j) == Execute(j) \/ Deliver(j)
=============================================================================
