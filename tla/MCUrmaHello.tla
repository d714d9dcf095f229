----------------------------- MODULE MCUrmaHello -----------------------------
(***************************************************************************)
(* TLC instance of UrmaHello.                                              *)
(***************************************************************************)
EXTENDS UrmaHello

CONSTANTS a, b

TwoNodes == {a, b}

\* A bonding device with CTP on RM and multi-path, and one whose CTP gate is off.
Device(ctp) ==
    [bonding |-> TRUE,
     cap |-> from_raw(RawOf([modes |-> {"RM"}, ctp |-> ctp, multi |-> {"RM"},
                             tps |-> [m \in Modes |-> {"RTP", "CTP"}]]))]

Start(hook, loopback, ctp) ==
    [hook |-> hook, loopback |-> loopback,
     dev |-> [n \in TwoNodes |-> Device(n = a \/ ctp)]]

\* Over HTTP; on two machines; on one; with a device that does not fit.
FourSetups ==
    {Start(TRUE, TRUE, TRUE), Start(FALSE, FALSE, TRUE), Start(FALSE, TRUE, TRUE),
     Start(FALSE, FALSE, FALSE)}
===============================================================================
