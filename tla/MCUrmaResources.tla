-------------------------- MODULE MCUrmaResources --------------------------
(***************************************************************************)
(* TLC instances of UrmaResources.                                         *)
(***************************************************************************)
EXTENDS UrmaResources, TLC

\* Slots are interchangeable, and no property names one.
SlotSymmetry == Permutations(Handles) \cup Permutations(Nodes)
=============================================================================
