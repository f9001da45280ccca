----------------------------- MODULE MCDommeSetup -----------------------------
(* A small instance of DommeSetup for TLC: the .cfg file gives the constants *)
(* their values.                                                             *)
EXTENDS DommeSetup, MCThronePayload

MCSymmetry == Permutations(Users) \cup Permutations(Creators) \cup Permutations(Tasks)
=============================================================================
