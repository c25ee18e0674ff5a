----------------------------- MODULE MCTakeover -----------------------------
EXTENDS Takeover, TLC

(***************************************************************************)
(* The slots of service processes are interchangeable: no definition tells *)
(* one from another.                                                       *)
(***************************************************************************)
SlotSymmetry == Permutations(Services)
=============================================================================
