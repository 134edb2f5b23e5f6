----------------------------- MODULE MCCentral -----------------------------
(***************************************************************************)
(* Instances of CentralResource for TLC.                                   *)
(***************************************************************************)
EXTENDS CentralInv, TLC

Symm == Permutations(Procs)
=============================================================================
