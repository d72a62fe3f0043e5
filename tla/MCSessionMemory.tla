---------------------------- MODULE MCSessionMemory ----------------------------
(***************************************************************************)
(* Instances of SessionMemory for TLC.  Turns and cleaners are             *)
(* interchangeable; the symmetry is used by the safety run only.           *)
(***************************************************************************)
EXTENDS SessionMemory_proofs, TLC

Symmetry == Permutations(Turns) \union Permutations(Cleaners)
===============================================================================
