---------------------------- MODULE MCDbCredentials ----------------------------
(***************************************************************************)
(* Instances of DbCredentials for TLC.  The threads are interchangeable,   *)
(* but the run checks liveness, where symmetry is not sound.               *)
(***************************************************************************)
EXTENDS DbCredentials_proofs
================================================================================
