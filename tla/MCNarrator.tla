----------------------------- MODULE MCNarrator -----------------------------
(* NarratorTurns for TLC. *)
EXTENDS NarratorTurns, TLC

Once == <<"n1", "n2">>
=============================================================================
