--------------------------- MODULE MCTranscription ---------------------------
(* Transcription for TLC. *)
EXTENDS Transcription, TLC

(* Every recording's server is modelled task by task, or none is. *)
AllOf == Sessions
NoneOf == {}
==============================================================================
