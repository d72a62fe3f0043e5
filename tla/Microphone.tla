----------------------------- MODULE Microphone -----------------------------
(***************************************************************************)
(* What lib/voice.ts promises to the page, without sockets, timers or      *)
(* set-up steps: the microphone is a page-wide singleton.  At most one     *)
(* recording holds it, only the holder captures sound, and every recording *)
(* is told how it ended at most once, at the moment it gives the           *)
(* microphone back.  One that is superseded or cancelled is told nothing.  *)
(***************************************************************************)
EXTENDS Sequences

CONSTANTS
    Sessions,       \* calls of startLiveTranscription on one page
    NoSession       \* nobody holds the microphone

VARIABLES
    holder,         \* the recording that claimed the microphone last, if any
    begun,          \* recordings that were ever started
    capturing,      \* recordings whose microphone tracks are live
    told            \* the callbacks that each recording's caller received

vars == <<holder, begun, capturing, told>>

Outcomes == {"done", "error"}

Init ==
    /\ holder = NoSession
    /\ begun = {}
    /\ capturing = {}
    /\ told = [s \in Sessions |-> <<>>]

(* A recording starts and takes the microphone from whoever had it.        *)
Claim(s) ==
    /\ s \notin begun
    /\ begun' = begun \cup {s}
    /\ holder' = s
    /\ capturing' = {}
    /\ UNCHANGED told

Capture(s) ==
    /\ holder = s
    /\ capturing' = {s}
    /\ UNCHANGED <<holder, begun, told>>

Quieten ==
    /\ capturing' = {}
    /\ UNCHANGED <<holder, begun, told>>

(* The holder gives the microphone back, with an outcome or without.       *)
Release(s) ==
    /\ holder = s
    /\ holder' = NoSession
    /\ capturing' = {}
    /\ told[s] = <<>>
    /\ \/ UNCHANGED told
       \/ \E o \in Outcomes : told' = [told EXCEPT ![s] = <<o>>]
    /\ UNCHANGED begun

Next == (\E s \in Sessions : Claim(s) \/ Capture(s) \/ Release(s)) \/ Quieten

Spec == Init /\ [][Next]_vars
=============================================================================
