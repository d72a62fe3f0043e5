----------------------------- MODULE Conversation -----------------------------
(***************************************************************************)
(* What server-side session memory promises a visitor, with none of its    *)
(* machinery: every session has one transcript.  Messages are appended to  *)
(* it one at a time while the session is alive, it is forgotten only once  *)
(* the sliding deadline has passed, and a request that finds the deadline  *)
(* passed starts from an empty transcript.                                 *)
(***************************************************************************)
EXTENDS Integers, Sequences

CONSTANTS
    Sessions,      \* session ids
    Message,       \* what a transcript is made of
    TTL,           \* session_memory_ttl_seconds
    Grace          \* how long after its arrival a request may still renew

VARIABLES
    clock,
    deadline,      \* [Sessions -> Nat], 0 for a session never seen
    transcript     \* [Sessions -> Seq(Message)]

vars == <<clock, deadline, transcript>>

Init ==
    /\ clock = 0
    /\ deadline = [s \in Sessions |-> 0]
    /\ transcript = [s \in Sessions |-> <<>>]

Pass ==
    /\ clock' = clock + 1
    /\ UNCHANGED <<deadline, transcript>>

(* A request that arrived at `arrival' renews the session.  It may carry   *)
(* the transcript over only if the session was alive when it arrived.      *)
Renew(s) ==
    \E arrival \in (clock - Grace) .. clock :
        /\ arrival >= 0
        /\ deadline[s] <= arrival => transcript[s] = <<>>
        /\ deadline' = [deadline EXCEPT ![s] = arrival + TTL]
        /\ UNCHANGED <<clock, transcript>>

Say(s, m) ==
    /\ clock < deadline[s]
    /\ transcript' = [transcript EXCEPT ![s] = Append(@, m)]
    /\ UNCHANGED <<clock, deadline>>

Forget(s) ==
    /\ deadline[s] <= clock
    /\ transcript' = [transcript EXCEPT ![s] = <<>>]
    /\ UNCHANGED <<clock, deadline>>

Next ==
    \/ Pass
    \/ \E s \in Sessions :
        \/ Renew(s)
        \/ Forget(s)
        \/ \E m \in Message : Say(s, m)

Spec == Init /\ [][Next]_vars
=============================================================================
