------------------------------- MODULE Corpus -------------------------------
(***************************************************************************)
(* What the ingest jobs promise to the retrieval layer, without queues,    *)
(* workers, rows or transactions: of every document of the source the      *)
(* corpus shows nothing yet or one complete edition, never a mixture, never *)
(* twice, never one the source does not have, and never an earlier one     *)
(* after a later one.  How often a job was delivered makes no difference.   *)
(***************************************************************************)
EXTENDS Naturals

CONSTANTS
    Documents,      \* documents of the catalogue export and of the manifest
    MaxEdition      \* bound on the editions of a document

VARIABLES
    published,      \* the edition of each document that the source holds
    shown           \* the edition the corpus shows, 0 for none

vars == <<published, shown>>

TypeOK ==
    /\ published \in [Documents -> 1..MaxEdition]
    /\ shown \in [Documents -> 0..MaxEdition]

Init ==
    /\ published = [d \in Documents |-> 1]
    /\ shown = [d \in Documents |-> 0]

(* The museum's export or the manifest gets a new edition of a document.   *)
Publish(d) ==
    /\ published[d] < MaxEdition
    /\ published' = [published EXCEPT ![d] = @ + 1]
    /\ UNCHANGED shown

(* The corpus moves on to a later edition, all at once.                    *)
Refresh(d) ==
    /\ \E e \in (shown[d] + 1)..published[d] : shown' = [shown EXCEPT ![d] = e]
    /\ UNCHANGED published

Next == \E d \in Documents : Publish(d) \/ Refresh(d)

Spec == Init /\ [][Next]_vars
=============================================================================
