----------------------------- MODULE MCIngestJobs -----------------------------
(* IngestJobs for TLC: what the editions of two documents look like.       *)
EXTENDS IngestRefinement_proofs, TLC

(* Every edition differs from the others in its hash.                      *)
DistinctDigest == [d \in Documents |-> [e \in Editions |-> e]]

(* Scope goes back and forth: editions 1 and 3 are in, edition 2 is out.   *)
ScopeChanges == [d \in Documents |-> [e \in Editions |-> e # 2]]

ScopeSteady == [d \in Documents |-> [e \in Editions |-> TRUE]]

(* The second edition of the catalogue's document has lost all its text.   *)
LosesText == {<<1, 2>>}

AllSources == [j \in Jobs |-> {"csv", "external"}]

Symmetry == Permutations(Workers)
===============================================================================
