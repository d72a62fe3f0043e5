------------------------------ MODULE Retrieval ------------------------------
(***************************************************************************)
(* What a search returns (backend/app/retrieval.py): rows of the view      *)
(* retrievable_chunks, each with its distance from the question.  SQL      *)
(* leaves the order of equals open, so a search has a set of results.      *)
(***************************************************************************)
EXTENDS Naturals, Sequences, FiniteSets, SequencesExt, FiniteSetsExt

CONSTANTS
    TopK,           \* DEFAULT_TOP_K
    MaxHoldings     \* MAX_HOLDINGS_ONLY_CHUNKS

ASSUME RetrievalAssumption == TopK \in Nat /\ MaxHoldings \in Nat

HoldingsOnly(row) == row.content = row.title

(* Faulty variant: any of the rows that read alike. *)
Deduplicated_Any(rows) ==
    {kept \in SUBSET rows :
        /\ \A r, s \in kept : r.content = s.content => r = s
        /\ \A r \in rows : \E s \in kept : s.content = r.content}

(* SELECT DISTINCT ON (content): the nearest of the rows that read alike.  *)
Deduplicated(rows) ==
    {kept \in SUBSET rows :
        /\ \A r, s \in kept : r.content = s.content => r = s
        /\ \A r \in rows : \E s \in kept : s.content = r.content /\ s.distance <= r.distance}

Ordered(rows) ==
    {order \in SetToSeqs(rows) :
        \A i, j \in DOMAIN order : i < j => order[i].distance <= order[j].distance}

(* WHERE NOT holdings_only OR rank_in_group <= :max_holdings_only.         *)
WithinQuota(ranking) ==
    LET rank(i) == Cardinality({j \in 1..i : HoldingsOnly(ranking[j])})
    IN  {ranking[i] : i \in {i \in DOMAIN ranking :
            ~HoldingsOnly(ranking[i]) \/ rank(i) <= MaxHoldings}}

Results(rows) ==
    {SubSeq(order, 1, IF Len(order) < TopK THEN Len(order) ELSE TopK) :
        order \in UNION {Ordered(WithinQuota(ranking)) :
            ranking \in UNION {Ordered(kept) : kept \in Deduplicated(rows)}}}

-------------------------------------------------------------------------------
TestRows ==
    [content: {"a", "b", "c"}, title: {"a", "b", "record"}, distance: 1..2]

(* A result is in order, shows a text once and where it is nearest, and    *)
(* keeps to the quota of chunks that only repeat their title; and a text   *)
(* is left out only for TopK texts at least as near, or, if it is such a   *)
(* chunk, for a full quota of those at least as near: holdings never crowd *)
(* prose out (retrieval.py:31).                                            *)
SearchIsFair ==
    \A rows \in UNION {kSubset(n, TestRows) : n \in 0..3} : \A found \in Results(rows) :
        LET shown == ToSet(found)
            NearerThan(r, set) == {s \in set : s.distance <= r.distance}
        IN  /\ shown \subseteq rows /\ Len(found) <= TopK
            /\ \A i, j \in DOMAIN found : i < j => /\ found[i].distance <= found[j].distance
                                                  /\ found[i].content # found[j].content
            /\ Cardinality({r \in shown : HoldingsOnly(r)}) <= MaxHoldings
            /\ \A r \in shown, s \in rows : s.content = r.content => r.distance <= s.distance
            /\ \A r \in rows : r.content \in {s.content : s \in shown}
                \/ Cardinality(NearerThan(r, shown)) >= TopK
                \/ \E s \in rows :
                      /\ s.content = r.content /\ s.distance <= r.distance /\ HoldingsOnly(s)
                      /\ Cardinality({q \in NearerThan(s, shown) : HoldingsOnly(q)}) >= MaxHoldings
=============================================================================
