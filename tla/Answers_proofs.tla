---------------------------- MODULE Answers_proofs ----------------------------
(***************************************************************************)
(* Proofs about Answers, and about Landing within it, for any records,     *)
(* versions and block lists, any windows and quotas, and any personas,     *)
(* drafts and distances: the corpus is current, redacted and chunked       *)
(* whole, a search is fair to prose and finds public documents only, a     *)
(* reply fits to be spoken and passes the evaluation, and its URL plays it.*)
(***************************************************************************)
EXTENDS Answers, Landing_proofs

(* The question has the fields of Idle, and CitationsArePublic needs       *)
(* nothing else that it remembers.                                         *)
TurnShape ==
    turn = [phase |-> turn.phase, persona |-> turn.persona, path |-> turn.path,
            tries |-> turn.tries, found |-> turn.found, public |-> turn.public,
            mode |-> turn.mode, reply |-> turn.reply, cites |-> turn.cites,
            url |-> turn.url]

AnswersInv == LandingInv /\ TurnShape /\ CitationsArePublic

-------------------------------------------------------------------------------
(* The search.  An order of rows shows each of them once, by distance.     *)
LEMMA OrderShows ==
    ASSUME NEW rows, IsFiniteSet(rows), NEW order \in Ordered(rows)
    PROVE  /\ Cardinality(rows) \in Nat
           /\ order \in [1..Cardinality(rows) -> rows]
           /\ \A i, j \in 1..Cardinality(rows) : order[i] = order[j] => i = j
           /\ \A r \in rows : \E i \in 1..Cardinality(rows) : order[i] = r
           /\ \A i, j \in 1..Cardinality(rows) : i < j => order[i].distance <= order[j].distance
<1>. DEFINE size == Cardinality(rows)
<1>1. size \in Nat
    BY FS_CardinalityType
<1>2. /\ order \in [1..size -> rows]
      /\ \A i, j \in 1..size : i # j => order[i] # order[j]
      /\ \A i, j \in DOMAIN order : i < j => order[i].distance <= order[j].distance
    BY DEF Ordered, SetToSeqs
<1>3. order \in Injection(1..size, rows)
    BY <1>2 DEF Injection, IsInjective
<1>4. Cardinality(1..size) = size
    BY <1>1, FS_Interval
<1>5. order \in Surjection(1..size, rows)
    BY <1>3, <1>4, FS_Injection
<1>. QED BY <1>1, <1>2, <1>5 DEF Surjection

(* A result is the beginning of an order of the rows that are left when    *)
(* those that read alike, and holdings beyond the quota, are out.          *)
LEMMA ResultOrder ==
    ASSUME NEW rows, IsFiniteSet(rows), NEW found \in Results(rows)
    PROVE  \E kept \in Deduplicated(rows) : \E ranking \in Ordered(kept) :
           \E order \in Ordered(WithinQuota(ranking)) : \E n \in 0..Cardinality(WithinQuota(ranking)) :
              /\ IsFiniteSet(kept) /\ kept \subseteq rows
              /\ IsFiniteSet(WithinQuota(ranking)) /\ WithinQuota(ranking) \subseteq kept
              /\ n <= TopK /\ (n = TopK \/ n = Cardinality(WithinQuota(ranking)))
              /\ found = [i \in 1..n |-> order[i]]
<1>1. PICK kept \in Deduplicated(rows) : \E ranking \in Ordered(kept) :
          \E order \in Ordered(WithinQuota(ranking)) :
              found = SubSeq(order, 1, IF Len(order) < TopK THEN Len(order) ELSE TopK)
    BY DEF Results
<1>2. PICK ranking \in Ordered(kept) :
          \E order \in Ordered(WithinQuota(ranking)) :
              found = SubSeq(order, 1, IF Len(order) < TopK THEN Len(order) ELSE TopK)
    BY <1>1
<1>3. PICK order \in Ordered(WithinQuota(ranking)) :
              found = SubSeq(order, 1, IF Len(order) < TopK THEN Len(order) ELSE TopK)
    BY <1>2
<1>4. kept \subseteq rows /\ IsFiniteSet(kept)
    BY FS_Subset DEF Deduplicated
<1>5. \A i \in DOMAIN ranking : ranking[i] \in kept
    BY <1>4, OrderShows
<1>6. WithinQuota(ranking) \subseteq kept
    BY <1>5 DEF WithinQuota
<1>7. IsFiniteSet(WithinQuota(ranking))
    BY <1>4, <1>6, FS_Subset
<1>. DEFINE size == Cardinality(WithinQuota(ranking))
            n == IF Len(order) < TopK THEN Len(order) ELSE TopK
<1>8. size \in Nat /\ order \in [1..size -> WithinQuota(ranking)]
    BY <1>7, OrderShows
<1>9. TopK \in Nat
    BY RetrievalAssumption
<1>. HIDE DEF size
<1>10. Len(order) = size
    BY <1>8
<1>11. n \in 0..size /\ n <= TopK /\ (n = TopK \/ n = size)
    BY <1>8, <1>9, <1>10
<1>12. found = [i \in 1..n |-> order[i]]
    BY <1>3, <1>8, <1>10, <1>11
<1>. HIDE DEF n
<1>. QED BY <1>4, <1>6, <1>7, <1>11, <1>12 DEF size

(* What a search returns are rows that it was given.                       *)
LEMMA ResultsAreRows ==
    ASSUME NEW rows, IsFiniteSet(rows), NEW found \in Results(rows)
    PROVE  ToSet(found) \subseteq rows
<1>1. PICK ranking, order : \E n \in 0..Cardinality(WithinQuota(ranking)) :
          /\ IsFiniteSet(WithinQuota(ranking)) /\ WithinQuota(ranking) \subseteq rows
          /\ order \in Ordered(WithinQuota(ranking))
          /\ found = [i \in 1..n |-> order[i]]
    BY ResultOrder
<1>. DEFINE passed == WithinQuota(ranking)
            size == Cardinality(passed)
<1>. HIDE DEF passed
<1>2. IsFiniteSet(passed) /\ passed \subseteq rows /\ order \in Ordered(passed)
    BY <1>1 DEF passed
<1>3. size \in Nat /\ order \in [1..size -> passed]
    BY <1>2, OrderShows
<1>4. PICK n \in 0..size : found = [i \in 1..n |-> order[i]]
    BY <1>1 DEF passed
<1>. HIDE DEF size
<1>5. \A i \in 1..n : order[i] \in passed
    BY <1>3, <1>4
<1>. QED BY <1>2, <1>4, <1>5 DEF ToSet

(* A search finds public documents only.                                   *)
LEMMA SearchFindsPublic ==
    ASSUME LandingInv, TurnShape, Search
    PROVE  turn'.public /\ turn'.phase = "found" /\ TurnShape'
<1>. DEFINE row(c, near) == [document |-> c.document, content |-> c.content, title |-> c.title,
                             index |-> c.index, distance |-> near[c]]
            rowsOf(near) == {row(c, near) : c \in RetrievableChunks}
            found(rows) == {r.document : r \in ToSet(rows)}
            public(rows) == \A r \in ToSet(rows) : PublicRecord(r.document)
<1>1. PICK near \in [RetrievableChunks -> Distances] : \E rows \in Results(rowsOf(near)) :
          turn' = [turn EXCEPT !.phase = "found", !.found = found(rows), !.public = public(rows)]
    BY DEF Search
<1>2. PICK rows \in Results(rowsOf(near)) :
          turn' = [turn EXCEPT !.phase = "found", !.found = found(rows), !.public = public(rows)]
    BY <1>1
<1>3. IsFiniteSet(rowsOf(near))
    <2>. DEFINE f == [c \in RetrievableChunks |-> row(c, near)]
    <2>1. rowsOf(near) = {f[c] : c \in RetrievableChunks}
        OBVIOUS
    <2>. HIDE DEF f
    <2>. QED BY <2>1, ChunksAreFinite, ImageIsFinite
<1>4. ASSUME NEW r \in ToSet(rows) PROVE PublicRecord(r.document)
    <2>1. r \in rowsOf(near)
        BY <1>2, <1>3, ResultsAreRows
    <2>2. PICK c \in RetrievableChunks : r.document = c.document
        BY <2>1
    <2>3. c.document \in DOMAIN corpus /\ Retrievable(corpus[c.document])
        BY <2>2 DEF RetrievableChunks
    <2>. QED BY <2>2, <2>3, RetrievableIsPublic
<1>5. public(rows)
    BY <1>4
<1>. HIDE DEF public, found
<1>6. /\ turn'.phase = "found" /\ turn'.public = public(rows)
      /\ TurnShape'
    BY <1>2 DEF TurnShape
<1>. QED BY <1>5, <1>6

(* A valid answer cites what was found.                                    *)
LEMMA AnswerCitesFound ==
    ASSUME TurnShape, CitationsArePublic, NEW output, ModelAnswers(output)
    PROVE  TurnShape' /\ CitationsArePublic'
<1>1. output.used \subseteq turn.found
    BY DEF ModelAnswers, Valid
<1>. DEFINE reply == TruncateResponse(Strip(output.response), MaxLength)
<1>2. turn' = [turn EXCEPT !.phase = "answered", !.tries = 0, !.mode = output.mode,
                           !.reply = reply, !.cites = output.used]
    BY DEF ModelAnswers
<1>. HIDE DEF reply
<1>3. /\ turn'.public = turn.public /\ turn'.found = turn.found
      /\ turn'.cites = output.used /\ TurnShape'
    BY <1>2 DEF TurnShape
<1>. QED BY <1>1, <1>3 DEF CitationsArePublic

(* No other step cites anything, or looks at what a document is.           *)
LEMMA TurnStep ==
    ASSUME AnswersInv, Next \/ UNCHANGED vars
    PROVE  TurnShape' /\ CitationsArePublic'
<1>1. CASE Search
    BY <1>1, SearchFindsPublic DEF AnswersInv, CitationsArePublic
<1>2. CASE \E output \in Outputs(turn.found) : ModelAnswers(output)
    BY <1>2, AnswerCitesFound DEF AnswersInv
<1>0. Idle = [phase |-> "idle", persona |-> None, path |-> None, tries |-> 0,
              found |-> {}, public |-> TRUE, mode |-> None, reply |-> <<>>, cites |-> {},
              url |-> <<>>]
    BY DEF Idle
<1>3. CASE MemoryFails \/ Show \/ Close
    <2>1. CASE MemoryFails
        BY <1>0, <2>1 DEF MemoryFails, TurnShape, CitationsArePublic
    <2>2. CASE Show
        BY <1>0, <2>2 DEF Show, TurnShape, CitationsArePublic
    <2>3. CASE Close
        BY <1>0, <2>3 DEF Close, TurnShape, CitationsArePublic
    <2>. QED BY <1>3, <2>1, <2>2, <2>3
<1>4. CASE Remember \/ PostAgain \/ SearchFails
    BY <1>4 DEF Remember, PostAgain, SearchFails, AnswersInv, TurnShape, CitationsArePublic
<1>5. CASE ModelFails \/ CacheMiss \/ VoiceFails
    BY <1>5 DEF ModelFails, CacheMiss, VoiceFails, AnswersInv, TurnShape, CitationsArePublic
<1>6. CASE CacheHit \/ Synthesize
    BY <1>6 DEF CacheHit, Synthesize, AnswersInv, TurnShape, CitationsArePublic
<1>7. ASSUME NEW persona, NEW scene, Ask(persona, scene)
      PROVE  TurnShape' /\ CitationsArePublic'
    <2>. DEFINE resolved == ResolvePersona(persona, scene)
                phase == IF resolved \in Personas THEN "posted" ELSE "refused"
    <2>1. turn' = [Idle EXCEPT !.phase = phase, !.persona = resolved]
        BY <1>7 DEF Ask
    <2>2. phase # "answered"
        OBVIOUS
    <2>. HIDE DEF resolved, phase
    <2>. QED BY <1>0, <2>1, <2>2 DEF TurnShape, CitationsArePublic
<1>8. CASE UNCHANGED turn
    BY <1>8 DEF AnswersInv, TurnShape, CitationsArePublic
<1>9. ASSUME NEW persona, NEW draft, VoiceOther(persona, draft) PROVE UNCHANGED turn
    BY <1>9 DEF VoiceOther
<1>10. ASSUME NEW key, Expire(key) PROVE UNCHANGED turn
    BY <1>10 DEF Expire
<1>. QED BY <1>1, <1>2, <1>3, <1>4, <1>5, <1>6, <1>7, <1>8, <1>9, <1>10
         DEF Next, Proceed, vars, answering

LEMMA CorpusStep ==
    ASSUME AnswersInv, Next \/ UNCHANGED vars
    PROVE  LandingNext \/ UNCHANGED landing
<1>1. CASE Proceed
    BY <1>1 DEF Proceed, Remember, PostAgain, MemoryFails, Search, SearchFails, ModelAnswers,
                ModelFails, Show, CacheHit, CacheMiss, Synthesize, VoiceFails, Close
<1>2. ASSUME NEW persona, NEW scene, Ask(persona, scene) PROVE UNCHANGED landing
    BY <1>2 DEF Ask
<1>3. ASSUME NEW persona, NEW draft, VoiceOther(persona, draft) PROVE UNCHANGED landing
    BY <1>3 DEF VoiceOther
<1>4. ASSUME NEW key, Expire(key) PROVE UNCHANGED landing
    BY <1>4 DEF Expire
<1>5. CASE UNCHANGED vars
    BY <1>5 DEF vars, landing
<1>. QED BY <1>1, <1>2, <1>3, <1>4, <1>5 DEF Next

(* The corpus stays current, and the question within it, whatever the      *)
(* museum edits and whichever jobs land it meanwhile.                      *)
THEOREM AnswersInvariantHolds == Spec => []AnswersInv
<1>1. Init => AnswersInv
    <2>. SUFFICES ASSUME Init PROVE AnswersInv
        OBVIOUS
    <2>1. LandingInv
        BY LandingStart DEF Init
    <2>2. turn = Idle
        BY DEF Init
    <2>3. turn.public /\ turn.phase # "answered" /\ TurnShape
        BY <2>2 DEF Idle, TurnShape
    <2>. QED BY <2>1, <2>3 DEF AnswersInv, CitationsArePublic
<1>2. AnswersInv /\ [Next]_vars => AnswersInv'
    <2>. SUFFICES ASSUME AnswersInv, Next \/ UNCHANGED vars PROVE AnswersInv'
        OBVIOUS
    <2>1. LandingInv'
        BY CorpusStep, LandingStep DEF AnswersInv
    <2>. QED BY <2>1, TurnStep DEF AnswersInv
<1>. QED BY <1>1, <1>2, PTL DEF Spec

(* Whatever is edited, blocked and skipped, the corpus holds of a record   *)
(* what its last visit would land, with the exceptions the property names. *)
THEOREM CorpusIsCurrent == Spec => []VisitedIsCurrent
<1>1. AnswersInv => VisitedIsCurrent
    BY DEF AnswersInv, LandingInv
<1>. QED BY <1>1, AnswersInvariantHolds, PTL

(* Every document of the catalogue is free, in the texts that are scanned  *)
(* (its title, the maker's columns and its chunks, privacy.py:80; neither  *)
(* its details nor its metadata), of the names that were known when it was *)
(* written, whatever is edited, blocked and skipped meanwhile; redacting   *)
(* leaves no term in any text and, unless two of them overlap, loses       *)
(* nothing else (privacy.py:34).                                           *)
THEOREM NamesStayRedacted == Spec => []RedactionIsComplete
<1>1. Init => NamesInv
    BY NamesStart DEF Init
<1>2. AnswersInv /\ NamesInv /\ [Next]_vars => NamesInv'
    BY CorpusStep, NamesStep DEF AnswersInv
<1>3. AnswersInv /\ NamesInv => RedactionIsComplete
    BY DocumentsHideNames DEF AnswersInv
<1>. QED BY <1>1, <1>2, <1>3, AnswersInvariantHolds, PTL DEF Spec

(* No window and overlap make the chunker lose a word, repeat more of one  *)
(* chunk in the next than the overlap, or go on for ever, and the corpus   *)
(* holds of an article all its words as it was last fetched (chunk.py:34). *)
THEOREM ChunksStayWhole == Spec => []ChunksCoverBody
<1>1. AnswersInv => ChunksCoverBody
    <2>. SUFFICES ASSUME AnswersInv, NEW k \in DOMAIN corpus, k[1] = "url"
                  PROVE  UNION {ToSet(chunk) : chunk \in ToSet(corpus[k].chunks)} =
                             ToSet(visited[k].said.body)
        BY TestTextsAreCovered DEF ChunksCoverBody
    <2>. DEFINE said == visited[k].said
    <2>1. corpus[k] = EntryDocument(said, corpus[k].licence, corpus[k].inScope)
        BY EntryExcept DEF AnswersInv, LandingInv, VisitedIsCurrent
    <2>2. corpus[k].chunks = WindowChunks(said.body, Window, Overlap)
        BY <2>1 DEF EntryDocument
    <2>3. said \in Entry
        BY DEF AnswersInv, LandingInv, DocumentsSound
    <2>. HIDE DEF said
    <2>4. said.body \in Seq(STRING) /\ Window \in Nat \ {0} /\ Overlap \in Nat
        BY <2>3, LandingAssumption DEF Entry, Text
    <2>. QED BY <2>2, <2>4, ChunksHoldAll DEF said
<1>. QED BY <1>1, AnswersInvariantHolds, PTL

(* Only documents that were public by their record are found and cited,    *)
(* for any records, distances, quotas and outputs of the model.            *)
THEOREM CitationsStayPublic == Spec => []CitationsArePublic
<1>1. AnswersInv => CitationsArePublic
    BY DEF AnswersInv
<1>. QED BY <1>1, AnswersInvariantHolds, PTL

-------------------------------------------------------------------------------
(* Replies: cut to the limit, a text that the model writes is one that     *)
(* /voice/synthesize takes as it stands, and the clip under its key plays  *)
(* it.                                                                     *)

(* A text that neither begins nor ends with a space.                       *)
Trimmed(text) == text = <<>> \/ (~IsSpace(text[1]) /\ ~IsSpace(text[Len(text)]))

LEMMA StripTrims ==
    ASSUME NEW Chars, NEW text \in Seq(Chars)
    PROVE  /\ Strip(text) \in Seq(Chars) /\ Trimmed(Strip(text)) /\ Len(Strip(text)) <= Len(text)
           /\ Strip(text) # <<>> <=> \E i \in DOMAIN text : ~IsSpace(text[i])
<1>. DEFINE solid == {i \in DOMAIN text : ~IsSpace(text[i])}
<1>1. Strip(text) = IF solid = {} THEN <<>> ELSE SubSeq(text, Min(solid), Max(solid))
    BY DEF Strip
<1>2. CASE solid = {}
    <2>1. Strip(text) = <<>>
        BY <1>1, <1>2
    <2>. QED BY <1>2, <2>1 DEF Trimmed
<1>3. CASE solid # {}
    <2>1. Len(text) \in Nat /\ solid \subseteq 1..Len(text)
        OBVIOUS
    <2>. DEFINE a == Min(solid)
                z == Max(solid)
    <2>2. a \in solid /\ z \in solid /\ a <= z
        BY <1>3, <2>1, LeastMember, GreatestMember
    <2>. HIDE DEF a, z
    <2>3. a \in 1..Len(text) /\ z \in 1..Len(text) /\ ~IsSpace(text[a]) /\ ~IsSpace(text[z])
        BY <2>1, <2>2
    <2>4. Strip(text) = SubSeq(text, a, z)
        BY <1>1, <1>3 DEF a, z
    <2>5. /\ SubSeq(text, a, z) \in Seq(Chars) /\ Len(SubSeq(text, a, z)) = z - a + 1
          /\ SubSeq(text, a, z)[1] = text[a] /\ SubSeq(text, a, z)[z - a + 1] = text[z]
        BY <2>2, <2>3
    <2>6. z - a + 1 \in 1..Len(text)
        BY <2>1, <2>2, <2>3
    <2>7. \E i \in DOMAIN text : ~IsSpace(text[i])
        BY <1>3
    <2>. HIDE DEF solid
    <2>8. Strip(text) \in Seq(Chars) /\ Len(Strip(text)) = z - a + 1
        BY <2>4, <2>5
    <2>9. Strip(text) # <<>>
        BY <2>6, <2>8
    <2>10. Trimmed(Strip(text))
        BY <2>3, <2>4, <2>5, <2>8 DEF Trimmed
    <2>. QED BY <2>1, <2>6, <2>7, <2>8, <2>9, <2>10
<1>. QED BY <1>2, <1>3

LEMMA TrimmedIsStripped ==
    ASSUME NEW Chars, NEW text \in Seq(Chars), Trimmed(text)
    PROVE  Strip(text) = text
<1>. DEFINE solid == {i \in DOMAIN text : ~IsSpace(text[i])}
<1>1. Strip(text) = IF solid = {} THEN <<>> ELSE SubSeq(text, Min(solid), Max(solid))
    BY DEF Strip
<1>2. CASE text = <<>>
    BY <1>1, <1>2
<1>3. CASE text # <<>>
    <2>1. Len(text) \in Nat \ {0} /\ solid \subseteq 1..Len(text)
        BY <1>3
    <2>2. 1 \in solid /\ Len(text) \in solid
        BY <1>3, <2>1 DEF Trimmed
    <2>3. Min(solid) = 1 /\ Max(solid) = Len(text)
        <3>1. Min(solid) \in 1..Len(text) /\ Min(solid) <= 1
            BY <2>1, <2>2, LeastMember
        <3>2. Max(solid) \in 1..Len(text) /\ Len(text) <= Max(solid)
            BY <2>1, <2>2, GreatestMember
        <3>. QED BY <2>1, <3>1, <3>2
    <2>4. SubSeq(text, 1, Len(text)) = text
        OBVIOUS
    <2>. QED BY <1>1, <2>2, <2>3, <2>4
<1>. QED BY <1>2, <1>3

(* A reply is cut to the limit, and neither begins nor ends with a space.  *)
LEMMA TruncateFits ==
    ASSUME NEW Chars, NEW text \in Seq(Chars), Trimmed(text), text # <<>>, NEW limit \in Nat \ {0}
    PROVE  LET reply == TruncateResponse(text, limit)
           IN  reply \in Seq(Chars) /\ reply # <<>> /\ Len(reply) <= limit /\ Trimmed(reply)
<1>. DEFINE stops == {i \in 1..limit : text[i] \in Punctuation}
            spaces == {i \in 1..limit : IsSpace(text[i])}
            reply == TruncateResponse(text, limit)
<1>0. reply = IF Len(text) <= limit THEN text
              ELSE IF stops # {} THEN SubSeq(text, 1, Max(stops))
              ELSE IF spaces # {} /\ Max(spaces) > 1 THEN Strip(SubSeq(text, 1, Max(spaces) - 1))
              ELSE SubSeq(text, 1, limit)
    BY DEF TruncateResponse
<1>1. Len(text) \in Nat \ {0} /\ ~IsSpace(text[1])
    BY DEF Trimmed
<1>2. ASSUME Len(text) > limit, NEW m \in 1..limit
      PROVE  /\ SubSeq(text, 1, m) \in Seq(Chars) /\ Len(SubSeq(text, 1, m)) = m
             /\ \A i \in 1..m : SubSeq(text, 1, m)[i] = text[i]
    BY <1>1, <1>2
<1>3. CASE Len(text) <= limit
    BY <1>0, <1>3
<1>4. CASE Len(text) > limit /\ stops # {}
    <2>. DEFINE m == Max(stops)
    <2>1. m \in stops
        BY <1>4, GreatestMember
    <2>2. m \in 1..limit /\ ~IsSpace(text[m])
        BY <2>1 DEF Punctuation, IsSpace
    <2>. HIDE DEF m, reply, stops, spaces
    <2>3. ~(Len(text) <= limit)
        BY <1>1, <1>4
    <2>4. reply = SubSeq(text, 1, m)
        BY <1>0, <1>4, <2>3 DEF m
    <2>5. reply \in Seq(Chars) /\ Len(reply) = m /\ reply[1] = text[1] /\ reply[m] = text[m]
        BY <1>2, <1>4, <2>2, <2>4
    <2>6. reply # <<>> /\ Len(reply) <= limit /\ Trimmed(reply)
        BY <1>1, <2>2, <2>5 DEF Trimmed
    <2>. QED BY <2>5, <2>6 DEF reply
<1>5. CASE Len(text) > limit /\ stops = {} /\ spaces # {} /\ Max(spaces) > 1
    <2>. DEFINE m == Max(spaces)
                part == SubSeq(text, 1, m - 1)
    <2>1. m \in spaces
        BY <1>5, GreatestMember
    <2>2. m - 1 \in 1..limit
        BY <1>5, <2>1
    <2>3. reply = Strip(part)
        BY <1>0, <1>1, <1>5
    <2>. HIDE DEF m
    <2>4. part \in Seq(Chars) /\ Len(part) = m - 1 /\ part[1] = text[1]
        BY <1>2, <1>5, <2>2
    <2>. HIDE DEF part, reply
    <2>5. 1 \in DOMAIN part /\ ~IsSpace(part[1])
        BY <1>1, <2>2, <2>4
    <2>6. reply \in Seq(Chars) /\ Trimmed(reply) /\ Len(reply) <= m - 1 /\ reply # <<>>
        BY <2>3, <2>4, <2>5, StripTrims
    <2>7. Len(reply) <= limit
        BY <2>2, <2>6
    <2>. QED BY <2>6, <2>7 DEF reply
<1>6. CASE Len(text) > limit /\ stops = {} /\ ~(spaces # {} /\ Max(spaces) > 1)
    <2>1. ~IsSpace(text[limit])
        <3>. SUFFICES ASSUME IsSpace(text[limit]) PROVE FALSE
            OBVIOUS
        <3>1. limit \in spaces
            OBVIOUS
        <3>2. Max(spaces) \in 1..limit /\ limit <= Max(spaces)
            BY <3>1, GreatestMember
        <3>3. limit = 1
            BY <1>6, <3>1, <3>2
        <3>. QED BY <1>1, <3>3
    <2>. HIDE DEF reply, stops, spaces
    <2>2. ~(Len(text) <= limit)
        BY <1>1, <1>6
    <2>3. reply = SubSeq(text, 1, limit)
        BY <1>0, <1>6, <2>2
    <2>4. reply \in Seq(Chars) /\ Len(reply) = limit /\ reply[1] = text[1] /\ reply[limit] = text[limit]
        BY <1>2, <1>6, <2>3
    <2>5. reply # <<>> /\ Len(reply) <= limit /\ Trimmed(reply)
        BY <1>1, <2>1, <2>4 DEF Trimmed
    <2>. QED BY <2>4, <2>5 DEF reply
<1>. QED BY <1>1, <1>3, <1>4, <1>5, <1>6

-------------------------------------------------------------------------------
(* What a handler keeps of a reply, and what lies in the cache.            *)
ReplyInv ==
    /\ turn.reply \in Text /\ Trimmed(turn.reply)
    /\ turn.phase \in {"answered", "shown"} =>
          turn.reply # <<>> /\ Len(turn.reply) <= MaxLength
    /\ turn.phase = "voiced" => turn.url = CacheKey(turn.persona, turn.reply)

ClipsInv == \A k \in DOMAIN clips : clips[k] = [voice |-> k[1], text |-> k[2]]

LEMMA ValidReply ==
    ASSUME NEW draft \in Text, Speakable(Strip(draft))
    PROVE  LET reply == TruncateResponse(Strip(draft), MaxLength)
           IN  reply \in Text /\ reply # <<>> /\ Len(reply) <= MaxLength /\ Trimmed(reply)
<1>1. Strip(draft) \in Text /\ Trimmed(Strip(draft)) /\ Strip(draft) # <<>>
    BY StripTrims DEF Speakable, Text
<1>2. MaxLength \in Nat \ {0}
    BY AnswersAssumption
<1>. QED BY <1>1, <1>2, TruncateFits DEF Text

LEMMA ClipsKept ==
    ASSUME ClipsInv, NEW persona, NEW text, clips' = WithClip(persona, text)
    PROVE  ClipsInv'
BY DEF ClipsInv, WithClip, CacheKey, Clip

(* The steps of the question under way keep the reply fit to be spoken,    *)
(* and put only clips that play what their key says.                       *)
LEMMA ReplyStep ==
    ASSUME TurnShape, ReplyInv, ClipsInv, Next \/ UNCHANGED vars
    PROVE  ReplyInv' /\ ClipsInv'
<1>0. Idle = [phase |-> "idle", persona |-> None, path |-> None, tries |-> 0,
              found |-> {}, public |-> TRUE, mode |-> None, reply |-> <<>>, cites |-> {},
              url |-> <<>>]
    BY DEF Idle
<1>1. <<>> \in Text /\ Trimmed(<<>>)
    BY DEF Text, Trimmed
<1>2. Spoken = turn.reply
    BY TrimmedIsStripped DEF ReplyInv, Spoken, Text
<1>. HIDE DEF Text
<1>3. ASSUME NEW output \in Outputs(turn.found), ModelAnswers(output)
      PROVE  ReplyInv' /\ ClipsInv'
    <2>. DEFINE reply == TruncateResponse(Strip(output.response), MaxLength)
    <2>1. reply \in Text /\ reply # <<>> /\ Len(reply) <= MaxLength /\ Trimmed(reply)
        <3>1. output.response \in Text /\ Speakable(Strip(output.response))
            BY <1>3, AnswersAssumption DEF Outputs, ModelAnswers, Valid
        <3>. QED BY <3>1, ValidReply
    <2>2. /\ turn' = [turn EXCEPT !.phase = "answered", !.tries = 0, !.mode = output.mode,
                                  !.reply = reply, !.cites = output.used]
          /\ clips' = clips
        BY <1>3 DEF ModelAnswers
    <2>. HIDE DEF reply
    <2>3. turn'.phase = "answered" /\ turn'.reply = reply
        BY <2>2 DEF TurnShape
    <2>. QED BY <2>1, <2>2, <2>3 DEF ReplyInv, ClipsInv
<1>4. CASE MemoryFails \/ Close
    <2>1. turn'.phase \in {"asked", "idle"} /\ turn'.reply = <<>> /\ clips' = clips
        <3>1. CASE MemoryFails
            BY <1>0, <3>1 DEF MemoryFails
        <3>2. CASE Close
            BY <1>0, <3>2 DEF Close
        <3>. QED BY <1>4, <3>1, <3>2
    <2>. QED BY <1>1, <2>1 DEF ReplyInv, ClipsInv
<1>5. CASE Show
    BY <1>0, <1>5 DEF Show, ReplyInv, ClipsInv
<1>6. CASE Remember \/ PostAgain \/ SearchFails \/ ModelFails \/ CacheMiss \/ VoiceFails
    <2>1. /\ turn'.phase \notin {"answered", "shown", "voiced"}
          /\ turn'.reply = turn.reply /\ clips' = clips
        BY <1>6 DEF Remember, PostAgain, SearchFails, ModelFails, CacheMiss, VoiceFails, TurnShape
    <2>. QED BY <2>1 DEF ReplyInv, ClipsInv
<1>7. CASE Search
    <2>1. PICK found, public :
              turn' = [turn EXCEPT !.phase = "found", !.found = found, !.public = public]
        BY <1>7 DEF Search
    <2>2. turn'.phase = "found" /\ turn'.reply = turn.reply /\ clips' = clips
        BY <1>7, <2>1 DEF Search, TurnShape
    <2>. QED BY <2>2 DEF ReplyInv, ClipsInv
<1>8. CASE CacheHit \/ Synthesize
    <2>1. turn' = [turn EXCEPT !.phase = "voiced", !.url = CacheKey(turn.persona, Spoken)]
        BY <1>8 DEF CacheHit, Synthesize
    <2>2. /\ turn'.phase = "voiced" /\ turn'.url = CacheKey(turn.persona, Spoken)
          /\ turn'.reply = turn.reply /\ turn'.persona = turn.persona
        BY <2>1 DEF TurnShape
    <2>3. clips' = clips \/ clips' = WithClip(turn.persona, Spoken)
        BY <1>8 DEF CacheHit, Synthesize
    <2>4. ClipsInv'
        BY <2>3, ClipsKept DEF ClipsInv
    <2>. QED BY <1>2, <2>2, <2>4 DEF ReplyInv, CacheKey
<1>9. ASSUME NEW persona, NEW scene, Ask(persona, scene)
      PROVE  ReplyInv' /\ ClipsInv'
    <2>. DEFINE resolved == ResolvePersona(persona, scene)
                phase == IF resolved \in Personas THEN "posted" ELSE "refused"
    <2>1. turn' = [Idle EXCEPT !.phase = phase, !.persona = resolved] /\ clips' = clips
        BY <1>9 DEF Ask
    <2>2. phase \in {"posted", "refused"}
        OBVIOUS
    <2>. HIDE DEF resolved, phase
    <2>3. turn'.phase = phase /\ turn'.reply = <<>>
        BY <1>0, <2>1
    <2>. QED BY <1>1, <2>1, <2>2, <2>3 DEF ReplyInv, ClipsInv
<1>10. ASSUME NEW persona, NEW draft, VoiceOther(persona, draft)
       PROVE  ReplyInv' /\ ClipsInv'
    <2>. DEFINE text == TruncateResponse(Strip(draft), MaxLength)
    <2>1. clips' = WithClip(persona, text) /\ turn' = turn
        BY <1>10 DEF VoiceOther
    <2>. HIDE DEF text
    <2>. QED BY <2>1, ClipsKept DEF ReplyInv
<1>11. ASSUME NEW key, Expire(key) PROVE ReplyInv' /\ ClipsInv'
    BY <1>11 DEF Expire, ReplyInv, ClipsInv
<1>12. CASE UNCHANGED answering
    BY <1>12 DEF answering, ReplyInv, ClipsInv
<1>. QED BY <1>3, <1>4, <1>5, <1>6, <1>7, <1>8, <1>9, <1>10, <1>11, <1>12
         DEF Next, Proceed, vars, answering

-------------------------------------------------------------------------------
(* CutsWell says this of short texts and small limits: a text that is cut  *)
(* ends with its last stop within the limit, and if it has none, with a    *)
(* word that is followed by spaces, or by a space and less than a word.    *)
LEMMA StripBegins ==
    ASSUME NEW Chars, NEW text \in Seq(Chars), text # <<>>, ~IsSpace(text[1])
    PROVE  \E z \in 1..Len(text) :
              /\ Strip(text) = SubSeq(text, 1, z) /\ ~IsSpace(text[z])
              /\ \A i \in (z + 1)..Len(text) : IsSpace(text[i])
<1>. DEFINE solid == {i \in DOMAIN text : ~IsSpace(text[i])}
<1>1. Strip(text) = IF solid = {} THEN <<>> ELSE SubSeq(text, Min(solid), Max(solid))
    BY DEF Strip
<1>2. Len(text) \in Nat /\ solid \subseteq 1..Len(text) /\ 1 \in solid
    OBVIOUS
<1>3. Min(solid) \in 1..Len(text) /\ Min(solid) <= 1
    BY <1>2, LeastMember
<1>4. Max(solid) \in solid /\ \A i \in solid : i <= Max(solid)
    BY <1>2, GreatestMember
<1>. DEFINE z == Max(solid)
<1>5. Strip(text) = SubSeq(text, 1, z)
    <2>1. Min(solid) = 1 /\ solid # {}
        BY <1>2, <1>3
    <2>. HIDE DEF solid
    <2>. QED BY <1>1, <2>1
<1>. HIDE DEF z
<1>6. z \in 1..Len(text) /\ ~IsSpace(text[z]) /\ \A i \in solid : i <= z
    BY <1>2, <1>4 DEF z
<1>7. \A i \in (z + 1)..Len(text) : IsSpace(text[i])
    BY <1>2, <1>6
<1>. QED BY <1>5, <1>6, <1>7

LEMMA CutsLate ==
    ASSUME NEW Chars, NEW text \in Seq(Chars), Trimmed(text), text # <<>>, NEW limit \in Nat \ {0}
    PROVE  LET reply == TruncateResponse(text, limit)
               cut == {n \in 1..limit : text[n] \in Punctuation}
           IN  /\ \E z \in Nat : reply = SubSeq(text, 1, z) /\ Len(reply) = z /\ z <= Len(text)
               /\ Len(text) > limit =>
                    IF cut # {} THEN Len(reply) = Max(cut)
                    ELSE \A n \in (Len(reply) + 1)..limit :
                            IsSpace(text[n]) \/ \E m \in (Len(reply) + 1)..n : IsSpace(text[m])
<1>. DEFINE stops == {i \in 1..limit : text[i] \in Punctuation}
            spaces == {i \in 1..limit : IsSpace(text[i])}
            reply == TruncateResponse(text, limit)
            late == \A n \in (Len(reply) + 1)..limit :
                        IsSpace(text[n]) \/ \E m \in (Len(reply) + 1)..n : IsSpace(text[m])
<1>0. reply = IF Len(text) <= limit THEN text
              ELSE IF stops # {} THEN SubSeq(text, 1, Max(stops))
              ELSE IF spaces # {} /\ Max(spaces) > 1 THEN Strip(SubSeq(text, 1, Max(spaces) - 1))
              ELSE SubSeq(text, 1, limit)
    BY DEF TruncateResponse
<1>1. Len(text) \in Nat \ {0} /\ ~IsSpace(text[1])
    BY DEF Trimmed
<1>2. ASSUME NEW m \in 1..Len(text)
      PROVE  /\ SubSeq(text, 1, m) \in Seq(Chars) /\ Len(SubSeq(text, 1, m)) = m
             /\ \A i \in 1..m : SubSeq(text, 1, m)[i] = text[i]
    <2>1. m \in Nat /\ 1 <= m /\ m <= Len(text)
        BY <1>1
    <2>. QED BY <2>1
<1>3. CASE Len(text) <= limit
    <2>1. reply = text /\ SubSeq(text, 1, Len(text)) = text
        BY <1>0, <1>3
    <2>2. ~(Len(text) > limit)
        BY <1>1, <1>3
    <2>. HIDE DEF reply
    <2>. DEFINE size == Len(text)
    <2>4. size \in Nat /\ reply = SubSeq(text, 1, size) /\ Len(reply) = size /\ size <= Len(text)
        BY <1>1, <2>1
    <2>. HIDE DEF size
    <2>3. \E z \in Nat : reply = SubSeq(text, 1, z) /\ Len(reply) = z /\ z <= Len(text)
        BY <2>4
    <2>. QED BY <2>2, <2>3 DEF reply
<1>4. CASE Len(text) > limit /\ stops # {}
    <2>. DEFINE m == Max(stops)
    <2>0. m \in 1..limit
        BY <1>4, GreatestMember
    <2>. HIDE DEF m, reply, stops, spaces
    <2>1. m \in 1..Len(text) /\ m \in Nat /\ m <= Len(text)
        BY <1>1, <1>4, <2>0
    <2>2. ~(Len(text) <= limit)
        BY <1>1, <1>4
    <2>3. reply = SubSeq(text, 1, m)
        BY <1>0, <1>4, <2>2 DEF m
    <2>4. Len(reply) = m
        BY <1>2, <2>1, <2>3
    <2>5. \E z \in Nat : reply = SubSeq(text, 1, z) /\ Len(reply) = z /\ z <= Len(text)
        BY <2>1, <2>3, <2>4
    <2>6. stops # {} /\ Len(reply) = Max(stops)
        BY <1>4, <2>4 DEF m
    <2>. QED BY <2>5, <2>6 DEF reply, stops
<1>5. CASE Len(text) > limit /\ stops = {} /\ spaces # {} /\ Max(spaces) > 1
    <2>. DEFINE m == Max(spaces)
                part == SubSeq(text, 1, m - 1)
    <2>1. m \in spaces /\ \A i \in spaces : i <= m
        BY <1>5, GreatestMember
    <2>2. m \in 1..limit /\ IsSpace(text[m]) /\ m - 1 \in 1..Len(text)
        BY <1>1, <1>5, <2>1
    <2>. HIDE DEF m, reply, stops, spaces
    <2>3. ~(Len(text) <= limit)
        BY <1>1, <1>5
    <2>4. reply = Strip(part)
        BY <1>0, <1>5, <2>3 DEF m
    <2>5. part \in Seq(Chars) /\ Len(part) = m - 1 /\ \A i \in 1..(m - 1) : part[i] = text[i]
        BY <1>2, <2>2
    <2>6. part # <<>> /\ ~IsSpace(part[1])
        BY <1>1, <2>2, <2>5
    <2>. HIDE DEF part
    <2>7. PICK z \in 1..Len(part) :
              /\ Strip(part) = SubSeq(part, 1, z)
              /\ \A i \in (z + 1)..Len(part) : IsSpace(part[i])
        BY <2>5, <2>6, StripBegins
    <2>8. z \in 1..(m - 1) /\ \A i \in (z + 1)..(m - 1) : IsSpace(text[i])
        BY <2>2, <2>5, <2>7
    <2>9. SubSeq(part, 1, z) = SubSeq(text, 1, z)
        BY <1>1, <2>2, <2>8 DEF part
    <2>10. reply = SubSeq(text, 1, z) /\ Len(reply) = z /\ z <= Len(text) /\ z \in Nat
        BY <1>2, <2>2, <2>4, <2>7, <2>8, <2>9
    <2>11. late
        <3>. SUFFICES ASSUME NEW n \in (z + 1)..limit
                      PROVE  IsSpace(text[n]) \/ \E i \in (z + 1)..n : IsSpace(text[i])
            BY <2>10
        <3>1. CASE n <= m - 1
            BY <2>2, <2>8, <3>1
        <3>2. CASE n > m - 1
            <4>1. m \in (z + 1)..n
                BY <2>2, <2>8, <3>2
            <4>. QED BY <2>2, <4>1
        <3>. QED BY <2>2, <3>1, <3>2
    <2>. QED BY <1>5, <2>10, <2>11 DEF reply, stops
<1>6. CASE Len(text) > limit /\ stops = {} /\ ~(spaces # {} /\ Max(spaces) > 1)
    <2>. HIDE DEF reply, stops, spaces
    <2>1. ~(Len(text) <= limit) /\ limit \in 1..Len(text)
        BY <1>1, <1>6
    <2>2. reply = SubSeq(text, 1, limit)
        BY <1>0, <1>6, <2>1
    <2>3. Len(reply) = limit
        BY <1>2, <2>1, <2>2
    <2>4. late
        BY <2>3
    <2>. QED BY <1>6, <2>1, <2>2, <2>3, <2>4 DEF reply, stops
<1>. QED BY <1>1, <1>3, <1>4, <1>5, <1>6

(* What CutsWell states of short texts holds of every text and limit.      *)
CutWell(text, limit) ==
    LET reply == TruncateResponse(text, limit)
        cut == {n \in 1..limit : text[n] \in Punctuation}
    IN  /\ reply # <<>> /\ Len(reply) <= limit /\ Strip(reply) = reply
        /\ IsPrefix(reply, text)
        /\ Len(text) > limit =>
              IF cut # {} THEN Len(reply) = Max(cut)
              ELSE \A n \in (Len(reply) + 1)..limit :
                      IsSpace(text[n]) \/ \E m \in (Len(reply) + 1)..n : IsSpace(text[m])

(* What is left of a text is a beginning of it, no longer than the limit,  *)
(* and has no space at its ends; a text that is too long is cut after the  *)
(* last mark that fits or, without one, before a space if there is one to  *)
(* cut at (agents/graph.py:216).                                           *)
THEOREM TextsAreCutWell ==
    ASSUME NEW Chars, NEW draft \in Seq(Chars), NEW limit \in Nat \ {0}, Strip(draft) # <<>>
    PROVE  CutWell(Strip(draft), limit)
<1>. DEFINE text == Strip(draft)
            reply == TruncateResponse(text, limit)
<1>1. text \in Seq(Chars) /\ Trimmed(text) /\ text # <<>>
    BY StripTrims
<1>. HIDE DEF text
<1>2. reply \in Seq(Chars) /\ reply # <<>> /\ Len(reply) <= limit /\ Trimmed(reply)
    BY <1>1, TruncateFits
<1>3. /\ \E z \in Nat : reply = SubSeq(text, 1, z) /\ Len(reply) = z /\ z <= Len(text)
      /\ Len(text) > limit =>
            IF {n \in 1..limit : text[n] \in Punctuation} # {}
            THEN Len(reply) = Max({n \in 1..limit : text[n] \in Punctuation})
            ELSE \A n \in (Len(reply) + 1)..limit :
                    IsSpace(text[n]) \/ \E m \in (Len(reply) + 1)..n : IsSpace(text[m])
    BY <1>1, CutsLate
<1>. HIDE DEF reply
<1>4. Strip(reply) = reply
    BY <1>2, TrimmedIsStripped
<1>5. IsPrefix(reply, text)
    <2>1. PICK z \in Nat : reply = SubSeq(text, 1, z) /\ Len(reply) = z /\ z <= Len(text)
        BY <1>3
    <2>2. SubSeq(reply, 1, z) = reply
        BY <1>2, <2>1
    <2>. QED BY <2>1, <2>2 DEF IsPrefix
<1>. QED BY <1>2, <1>3, <1>4, <1>5 DEF text, reply, CutWell

LEMMA CutsAreWell == CutsWell
<1>. DEFINE Chars == {"a", ".", " "}
<1>. HIDE DEF Chars
<1>2. 6 \in Nat /\ 1..4 \subseteq Nat \ {0}
    OBVIOUS
<1>3. BoundedSeq(Chars, 6) \subseteq Seq(Chars)
    BY <1>2, BoundedAreSequences
<1>4. ASSUME NEW draft \in BoundedSeq(Chars, 6), NEW limit \in 1..4,
             Strip(draft) # <<>>
      PROVE  CutWell(Strip(draft), limit)
    BY <1>2, <1>3, <1>4, TextsAreCutWell
<1>. QED BY <1>4 DEF CutsWell, CutWell, Chars

LEMMA RepliesHold == Spec => [](AnswersInv /\ ReplyInv /\ ClipsInv)
<1>1. Init => ReplyInv /\ ClipsInv
    <2>. SUFFICES ASSUME Init PROVE ReplyInv /\ ClipsInv
        OBVIOUS
    <2>1. turn = Idle /\ clips = <<>>
        BY DEF Init
    <2>2. turn.phase = "idle" /\ turn.reply = <<>> /\ DOMAIN clips = {}
        BY <2>1 DEF Idle
    <2>. QED BY <2>2 DEF ReplyInv, ClipsInv, Trimmed, Text
<1>2. AnswersInv /\ ReplyInv /\ ClipsInv /\ [Next]_vars => ReplyInv' /\ ClipsInv'
    BY ReplyStep DEF AnswersInv
<1>. QED BY <1>1, <1>2, AnswersInvariantHolds, PTL DEF Spec

(* Every reply, whatever text the model may write and whatever the limit,  *)
(* is one /voice/synthesize accepts and speaks as it stands.               *)
THEOREM RepliesFit == Spec => []SpokenReplyFits
<1>1. ReplyInv => SpokenReplyFits
    <2>. SUFFICES ASSUME ReplyInv PROVE SpokenReplyFits
        OBVIOUS
    <2>1. Strip(turn.reply) = turn.reply
        BY TrimmedIsStripped DEF ReplyInv, Text
    <2>. QED BY <2>1, CutsAreWell DEF ReplyInv, SpokenReplyFits
<1>. QED BY <1>1, RepliesHold, PTL

(* A URL plays the reply in the narrator's voice, whichever visitors' clips *)
(* came before it, whatever expired, for any personas and voices.          *)
THEOREM UrlsPlayReplies == Spec => []UrlPlaysReply
<1>1. ReplyInv /\ ClipsInv => UrlPlaysReply
    <2>. SUFFICES ASSUME ReplyInv, ClipsInv, turn.phase = "voiced", turn.url \in DOMAIN clips
                  PROVE  clips[turn.url] = Clip(turn.persona, turn.reply)
        BY DEF UrlPlaysReply
    <2>1. turn.url = <<Voices[turn.persona], turn.reply>>
        BY DEF ReplyInv, CacheKey
    <2>. QED BY <2>1 DEF ClipsInv, Clip
<1>. QED BY <1>1, RepliesHold, PTL

-------------------------------------------------------------------------------
(* Search quotas (retrieval.py:31): rows are walked in the order of their  *)
(* distance, so what passes is told by how many came before.               *)
-------------------------------------------------------------------------------
(* Positions are counted one by one, so that some count is every number    *)
(* up to the last.                                                         *)
Among(S, m) == {j \in 1..m : j \in S}

LEMMA CountsEach ==
    ASSUME NEW S, NEW i \in Nat, NEW M \in Nat, M <= Cardinality(Among(S, i))
    PROVE  \E m \in 0..i : Cardinality(Among(S, m)) = M
<1>. USE DEF Among
<1>. DEFINE upTo(k) == Among(S, k)
            T == {x \in 1..(i + 1) : Cardinality(upTo(x - 1)) <= M}
<1>1. ASSUME NEW m \in Nat
      PROVE  IsFiniteSet(upTo(m)) /\ Cardinality(upTo(m)) \in Nat
    <2>1. IsFiniteSet(1..m) /\ upTo(m) \in SUBSET (1..m)
        BY FS_Interval
    <2>2. IsFiniteSet(upTo(m))
        BY <2>1, FS_Subset
    <2>. QED BY <2>2, FS_CardinalityType
<1>0. upTo(i) = Among(S, i)
    OBVIOUS
<1>2. 1 \in T
    <2>1. upTo(0) = {}
        OBVIOUS
    <2>2. Cardinality(upTo(0)) = 0
        BY <2>1, FS_EmptySet
    <2>. QED BY <2>2
<1>3. Max(T) \in T /\ \A x \in T : x <= Max(T)
    <2>1. T \subseteq 1..(i + 1) /\ i + 1 \in Nat
        OBVIOUS
    <2>. HIDE DEF T
    <2>. QED BY <1>2, <2>1, GreatestMember
<1>. DEFINE g == Max(T)
            m == g - 1
<1>4. g \in 1..(i + 1) /\ Cardinality(upTo(m)) <= M /\ \A x \in T : x <= g
    BY <1>3
<1>. HIDE DEF g
<1>5. m \in 0..i /\ m \in Nat
    BY <1>4
<1>6. CASE m = i
    <2>1. Cardinality(upTo(i)) <= M /\ M <= Cardinality(upTo(i)) /\ Cardinality(upTo(i)) \in Nat
        BY <1>0, <1>1, <1>4, <1>6
    <2>. DEFINE c == Cardinality(upTo(i))
    <2>. HIDE DEF c, upTo
    <2>2. c = M
        BY <2>1 DEF c
    <2>3. Cardinality(upTo(i)) = M
        BY <2>2 DEF c
    <2>. QED BY <2>3 DEF upTo
<1>7. CASE m # i
    <2>1. m + 1 \in 0..i /\ m + 1 \in Nat /\ (m + 1) + 1 \in 1..(i + 1) /\ ((m + 1) + 1) - 1 = m + 1
        BY <1>5, <1>7
    <2>2. ~ (Cardinality(upTo(m + 1)) <= M)
        <3>1. (m + 1) + 1 \notin T
            BY <1>4, <1>5, <2>1
        <3>. QED BY <2>1, <3>1
    <2>4. upTo(m + 1) \subseteq upTo(m) \cup {m + 1}
        BY <1>5
    <2>10. IsFiniteSet(upTo(m)) /\ Cardinality(upTo(m)) \in Nat
        BY <1>1, <1>5
    <2>11. ASSUME NEW U, NEW x, IsFiniteSet(U), Cardinality(U) \in Nat
           PROVE  IsFiniteSet(U \cup {x}) /\ Cardinality(U \cup {x}) <= Cardinality(U) + 1
        BY <2>11, FS_AddElement
    <2>3. IsFiniteSet(upTo(m) \cup {m + 1})
          /\ Cardinality(upTo(m) \cup {m + 1}) <= Cardinality(upTo(m)) + 1
        <3>. HIDE DEF upTo, m
        <3>. QED BY <2>10, <2>11
    <2>. HIDE DEF upTo, T, m
    <2>5. Cardinality(upTo(m + 1)) <= Cardinality(upTo(m) \cup {m + 1})
        BY <2>3, <2>4, FS_Subset
    <2>6. Cardinality(upTo(m)) \in Nat /\ Cardinality(upTo(m + 1)) \in Nat
        BY <1>1, <1>5, <2>1
    <2>. DEFINE c == Cardinality(upTo(m))
                d == Cardinality(upTo(m + 1))
                e == Cardinality(upTo(m) \cup {m + 1})
    <2>7. c \in Nat /\ d \in Nat /\ c <= M /\ ~(d <= M) /\ d <= e /\ e <= c + 1 /\ e \in Int
        BY <1>4, <2>2, <2>3, <2>5, <2>6, FS_CardinalityType
    <2>. HIDE DEF c, d, e
    <2>8. c = M
        BY <2>7
    <2>9. Cardinality(upTo(m)) = M
        BY <2>8 DEF c
    <2>. QED BY <1>5, <2>9 DEF upTo
<1>. QED BY <1>6, <1>7

-------------------------------------------------------------------------------
(* The quota lets the first MaxHoldings of the holdings pass, and those    *)
(* only.                                                                   *)
LEMMA QuotaHolds ==
    ASSUME NEW kept, IsFiniteSet(kept), NEW ranking \in Ordered(kept)
    PROVE  Cardinality({r \in WithinQuota(ranking) : HoldingsOnly(r)}) <= MaxHoldings
<1>. DEFINE size == Cardinality(kept)
            H == {j \in 1..size : HoldingsOnly(ranking[j])}
            upTo(i) == {j \in 1..i : HoldingsOnly(ranking[j])}
            I == {i \in H : Cardinality(upTo(i)) <= MaxHoldings}
            f == [i \in I |-> ranking[i]]
            passed == {r \in WithinQuota(ranking) : HoldingsOnly(r)}
<1>1. size \in Nat /\ ranking \in [1..size -> kept] /\ MaxHoldings \in Nat
    BY OrderShows, RetrievalAssumption
<1>2. WithinQuota(ranking) = {ranking[i] : i \in {i \in 1..size :
            ~HoldingsOnly(ranking[i]) \/ Cardinality(upTo(i)) <= MaxHoldings}}
    BY <1>1 DEF WithinQuota
<1>. HIDE DEF size, upTo
<1>3. IsFiniteSet(1..size) /\ I \subseteq 1..size
    BY <1>1, FS_Interval
<1>4. IsFiniteSet(I)
    BY <1>3, FS_Subset
<1>5. passed = {f[i] : i \in I}
    BY <1>2
<1>6. f \in Surjection(I, passed)
    BY <1>5 DEF Surjection
<1>7. Cardinality(passed) <= Cardinality(I) /\ IsFiniteSet(passed)
    <2>. HIDE DEF I, f, passed
    <2>. QED BY <1>4, <1>6, FS_Surjection
<1>8. Cardinality(I) <= MaxHoldings
    <2>1. CASE I = {}
        <3>1. Cardinality(I) = 0
            <4>. HIDE DEF I
            <4>. QED BY <2>1, FS_EmptySet
        <3>. QED BY <1>1, <3>1
    <2>2. CASE I # {}
        <3>. DEFINE m == Max(I)
        <3>1. m \in I /\ \A i \in I : i <= m
            <4>. HIDE DEF I
            <4>. QED BY <1>1, <1>3, <2>2, GreatestMember
        <3>. HIDE DEF m
        <3>2. m \in Nat /\ Cardinality(upTo(m)) <= MaxHoldings
            BY <3>1
        <3>3. I \in SUBSET upTo(m)
            BY <1>3, <3>1, <3>2 DEF upTo
        <3>4. IsFiniteSet(upTo(m))
            <4>1. IsFiniteSet(1..m) /\ upTo(m) \in SUBSET (1..m)
                BY <3>2, FS_Interval DEF upTo
            <4>. QED BY <4>1, FS_Subset
        <3>5. Cardinality(I) <= Cardinality(upTo(m))
            BY <3>3, <3>4, FS_Subset
        <3>6. Cardinality(I) \in Nat /\ Cardinality(upTo(m)) \in Nat
            BY <1>4, <3>4, FS_CardinalityType
        <3>. DEFINE a == Cardinality(I)
                    b == Cardinality(upTo(m))
        <3>7. a \in Nat /\ b \in Nat /\ a <= b /\ b <= MaxHoldings
            BY <3>2, <3>5, <3>6
        <3>. HIDE DEF a, b
        <3>8. a <= MaxHoldings
            BY <1>1, <3>7
        <3>. QED BY <3>8 DEF a
    <2>. QED BY <2>1, <2>2
<1>9. Cardinality(passed) \in Nat /\ Cardinality(I) \in Nat
    BY <1>4, <1>7, FS_CardinalityType
<1>. DEFINE a == Cardinality(passed)
            b == Cardinality(I)
<1>10. a \in Nat /\ b \in Nat /\ a <= b /\ b <= MaxHoldings
    BY <1>7, <1>8, <1>9
<1>. HIDE DEF a, b
<1>11. a <= MaxHoldings
    BY <1>1, <1>10
<1>. QED BY <1>11 DEF a, passed

LEMMA QuotaFull ==
    ASSUME NEW kept, IsFiniteSet(kept), \A r \in kept : r.distance \in Nat,
           NEW ranking \in Ordered(kept),
           NEW s \in kept, s \notin WithinQuota(ranking)
    PROVE  /\ HoldingsOnly(s)
           /\ \E Q \in SUBSET WithinQuota(ranking) :
                 /\ IsFiniteSet(Q) /\ Cardinality(Q) = MaxHoldings
                 /\ \A q \in Q : HoldingsOnly(q) /\ q.distance <= s.distance
<1>. DEFINE size == Cardinality(kept)
            S == {j \in 1..size : HoldingsOnly(ranking[j])}
            upTo(k) == {j \in 1..k : HoldingsOnly(ranking[j])}
            upToIn(k) == Among(S, k)
<1>1. /\ size \in Nat /\ ranking \in [1..size -> kept]
      /\ \A i, j \in 1..size : ranking[i] = ranking[j] => i = j
      /\ \A r \in kept : \E i \in 1..size : ranking[i] = r
      /\ \A i, j \in 1..size : i < j => ranking[i].distance <= ranking[j].distance
      /\ MaxHoldings \in Nat
    BY OrderShows, RetrievalAssumption
<1>2. WithinQuota(ranking) = {ranking[i] : i \in {i \in 1..size :
            ~HoldingsOnly(ranking[i]) \/ Cardinality(upTo(i)) <= MaxHoldings}}
    BY <1>1 DEF WithinQuota
<1>3. PICK i \in 1..size : ranking[i] = s
    BY <1>1
<1>. HIDE DEF size
<1>4. HoldingsOnly(s) /\ ~(Cardinality(upTo(i)) <= MaxHoldings)
    BY <1>2, <1>3
<1>5. \A k \in 1..size : upTo(k) = upToIn(k)
    BY <1>1 DEF Among
<1>6. \A k \in Nat : IsFiniteSet(upToIn(k)) /\ Cardinality(upToIn(k)) \in Nat
    <2>. SUFFICES ASSUME NEW k \in Nat
                  PROVE  IsFiniteSet(upToIn(k)) /\ Cardinality(upToIn(k)) \in Nat
        OBVIOUS
    <2>1. IsFiniteSet(1..k) /\ upToIn(k) \in SUBSET (1..k)
        BY FS_Interval DEF Among
    <2>2. IsFiniteSet(upToIn(k))
        BY <2>1, FS_Subset
    <2>. QED BY <2>2, FS_CardinalityType
<1>7. i \in Nat /\ MaxHoldings <= Cardinality(upToIn(i))
    <2>1. i \in Nat /\ upTo(i) = upToIn(i)
        BY <1>1, <1>5
    <2>. DEFINE c == Cardinality(upToIn(i))
    <2>2. c \in Nat /\ ~(c <= MaxHoldings)
        BY <1>4, <1>6, <2>1
    <2>. HIDE DEF c
    <2>3. MaxHoldings <= c
        BY <1>1, <2>2
    <2>. QED BY <2>1, <2>3 DEF c
<1>8. PICK m \in 0..i : Cardinality(upToIn(m)) = MaxHoldings
    <2>. HIDE DEF S
    <2>. QED BY <1>1, <1>7, CountsEach
<1>. DEFINE J == upToIn(m)
            f == [j \in J |-> ranking[j]]
            Q == {ranking[j] : j \in J}
<1>9. J \subseteq 1..size /\ \A j \in J : HoldingsOnly(ranking[j]) /\ j <= i /\ upTo(j) \subseteq J
    BY <1>1, <1>3, <1>8 DEF Among
<1>10. IsFiniteSet(J) /\ Cardinality(J) = MaxHoldings
    BY <1>6, <1>7, <1>8
<1>. HIDE DEF J, upToIn, S
<1>11. f \in Surjection(J, Q) /\ f \in Injection(J, Q)
    BY <1>1, <1>9 DEF Surjection, Injection, IsInjective
<1>12. IsFiniteSet(Q) /\ Cardinality(Q) = MaxHoldings
    <2>. HIDE DEF f, Q
    <2>. QED BY <1>10, <1>11, FS_Surjection
<1>13. ASSUME NEW j \in J
       PROVE  ranking[j] \in WithinQuota(ranking) /\ HoldingsOnly(ranking[j])
              /\ ranking[j].distance <= s.distance
    <2>1. Cardinality(upTo(j)) <= Cardinality(J)
        <3>1. upTo(j) \in SUBSET J
            BY <1>9
        <3>. HIDE DEF upTo
        <3>. QED BY <1>10, <3>1, FS_Subset
    <2>2. Cardinality(upTo(j)) <= MaxHoldings
        BY <1>10, <2>1
    <2>3. ranking[j].distance <= s.distance
        <3>1. j \in 1..size /\ j <= i /\ s.distance \in Nat
            BY <1>9
        <3>2. CASE j = i
            BY <1>3, <3>1, <3>2
        <3>3. CASE j # i
            <4>1. j < i
                BY <1>3, <3>1, <3>3
            <4>. QED BY <1>1, <1>3, <3>1, <4>1
        <3>. QED BY <3>2, <3>3
    <2>. HIDE DEF upTo
    <2>. QED BY <1>2, <1>9, <2>2, <2>3
<1>. QED BY <1>4, <1>12, <1>13

(* What SearchIsFair states of the test rows, of any rows and result.      *)
Fair(rows, found) ==
    LET shown == ToSet(found)
        NearerThan(r, set) == {s \in set : s.distance <= r.distance}
    IN  /\ shown \subseteq rows /\ Len(found) <= TopK
        /\ \A i, j \in DOMAIN found : i < j => /\ found[i].distance <= found[j].distance
                                              /\ found[i].content # found[j].content
        /\ Cardinality({r \in shown : HoldingsOnly(r)}) <= MaxHoldings
        /\ \A r \in shown, s \in rows : s.content = r.content => r.distance <= s.distance
        /\ \A r \in rows : r.content \in {s.content : s \in shown}
            \/ Cardinality(NearerThan(r, shown)) >= TopK
            \/ \E s \in rows :
                  /\ s.content = r.content /\ s.distance <= r.distance /\ HoldingsOnly(s)
                  /\ Cardinality({q \in NearerThan(s, shown) : HoldingsOnly(q)}) >= MaxHoldings

(* A row that passed the quota is among the results, or these are TopK     *)
(* rows that are as near.                                                  *)
LEMMA ShownFirst ==
    ASSUME NEW passed, IsFiniteSet(passed), \A r \in passed : r.distance \in Nat,
           NEW order \in Ordered(passed), NEW n \in 0..Cardinality(passed),
           n = TopK \/ n = Cardinality(passed), NEW q \in passed, NEW r,
           r.distance \in Nat, q.distance <= r.distance
    PROVE  LET shown == {order[i] : i \in 1..n}
           IN  \/ q \in shown
               \/ Cardinality({s \in shown : s.distance <= r.distance}) = TopK
<1>. DEFINE size == Cardinality(passed)
            shown == {order[i] : i \in 1..n}
            near == {s \in shown : s.distance <= r.distance}
            f == [i \in 1..n |-> order[i]]
<1>1. /\ size \in Nat /\ order \in [1..size -> passed]
      /\ \A i, j \in 1..size : order[i] = order[j] => i = j
      /\ \A i, j \in 1..size : i < j => order[i].distance <= order[j].distance
    BY OrderShows
<1>2. PICK k \in 1..size : order[k] = q
    BY OrderShows
<1>3. n \in Nat /\ n <= size /\ (n = TopK \/ n = size)
    BY <1>1
<1>. HIDE DEF size
<1>4. CASE k <= n
    BY <1>2, <1>4, <1>3, <1>1
<1>5. CASE ~(k <= n)
    <2>1. n = TopK /\ n < k
        BY <1>1, <1>2, <1>3, <1>5
    <2>2. ASSUME NEW i \in 1..n PROVE order[i].distance <= r.distance
        <3>1. i \in 1..size /\ i < k
            BY <1>1, <1>2, <2>1
        <3>2. order[i].distance <= q.distance /\ order[i].distance \in Nat /\ q.distance \in Nat
            BY <1>1, <1>2, <3>1
        <3>. QED BY <3>2
    <2>3. near = shown
        BY <2>2
    <2>4. f \in Surjection(1..n, shown) /\ f \in Injection(1..n, shown)
        BY <1>1, <1>3 DEF Surjection, Injection, IsInjective
    <2>5. IsFiniteSet(1..n) /\ Cardinality(1..n) = n
        <3>1. n \in Nat
            BY <1>3
        <3>. QED BY <3>1, FS_Interval
    <2>6. Cardinality(shown) = n
        <3>. HIDE DEF f, shown
        <3>. QED BY <2>4, <2>5, FS_Surjection
    <2>. HIDE DEF near, shown
    <2>. QED BY <2>1, <2>3, <2>6 DEF near, shown
<1>. QED BY <1>4, <1>5

(* Every search is fair, whatever rows there are and however their         *)
(* distances and the database order them: the query shows no text twice,   *)
(* keeps the quota of holdings and drops nothing else (retrieval.py:43).   *)
THEOREM SearchesAreFair ==
    ASSUME NEW rows, IsFiniteSet(rows), \A r \in rows : r.distance \in Nat,
           NEW found \in Results(rows)
    PROVE  Fair(rows, found)
<1>1. PICK kept \in Deduplicated(rows) : \E ranking \in Ordered(kept) :
          \E order \in Ordered(WithinQuota(ranking)) : \E n \in 0..Cardinality(WithinQuota(ranking)) :
              /\ IsFiniteSet(kept) /\ kept \subseteq rows
              /\ IsFiniteSet(WithinQuota(ranking)) /\ WithinQuota(ranking) \subseteq kept
              /\ n <= TopK /\ (n = TopK \/ n = Cardinality(WithinQuota(ranking)))
              /\ found = [i \in 1..n |-> order[i]]
    BY ResultOrder
<1>2. PICK ranking \in Ordered(kept) :
          \E order \in Ordered(WithinQuota(ranking)) : \E n \in 0..Cardinality(WithinQuota(ranking)) :
              /\ IsFiniteSet(kept) /\ kept \subseteq rows
              /\ IsFiniteSet(WithinQuota(ranking)) /\ WithinQuota(ranking) \subseteq kept
              /\ n <= TopK /\ (n = TopK \/ n = Cardinality(WithinQuota(ranking)))
              /\ found = [i \in 1..n |-> order[i]]
    BY <1>1
<1>. DEFINE passed == WithinQuota(ranking)
            size == Cardinality(passed)
<1>3. PICK order \in Ordered(passed), n \in 0..size :
              /\ IsFiniteSet(kept) /\ kept \subseteq rows
              /\ IsFiniteSet(passed) /\ passed \subseteq kept
              /\ n <= TopK /\ (n = TopK \/ n = size)
              /\ found = [i \in 1..n |-> order[i]]
    BY <1>2
<1>4. /\ \A r, s \in kept : r.content = s.content => r = s
      /\ \A r \in rows : \E s \in kept : s.content = r.content /\ s.distance <= r.distance
    BY DEF Deduplicated
<1>. DEFINE shown == {order[i] : i \in 1..n}
            near(r) == {s \in shown : s.distance <= r.distance}
<1>5. Cardinality({r \in passed : HoldingsOnly(r)}) <= MaxHoldings
    BY <1>3, QuotaHolds
<1>6. \A s \in kept : s \notin passed =>
           /\ HoldingsOnly(s)
           /\ \E Q \in SUBSET passed :
                 /\ IsFiniteSet(Q) /\ Cardinality(Q) = MaxHoldings
                 /\ \A q \in Q : HoldingsOnly(q) /\ q.distance <= s.distance
    BY <1>3, QuotaFull
<1>. HIDE DEF passed
<1>7. /\ size \in Nat /\ order \in [1..size -> passed]
      /\ \A i, j \in 1..size : order[i] = order[j] => i = j
      /\ \A i, j \in 1..size : i < j => order[i].distance <= order[j].distance
    BY <1>3, OrderShows
<1>8. \A q \in passed, r \in rows : q.distance <= r.distance =>
          q \in shown \/ Cardinality(near(r)) = TopK
    <2>. SUFFICES ASSUME NEW q \in passed, NEW r \in rows, q.distance <= r.distance
                  PROVE  q \in shown \/ Cardinality(near(r)) = TopK
        OBVIOUS
    <2>1. \A s \in passed : s.distance \in Nat
        BY <1>3
    <2>. QED BY <1>3, <2>1, ShownFirst
<1>. HIDE DEF size
<1>9. n \in Nat /\ n <= size /\ DOMAIN found = 1..n /\ Len(found) = n /\ ToSet(found) = shown
    <2>1. n \in Nat /\ n <= size
        BY <1>7
    <2>2. found = [i \in 1..n |-> order[i]]
        BY <1>3
    <2>3. DOMAIN found = 1..n /\ Len(found) = n
        BY <2>1, <2>2
    <2>. QED BY <2>1, <2>2, <2>3 DEF ToSet
<1>10. shown \subseteq passed /\ shown \subseteq kept /\ shown \subseteq rows
    BY <1>3, <1>7, <1>9
<1>11. \A i, j \in 1..n : i < j => /\ found[i].distance <= found[j].distance
                                   /\ found[i].content # found[j].content
    <2>. SUFFICES ASSUME NEW i \in 1..n, NEW j \in 1..n, i < j
                  PROVE  /\ found[i].distance <= found[j].distance
                         /\ found[i].content # found[j].content
        OBVIOUS
    <2>1. found[i] = order[i] /\ found[j] = order[j] /\ i \in 1..size /\ j \in 1..size
        BY <1>3, <1>7, <1>9
    <2>2. order[i] # order[j] /\ order[i] \in kept /\ order[j] \in kept
        BY <1>3, <1>7, <2>1
    <2>. QED BY <1>4, <1>7, <2>1, <2>2
<1>12. IsFiniteSet(shown)
    BY <1>3, <1>10, FS_Subset
<1>13. Cardinality({r \in shown : HoldingsOnly(r)}) <= MaxHoldings
    <2>. DEFINE all == {r \in passed : HoldingsOnly(r)}
                some == {r \in shown : HoldingsOnly(r)}
    <2>1. some \in SUBSET all /\ all \in SUBSET passed
        BY <1>10
    <2>. HIDE DEF shown
    <2>2. IsFiniteSet(all)
        BY <1>3, <2>1, FS_Subset
    <2>. HIDE DEF all, some
    <2>3. Cardinality(some) <= Cardinality(all) /\ IsFiniteSet(some)
        BY <2>1, <2>2, FS_Subset
    <2>4. Cardinality(some) \in Nat /\ Cardinality(all) \in Nat /\ MaxHoldings \in Nat
          /\ Cardinality(all) <= MaxHoldings
        BY <1>5, <2>2, <2>3, FS_CardinalityType, RetrievalAssumption DEF all
    <2>. DEFINE a == Cardinality(some)
                b == Cardinality(all)
    <2>5. a \in Nat /\ b \in Nat /\ a <= b /\ b <= MaxHoldings /\ MaxHoldings \in Nat
        BY <2>3, <2>4
    <2>. HIDE DEF a, b
    <2>6. a <= MaxHoldings
        BY <2>5
    <2>. QED BY <2>6 DEF a, some
<1>14. ASSUME NEW r \in shown, NEW s \in rows, s.content = r.content
       PROVE  r.distance <= s.distance
    <2>1. PICK t \in kept : t.content = s.content /\ t.distance <= s.distance
        BY <1>4
    <2>2. t = r
        BY <1>4, <1>10, <1>14, <2>1
    <2>. QED BY <2>1, <2>2
<1>15. ASSUME NEW r \in rows
       PROVE  \/ r.content \in {s.content : s \in shown}
              \/ Cardinality(near(r)) >= TopK
              \/ \E s \in rows :
                    /\ s.content = r.content /\ s.distance <= r.distance /\ HoldingsOnly(s)
                    /\ Cardinality({q \in near(s) : HoldingsOnly(q)}) >= MaxHoldings
    <2>0. TopK \in Nat /\ MaxHoldings \in Nat
        BY RetrievalAssumption
    <2>1. PICK s \in kept : s.content = r.content /\ s.distance <= r.distance
        BY <1>4
    <2>2. s \in rows /\ s.distance \in Nat /\ r.distance \in Nat
        BY <1>3
    <2>3. CASE s \in passed
        <3>1. s \in shown \/ Cardinality(near(r)) = TopK
            BY <1>8, <2>1, <2>3
        <3>. HIDE DEF shown, near
        <3>. QED BY <2>0, <2>1, <3>1
    <2>4. CASE s \notin passed
        <3>1. HoldingsOnly(s)
            BY <1>6, <2>4
        <3>2. PICK Q \in SUBSET passed :
                 /\ IsFiniteSet(Q) /\ Cardinality(Q) = MaxHoldings
                 /\ \A q \in Q : HoldingsOnly(q) /\ q.distance <= s.distance
            BY <1>6, <2>4
        <3>. DEFINE held == {q \in near(s) : HoldingsOnly(q)}
        <3>3. CASE Q \subseteq shown
            <4>1. Q \in SUBSET held /\ held \in SUBSET shown
                BY <3>2, <3>3
            <4>. HIDE DEF held, shown
            <4>2. IsFiniteSet(held)
                BY <1>12, <4>1, FS_Subset
            <4>3. Cardinality(Q) <= Cardinality(held) /\ Cardinality(held) \in Nat
                BY <4>1, <4>2, FS_Subset, FS_CardinalityType
            <4>. DEFINE c == Cardinality(held)
            <4>4. c \in Nat /\ MaxHoldings <= c
                BY <3>2, <4>3
            <4>. HIDE DEF c
            <4>5. c >= MaxHoldings
                BY <2>0, <4>4
            <4>6. Cardinality(held) >= MaxHoldings
                BY <4>5 DEF c
            <4>. QED BY <2>1, <2>2, <3>1, <4>6 DEF held
        <3>4. CASE ~(Q \subseteq shown)
            <4>1. PICK q \in Q : q \notin shown
                BY <3>4
            <4>2. q \in passed /\ q.distance <= r.distance
                <5>1. q \in passed /\ q \in rows /\ q.distance <= s.distance
                    BY <1>3, <3>2
                <5>2. q.distance \in Nat
                    BY <5>1
                <5>. QED BY <2>1, <2>2, <5>1, <5>2
            <4>3. Cardinality(near(r)) = TopK
                BY <1>8, <4>1, <4>2
            <4>. HIDE DEF near
            <4>. QED BY <2>0, <4>3
        <3>. QED BY <3>3, <3>4
    <2>. QED BY <2>3, <2>4
<1>16. Len(found) <= TopK
    BY <1>3, <1>9
<1>. HIDE DEF shown
<1>17. \A i, j \in DOMAIN found : i < j => /\ found[i].distance <= found[j].distance
                                           /\ found[i].content # found[j].content
    BY <1>9, <1>11
<1>. QED BY <1>9, <1>10, <1>13, <1>14, <1>15, <1>16, <1>17 DEF Fair

LEMMA TestRowsAreFinite == IsFiniteSet(TestRows)
<1>. DEFINE texts == {"a", "b", "c"}
            titles == {"a", "b", "record"}
            triples == (texts \X titles) \X (1..2)
            f == [t \in triples |-> [content |-> t[1][1], title |-> t[1][2], distance |-> t[2]]]
<1>1. IsFiniteSet({"a"} \cup {"b"} \cup {"c"}) /\ IsFiniteSet({"a"} \cup {"b"} \cup {"record"})
    BY FS_Singleton, FS_Union
<1>2. texts = {"a"} \cup {"b"} \cup {"c"} /\ titles = {"a"} \cup {"b"} \cup {"record"}
    OBVIOUS
<1>3. IsFiniteSet(1..2)
    <2>. 1 \in Int /\ 2 \in Int
        OBVIOUS
    <2>. HIDE DEF texts, titles, triples, f
    <2>. QED BY FS_Interval
<1>. HIDE DEF texts, titles
<1>4. IsFiniteSet(texts) /\ IsFiniteSet(titles)
    BY <1>1, <1>2
<1>5. IsFiniteSet(texts \X titles)
    BY <1>4, FS_Product
<1>6. IsFiniteSet(triples)
    BY <1>3, <1>5, FS_Product
<1>7. TestRows \subseteq {f[t] : t \in triples}
    <2>. SUFFICES ASSUME NEW r \in TestRows PROVE \E t \in triples : r = f[t]
        OBVIOUS
    <2>1. r = [content |-> r.content, title |-> r.title, distance |-> r.distance]
          /\ r.content \in texts /\ r.title \in titles /\ r.distance \in 1..2
        BY DEF TestRows, texts, titles
    <2>2. << <<r.content, r.title>>, r.distance>> \in triples
        BY <2>1
    <2>. QED BY <2>1, <2>2
<1>. HIDE DEF f, triples
<1>8. IsFiniteSet({f[t] : t \in triples})
    BY <1>6, ImageIsFinite
<1>. QED BY <1>7, <1>8, FS_Subset

LEMMA TestSearchesAreFair == SearchIsFair
<1>1. ASSUME NEW rows \in UNION {kSubset(n, TestRows) : n \in 0..3}, NEW found \in Results(rows)
      PROVE  Fair(rows, found)
    <2>1. rows \in SUBSET TestRows
        BY DEF kSubset
    <2>2. IsFiniteSet(rows)
        BY <2>1, TestRowsAreFinite, FS_Subset
    <2>3. \A r \in rows : r.distance \in Nat
        BY <2>1 DEF TestRows
    <2>. QED BY <2>2, <2>3, SearchesAreFair
<1>. QED BY <1>1 DEF SearchIsFair, Fair

(* What was found is in the corpus, which loses no document, and is no     *)
(* more than was asked for.                                                *)
FoundInv ==
    /\ turn.found \subseteq DOMAIN corpus
    /\ IsFiniteSet(turn.found) /\ Cardinality(turn.found) <= TopK

LEMMA CorpusGrows ==
    ASSUME LandingNext \/ UNCHANGED landing
    PROVE  DOMAIN corpus \subseteq DOMAIN corpus'
<1>1. ASSUME NEW saying, NEW docs, NEW names, Upsert(saying, docs, names)
      PROVE  DOMAIN corpus \subseteq DOMAIN corpus'
    BY <1>1 DEF Upsert
<1>2. ASSUME NEW failing, IngestCatalogue(failing) \/ IngestManifest(failing)
      PROVE  DOMAIN corpus \subseteq DOMAIN corpus'
    BY <1>1, <1>2 DEF IngestCatalogue, IngestManifest
<1>3. ASSUME NEW x, Edit(x) PROVE corpus' = corpus
    BY <1>3 DEF Edit
<1>4. ASSUME NEW name, Block(name) PROVE corpus' = corpus
    BY <1>4 DEF Block
<1>. QED BY <1>2, <1>3, <1>4 DEF LandingNext, landing

LEMMA SearchFindsFew ==
    ASSUME LandingInv, TurnShape, Search
    PROVE  FoundInv'
<1>. DEFINE row(c, near) == [document |-> c.document, content |-> c.content, title |-> c.title,
                             index |-> c.index, distance |-> near[c]]
            rowsOf(near) == {row(c, near) : c \in RetrievableChunks}
            found(rows) == {r.document : r \in ToSet(rows)}
            public(rows) == \A r \in ToSet(rows) : PublicRecord(r.document)
<1>1. PICK near \in [RetrievableChunks -> Distances] : \E rows \in Results(rowsOf(near)) :
          turn' = [turn EXCEPT !.phase = "found", !.found = found(rows), !.public = public(rows)]
    BY DEF Search
<1>2. PICK rows \in Results(rowsOf(near)) :
          turn' = [turn EXCEPT !.phase = "found", !.found = found(rows), !.public = public(rows)]
    BY <1>1
<1>3. IsFiniteSet(rowsOf(near))
    <2>. DEFINE f == [c \in RetrievableChunks |-> row(c, near)]
    <2>1. rowsOf(near) = {f[c] : c \in RetrievableChunks}
        OBVIOUS
    <2>. HIDE DEF f
    <2>. QED BY <2>1, ChunksAreFinite, ImageIsFinite
<1>4. \A r \in rowsOf(near) : r.distance \in Nat /\ r.document \in DOMAIN corpus
    <2>. SUFFICES ASSUME NEW c \in RetrievableChunks
                  PROVE  near[c] \in Nat /\ c.document \in DOMAIN corpus
        OBVIOUS
    <2>1. near[c] \in Distances /\ Distances \subseteq Nat
        BY AnswersAssumption
    <2>2. c.document \in DOMAIN corpus
        BY DEF RetrievableChunks
    <2>. QED BY <2>1, <2>2
<1>. HIDE DEF rowsOf
<1>5. Fair(rowsOf(near), rows)
    BY <1>2, <1>3, <1>4, SearchesAreFair
<1>6. ToSet(rows) \subseteq rowsOf(near) /\ Len(rows) <= TopK
    BY <1>5 DEF Fair
<1>7. found(rows) \subseteq DOMAIN corpus
    BY <1>4, <1>6
<1>8. DOMAIN rows = 1..Len(rows) /\ Len(rows) \in Nat
    <2>1. \E n \in Nat : \E order : rows = [i \in 1..n |-> order[i]]
        <3>1. PICK ranking, order : \E n \in 0..Cardinality(WithinQuota(ranking)) :
                  /\ IsFiniteSet(WithinQuota(ranking))
                  /\ rows = [i \in 1..n |-> order[i]]
            BY <1>2, <1>3, ResultOrder
        <3>2. PICK n \in 0..Cardinality(WithinQuota(ranking)) :
                  /\ IsFiniteSet(WithinQuota(ranking))
                  /\ rows = [i \in 1..n |-> order[i]]
            BY <3>1
        <3>3. n \in Nat
            BY <3>2, FS_CardinalityType
        <3>. QED BY <3>2, <3>3
    <2>. QED BY <2>1
<1>9. IsFiniteSet(found(rows)) /\ Cardinality(found(rows)) <= Len(rows)
    <2>. DEFINE size == Len(rows)
                g == [i \in 1..size |-> rows[i].document]
                S == found(rows)
    <2>. HIDE DEF size
    <2>1. g \in Surjection(1..size, S)
        BY <1>8 DEF Surjection, ToSet, size
    <2>2. size \in Nat
        BY <1>8 DEF size
    <2>3. ExistsSurjection(1..size, S)
        BY <2>1 DEF ExistsSurjection
    <2>. HIDE DEF g, S
    <2>4. Cardinality(S) <= size
        BY <2>2, <2>3, FS_SurjCardinalityBound
    <2>5. IsFiniteSet(1..size)
        BY <2>2, FS_Interval
    <2>6. IsFiniteSet(S)
        BY <2>1, <2>5, FS_Surjection
    <2>. QED BY <2>4, <2>6 DEF S, size
<1>10. Cardinality(found(rows)) <= TopK
    <2>. DEFINE a == Cardinality(found(rows))
                b == Len(rows)
    <2>1. a \in Nat /\ b \in Nat /\ TopK \in Nat /\ a <= b /\ b <= TopK
        BY <1>6, <1>8, <1>9, FS_CardinalityType, RetrievalAssumption
    <2>. HIDE DEF a, b
    <2>2. a <= TopK
        BY <2>1
    <2>. QED BY <2>2 DEF a
<1>. HIDE DEF found, public
<1>11. turn'.found = found(rows)
    BY <1>2 DEF TurnShape
<1>12. corpus' = corpus
    BY DEF Search, landing
<1>. QED BY <1>7, <1>9, <1>10, <1>11, <1>12 DEF FoundInv

-------------------------------------------------------------------------------
(* What the model wrote and the graph let pass.                            *)
LEMMA FoundStep ==
    ASSUME AnswersInv, FoundInv, Next \/ UNCHANGED vars
    PROVE  FoundInv'
<1>0. Idle = [phase |-> "idle", persona |-> None, path |-> None, tries |-> 0,
              found |-> {}, public |-> TRUE, mode |-> None, reply |-> <<>>, cites |-> {},
              url |-> <<>>]
    BY DEF Idle
<1>1. CASE turn'.found = turn.found
    <2>1. DOMAIN corpus \subseteq DOMAIN corpus'
        BY CorpusStep, CorpusGrows
    <2>. QED BY <1>1, <2>1 DEF FoundInv
<1>2. CASE turn'.found = {}
    BY <1>2, FS_EmptySet, RetrievalAssumption DEF FoundInv
<1>3. CASE Search
    BY <1>3, SearchFindsFew DEF AnswersInv
<1>4. ASSUME NEW output, ModelAnswers(output) PROVE turn'.found = turn.found
    <2>. DEFINE reply == TruncateResponse(Strip(output.response), MaxLength)
    <2>1. turn' = [turn EXCEPT !.phase = "answered", !.tries = 0, !.mode = output.mode,
                               !.reply = reply, !.cites = output.used]
        BY <1>4 DEF ModelAnswers
    <2>. HIDE DEF reply
    <2>. QED BY <2>1 DEF AnswersInv, TurnShape
<1>5. CASE MemoryFails \/ Show \/ Close
    <2>1. CASE MemoryFails
        BY <1>0, <1>2, <2>1 DEF MemoryFails
    <2>2. CASE Show
        BY <1>0, <1>2, <2>2 DEF Show
    <2>3. CASE Close
        BY <1>0, <1>2, <2>3 DEF Close
    <2>. QED BY <1>5, <2>1, <2>2, <2>3
<1>6. CASE Remember \/ PostAgain \/ SearchFails \/ ModelFails \/ CacheMiss \/ VoiceFails
    <2>1. turn'.found = turn.found
        BY <1>6 DEF Remember, PostAgain, SearchFails, ModelFails, CacheMiss, VoiceFails,
                    AnswersInv, TurnShape
    <2>. QED BY <1>1, <2>1
<1>7. CASE CacheHit \/ Synthesize
    <2>1. turn'.found = turn.found
        BY <1>7 DEF CacheHit, Synthesize, AnswersInv, TurnShape
    <2>. QED BY <1>1, <2>1
<1>8. ASSUME NEW persona, NEW scene, Ask(persona, scene) PROVE turn'.found = {}
    <2>. DEFINE resolved == ResolvePersona(persona, scene)
                phase == IF resolved \in Personas THEN "posted" ELSE "refused"
    <2>1. turn' = [Idle EXCEPT !.phase = phase, !.persona = resolved]
        BY <1>8 DEF Ask
    <2>. HIDE DEF resolved, phase
    <2>. QED BY <1>0, <2>1
<1>9. ASSUME NEW persona, NEW draft, VoiceOther(persona, draft) PROVE turn' = turn
    BY <1>9 DEF VoiceOther
<1>10. ASSUME NEW key, Expire(key) PROVE turn' = turn
    BY <1>10 DEF Expire
<1>. QED BY <1>1, <1>2, <1>3, <1>4, <1>5, <1>6, <1>7, <1>8, <1>9, <1>10
         DEF Next, Proceed, vars, answering

GradedInv ==
    turn.phase = "answered" =>
        /\ turn.mode = "grounded" <=> turn.cites # {}
        /\ ToSet(turn.reply) \cap Forbidden = {}

(* A cut shows no marker that was not there before.                        *)
LEMMA CutsAddNothing ==
    ASSUME NEW draft \in Text, Strip(draft) # <<>>
    PROVE  ToSet(TruncateResponse(Strip(draft), MaxLength)) \subseteq ToSet(Strip(draft))
<1>. DEFINE text == Strip(draft)
            reply == TruncateResponse(text, MaxLength)
<1>1. text \in Seq(STRING) /\ Trimmed(text) /\ text # <<>>
    BY StripTrims DEF Text
<1>2. MaxLength \in Nat \ {0}
    BY AnswersAssumption
<1>. HIDE DEF text
<1>3. \E z \in Nat : reply = SubSeq(text, 1, z) /\ Len(reply) = z /\ z <= Len(text)
    BY <1>1, <1>2, CutsLate
<1>. HIDE DEF reply
<1>4. PICK z \in Nat : reply = SubSeq(text, 1, z) /\ z <= Len(text)
    BY <1>3
<1>5. DOMAIN reply = 1..z /\ \A i \in 1..z : reply[i] = text[i] /\ i \in DOMAIN text
    BY <1>1, <1>4
<1>6. ToSet(reply) \subseteq ToSet(text)
    BY <1>5 DEF ToSet
<1>. QED BY <1>6 DEF reply, text

LEMMA GradedStep ==
    ASSUME TurnShape, GradedInv, Next \/ UNCHANGED vars
    PROVE  GradedInv'
<1>0. Idle = [phase |-> "idle", persona |-> None, path |-> None, tries |-> 0,
              found |-> {}, public |-> TRUE, mode |-> None, reply |-> <<>>, cites |-> {},
              url |-> <<>>]
    BY DEF Idle
<1>1. ASSUME NEW output \in Outputs(turn.found), ModelAnswers(output)
      PROVE  GradedInv'
    <2>. DEFINE text == Strip(output.response)
                reply == TruncateResponse(text, MaxLength)
    <2>1. output.response \in Text
        BY AnswersAssumption DEF Outputs
    <2>2. /\ Speakable(text)
          /\ output.mode = "grounded" <=> output.used # {}
        BY <1>1 DEF ModelAnswers, Valid
    <2>3. ToSet(reply) \cap Forbidden = {}
        BY <2>1, <2>2, CutsAddNothing DEF Speakable
    <2>4. turn' = [turn EXCEPT !.phase = "answered", !.tries = 0, !.mode = output.mode,
                               !.reply = reply, !.cites = output.used]
        BY <1>1 DEF ModelAnswers
    <2>. HIDE DEF reply, text
    <2>5. turn'.mode = output.mode /\ turn'.cites = output.used /\ turn'.reply = reply
        BY <2>4 DEF TurnShape
    <2>. QED BY <2>2, <2>3, <2>5 DEF GradedInv
<1>2. CASE MemoryFails \/ Close \/ Show
    <2>1. CASE MemoryFails
        BY <1>0, <2>1 DEF MemoryFails, GradedInv
    <2>2. CASE Show
        BY <1>0, <2>2 DEF Show, GradedInv
    <2>3. CASE Close
        BY <1>0, <2>3 DEF Close, GradedInv
    <2>. QED BY <1>2, <2>1, <2>2, <2>3
<1>3. CASE Remember \/ PostAgain \/ SearchFails \/ ModelFails \/ CacheMiss \/ VoiceFails
    <2>1. turn'.phase # "answered"
        BY <1>3 DEF Remember, PostAgain, SearchFails, ModelFails, CacheMiss, VoiceFails, TurnShape
    <2>. QED BY <2>1 DEF GradedInv
<1>4. CASE Search
    <2>1. PICK found, public :
              turn' = [turn EXCEPT !.phase = "found", !.found = found, !.public = public]
        BY <1>4 DEF Search
    <2>2. turn'.phase = "found"
        BY <2>1 DEF TurnShape
    <2>. QED BY <2>2 DEF GradedInv
<1>5. CASE CacheHit \/ Synthesize
    <2>1. turn' = [turn EXCEPT !.phase = "voiced", !.url = CacheKey(turn.persona, Spoken)]
        BY <1>5 DEF CacheHit, Synthesize
    <2>2. turn'.phase = "voiced"
        BY <2>1 DEF TurnShape
    <2>. QED BY <2>2 DEF GradedInv
<1>6. ASSUME NEW persona, NEW scene, Ask(persona, scene)
      PROVE  turn'.phase # "answered"
    <2>. DEFINE resolved == ResolvePersona(persona, scene)
                phase == IF resolved \in Personas THEN "posted" ELSE "refused"
    <2>1. turn' = [Idle EXCEPT !.phase = phase, !.persona = resolved]
        BY <1>6 DEF Ask
    <2>2. phase \in {"posted", "refused"}
        OBVIOUS
    <2>. HIDE DEF resolved, phase
    <2>. QED BY <1>0, <2>1, <2>2
<1>7. ASSUME NEW persona, NEW draft, VoiceOther(persona, draft) PROVE turn' = turn
    BY <1>7 DEF VoiceOther
<1>8. ASSUME NEW key, Expire(key) PROVE turn' = turn
    BY <1>8 DEF Expire
<1>9. CASE turn' = turn
    BY <1>9 DEF GradedInv
<1>10. CASE turn'.phase # "answered"
    BY <1>10 DEF GradedInv
<1>. QED BY <1>1, <1>2, <1>3, <1>4, <1>5, <1>6, <1>7, <1>8, <1>9, <1>10
         DEF Next, Proceed, vars, answering

LEMMA AnswersHold == Spec => [](AnswersInv /\ FoundInv /\ GradedInv)
<1>1. Init => FoundInv /\ GradedInv
    <2>. SUFFICES ASSUME Init PROVE FoundInv /\ GradedInv
        OBVIOUS
    <2>1. turn = Idle
        BY DEF Init
    <2>2. turn.phase = "idle" /\ turn.found = {}
        BY <2>1 DEF Idle
    <2>. QED BY <2>2, FS_EmptySet, RetrievalAssumption DEF FoundInv, GradedInv
<1>2. AnswersInv /\ FoundInv /\ GradedInv /\ [Next]_vars => FoundInv' /\ GradedInv'
    BY FoundStep, GradedStep DEF AnswersInv
<1>. QED BY <1>1, <1>2, AnswersInvariantHolds, PTL DEF Spec

(* Whatever rows the corpus comes to hold and however near they are, a     *)
(* search ends with at most TopK documents that are in the corpus, and is  *)
(* fair to prose (retrieval.py:31).                                        *)
THEOREM RetrievalStaysFair == Spec => []RetrievalIsFair
<1>1. FoundInv => RetrievalIsFair
    BY TestSearchesAreFair DEF FoundInv, RetrievalIsFair
<1>. QED BY <1>1, AnswersHold, PTL

(* Whatever the model writes, the offline evaluation finds nothing wrong   *)
(* with an answer that the graph let pass, but for the marker that only    *)
(* the evaluation knows (graph.py:37, groundedness.py:25).                 *)
THEOREM AnswersPass == Spec => []AnswersPassEvaluation
<1>1. AnswersInv /\ FoundInv /\ GradedInv /\ ReplyInv => AnswersPassEvaluation
    <2>. SUFFICES ASSUME AnswersInv, FoundInv, GradedInv, ReplyInv, turn.phase = "answered"
                  PROVE  Complaints(turn.mode, turn.reply, Cardinality(turn.cites)) =
                            (IF Contains(turn.reply, "source 1") THEN {"marker"} ELSE {})
        BY DEF AnswersPassEvaluation
    <2>1. IsFiniteSet(turn.cites)
        BY FS_Subset DEF AnswersInv, CitationsArePublic, FoundInv
    <2>. DEFINE count == Cardinality(turn.cites)
    <2>2. count \in Nat /\ (count = 0 <=> turn.cites = {})
        BY <2>1, FS_CardinalityType, FS_EmptySet
    <2>. HIDE DEF count
    <2>3. turn.mode = "grounded" <=> count > 0
        BY <2>2 DEF GradedInv
    <2>4. turn.reply \in Seq(STRING) /\ "[1]" \notin ToSet(turn.reply)
        BY DEF ReplyInv, Text, GradedInv, Forbidden
    <2>5. Contains(turn.reply, "source 1") <=> "source 1" \in ToSet(turn.reply)
        <3>1. DOMAIN turn.reply = 1..Len(turn.reply)
            BY <2>4
        <3>2. ToSet(turn.reply) = {turn.reply[i] : i \in 1..Len(turn.reply)}
            BY <3>1 DEF ToSet
        <3>. QED BY <3>2 DEF Contains
    <2>6. ToSet(turn.reply) \cap EvaluationMarkers # {} <=> Contains(turn.reply, "source 1")
        BY <2>4, <2>5 DEF EvaluationMarkers
    <2>7. \A c \in {"no citations", "citations"} :
             ~ (\/ c = "no citations" /\ turn.mode = "grounded" /\ count = 0
                \/ c = "citations" /\ turn.mode # "grounded" /\ count > 0)
        <3>1. CASE count > 0
            <4>1. ~(count = 0) /\ turn.mode = "grounded"
                BY <2>2, <2>3, <3>1
            <4>. QED BY <4>1
        <3>2. CASE ~(count > 0)
            BY <2>3, <3>2
        <3>. QED BY <3>1, <3>2
    <2>8. Complaints(turn.mode, turn.reply, count) =
              {c \in {"marker"} : Contains(turn.reply, "source 1")}
        BY <2>6, <2>7 DEF Complaints
    <2>. QED BY <2>8 DEF count
<1>. QED BY <1>1, AnswersHold, RepliesHold, PTL
===============================================================================
