------------------------------- MODULE Answers -------------------------------
(***************************************************************************)
(* The answer to a visitor's question: the browser's request and its       *)
(* second attempt (frontend/src/lib/chat.ts), the handler of /chat         *)
(* (main.py), the persona's node of the graph with its search, two tries   *)
(* of the model, validation and truncation (agents/graph.py), and the clip *)
(* that voices the reply (/voice/synthesize, voice.py), kept in S3.  The   *)
(* corpus it searches is Landing's, which jobs change meanwhile.  What the *)
(* thread of a session remembers is the subject of SessionMemory.          *)
(*                                                                         *)
(* A character of a reply is a letter, a punctuation mark, a space, or     *)
(* stands for a whole citation marker.  One visitor's question at a time:  *)
(* questions of others meet it in the corpus and in the clips only.        *)
(***************************************************************************)
EXTENDS Landing, Retrieval

CONSTANTS
    Personas,       \* persona ids
    HomeScenes,     \* the scenes of each persona's frontmatter
    Scenes,         \* scenes that have a file
    Voices,         \* NARRATOR_VOICES
    Drafts,         \* texts the model may write
    MaxLength,      \* VOICE_MAX_TEXT_LENGTH
    Distances,      \* of the chunks from a question
    MaxEdits        \* bound: changes of the source before or during a question

ASSUME AnswersAssumption ==
    /\ HomeScenes \in [Personas -> SUBSET Scenes]
    /\ DOMAIN Voices \subseteq Personas
    /\ Drafts \subseteq Text
    /\ MaxLength \in Nat \ {0} /\ Distances \subseteq Nat /\ MaxEdits \in Nat

VARIABLES
    turn,           \* the question under way
    clips           \* the objects of the voice cache, by key

answering == <<turn, clips>>

vars == <<version, blocked, corpus, visited, turn, clips>>

Idle == [phase |-> "idle", persona |-> None, path |-> None, tries |-> 0,
         found |-> {}, public |-> TRUE, mode |-> None, reply |-> <<>>, cites |-> {},
         url |-> <<>>]

Edits == Cardinality(blocked) + FoldFunction(+, 0, [x \in Sources |-> version[x] - 1])

-------------------------------------------------------------------------------
(* Resolving the persona, or the status of the refusal.                    *)
Candidates(scene) == {p \in Personas : scene \in HomeScenes[p]}

ResolvePersona(persona, scene) ==
    IF scene # None /\ scene \notin Scenes THEN "404"
    ELSE IF persona # None THEN IF persona \in Personas THEN persona ELSE "404"
    ELSE IF scene = None THEN "400"
    ELSE IF Candidates(scene) = {} THEN "404"
    ELSE IF Cardinality(Candidates(scene)) > 1 THEN "400"
    ELSE CHOOSE p \in Candidates(scene) : TRUE

-------------------------------------------------------------------------------
(* Texts.                                                                  *)
Punctuation == {"."}
IsSpace(char) == char = " "

Strip(text) ==
    LET solid == {i \in DOMAIN text : ~IsSpace(text[i])}
    IN  IF solid = {} THEN <<>> ELSE SubSeq(text, Min(solid), Max(solid))

(* Faulty variant: the cut keeps the space it is made at. *)
TruncateResponse_WithSpace(text, limit) ==
    LET stops == {i \in 1..limit : text[i] \in Punctuation}
        spaces == {i \in 1..limit : IsSpace(text[i])}
    IN  IF Len(text) <= limit THEN text
        ELSE IF stops # {} THEN SubSeq(text, 1, Max(stops))
        ELSE IF spaces # {} THEN SubSeq(text, 1, Max(spaces)) ELSE SubSeq(text, 1, limit)

TruncateResponse(text, limit) ==
    LET stops == {i \in 1..limit : text[i] \in Punctuation}
        spaces == {i \in 1..limit : IsSpace(text[i])}
    IN  IF Len(text) <= limit THEN text
        ELSE IF stops # {} THEN SubSeq(text, 1, Max(stops))
        ELSE IF spaces # {} /\ Max(spaces) > 1 THEN Strip(SubSeq(text, 1, Max(spaces) - 1))
        ELSE SubSeq(text, 1, limit)

(* A marker in brackets, or the id of a candidate.                         *)
Forbidden == {"[1]", "[ 1 ]", "document-1"}

Unknown == <<"unknown">>

(* What the model may return for candidates known, and what of it may be   *)
(* told to the visitor.                                                    *)
Outputs(known) ==
    [mode: {"grounded", "conversational", "insufficient_evidence"}, response: Drafts,
     used: SUBSET (known \cup {Unknown})]

Speakable(text) == text # <<>> /\ ToSet(text) \cap Forbidden = {}

(* Faulty variant: small talk may cite. *)
Valid_AnyMode(output, known) ==
    /\ Speakable(Strip(output.response))
    /\ output.used \subseteq known
    /\ output.mode = "grounded" => output.used # {}

Valid(output, known) ==
    /\ Speakable(Strip(output.response))
    /\ output.used \subseteq known
    /\ output.mode = "grounded" <=> output.used # {}

-------------------------------------------------------------------------------
(* The browser asks on behalf of a persona; other clients may name a scene *)
(* only.                                                                   *)
Ask(persona, scene) ==
    LET resolved == ResolvePersona(persona, scene)
    IN  /\ turn.phase = "idle" /\ Edits <= MaxEdits
        /\ turn' = [Idle EXCEPT !.phase = IF resolved \in Personas THEN "posted" ELSE "refused",
                                !.persona = resolved]
        /\ UNCHANGED <<landing, clips>>

(* The session was refreshed: the graph runs on its thread.                *)
Remember ==
    /\ turn.phase = "posted"
    /\ turn' = [turn EXCEPT !.phase = "asked", !.path = "session"]
    /\ UNCHANGED <<landing, clips>>

(* 501 from a deployment without session memory: the browser posts once    *)
(* more, without the session and with the turns it remembers.              *)
PostAgain ==
    /\ turn.phase = "posted"
    /\ turn' = [turn EXCEPT !.phase = "asked", !.path = "history"]
    /\ UNCHANGED <<landing, clips>>

(* A database error in the refresh, or in reading or writing checkpoints:  *)
(* the question is answered from the start, from the browser's history.    *)
MemoryFails ==
    /\ turn.phase = "posted" \/ (turn.path = "session" /\ turn.phase \in {"asked", "answered"})
    /\ turn' = [Idle EXCEPT !.phase = "asked", !.persona = turn.persona, !.path = "history"]
    /\ UNCHANGED <<landing, clips>>

(* The nearest chunks, grouped by document.                                *)
Search ==
    /\ turn.phase = "asked"
    /\ \E near \in [RetrievableChunks -> Distances] :
        \E rows \in Results({[document |-> c.document, content |-> c.content, title |-> c.title,
                              index |-> c.index, distance |-> near[c]] : c \in RetrievableChunks}) :
            turn' = [turn EXCEPT !.phase = "found",
                                 !.found = {row.document : row \in ToSet(rows)},
                                 !.public = \A row \in ToSet(rows) : PublicRecord(row.document)]
    /\ UNCHANGED <<landing, clips>>

SearchFails ==
    /\ turn.phase = "asked"
    /\ turn' = [turn EXCEPT !.phase = "failed"]
    /\ UNCHANGED <<landing, clips>>

ModelAnswers(output) ==
    /\ turn.phase = "found" /\ Valid(output, turn.found)
    /\ turn' = [turn EXCEPT !.phase = "answered", !.tries = 0, !.mode = output.mode,
                            !.reply = TruncateResponse(Strip(output.response), MaxLength),
                            !.cites = output.used]
    /\ UNCHANGED <<landing, clips>>

(* Faulty variant: the tries are not counted. *)
ModelFails_Uncounted ==
    /\ turn.phase = "found"
    /\ turn' = [turn EXCEPT !.phase = IF turn.tries = 1 THEN "failed" ELSE "found"]
    /\ UNCHANGED <<landing, clips>>

(* The call fails, or what it returns is not valid; the model is asked     *)
(* twice.                                                                  *)
ModelFails ==
    /\ turn.phase = "found"
    /\ turn' = [turn EXCEPT !.tries = @ + 1,
                            !.phase = IF turn.tries = 1 THEN "failed" ELSE "found"]
    /\ UNCHANGED <<landing, clips>>

Show ==
    /\ turn.phase = "answered"
    /\ turn' = [Idle EXCEPT !.phase = "shown", !.persona = turn.persona, !.reply = turn.reply]
    /\ UNCHANGED <<landing, clips>>

-------------------------------------------------------------------------------
(* The clip of a reply.                                                    *)
(* Faulty variant: the key does not depend on the voice. *)
CacheKey_TextOnly(persona, text) == <<text>>

CacheKey(persona, text) == <<Voices[persona], text>>

Clip(persona, text) == [voice |-> Voices[persona], text |-> text]

(* The object is put, over one that may be there already.                  *)
WithClip(persona, text) ==
    [k \in DOMAIN clips \cup {CacheKey(persona, text)} |->
        IF k = CacheKey(persona, text) THEN Clip(persona, text) ELSE clips[k]]

Accepted(persona, text) ==
    persona \in DOMAIN Voices /\ Strip(text) # <<>> /\ Len(Strip(text)) <= MaxLength

Spoken == Strip(turn.reply)

(* The object is there: its URL is signed.                                 *)
CacheHit ==
    /\ turn.phase = "shown" /\ Accepted(turn.persona, turn.reply)
    /\ CacheKey(turn.persona, Spoken) \in DOMAIN clips
    /\ turn' = [turn EXCEPT !.phase = "voiced", !.url = CacheKey(turn.persona, Spoken)]
    /\ UNCHANGED <<landing, clips>>

CacheMiss ==
    /\ turn.phase = "shown" /\ Accepted(turn.persona, turn.reply)
    /\ CacheKey(turn.persona, Spoken) \notin DOMAIN clips
    /\ turn' = [turn EXCEPT !.phase = "synthesizing"]
    /\ UNCHANGED <<landing, clips>>

Synthesize ==
    /\ turn.phase = "synthesizing"
    /\ clips' = WithClip(turn.persona, Spoken)
    /\ turn' = [turn EXCEPT !.phase = "voiced", !.url = CacheKey(turn.persona, Spoken)]
    /\ UNCHANGED landing

(* The narrator has no voice, or S3 or Polly fails: the browser speaks.    *)
VoiceFails ==
    /\ turn.phase \in {"shown", "synthesizing"}
    /\ turn' = [turn EXCEPT !.phase = "unvoiced"]
    /\ UNCHANGED <<landing, clips>>

Close ==
    /\ turn.phase \in {"refused", "failed", "voiced", "unvoiced"}
    /\ turn' = Idle
    /\ UNCHANGED <<landing, clips>>

(* Replies to other visitors are voiced too, and objects expire.           *)
VoiceOther(persona, draft) ==
    LET text == TruncateResponse(Strip(draft), MaxLength)
    IN  /\ Speakable(Strip(draft))
        /\ clips' = WithClip(persona, text)
        /\ UNCHANGED <<landing, turn>>

Expire(key) ==
    /\ clips' = [k \in DOMAIN clips \ {key} |-> clips[k]]
    /\ UNCHANGED <<landing, turn>>

-------------------------------------------------------------------------------
Init == LandingInit /\ turn = Idle /\ clips = <<>>

(* The steps of the question under way.                                    *)
Proceed ==
    \/ Remember \/ PostAgain \/ MemoryFails
    \/ Search \/ SearchFails
    \/ \E output \in Outputs(turn.found) : ModelAnswers(output)
    \/ ModelFails \/ Show
    \/ CacheHit \/ CacheMiss \/ Synthesize \/ VoiceFails
    \/ Close

Next ==
    \/ \E persona \in Personas \cup {None, "nobody"}, scene \in Scenes \cup {None, "nowhere"} :
          Ask(persona, scene)
    \/ Proceed
    \/ \E persona \in DOMAIN Voices, draft \in Drafts : VoiceOther(persona, draft)
    \/ \E key \in DOMAIN clips : Expire(key)
    \/ LandingNext /\ UNCHANGED answering /\ (turn.phase # "idle" => Edits' <= MaxEdits)

Spec == Init /\ [][Next]_vars

(* A handler that runs goes on, and every call it makes ends somehow.  In  *)
(* each phase the steps of the question exclude each other, so that one of *)
(* them, the simplest, stands for all in a fairness condition.             *)
FairSpec ==
    /\ Spec
    /\ WF_turn(Remember) /\ WF_turn(SearchFails) /\ WF_turn(ModelFails)
    /\ WF_turn(Show) /\ WF_turn(VoiceFails) /\ WF_turn(Close)

-------------------------------------------------------------------------------
(* The offline evaluation of captured answers (evaluation/groundedness.py) *)
(* and its complaints about one whose mode was expected.                   *)
EvaluationMarkers == {"[1]", "source 1"}

Complaints(mode, response, citations) ==
    {c \in {"no citations", "citations", "marker"} :
        \/ c = "no citations" /\ mode = "grounded" /\ citations = 0
        \/ c = "citations" /\ mode # "grounded" /\ citations > 0
        \/ c = "marker" /\ ToSet(response) \cap EvaluationMarkers # {}}

-------------------------------------------------------------------------------
(* A reply cites only documents that its search found, and all of these    *)
(* were public by their record when it searched, whatever jobs did to the  *)
(* corpus before and since (graph.py:187, schema.sql:136).                 *)
CitationsArePublic ==
    /\ turn.public
    /\ turn.phase = "answered" => turn.cites \subseteq turn.found

(* The evaluation finds nothing wrong with an answer the graph lets pass,  *)
(* except "source 1" in the text, which only the evaluation knows for a    *)
(* marker (graph.py:37, groundedness.py:25).                               *)
AnswersPassEvaluation ==
    turn.phase = "answered" => Complaints(turn.mode, turn.reply, Cardinality(turn.cites)) =
                    (IF Contains(turn.reply, "source 1") THEN {"marker"} ELSE {})

(* A search ends with documents that are there to be cited, no more than   *)
(* asked for, and keeps SearchIsFair whatever the corpus holds: rows that  *)
(* only repeat their title never crowd out prose (retrieval.py:31).        *)
RetrievalIsFair ==
    /\ Cardinality(turn.found) <= TopK /\ turn.found \subseteq DOMAIN corpus
    /\ SearchIsFair

(* Every short text, cut to a limit, ends as a sentence or word does where *)
(* it can, and as late as it can.                                          *)
CutsWell ==
    \A draft \in BoundedSeq({"a", ".", " "}, 6), limit \in 1..4 :
        LET text == Strip(draft)
            reply == TruncateResponse(text, limit)
            cut == {n \in 1..limit : text[n] \in Punctuation}
        IN  text # <<>> =>
            /\ reply # <<>> /\ Len(reply) <= limit /\ Strip(reply) = reply
            /\ IsPrefix(reply, text)
            /\ Len(text) > limit =>
                  IF cut # {} THEN Len(reply) = Max(cut)
                  ELSE \A n \in (Len(reply) + 1)..limit :
                          IsSpace(text[n]) \/ \E m \in (Len(reply) + 1)..n : IsSpace(text[m])

(* Whatever the model says, the reply is what /voice/synthesize accepts    *)
(* and speaks unchanged, and is cut no shorter than it must be             *)
(* (graph.py:216, main.py:444).                                            *)
SpokenReplyFits ==
    /\ turn.phase \in {"answered", "shown"} =>
          turn.reply # <<>> /\ Len(turn.reply) <= MaxLength /\ Strip(turn.reply) = turn.reply
    /\ CutsWell

(* A URL that is handed out plays the reply itself in the narrator's own   *)
(* voice as long as the object lives, whoever put it there (voice.py:75).  *)
UrlPlaysReply ==
    turn.phase = "voiced" /\ turn.url \in DOMAIN clips =>
        clips[turn.url] = Clip(turn.persona, turn.reply)

(* Every question ends, answered or refused, and its reply voiced or left  *)
(* to the browser (graph.py:275, main.py:382).                             *)
EveryQuestionEnds == turn.phase # "idle" ~> turn.phase = "idle"
=============================================================================
