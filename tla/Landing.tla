------------------------------- MODULE Landing -------------------------------
(***************************************************************************)
(* What a row of the museum's catalogue, or an entry of the manifest of    *)
(* external sources, becomes in the corpus (backend/app/ingest): mapped    *)
(* and enriched, hashed, redacted, gated, cut into chunks and upserted.    *)
(* A job is one step here; how jobs are delivered, crash and overlap is    *)
(* the subject of IngestJobs, and so is the embedding model.               *)
(*                                                                         *)
(* A text is a sequence of words.  A record's vessel and material are the  *)
(* words of the code's tables that occur in its columns.  The maker stands *)
(* for the free texts that are redacted but not embedded (made_by,         *)
(* place_made, exhibitions), the details for the columns that are stored   *)
(* as they are (object_type, category, materials, measurements,            *)
(* previous_numbers), and readable for the workbook's title, which goes    *)
(* into the document's metadata as it is.  All of them are hashed.         *)
(***************************************************************************)
EXTENDS Naturals, Sequences, FiniteSets, SequencesExt, FiniteSetsExt, TLC

CONSTANTS
    Rows,           \* object identifiers of the catalogue
    Entries,        \* entries of the manifest
    Versions,       \* what the source says of each, one version after another
    Extra,          \* names that the museum may add to the extra block list
    Letters,        \* the letters of each word
    StopWords,      \* honorifics and qualifiers
    TestWords,      \* vocabulary of RedactionIsComplete
    Window,         \* window_words
    Overlap         \* overlap_words

None == "none"

Sources == Rows \cup Entries

Text == Seq(STRING)

Row == [title: Text, narrative: Seq(Text), maker: Text, details: Text,
        vessel: SUBSET STRING, mentions: SUBSET STRING, bookShip: STRING,
        bookMaterial: STRING, readable: Text, donors: SUBSET Text]

Entry == [title: Text, url: STRING, body: Text, licence: STRING, inScope: BOOLEAN]

ASSUME LandingAssumption ==
    /\ IsFiniteSet(Rows) /\ IsFiniteSet(Entries)
    /\ Rows \cap Entries = {} /\ DOMAIN Versions = Sources
    /\ \A x \in Rows : Versions[x] \in Seq(Row) /\ Versions[x] # <<>>
    /\ \A x \in Entries : Versions[x] \in Seq(Entry) /\ Versions[x] # <<>>
    /\ Extra \subseteq Text
    /\ Window \in Nat \ {0} /\ Overlap \in Nat
    /\ \A w \in DOMAIN Letters : Letters[w] \in Nat

VARIABLES
    version,    \* the version of each record that the source holds
    blocked,    \* the extra block list
    corpus,     \* documents with their chunks, by the key that finds them
    visited     \* history: of each key, the version a job saw last, and the
                \* names it redacted when the document was last written

landing == <<version, blocked, corpus, visited>>

-------------------------------------------------------------------------------
(* Redaction.  A term is matched as whole words, leftmost first, and of    *)
(* several at one place the one of most characters.                        *)
Size(term) == FoldLeft(LAMBDA n, w : n + Letters[w] + 1, 0, term) - 1

Terms(names) ==
    {name \in names : Size(name) >= 3} \cup
    {<<w>> : w \in {w \in UNION {ToSet(name) : name \in names} :
                        Letters[w] >= 4 /\ w \notin StopWords}}

Redacted == "[redacted]"

OccursAt(term, text, i) ==
    i + Len(term) - 1 <= Len(text) /\ SubSeq(text, i, i + Len(term) - 1) = term

(* Faulty variant: the shortest term goes first. *)
Longest_Shortest(terms) == CHOOSE t \in terms : \A u \in terms : Size(t) <= Size(u)

Longest(terms) == CHOOSE t \in terms : \A u \in terms : Size(u) <= Size(t)

Redact(terms, text) ==
    LET from[i \in 1..(Len(text) + 1)] ==
            LET here == {t \in terms : OccursAt(t, text, i)}
            IN  IF i > Len(text) THEN <<>>
                ELSE IF here = {} THEN <<text[i]>> \o from[i + 1]
                ELSE <<Redacted>> \o from[i + Len(Longest(here))]
    IN  from[1]

-------------------------------------------------------------------------------
(* The members of a sequence that stand at the given places, in order.     *)
Kept(seq, places) ==
    FoldLeft(LAMBDA kept, i : IF i \in places THEN Append(kept, seq[i]) ELSE kept,
             <<>>, [i \in DOMAIN seq |-> i])

(* Mapping.  The workbook overrides what the catalogue's columns suggest.  *)
ShipOf(vessel) ==
    IF {"scotland", "hanseatic"} \cap vessel # {} THEN "ship_ii"
    ELSE IF "empress of japan" \in vessel
        THEN IF "(i)" \in vessel THEN "ship_i"
             ELSE IF "(ii)" \in vessel THEN "ship_ii" ELSE "undetermined"
    ELSE IF vessel = {} THEN "undetermined" ELSE "other"

Keywords == <<"passenger_list", "deck_plan", "menu", "photograph">>

MaterialOf(mentions) ==
    LET found == {i \in DOMAIN Keywords : Keywords[i] \in mentions}
    IN  IF found = {} THEN None ELSE Keywords[Min(found)]

Or(value, otherwise) == IF value = None THEN otherwise ELSE value

(* The document of a catalogue row before redaction; the donor is not read. *)
NormalizeRow(r) ==
    LET texts == <<r.title>> \o r.narrative
    IN  [title |-> IF r.title = <<>> THEN <<"(untitled)">> ELSE r.title,
         parts |-> Kept(texts, {i \in DOMAIN texts : texts[i] # <<>>}),
         maker |-> r.maker,
         details |-> r.details,
         metadata |-> r.readable,
         ship |-> Or(r.bookShip, ShipOf(r.vessel)),
         material |-> Or(r.bookMaterial, MaterialOf(r.mentions))]

(* Faulty variant: the hash covers the texts only. *)
RowHash_TextOnly(r) == [title |-> r.title, narrative |-> r.narrative, maker |-> r.maker]

(* content_hash, as the values it is computed from.                        *)
RowHash(r) == NormalizeRow(r)

EntryHash(e) == [title |-> e.title, url |-> e.url, body |-> e.body]

(* What finds the document again.                                          *)
RowKey(x) == <<"object", x>>

EntryKey(e) == <<"url", e.url, e.title>>

-------------------------------------------------------------------------------
(* Chunks.  The parts of a row are composed into one; a body is cut into   *)
(* windows of words that overlap.                                          *)
Break == "--"

Compose(parts) ==
    IF parts = <<>> THEN <<>>
    ELSE << FoldLeft(LAMBDA text, part : text \o <<Break>> \o part, Head(parts), Tail(parts)) >>

(* Faulty variant: the last window is lost. *)
WindowChunks_NoLast(text, window, overlap) ==
    LET n == Len(text)
        step == IF window > overlap THEN window - overlap ELSE 1
    IN  IF n <= window THEN <<text>>
        ELSE [i \in 1..((n - window + step - 1) \div step) |->
                 SubSeq(text, (i - 1) * step + 1, (i - 1) * step + window)]

WindowChunks(text, window, overlap) ==
    LET n == Len(text)
        step == IF window > overlap THEN window - overlap ELSE 1
        count == IF n <= window THEN 1 ELSE 1 + (n - window + step - 1) \div step
        last(i) == IF (i - 1) * step + window < n THEN (i - 1) * step + window ELSE n
    IN  IF n = 0 THEN <<>>
        ELSE [i \in 1..count |-> SubSeq(text, (i - 1) * step + 1, last(i))]

(* The names that a job may ever redact.                                   *)
Names ==
    Extra \cup UNION {UNION {Versions[x][v].donors : v \in DOMAIN Versions[x]} : x \in Rows}

(* A name is a line of its own, and the placeholder is not part of one.    *)
ASSUME PlainNames ==
    /\ Names \subseteq Seq(DOMAIN Letters \ {Redacted, Break})
    /\ TestWords \subseteq DOMAIN Letters \ {Redacted}

-------------------------------------------------------------------------------
(* Landing: apply_privacy and the chunk stage, then what is written.  Only *)
(* the title, the maker's columns and what is embedded are redacted.       *)
LandRow(r, names) ==
    LET n == NormalizeRow(r)
        terms == Terms(names)
        clean(text) == Redact(terms, text)
    IN  [hash |-> RowHash(r),
         title |-> clean(n.title),
         maker |-> clean(n.maker),
         details |-> n.details,
         metadata |-> n.metadata,
         licence |-> None,
         material |-> n.material,
         sensitivity |-> IF n.material = "passenger_list" THEN "passenger_archival"
                         ELSE "public",
         inScope |-> n.ship \in {"ship_i", "ship_ii"},
         chunks |-> Compose([i \in DOMAIN n.parts |-> clean(n.parts[i])])]

LandEntry(e) ==
    [hash |-> EntryHash(e), title |-> e.title, maker |-> <<>>, details |-> <<>>,
     metadata |-> <<>>, licence |-> e.licence, material |-> None,
     sensitivity |-> "public", inScope |-> e.inScope,
     chunks |-> WindowChunks(e.body, Window, Overlap)]

Complete(e) == e.licence # None

(* A document is written if there is none yet or its hash has changed;     *)
(* saying is what the job read for each key.                               *)
Changed(saying, hash) ==
    {k \in DOMAIN saying : k \notin DOMAIN corpus \/ corpus[k].hash # hash[k]}

Upsert(saying, docs, names) ==
    /\ corpus' = [k \in DOMAIN docs \cup DOMAIN corpus |->
                     IF k \in DOMAIN docs THEN docs[k] ELSE corpus[k]]
    /\ visited' = [k \in DOMAIN saying \cup DOMAIN visited |->
                      IF k \notin DOMAIN saying THEN visited[k]
                      ELSE [said |-> saying[k],
                            under |-> IF k \in DOMAIN docs THEN names ELSE visited[k].under]]
    /\ UNCHANGED <<version, blocked>>

DonorsOfCatalogue == UNION {Versions[x][version[x]].donors : x \in Rows}

(* One job over the catalogue.  The names of all its rows are redacted in  *)
(* every row; a row that fails, in the embedder or elsewhere, is skipped.  *)
IngestCatalogue(failing) ==
    LET names == DonorsOfCatalogue \cup blocked
        saying == [k \in {RowKey(x) : x \in Rows \ failing} |-> Versions[k[2]][version[k[2]]]]
        hash == [k \in DOMAIN saying |-> RowHash(saying[k])]
    IN  Upsert(saying, [k \in Changed(saying, hash) |-> LandRow(saying[k], names)], names)

(* One job over the manifest, whose redactor knows no names.  An entry     *)
(* without a licence is refused, as is one whose article is not fetched.   *)
IngestManifest(failing) ==
    LET read == {Versions[x][version[x]] : x \in Entries \ failing}
        saying == [k \in {EntryKey(e) : e \in {e \in read : Complete(e)}} |->
                      CHOOSE e \in read : Complete(e) /\ EntryKey(e) = k]
        hash == [k \in DOMAIN saying |-> EntryHash(saying[k])]
    IN  Upsert(saying, [k \in Changed(saying, hash) |-> LandEntry(saying[k])], {})

(* The museum edits a record, or names a donor in the extra block list.    *)
Edit(x) ==
    /\ version[x] < Len(Versions[x])
    /\ version' = [version EXCEPT ![x] = @ + 1]
    /\ UNCHANGED <<blocked, corpus, visited>>

Block(name) ==
    /\ blocked' = blocked \cup {name}
    /\ UNCHANGED <<version, corpus, visited>>

LandingInit ==
    /\ version = [x \in Sources |-> 1]
    /\ blocked = {}
    /\ corpus = <<>> /\ visited = <<>>

LandingNext ==
    \/ \E failing \in SUBSET Rows : IngestCatalogue(failing)
    \/ \E failing \in SUBSET Entries : IngestManifest(failing)
    \/ \E x \in Sources : Edit(x)
    \/ \E name \in Extra : Block(name)

-------------------------------------------------------------------------------
(* Faulty variant: the view knows no sensitivity. *)
Retrievable_InScope(doc) == doc.inScope

(* The view retrievable_chunks; voyage_date is never set, so passenger     *)
(* material does not pass.                                                 *)
Retrievable(doc) == doc.inScope /\ doc.sensitivity = "public"

RetrievableChunks ==
    UNION {{[document |-> k, index |-> i, content |-> corpus[k].chunks[i], title |-> corpus[k].title]
               : i \in DOMAIN corpus[k].chunks}
           : k \in {k \in DOMAIN corpus : Retrievable(corpus[k])}}

-------------------------------------------------------------------------------
(* What the corpus holds of a catalogue row is what its last visit would   *)
(* have landed, also when that visit skipped it, but for names that only   *)
(* became known since it was written: content_hash covers everything that  *)
(* the text, the gates and the citation depend on (normalize.py:157).  Of  *)
(* a manifest entry it covers the text (sources.py:109), and neither the   *)
(* licence nor the scope.                                                  *)
VisitedIsCurrent ==
    \A k \in DOMAIN corpus :
        LET said == visited[k].said
        IN  IF k[1] = "object" THEN corpus[k] = LandRow(said, visited[k].under)
            ELSE corpus[k] = [LandEntry(said) EXCEPT
                                 !.licence = corpus[k].licence, !.inScope = corpus[k].inScope]

(* Redact over every short text and small block list: no term is left to   *)
(* see and, unless two of them overlap in the text, nothing else is lost.  *)
RedactsCompletely ==
    \A names \in UNION {kSubset(n, BoundedSeq(TestWords, 2) \ {<<>>}) : n \in 0..2} :
        LET terms == Terms(names) IN
        \A text \in BoundedSeq(TestWords, 4) :
            LET spans == UNION {{i..(i + Len(t) - 1) : i \in {i \in DOMAIN text : OccursAt(t, text, i)}}
                                : t \in terms}
                apart == \A m, n \in spans : m \subseteq n \/ n \subseteq m \/ m \cap n = {}
                shown == Redact(terms, text)
            IN  /\ \A t \in terms, i \in DOMAIN shown : ~OccursAt(t, shown, i)
                /\ apart => Kept(shown, {i \in DOMAIN shown : shown[i] # Redacted})
                                = Kept(text, DOMAIN text \ UNION spans)

(* Of a document's texts, the ones that are scanned for names show none    *)
(* that was on the block list when they were written: the title, what is   *)
(* embedded, and the maker's columns (privacy.py:80); nothing is left of a *)
(* full name, nor lost besides.  The details and the metadata are not      *)
(* scanned, and no name is known that only the free texts hold: see        *)
(* DonorsAppearNowhere and StrayNamesAreBlocked.                           *)
RedactionIsComplete ==
    /\ \A k \in DOMAIN corpus : \A t \in Terms(visited[k].under) :
          \A text \in ToSet(corpus[k].chunks) \cup {corpus[k].title, corpus[k].maker} :
              \A i \in DOMAIN text : ~OccursAt(t, text, i)
    /\ RedactsCompletely

(* No donor appears anywhere in a document or its chunks: in its title,    *)
(* its maker's columns, its metadata or what is embedded, which are the    *)
(* columns that test_ingest_integration.py:67 looks for donors in.         *)
DonorsAppearNowhere ==
    \A k \in DOMAIN corpus : \A name \in visited[k].under :
        \A text \in ToSet(corpus[k].chunks) \cup
                       {corpus[k].title, corpus[k].maker, corpus[k].metadata} :
            \A i \in DOMAIN text : ~OccursAt(name, text, i)

(* A donor whose name stands in the free texts only is known from there:   *)
(* "the blocklist is built from all free-text fields, not just Donated by" *)
(* (schema.md:76).  Extra are such names, as the museum may come to know   *)
(* them (config.py:76).                                                    *)
StrayNamesAreBlocked ==
    \A k \in DOMAIN corpus : k[1] = "object" => \A name \in Extra :
        \A text \in ToSet(visited[k].said.narrative) : \A i \in DOMAIN text :
            OccursAt(name, text, i) => name \in visited[k].under

(* What a search may find was confirmed to be of one of the two ships, and *)
(* not to be a passenger list, by the record of its last visit; and what   *)
(* comes from outside the museum has a licence (schema.sql:136).           *)
PublicRecord(k) ==
    LET said == visited[k].said
        ships == IF said.bookShip # None THEN {said.bookShip}
                 ELSE IF {"scotland", "hanseatic"} \cap said.vessel # {} THEN {"ship_ii"}
                 ELSE IF "empress of japan" \in said.vessel THEN
                    {s \in {"ship_i", "ship_ii"} :
                        (IF s = "ship_i" THEN "(i)" ELSE "(ii)") \in said.vessel}
                 ELSE {}
    IN  IF k[1] = "url" THEN corpus[k].licence # None
        ELSE /\ ships \cap {"ship_i", "ship_ii"} # {}
             /\ said.bookMaterial # "passenger_list"
             /\ said.bookMaterial = None => "passenger_list" \notin said.mentions

(* The windows of a text are contiguous, none is longer than the window,   *)
(* they cover every word in order, two neighbours share as much as the     *)
(* overlap allows, and there are never more windows than words.            *)
WindowsCover ==
    \A n \in 0..7, window \in 1..4, overlap \in 0..5 :
        LET text == [i \in 1..n |-> i]
            chunks == WindowChunks(text, window, overlap)
            shared == IF overlap < window THEN overlap ELSE window - 1
        IN  /\ UNION {ToSet(chunks[c]) : c \in DOMAIN chunks} = 1..n
            /\ Len(chunks) <= n
            /\ \A c \in DOMAIN chunks :
                   /\ Len(chunks[c]) \in 1..window
                   /\ chunks[c] = SubSeq(text, chunks[c][1], chunks[c][1] + Len(chunks[c]) - 1)
                   /\ c > 1 => /\ Last(chunks[c - 1]) < Last(chunks[c])
                               /\ Last(chunks[c - 1]) - chunks[c][1] + 1 = shared

(* What the corpus holds of an article is its whole text as it was last    *)
(* fetched, and no window or overlap makes the chunker lose a word, or go  *)
(* on for ever when the overlap is not smaller (chunk.py:34).              *)
ChunksCoverBody ==
    /\ \A k \in DOMAIN corpus : k[1] = "url" =>
          UNION {ToSet(chunk) : chunk \in ToSet(corpus[k].chunks)} = ToSet(visited[k].said.body)
    /\ WindowsCover
=============================================================================
