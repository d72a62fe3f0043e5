------------------------ MODULE IngestRefinement_proofs ------------------------
(***************************************************************************)
(* With one worker at a time, the queue with its retries and the           *)
(* statements of an upsert implement Corpus.  The proof follows the        *)
(* worker: what it read of the table is still there when it writes, and    *)
(* what it downloaded is at least as new as everything in the table.       *)
(***************************************************************************)
EXTENDS IngestJobs_proofs

OneWorker == \A v, w \in Workers : v = w

(* Editions of a document differ in their content hash.                    *)
DistinctEditions ==
    \A d \in Documents : \A e, f \in Editions : Digest[d][e] = Digest[d][f] => e = f

HasSnapshot(w) == worker[w].phase \in InRow \union {"delete"}

(* Row n shows an edition that the source has, and that is no newer than   *)
(* the copy a worker works on.                                             *)
UpToDate(n, e) ==
    /\ Shows(n, e)
    /\ e <= source[table[n].doc]
    /\ \A w \in Workers : HasSnapshot(w) => e <= worker[w].seen[table[n].doc]

RowsUpToDate == \A n \in DOMAIN table : \E e \in Editions : UpToDate(n, e)

SnapshotsAreOld ==
    \A w \in Workers : HasSnapshot(w) => \A d \in Documents : worker[w].seen[d] <= source[d]

(* What the worker read is what the table holds.                           *)
ReadsHold(w) ==
    /\ HoldsRow(w) =>
        /\ worker[w].hash = table[worker[w].found].hash
        /\ worker[w].scope = table[worker[w].found].scope
    /\ HoldsRow(w) /\ worker[w].phase # "chunks" =>
        worker[w].serial = table[worker[w].found].serial
    /\ worker[w].phase = "embed" /\ worker[w].found = 0 => RowsOf(worker[w].at) = {}

OneWorkerInv ==
    /\ TypeInv
    /\ NoTwins(Documents)
    /\ RowsUpToDate
    /\ SnapshotsAreOld
    /\ \A w \in Workers : ReadsHold(w)

-------------------------------------------------------------------------------
(* A step of the only worker leaves what it knows of the table as it is.   *)
LEMMA KnowledgeKept ==
    ASSUME OneWorkerInv, [Next]_vars, UNCHANGED table, NEW w \in Workers
    PROVE  ReadsHold(w)'
<1>0. /\ TypeInv /\ ReadsHold(w) /\ worker \in [Workers -> WorkerState]
      /\ worker[w] \in WorkerState
    BY DEF OneWorkerInv, TypeInv, TypeOK
<1>1. CASE worker'[w] = worker[w]
    BY <1>0, <1>1 DEF ReadsHold, HoldsRow, RowsOf
<1>2. CASE worker'[w].phase \in {"polling", "prepare", "lookup", "delete"}
    BY <1>2 DEF ReadsHold, HoldsRow
<1>3. CASE Lookup(w)
    <2>1. worker[w].found = 0
        BY <1>0, <1>3 DEF Lookup, TypeInv, Located
    <2>2. CASE worker' = [worker EXCEPT ![w].phase = "embed"] /\ RowsOf(worker[w].at) = {}
        <3>1. /\ worker'[w].found = 0 /\ worker'[w].phase = "embed"
              /\ worker'[w].at = worker[w].at
            BY <1>0, <2>1, <2>2 DEF WorkerState
        <3>. QED BY <2>2, <3>1 DEF ReadsHold, HoldsRow, RowsOf
    <2>3. ASSUME NEW n \in RowsOf(worker[w].at),
                 worker' = [worker EXCEPT ![w] = [worker[w] EXCEPT
                    !.phase = "chunks", !.found = n, !.hash = table[n].hash,
                    !.scope = table[n].scope]]
          PROVE  ReadsHold(w)'
        <3>1. /\ worker'[w].phase = "chunks" /\ worker'[w].found = n
              /\ worker'[w].hash = table[n].hash /\ worker'[w].scope = table[n].scope
            BY <1>0, <2>3 DEF WorkerState
        <3>. QED BY <3>1 DEF ReadsHold, HoldsRow
    <2>. QED BY <1>3, <2>2, <2>3 DEF Lookup
<1>4. CASE ReadChunks(w) /\ worker'[w].phase \in {"chunks", "clear", "embed"}
    <2>1. worker[w].at \in Documents /\ HoldsRow(w)
        BY <1>0, <1>4, RowFacts DEF ReadChunks, InRow, HoldsRow
    <2>2. ~Forward(w, worker[w].at, TRUE)
        BY <1>0, <1>4, <2>1, ForwardFacts DEF TypeInv
    <2>3. worker' = [worker EXCEPT ![w].phase = "clear",
                                   ![w].serial = table[worker[w].found].serial]
        BY <1>4, <2>2 DEF ReadChunks
    <2>4. /\ worker'[w].phase = "clear" /\ worker'[w].found = worker[w].found
          /\ worker'[w].hash = worker[w].hash /\ worker'[w].scope = worker[w].scope
          /\ worker'[w].serial = table[worker[w].found].serial
        BY <1>0, <2>3 DEF WorkerState
    <2>. QED BY <1>0, <2>1, <2>4 DEF ReadsHold, HoldsRow
<1>5. CASE ClearChunks(w)
    <2>1. worker' = [worker EXCEPT ![w].phase = "embed"] /\ worker[w].phase = "clear"
        BY <1>5 DEF ClearChunks
    <2>2. /\ worker'[w].phase = "embed" /\ worker'[w].found = worker[w].found
          /\ worker'[w].hash = worker[w].hash /\ worker'[w].scope = worker[w].scope
          /\ worker'[w].serial = worker[w].serial
        BY <1>0, <2>1 DEF WorkerState
    <2>3. worker[w].found \in Nat \ {0}
        BY <1>0, <2>1 DEF TypeInv, Located, RowsOf, TypeOK
    <2>4. HoldsRow(w)
        BY <2>1 DEF HoldsRow
    <2>5. /\ worker[w].hash = table[worker[w].found].hash
          /\ worker[w].scope = table[worker[w].found].scope
          /\ worker[w].serial = table[worker[w].found].serial
        BY <1>0, <2>1, <2>4 DEF ReadsHold
    <2>6. worker'[w].found # 0 /\ table' = table
        BY <2>2, <2>3
    <2>7. /\ worker'[w].hash = table'[worker'[w].found].hash
          /\ worker'[w].serial = table'[worker'[w].found].serial
        BY <2>2, <2>5, <2>6
    <2>8. worker'[w].scope = table'[worker'[w].found].scope
        BY <2>2, <2>5, <2>6
    <2>. QED BY <2>6, <2>7, <2>8, Zenon DEF ReadsHold
<1>6. worker'[w].phase \in Phase
    BY <1>0, TypeNext DEF TypeInv, TypeOK, WorkerState
<1>7. \/ worker'[w] = worker[w]
      \/ worker'[w].phase \in {"polling", "prepare", "lookup", "delete"}
      \/ Lookup(w) \/ ReadChunks(w) \/ ClearChunks(w)
    BY <1>0, WorkerMoves
<1>. QED BY <1>1, <1>2, <1>3, <1>4, <1>5, <1>6, <1>7 DEF Phase

(* After a commit the worker is between two rows.                          *)
LEMMA KnowledgeEnds ==
    ASSUME OneWorkerInv, OneWorker, NEW w \in Workers, InsertDocument(w) \/ UpdateDocument(w)
    PROVE  /\ \A v \in Workers : ReadsHold(v)'
           /\ worker'[w].seen = worker[w].seen /\ HasSnapshot(w)
<1>1. worker[w].at \in Documents /\ TypeInv /\ HasSnapshot(w)
    BY RowFacts DEF InsertDocument, UpdateDocument, InRow, OneWorkerInv, HasSnapshot
<1>2. \E ok \in BOOLEAN : Forward(w, worker[w].at, ok)
    BY <1>1, InsertFacts, UpdateFacts
<1>3. worker'[w].phase \in {"lookup", "delete"} /\ worker'[w].seen = worker[w].seen
    BY <1>1, <1>2, ForwardFacts DEF TypeInv
<1>. QED BY <1>1, <1>3 DEF OneWorker, ReadsHold, HoldsRow

(* The source's editions only grow.                                        *)
LEMMA SourceGrows ==
    ASSUME TypeInv, [Next]_vars, NEW d \in Documents
    PROVE  /\ source[d] \in Nat /\ source'[d] \in Nat /\ source[d] <= source'[d]
           /\ source[d] \in Editions /\ source'[d] \in Editions
<1>1. TypeOK /\ TypeOK'
    BY TypeNext DEF TypeInv
<1>2. source[d] \in Editions /\ source'[d] \in Editions /\ source \in [Documents -> Editions]
    BY <1>1 DEF TypeOK
<1>3. (\E c \in Documents : Publish(c)) \/ UNCHANGED source
    BY DEF Next, JobStep, vars, Enqueue, VisibilityEnds, DeadLetter, Receive, Reject, Prepare,
        Lookup, ReadChunks, ClearChunks, InsertDocument, UpdateDocument, RowFails, JobFails,
        DeleteMessage, ProcessReplaced
<1>4. ASSUME NEW c \in Documents, Publish(c) PROVE source[d] <= source'[d]
    BY <1>2, <1>4, ConstantsAssumption DEF Publish, Editions
<1>. QED BY <1>2, <1>3, <1>4, ConstantsAssumption DEF Editions

(* A copy of the source is the one the job started with, or a fresh one.   *)
LEMMA SnapshotSteps ==
    ASSUME TypeInv, [Next]_vars, NEW v \in Workers, HasSnapshot(v)'
    PROVE  \/ HasSnapshot(v) /\ worker'[v].seen = worker[v].seen
           \/ worker'[v].seen = source
<1>0. TypeOK /\ worker \in [Workers -> WorkerState] /\ worker[v] \in WorkerState
    BY DEF TypeInv, TypeOK
<1>1. CASE worker'[v] = worker[v]
    BY <1>1 DEF HasSnapshot
<1>2. ASSUME NEW w \in Workers, w # v,
             JobStep(w) \/ RowFails(w) \/ JobFails(w) \/ ProcessReplaced(w)
                \/ \E j \in Jobs : Receive(w, j)
      PROVE  worker'[v] = worker[v]
    BY <1>0, <1>2 DEF JobStep, Forward, Receive, Reject, Prepare, Lookup, ReadChunks, ClearChunks,
        RowFails, JobFails, DeleteMessage, ProcessReplaced, InsertDocument, UpdateDocument
<1>3. ~(Reject(v) \/ JobFails(v) \/ ProcessReplaced(v) \/ DeleteMessage(v))
    <2>. SUFFICES ASSUME Reject(v) \/ JobFails(v) \/ ProcessReplaced(v) \/ DeleteMessage(v)
                  PROVE  FALSE
        OBVIOUS
    <2>1. \E m : worker' = [worker EXCEPT ![v] = Idle(m)]
        BY DEF Reject, JobFails, ProcessReplaced, DeleteMessage
    <2>. QED BY <1>0, <2>1 DEF Idle, HasSnapshot, InRow
<1>4. CASE Prepare(v)
    BY <1>0, <1>4 DEF Prepare, WorkerState
<1>5. ASSUME NEW j \in Jobs, Receive(v, j) PROVE FALSE
    <2>1. worker'[v].phase = "prepare"
        BY <1>0, <1>5 DEF Receive, Idle
    <2>. QED BY <2>1 DEF HasSnapshot, InRow
<1>6. CASE InsertDocument(v) \/ UpdateDocument(v) \/ RowFails(v)
    <2>1. \E ok \in BOOLEAN : Forward(v, worker[v].at, ok)
        BY <1>6, InsertFacts, UpdateFacts DEF RowFails
    <2>2. worker[v].phase \in InRow
        BY <1>6 DEF InsertDocument, UpdateDocument, RowFails, InRow
    <2>. QED BY <1>0, <2>1, <2>2, RowFacts, ForwardFacts DEF HasSnapshot
<1>7. CASE Lookup(v) \/ ReadChunks(v) \/ ClearChunks(v)
    <2>1. worker[v].phase \in InRow
        BY <1>7 DEF Lookup, ReadChunks, ClearChunks, InRow
    <2>2. CASE Lookup(v) \/ ClearChunks(v)
        BY <1>0, <2>1, <2>2 DEF Lookup, ClearChunks, WorkerState, HasSnapshot
    <2>3. CASE ReadChunks(v)
        <3>1. CASE Forward(v, worker[v].at, TRUE)
            BY <1>0, <2>1, <3>1, RowFacts, ForwardFacts DEF HasSnapshot
        <3>2. CASE worker' = [worker EXCEPT ![v].phase = "clear",
                                            ![v].serial = table[worker[v].found].serial]
            BY <1>0, <2>1, <3>2 DEF WorkerState, HasSnapshot
        <3>. QED BY <2>3, <3>1, <3>2 DEF ReadChunks
    <2>. QED BY <1>7, <2>2, <2>3
<1>8. \/ UNCHANGED worker
      \/ \E w \in Workers :
            JobStep(w) \/ RowFails(w) \/ JobFails(w) \/ ProcessReplaced(w)
                \/ \E j \in Jobs : Receive(w, j)
    BY DEF Next, vars, Publish, Enqueue, VisibilityEnds, DeadLetter
<1>. QED BY <1>1, <1>2, <1>3, <1>4, <1>5, <1>6, <1>7, <1>8 DEF JobStep

(* No copy is newer than the source.                                       *)
LEMMA SnapshotsNext == OneWorkerInv /\ [Next]_vars => SnapshotsAreOld'
<1>. SUFFICES ASSUME OneWorkerInv, [Next]_vars, NEW v \in Workers, HasSnapshot(v)',
                     NEW d \in Documents
              PROVE  worker'[v].seen[d] <= source'[d]
    BY DEF SnapshotsAreOld
<1>1. TypeInv /\ SnapshotsAreOld /\ TypeInv'
    BY TypeNext DEF OneWorkerInv
<1>2. source[d] \in Nat /\ source'[d] \in Nat /\ source[d] <= source'[d]
    BY <1>1, SourceGrows
<1>3. worker'[v].seen[d] \in Nat
    BY <1>1, ConstantsAssumption DEF TypeInv, TypeOK, WorkerState, Editions
<1>4. worker'[v].seen[d] <= source[d]
    BY <1>1, <1>2, SnapshotSteps DEF SnapshotsAreOld
<1>. QED BY <1>2, <1>3, <1>4

(* A row that is not written stays up to date.                             *)
LEMMA RowStaysUpToDate ==
    ASSUME OneWorkerInv, [Next]_vars, NEW n \in DOMAIN table, table'[n] = table[n]
    PROVE  \E e \in Editions : UpToDate(n, e)'
<1>1. TypeInv /\ RowsUpToDate /\ TypeInv'
    BY TypeNext DEF OneWorkerInv
<1>2. PICK d, e : d = table[n].doc /\ e \in Editions /\ UpToDate(n, e)
    BY <1>1 DEF RowsUpToDate
<1>3. d \in Documents /\ e \in Nat
    <2>1. table[n] \in Row
        BY <1>1 DEF TypeInv, TypeOK
    <2>. QED BY <1>2, <2>1, ConstantsAssumption DEF Row, Editions
<1>4. Shows(n, e)'
    BY <1>2 DEF UpToDate, Shows
<1>5. source[d] \in Nat /\ source'[d] \in Nat /\ source[d] <= source'[d] /\ e <= source[d]
    BY <1>1, <1>2, <1>3, SourceGrows DEF UpToDate
<1>6. ASSUME NEW v \in Workers, HasSnapshot(v)' PROVE e <= worker'[v].seen[d]
    BY <1>1, <1>2, <1>5, <1>6, SnapshotSteps DEF UpToDate
<1>7. e <= source'[d]
    BY <1>3, <1>5
<1>. QED BY <1>2, <1>4, <1>6, <1>7 DEF UpToDate

WrittenRow(w) == IF worker[w].found = 0 THEN Len(table) + 1 ELSE worker[w].found

(* What the only worker commits is its own copy of the document: in one    *)
(* row, up to date, and it touches no other row.                           *)
LEMMA CommitShows ==
    ASSUME OneWorkerInv, OneWorker, [Next]_vars, NEW w \in Workers,
           InsertDocument(w) \/ UpdateDocument(w), table' # table,
           NEW d, d = worker[w].at, NEW e, e = worker[w].seen[d],
           NEW n, n = WrittenRow(w)
    PROVE  /\ d \in Documents /\ e \in Editions
           /\ UNCHANGED source
           /\ table'[n].doc = d /\ UpToDate(n, e)' /\ RowsOf(d) \subseteq {n}
           /\ DOMAIN table' = DOMAIN table \union {n}
           /\ \A k \in DOMAIN table \ {n} : table'[k] = table[k]
<1>0. TypeInv /\ NoTwins(Documents) /\ ReadsHold(w) /\ SnapshotsAreOld
    BY DEF OneWorkerInv
<1>1. UNCHANGED source /\ worker[w].phase = "embed" /\ worker'[w].seen = worker[w].seen
        /\ HasSnapshot(w)
    BY KnowledgeEnds DEF InsertDocument, UpdateDocument
<1>2. d \in Documents
    BY <1>0, <1>1, RowFacts DEF InRow
<1>3. e <= source[d]
    BY <1>0, <1>1, <1>2 DEF SnapshotsAreOld
<1>4. e \in Editions /\ e \in Nat
    BY <1>0, <1>2, ConstantsAssumption DEF TypeInv, TypeOK, WorkerState, Editions
<1>5. ASSUME Shows(n, e)', table'[n].doc = d PROVE UpToDate(n, e)'
    BY <1>1, <1>3, <1>4, <1>5 DEF UpToDate, OneWorker
<1>6. CASE InsertDocument(w)
    <2>0. n = Len(table) + 1
        BY <1>6 DEF InsertDocument, WrittenRow
    <2>1. Shows(n, e)' /\ table'[n].doc = d
        <3>1. PICK k : k = n
            OBVIOUS
        <3>2. Shows(k, e)' /\ table'[k].doc = d
            BY <1>0, <1>6, <2>0, <3>1, InsertShows
        <3>. QED BY <3>1, <3>2 DEF Shows
    <2>3. DOMAIN table' = DOMAIN table \union {n} /\ \A k \in DOMAIN table : table'[k] = table[k]
        BY <1>0, <1>6, <2>0, InsertFacts
    <2>2. RowsOf(d) = {}
        BY <1>0, <1>1, <1>6 DEF ReadsHold, InsertDocument
    <2>. QED BY <1>1, <1>2, <1>4, <1>5, <2>1, <2>2, <2>3
<1>7. CASE UpdateDocument(w)
    <2>0. n = worker[w].found
        BY <1>7 DEF UpdateDocument, WrittenRow
    <2>1. HoldsRow(w) /\ worker[w].phase # "chunks"
        BY <1>1, <1>7 DEF HoldsRow, UpdateDocument
    <2>2. /\ table[n].hash = worker[w].hash /\ table[n].scope = worker[w].scope
          /\ ~Leftover(w)
        BY <1>0, <2>0, <2>1 DEF ReadsHold, Leftover
    <2>3. HashSeen(w) # worker[w].hash \/ table[n].hash = HashSeen(w)
        BY <2>2
    <2>4. ScopeSeen(w) # worker[w].scope \/ table[n].scope = ScopeSeen(w)
        BY <2>2
    <2>5. /\ Shows(n, e)' /\ table'[n].doc = d /\ DOMAIN table' = DOMAIN table
          /\ n \in DOMAIN table /\ table[n].doc = d
          /\ \A k \in DOMAIN table \ {n} : table'[k] = table[k]
        BY <1>0, <1>7, <2>0, <2>2, <2>3, <2>4, UpdateShows
    <2>6. RowsOf(d) \subseteq {n}
        BY <1>0, <1>2, <2>5 DEF NoTwins, RowsOf
    <2>. QED BY <1>1, <1>2, <1>4, <1>5, <2>5, <2>6
<1>. QED BY <1>6, <1>7

(* With one worker at a time no document has two rows, and every row is up *)
(* to date.                                                                *)
LEMMA OneWorkerNext == OneWorker /\ OneWorkerInv /\ [Next]_vars => OneWorkerInv'
<1>. SUFFICES ASSUME OneWorker, OneWorkerInv, [Next]_vars PROVE OneWorkerInv'
    OBVIOUS
<1>1. TypeInv' /\ SnapshotsAreOld' /\ NoTwins(Documents) /\ RowsUpToDate
    BY TypeNext, SnapshotsNext DEF OneWorkerInv
<1>2. CASE UNCHANGED table
    <2>1. NoTwins(Documents)'
        BY <1>1, <1>2 DEF NoTwins
    <2>2. RowsUpToDate'
        BY <1>2, RowStaysUpToDate DEF RowsUpToDate
    <2>. QED BY <1>1, <1>2, <2>1, <2>2, KnowledgeKept DEF OneWorkerInv
<1>3. ASSUME NEW w \in Workers, InsertDocument(w) \/ UpdateDocument(w), table' # table
      PROVE  OneWorkerInv'
    <2>0. PICK d, e, n : d = worker[w].at /\ e = worker[w].seen[d] /\ n = WrittenRow(w)
        OBVIOUS
    <2>1. /\ d \in Documents /\ e \in Editions
          /\ table'[n].doc = d /\ UpToDate(n, e)' /\ RowsOf(d) \subseteq {n}
          /\ DOMAIN table' = DOMAIN table \union {n}
          /\ \A k \in DOMAIN table \ {n} : table'[k] = table[k]
        BY <1>3, <2>0, CommitShows
    <2>2. \A k \in DOMAIN table \ {n} : \E f \in Editions : UpToDate(k, f)'
        BY <2>1, RowStaysUpToDate
    <2>3. RowsUpToDate'
        BY <2>1, <2>2 DEF RowsUpToDate
    <2>4. NoTwins(Documents)'
        BY <1>1, <2>1 DEF NoTwins, RowsOf
    <2>. QED BY <1>1, <1>3, <2>3, <2>4, KnowledgeEnds DEF OneWorkerInv
<1>. QED BY <1>2, <1>3, TableWriters

(* At the start there are no rows, and nobody knows anything.              *)
LEMMA OneWorkerInit == Init => OneWorkerInv
<1>. SUFFICES ASSUME Init PROVE OneWorkerInv
    OBVIOUS
<1>1. table = <<>> /\ \A w \in Workers : worker[w].phase = "polling"
    BY DEF Init, Idle
<1>2. NoTwins(Documents) /\ RowsUpToDate
    BY <1>1 DEF NoTwins, RowsUpToDate
<1>. QED BY <1>1, <1>2, TypeInit DEF OneWorkerInv, SnapshotsAreOld, HasSnapshot, InRow, ReadsHold,
            HoldsRow

(* So it stays.                                                            *)
LEMMA OneWorkerAlways == ASSUME OneWorker PROVE Spec => []OneWorkerInv
BY OneWorkerInit, OneWorkerNext, PTL DEF Spec

(* With one worker at a time redriving a job never double-writes: no       *)
(* document, of the catalogue or of the manifest, gets a second row.       *)
THEOREM OneWorkerNeverDoubles == ASSUME OneWorker PROVE Spec => []DocumentsUnique
<1>1. OneWorkerInv => DocumentsUnique
    BY TwinsCounted DEF OneWorkerInv, DocumentsUnique
<1>. QED BY <1>1, OneWorkerAlways, PTL

(* With one worker at a time no reader meets a mixture of editions,        *)
(* whatever the editions, the scope and the models do.                     *)
THEOREM OneWorkerKeepsRowsWhole == ASSUME OneWorker PROVE Spec => []RowsAreWhole
<1>1. OneWorkerInv => RowsAreWhole
    BY DEF OneWorkerInv, RowsUpToDate, UpToDate, RowsAreWhole
<1>. QED BY <1>1, OneWorkerAlways, PTL

-------------------------------------------------------------------------------
(* What the corpus shows is the edition of the document's only row.        *)
ShownIsTheRow ==
    \A d \in Documents, e \in Editions :
        /\ RowsOf(d) = {} => Shown(d) = 0
        /\ \A n \in RowsOf(d) : Shows(n, e) => Shown(d) = e

(* It is, because no document has two rows and every row is whole.         *)
LEMMA ShownFollowsRow == DistinctEditions /\ OneWorkerInv => ShownIsTheRow
<1>. SUFFICES ASSUME DistinctEditions, OneWorkerInv, NEW d \in Documents, NEW e \in Editions
              PROVE  /\ RowsOf(d) = {} => Shown(d) = 0
                     /\ \A n \in RowsOf(d) : Shows(n, e) => Shown(d) = e
    BY DEF ShownIsTheRow
<1>1. CASE RowsOf(d) = {}
    BY <1>1 DEF Shown
<1>2. ASSUME NEW n \in RowsOf(d), Shows(n, e) PROVE Shown(d) = e
    <2>1. RowsOf(d) = {n} /\ table[n].doc = d
        BY <1>2 DEF OneWorkerInv, NoTwins, RowsOf
    <2>2. \A f \in Editions : Shows(n, f) => f = e
        BY <1>2, <2>1 DEF Shows, DistinctEditions
    <2>3. Shown(d) = CHOOSE f \in Editions : \E k \in RowsOf(d) : Shows(k, f)
        BY <1>2, <2>1 DEF Shown
    <2>4. \A f \in Editions : (\E k \in RowsOf(d) : Shows(k, f)) <=> f = e
        BY <1>2, <2>1, <2>2
    <2>. QED BY <2>3, <2>4
<1>. QED BY <1>1, <1>2

(* Without rows the corpus shows nothing, as the abstract one at its start. *)
LEMMA CorpusInit == DistinctEditions /\ Init => Promise!Init
<1>. SUFFICES ASSUME DistinctEditions, Init PROVE Promise!Init
    OBVIOUS
<1>1. OneWorkerInv /\ ShownIsTheRow
    BY OneWorkerInit, ShownFollowsRow
<1>2. \A d \in Documents : RowsOf(d) = {}
    BY DEF Init, RowsOf
<1>3. 1 \in Editions
    BY ConstantsAssumption DEF Editions
<1>4. \A d \in Documents : Shown(d) = 0
    BY <1>1, <1>2, <1>3 DEF ShownIsTheRow
<1>. QED BY <1>4 DEF Init, Promise!Init

(* A step that leaves the table alone publishes or is not seen.            *)
LEMMA CorpusStands ==
    ASSUME [Next]_vars, UNCHANGED table
    PROVE  [Promise!Next]_Promise!vars
<1>1. \A d : Shown(d)' = Shown(d)
    BY DEF Shown, RowsOf, Shows
<1>2. [d \in Documents |-> Shown(d)]' = [d \in Documents |-> Shown(d)]
    BY <1>1
<1>3. (\E c \in Documents : Publish(c)) \/ UNCHANGED source
    BY DEF Next, JobStep, vars, Enqueue, VisibilityEnds, DeadLetter, Receive, Reject, Prepare,
        Lookup, ReadChunks, ClearChunks, InsertDocument, UpdateDocument, RowFails, JobFails,
        DeleteMessage, ProcessReplaced
<1>4. ASSUME NEW c \in Documents, Publish(c) PROVE Promise!Publish(c)
    BY <1>2, <1>4 DEF Publish, Promise!Publish
<1>. QED BY <1>2, <1>3, <1>4 DEF Promise!Next, Promise!vars

(* A commit refreshes its document, or writes the edition that was there.  *)
LEMMA CorpusRefreshed ==
    ASSUME OneWorker, DistinctEditions, OneWorkerInv, [Next]_vars, ShownIsTheRow,
           ShownIsTheRow', OneWorkerInv',
           NEW w \in Workers, InsertDocument(w) \/ UpdateDocument(w), table' # table
    PROVE  [Promise!Next]_Promise!vars
<1>0. PICK d, e, n : d = worker[w].at /\ e = worker[w].seen[d] /\ n = WrittenRow(w)
    OBVIOUS
<1>1. /\ d \in Documents /\ e \in Editions /\ UNCHANGED source
      /\ table'[n].doc = d /\ UpToDate(n, e)' /\ RowsOf(d) \subseteq {n}
      /\ DOMAIN table' = DOMAIN table \union {n}
      /\ \A k \in DOMAIN table \ {n} : table'[k] = table[k]
    BY <1>0, CommitShows
<1>2. Shown(d)' = e
    <2>1. n \in RowsOf(d)' /\ Shows(n, e)'
        BY <1>1 DEF RowsOf, UpToDate
    <2>. QED BY <1>1, <2>1 DEF ShownIsTheRow
<1>3. TableKeeps /\ TypeInv /\ RowsUpToDate /\ HasSnapshot(w)
    BY InsertFacts, UpdateFacts, KnowledgeEnds DEF OneWorkerInv
<1>4. ASSUME NEW c \in Documents, c # d PROVE Shown(c)' = Shown(c)
    <2>1. RowsOf(c)' = RowsOf(c) /\ n \notin RowsOf(c)
        BY <1>1, <1>3, <1>4 DEF TableKeeps, RowsOf
    <2>2. \A k \in RowsOf(c), f \in Editions : Shows(k, f)' = Shows(k, f)
        <3>1. \A k \in RowsOf(c) : table'[k] = table[k]
            BY <1>1, <2>1 DEF RowsOf
        <3>. QED BY <3>1 DEF Shows
    <2>. QED BY <2>1, <2>2 DEF Shown
<1>5. Shown(d) \in 0..e
    <2>1. e \in Nat
        BY <1>1, ConstantsAssumption DEF Editions
    <2>2. CASE RowsOf(d) = {}
        BY <1>1, <2>1, <2>2 DEF ShownIsTheRow
    <2>3. ASSUME NEW k \in RowsOf(d) PROVE Shown(d) \in 0..e
        <3>1. k \in DOMAIN table /\ table[k].doc = d
            BY <2>3 DEF RowsOf
        <3>2. PICK f \in Editions : UpToDate(k, f)
            BY <1>3, <3>1 DEF RowsUpToDate
        <3>3. Shown(d) = f /\ f <= e
            BY <1>0, <1>1, <1>3, <2>3, <3>1, <3>2 DEF ShownIsTheRow, UpToDate
        <3>. QED BY <2>1, <3>2, <3>3, ConstantsAssumption DEF Editions
    <2>. QED BY <2>2, <2>3
<1>6. e <= source[d] /\ source[d] \in Nat /\ e \in Nat
    BY <1>1, <1>3, SourceGrows, ConstantsAssumption DEF UpToDate, Editions
<1>. DEFINE now == [c \in Documents |-> Shown(c)]
            next == [c \in Documents |-> Shown(c)']
<1>7. CASE Shown(d) = e
    <2>1. \A c \in Documents : Shown(c)' = Shown(c)
        BY <1>2, <1>4, <1>7
    <2>2. [c \in Documents |-> Shown(c)]' = [c \in Documents |-> Shown(c)]
        BY <2>1
    <2>. QED BY <1>1, <2>2 DEF Promise!vars
<1>8. CASE Shown(d) # e
    <2>1. e \in (Shown(d) + 1)..source[d]
        BY <1>5, <1>6, <1>8
    <2>2. next = [now EXCEPT ![d] = e]
        BY <1>1, <1>2, <1>4
    <2>3. now[d] = Shown(d)
        BY <1>1
    <2>. HIDE DEF now, next
    <2>4. \E f \in (now[d] + 1)..source[d] : next = [now EXCEPT ![d] = f]
        BY <2>1, <2>2, <2>3
    <2>. USE DEF now, next
    <2>5. Promise!Refresh(d)
        BY <1>1, <2>4 DEF Promise!Refresh
    <2>. QED BY <1>1, <2>5 DEF Promise!Next
<1>. QED BY <1>7, <1>8

(* With one worker at a time, and editions that differ in their hash, the  *)
(* corpus behind all the queueing and its retries is Corpus: complete      *)
(* editions that the source has had, never an earlier one after a later.   *)
THEOREM IngestImplementsCorpus ==
    ASSUME OneWorker, DistinctEditions
    PROVE  Spec => ImplementsCorpus
<1>. DEFINE I == OneWorkerInv /\ ShownIsTheRow
<1>1. Init => Promise!Init
    BY CorpusInit
<1>2. I /\ I' /\ [Next]_vars => [Promise!Next]_Promise!vars
    BY CorpusStands, CorpusRefreshed, TableWriters
<1>3. OneWorkerInv => I
    BY ShownFollowsRow
<1>4. Spec => []I
    BY <1>3, OneWorkerAlways, PTL
<1>. HIDE DEF I
<1>. QED BY <1>1, <1>2, <1>4, PTL DEF Spec, ImplementsCorpus, Promise!Spec

-------------------------------------------------------------------------------
(* A clean job has landed                                                    *)

(* Editions with the same content hash agree on everything else that a row *)
(* stores.  It is so of the catalogue, whose hash covers the text and the  *)
(* ship that decides the scope; a manifest entry's in_scope flag is not    *)
(* part of its hash, so that of the manifest it asks that the flag stays.  *)
HashDecides ==
    \A d \in Documents : \A e, f \in Editions :
        Digest[d][e] = Digest[d][f] =>
            InScope[d][e] = InScope[d][f] /\ (<<d, e>> \in Wordless <=> <<d, f>> \in Wordless)

(* Row n is what worker w downloaded of document d, embedded with w's model. *)
LandedAt(w, d, n) ==
    /\ Shows(n, worker[w].seen[d])
    /\ table[n].content # 0 => table[n].model = worker[w].model

Landed(w, d) == \E n \in RowsOf(d) : LandedAt(w, d, n)

(* The documents of its job that worker w is through with.                 *)
Behind(w) ==
    {d \in Visits(worker[w].job) : worker[w].phase = "delete" \/ d < worker[w].at}

LandedSoFar(w) ==
    HasSnapshot(w) /\ worker[w].clean => \A d \in Behind(w) : Landed(w, d)

LandingInv == \A w \in Workers : LandedSoFar(w)

(* The rows a job visits are documents.                                    *)
LEMMA VisitsAreDocuments ==
    ASSUME NEW j \in Jobs PROVE Visits(j) \subseteq Documents /\ \A d \in Visits(j) : d <= LastRow(j)
BY ConstantsAssumption DEF Visits, FirstRow, LastRow, Documents

(* A step that leaves a row as it was, by a worker that works on, leaves   *)
(* landed what had landed there.                                           *)
LEMMA LandedStays ==
    ASSUME NEW w, NEW d, NEW n \in RowsOf(d), LandedAt(w, d, n),
           n \in DOMAIN table', table'[n] = table[n],
           worker'[w].seen = worker[w].seen, worker'[w].model = worker[w].model
    PROVE  Landed(w, d)'
<1>1. n \in RowsOf(d)'
    BY DEF RowsOf
<1>2. LandedAt(w, d, n)'
    BY DEF LandedAt, Shows
<1>. QED BY <1>1, <1>2 DEF Landed

(* Going on from a document that has landed, when everything before it     *)
(* has, leaves everything behind the worker landed.                        *)
LEMMA LandedForward ==
    ASSUME TypeOK, NEW w \in Workers, NEW ok \in BOOLEAN, worker[w].at \in Documents,
           Forward(w, worker[w].at, ok),
           ok /\ worker[w].clean =>
                \A d \in Documents :
                    d \in Visits(worker[w].job) /\ d <= worker[w].at => Landed(w, d)'
    PROVE  LandedSoFar(w)'
<1>. DEFINE at == worker[w].at
            job == worker[w].job
<1>0. worker[w] \in WorkerState /\ job \in Jobs /\ at \in Nat
    <2>1. worker[w] \in WorkerState
        BY DEF TypeOK
    <2>2. at \in Nat
        BY ConstantsAssumption DEF Documents
    <2>. QED BY <2>1, <2>2 DEF WorkerState
<1>1. /\ worker'[w].phase \in {"lookup", "delete"}
      /\ worker'[w].phase = "lookup" => worker'[w].at = at + 1
      /\ worker'[w].phase = "delete" => at >= LastRow(job)
      /\ worker'[w].job = job
      /\ worker'[w].clean = (worker[w].clean /\ ok)
    BY ForwardFacts
<1>2. ASSUME worker'[w].clean, NEW d \in Visits(job),
             worker'[w].phase = "delete" \/ d < worker'[w].at
      PROVE  Landed(w, d)'
    <2>1. d \in Documents /\ d \in Nat /\ d <= LastRow(job)
        BY <1>0, VisitsAreDocuments, ConstantsAssumption DEF Documents
    <2>2. LastRow(job) \in Nat
        BY <1>0, RowNumbers
    <2>3. d <= at
        BY <1>0, <1>1, <1>2, <2>1, <2>2
    <2>4. ok /\ worker[w].clean
        BY <1>0, <1>1, <1>2
    <2>. QED BY <2>1, <2>3, <2>4
<1>3. \A d \in Behind(w)' : worker'[w].clean => Landed(w, d)'
    BY <1>1, <1>2 DEF Behind
<1>. QED BY <1>3 DEF LandedSoFar

(* A job that skips a document found its own edition of it, in its own     *)
(* model, in the table.                                                    *)
LEMMA SkippedHasLanded ==
    ASSUME HashDecides, OneWorkerInv, NEW w \in Workers, ReadsHold(w),
           worker[w].phase = "chunks", worker[w].hash = HashSeen(w),
           \/ table[worker[w].found].content # 0
                /\ table[worker[w].found].model = worker[w].model
           \/ WordlessSeen(w)
    PROVE  worker[w].found \in RowsOf(worker[w].at)
            /\ LandedAt(w, worker[w].at, worker[w].found)
<1>. DEFINE d == worker[w].at
            e == worker[w].seen[d]
            n == worker[w].found
<1>1. /\ d \in Documents /\ worker[w] \in WorkerState
      /\ n \in RowsOf(d) /\ n \in DOMAIN table /\ table[n].doc = d
    BY RowFacts DEF InRow, OneWorkerInv, TypeInv, Located, RowsOf
<1>2. e \in Editions
    BY <1>1 DEF WorkerState
<1>3. PICK f \in Editions : Shows(n, f)
    BY <1>1 DEF OneWorkerInv, RowsUpToDate, UpToDate
<1>4. table[n].hash = Digest[d][e]
    BY DEF ReadsHold, HoldsRow, HashSeen
<1>5. Digest[d][f] = Digest[d][e]
    BY <1>1, <1>3, <1>4 DEF Shows
<1>6. InScope[d][f] = InScope[d][e] /\ (<<d, f>> \in Wordless <=> <<d, e>> \in Wordless)
    BY <1>1, <1>2, <1>5 DEF HashDecides
<1>7. Shows(n, e)
    BY <1>1, <1>3, <1>4, <1>6 DEF Shows
<1>8. table[n].content # 0 => table[n].model = worker[w].model
    BY <1>1, <1>7 DEF Shows, WordlessSeen
<1>. QED BY <1>1, <1>7, <1>8 DEF LandedAt

(* What a step of the only worker does to what it has landed, when it      *)
(* writes nothing.                                                         *)
LEMMA LandingReads ==
    ASSUME HashDecides, OneWorkerInv, LandingInv, [Next]_vars, UNCHANGED table, NEW w \in Workers,
           ~(InsertDocument(w) \/ UpdateDocument(w))
    PROVE  LandedSoFar(w)'
<1>0. /\ TypeInv /\ TypeOK /\ ReadsHold(w) /\ worker \in [Workers -> WorkerState]
      /\ worker[w] \in WorkerState /\ LandedSoFar(w)
    BY DEF OneWorkerInv, TypeInv, TypeOK, LandingInv
<1>a. ASSUME worker'[w].seen = worker[w].seen, worker'[w].model = worker[w].model,
             NEW d, Landed(w, d)
      PROVE  Landed(w, d)'
    <2>1. PICK n \in RowsOf(d) : LandedAt(w, d, n)
        BY <1>a DEF Landed
    <2>. QED BY <1>a, <2>1, LandedStays DEF RowsOf
<1>b. ASSUME HasSnapshot(w), worker'[w].seen = worker[w].seen, worker'[w].model = worker[w].model,
             worker'[w].job = worker[w].job, worker'[w].clean = worker[w].clean,
             worker'[w].at = worker[w].at,
             worker'[w].phase = "delete" => worker[w].phase = "delete"
      PROVE  LandedSoFar(w)'
    <2>1. Behind(w)' \subseteq Behind(w)
        BY <1>b DEF Behind
    <2>. QED BY <1>0, <1>a, <1>b, <2>1 DEF LandedSoFar
<1>1. CASE worker'[w] = worker[w]
    <2>1. LandedSoFar(w)' <=> (HasSnapshot(w) /\ worker[w].clean => \A d \in Behind(w) : Landed(w, d)')
        BY <1>1 DEF LandedSoFar, HasSnapshot, Behind
    <2>. QED BY <1>0, <1>1, <1>a, <2>1 DEF LandedSoFar
<1>2. CASE worker'[w].phase \in {"polling", "prepare"}
    BY <1>2 DEF LandedSoFar, HasSnapshot, InRow
<1>3. CASE Prepare(w)
    <2>. DEFINE j == worker[w].job
                none == Visits(j) = {}
    <2>1. /\ worker'[w].phase = (IF none THEN "delete" ELSE "lookup")
          /\ worker'[w].at = (IF none THEN 0 ELSE FirstRow(j))
          /\ worker'[w].job = j
        BY <1>0, <1>3 DEF Prepare, WorkerState
    <2>2. Behind(w)' = {}
        <3>1. CASE none
            BY <2>1, <3>1 DEF Behind
        <3>2. CASE ~none
            <4>1. \A d \in Visits(j) : ~(d < FirstRow(j))
                <5>1. j \in Jobs
                    BY <1>0 DEF WorkerState
                <5>2. FirstRow(j) \in Nat /\ LastRow(j) \in Nat
                    BY <5>1, RowNumbers
                <5>. QED BY <5>2 DEF Visits
            <4>. QED BY <2>1, <3>2, <4>1 DEF Behind
        <3>. QED BY <3>1, <3>2
    <2>. QED BY <2>2 DEF LandedSoFar
<1>4. CASE RowFails(w)
    <2>1. worker[w].at \in Documents /\ Forward(w, worker[w].at, FALSE)
        BY <1>0, <1>4, RowFacts DEF RowFails, InRow
    <2>. QED BY <1>0, <2>1, LandedForward
<1>5. CASE Lookup(w) \/ ClearChunks(w)
    <2>1. /\ HasSnapshot(w) /\ worker'[w].phase \in {"chunks", "embed"}
          /\ worker'[w].seen = worker[w].seen /\ worker'[w].model = worker[w].model
          /\ worker'[w].job = worker[w].job /\ worker'[w].clean = worker[w].clean
          /\ worker'[w].at = worker[w].at
        <3>1. CASE Lookup(w)
            <4>1. CASE worker' = [worker EXCEPT ![w].phase = "embed"]
                BY <1>0, <3>1, <4>1 DEF Lookup, WorkerState, HasSnapshot, InRow
            <4>2. ASSUME NEW n \in RowsOf(worker[w].at),
                         worker' = [worker EXCEPT ![w] = [worker[w] EXCEPT
                            !.phase = "chunks", !.found = n, !.hash = table[n].hash,
                            !.scope = table[n].scope]]
                  PROVE  /\ worker'[w].phase = "chunks"
                         /\ worker'[w].seen = worker[w].seen /\ worker'[w].model = worker[w].model
                         /\ worker'[w].job = worker[w].job /\ worker'[w].clean = worker[w].clean
                         /\ worker'[w].at = worker[w].at
                BY <1>0, <4>2 DEF WorkerState
            <4>3. HasSnapshot(w)
                BY <3>1 DEF Lookup, HasSnapshot, InRow
            <4>. QED BY <3>1, <4>1, <4>2, <4>3 DEF Lookup
        <3>2. CASE ClearChunks(w)
            BY <1>0, <3>2 DEF ClearChunks, WorkerState, HasSnapshot, InRow
        <3>. QED BY <1>5, <3>1, <3>2
    <2>. QED BY <1>b, <2>1
<1>6. CASE ReadChunks(w)
    <2>0. /\ worker[w].phase = "chunks" /\ HasSnapshot(w) /\ worker[w].at \in Documents
          /\ worker[w].phase # "delete"
        BY <1>0, <1>6, RowFacts DEF ReadChunks, InRow, HasSnapshot
    <2>1. CASE worker' = [worker EXCEPT ![w].phase = "clear",
                                        ![w].serial = table[worker[w].found].serial]
        <3>1. /\ worker'[w].phase = "clear"
              /\ worker'[w].seen = worker[w].seen /\ worker'[w].model = worker[w].model
              /\ worker'[w].job = worker[w].job /\ worker'[w].clean = worker[w].clean
              /\ worker'[w].at = worker[w].at
            BY <1>0, <2>1 DEF WorkerState
        <3>. QED BY <1>b, <2>0, <3>1
    <2>2. CASE worker[w].hash = HashSeen(w) /\ Forward(w, worker[w].at, TRUE)
                /\ (\/ table[worker[w].found].content # 0
                        /\ table[worker[w].found].model = worker[w].model
                    \/ WordlessSeen(w))
        <3>1. worker'[w].seen = worker[w].seen /\ worker'[w].model = worker[w].model
            BY <1>0, <2>0, <2>2, ForwardFacts
        <3>2. Landed(w, worker[w].at)
            BY <1>0, <2>0, <2>2, SkippedHasLanded DEF Landed
        <3>3. ASSUME worker[w].clean, NEW d \in Documents,
                     d \in Visits(worker[w].job), d <= worker[w].at
              PROVE  Landed(w, d)'
            <4>1. d = worker[w].at \/ d < worker[w].at
                BY <2>0, <3>3, ConstantsAssumption DEF Documents
            <4>2. Landed(w, d)
                BY <1>0, <2>0, <3>2, <3>3, <4>1 DEF LandedSoFar, Behind
            <4>. QED BY <1>a, <3>1, <4>2
        <3>. QED BY <1>0, <2>0, <2>2, <3>3, LandedForward
    <2>. QED BY <1>6, <2>1, <2>2 DEF ReadChunks
<1>7. \/ worker'[w] = worker[w]
      \/ worker'[w].phase \in {"polling", "prepare"}
      \/ Prepare(w) \/ RowFails(w) \/ Lookup(w) \/ ReadChunks(w) \/ ClearChunks(w)
    <2>1. ASSUME NEW v \in Workers, w # v,
             JobStep(v) \/ RowFails(v) \/ JobFails(v) \/ ProcessReplaced(v)
                \/ \E j \in Jobs : Receive(v, j)
          PROVE  worker'[w] = worker[w]
        BY <1>0, <2>1 DEF JobStep, Forward, Receive, Reject, Prepare, Lookup, ReadChunks,
            ClearChunks, RowFails, JobFails, DeleteMessage, ProcessReplaced, InsertDocument,
            UpdateDocument
    <2>2. CASE Reject(w) \/ JobFails(w) \/ ProcessReplaced(w) \/ DeleteMessage(w)
        <3>1. \E m : worker' = [worker EXCEPT ![w] = Idle(m)]
            BY <2>2 DEF Reject, JobFails, ProcessReplaced, DeleteMessage
        <3>. QED BY <1>0, <3>1 DEF Idle
    <2>3. ASSUME NEW j \in Jobs, Receive(w, j) PROVE worker'[w].phase = "prepare"
        BY <1>0, <2>3 DEF Receive, Idle
    <2>4. \/ UNCHANGED worker
          \/ \E v \in Workers :
                JobStep(v) \/ RowFails(v) \/ JobFails(v) \/ ProcessReplaced(v)
                    \/ \E j \in Jobs : Receive(v, j)
        BY DEF Next, vars, Publish, Enqueue, VisibilityEnds, DeadLetter
    <2>. QED BY <2>1, <2>2, <2>3, <2>4 DEF JobStep
<1>. QED BY <1>1, <1>2, <1>3, <1>4, <1>5, <1>6, <1>7

(* What the only worker commits has landed, and what had landed before it  *)
(* is in other rows.                                                       *)
LEMMA LandingWrites ==
    ASSUME OneWorker, OneWorkerInv, LandingInv, [Next]_vars, NEW w \in Workers,
           InsertDocument(w) \/ UpdateDocument(w)
    PROVE  LandedSoFar(w)'
<1>0. TypeInv /\ TypeOK /\ ReadsHold(w) /\ LandedSoFar(w) /\ worker[w] \in WorkerState
    BY DEF OneWorkerInv, LandingInv, TypeInv, TypeOK
<1>1. worker[w].at \in Documents /\ HasSnapshot(w) /\ worker[w].phase = "embed"
    BY <1>0, RowFacts DEF InsertDocument, UpdateDocument, InRow, HasSnapshot
<1>2. PICK ok \in BOOLEAN : Forward(w, worker[w].at, ok) /\ (ok => table' # table)
    <2>1. CASE InsertDocument(w)
        BY <1>0, <2>1, InsertFacts
    <2>2. CASE UpdateDocument(w)
        <3>1. HoldsRow(w) /\ ~Leftover(w)
            BY <1>0, <2>2 DEF UpdateDocument, HoldsRow, ReadsHold, Leftover
        <3>2. /\ worker[w].found \in DOMAIN table
              /\ table'[worker[w].found] = Updated(w) /\ Forward(w, worker[w].at, TRUE)
            BY <1>0, <2>2, <3>1, UpdateFacts
        <3>3. table[worker[w].found].serial \in Nat
            <4>1. table[worker[w].found] \in Row
                BY <1>0, <3>2 DEF TypeOK
            <4>. QED BY <4>1 DEF Row
        <3>4. Updated(w).serial = table[worker[w].found].serial + 1
            BY <3>1 DEF Updated
        <3>5. table' # table
            BY <3>2, <3>3, <3>4
        <3>. QED BY <3>2, <3>5
    <2>. QED BY <2>1, <2>2
<1>3. worker'[w].seen = worker[w].seen /\ worker'[w].model = worker[w].model
    BY <1>0, <1>1, <1>2, ForwardFacts
<1>4. ASSUME ok, worker[w].clean, NEW c \in Documents, c \in Visits(worker[w].job),
             c <= worker[w].at
      PROVE  Landed(w, c)'
    <2>0. PICK d, e, n : d = worker[w].at /\ e = worker[w].seen[d] /\ n = WrittenRow(w)
        OBVIOUS
    <2>1. /\ table'[n].doc = d /\ UpToDate(n, e)'
          /\ DOMAIN table' = DOMAIN table \union {n} /\ RowsOf(d) \subseteq {n}
          /\ \A k \in DOMAIN table \ {n} : table'[k] = table[k]
        BY <1>2, <1>4, <2>0, CommitShows
    <2>2. CASE c = d
        <3>1. n \in RowsOf(d)' /\ Shows(n, e)'
            BY <2>1 DEF RowsOf, UpToDate
        <3>2. table'[n].model = worker[w].model
            <4>1. CASE InsertDocument(w)
                BY <1>0, <1>2, <1>4, <2>0, <4>1, InsertFacts DEF InsertDocument, WrittenRow
            <4>2. CASE UpdateDocument(w)
                <5>1. ~Leftover(w) /\ n = worker[w].found
                    BY <1>0, <2>0, <4>2
                    DEF UpdateDocument, HoldsRow, ReadsHold, Leftover, WrittenRow
                <5>2. table'[n] = Updated(w)
                    BY <1>0, <4>2, <5>1, UpdateFacts
                <5>3. Updated(w).model = worker[w].model
                    BY <5>1 DEF Updated
                <5>. QED BY <5>2, <5>3
            <4>. QED BY <4>1, <4>2
        <3>3. LandedAt(w, d, n)'
            BY <1>3, <2>0, <3>1, <3>2 DEF LandedAt, Shows
        <3>. QED BY <2>2, <3>1, <3>3 DEF Landed
    <2>3. CASE c # d
        <3>1. c < worker[w].at
            BY <1>1, <1>4, <2>0, <2>3, ConstantsAssumption DEF Documents
        <3>2. PICK k \in RowsOf(c) : LandedAt(w, c, k)
            BY <1>0, <1>1, <1>4, <3>1 DEF LandedSoFar, Behind, Landed
        <3>3. k \in DOMAIN table /\ table[k].doc = c
            BY <3>2 DEF RowsOf
        <3>4. k # n
            <4>1. TableKeeps
                BY <1>0, InsertFacts, UpdateFacts
            <4>. QED BY <2>1, <2>3, <3>3, <4>1 DEF TableKeeps
        <3>5. k \in DOMAIN table' /\ table'[k] = table[k]
            BY <2>1, <3>3, <3>4
        <3>. QED BY <1>3, <3>2, <3>5, LandedStays
    <2>. QED BY <2>2, <2>3
<1>. QED BY <1>0, <1>1, <1>2, <1>4, LandedForward

(* With one worker at a time, and a hash that decides what a row stores,   *)
(* a job that came through its rows without an error has left exactly what *)
(* it downloaded in the corpus, embedded with its own model.               *)
THEOREM CleanJobsLand ==
    ASSUME OneWorker, HashDecides
    PROVE  Spec => []CleanRunsLand
<1>1. Init => LandingInv
    BY DEF Init, LandingInv, LandedSoFar, HasSnapshot, InRow, Idle
<1>2. OneWorkerInv /\ LandingInv /\ [Next]_vars => LandingInv'
    <2>. SUFFICES ASSUME OneWorkerInv, LandingInv, [Next]_vars, NEW w \in Workers
                  PROVE  LandedSoFar(w)'
        BY DEF LandingInv
    <2>1. UNCHANGED table \/ InsertDocument(w) \/ UpdateDocument(w)
        BY TableWriters DEF OneWorker
    <2>. QED BY <2>1, LandingReads, LandingWrites
<1>3. TypeInv /\ LandingInv => CleanRunsLand
    <2>. SUFFICES ASSUME TypeInv, LandingInv, NEW w \in Workers, worker[w].phase = "delete",
                         worker[w].clean, NEW d \in Visits(worker[w].job)
                  PROVE  \E n \in RowsOf(d) :
                            /\ table[n].hash = Digest[d][worker[w].seen[d]]
                            /\ table[n].scope = InScope[d][worker[w].seen[d]]
                            /\ table[n].content # 0 => table[n].model = worker[w].model
        BY DEF CleanRunsLand
    <2>1. Landed(w, d)
        BY DEF LandingInv, LandedSoFar, HasSnapshot, Behind
    <2>. QED BY <2>1 DEF Landed, LandedAt, Shows, RowsOf
<1>4. OneWorkerInv => TypeInv
    BY DEF OneWorkerInv
<1>. QED BY <1>1, <1>2, <1>3, <1>4, OneWorkerAlways, PTL DEF Spec

=============================================================================
