----------------------------- MODULE IngestJobs -----------------------------
(***************************************************************************)
(* Ingest jobs: the SQS queue with its visibility timeout, receive count   *)
(* and dead-letter queue (infra/terraform/sqs.tf), worker processes        *)
(* (backend/app/jobs/worker.py), the row loop of the pipeline              *)
(* (ingest/pipeline.py) and the upsert of one document                     *)
(* (ingest/upsert.py) as the statements it sends to a READ COMMITTED        *)
(* Postgres.                                                               *)
(*                                                                         *)
(* Documents are numbered in the order in which a job visits them, the     *)
(* catalogue's before the manifest's.  An edition is what the source says  *)
(* of a document; only its content hash, whether it is in scope and        *)
(* whether it has any text matter here.                                    *)
(***************************************************************************)
EXTENDS Naturals, Sequences, FiniteSets

CONSTANTS
    Workers,            \* ECS tasks of the worker service, and CLI runs
    Jobs,               \* messages sent by POST /ingest/jobs
    Poison,             \* jobs whose body or sources the worker refuses
    Selects,            \* the sources each job includes
    CatalogueSize,      \* documents with an object_identifier
    DocumentCount,      \* all documents, the manifest's are the last ones
    MaxEdition,         \* bound on the editions of a document
    Digest,             \* content_hash of an edition
    InScope,            \* whether an edition belongs to the knowledge base
    Wordless,           \* editions without any text to embed
    Models,             \* embedding models a deployment may configure
    MaxReceive          \* maxReceiveCount of the redrive policy

Documents == 1..DocumentCount

Catalogue == 1..CatalogueSize

Editions == 1..MaxEdition

ASSUME ConstantsAssumption ==
    /\ CatalogueSize \in Nat /\ DocumentCount \in Nat /\ CatalogueSize <= DocumentCount
    /\ MaxEdition \in Nat \ {0} /\ MaxReceive \in Nat \ {0}
    /\ Jobs # {} /\ Poison \subseteq Jobs
    /\ Selects \in [Jobs -> (SUBSET {"csv", "external"}) \ {{}}]
    /\ Digest \in [Documents -> [Editions -> Nat \ {0}]]
    /\ InScope \in [Documents -> [Editions -> BOOLEAN]]
    /\ Wordless \subseteq Documents \X Editions
    /\ Models # {}

VARIABLES
    source,     \* the edition of each document in the bucket or on disk
    message,    \* the queue's record of each job
    table,      \* committed documents with their chunks, in order of insertion
    worker      \* what each worker is doing

vars == <<source, message, table, worker>>

-------------------------------------------------------------------------------
Status == {"unsent", "queued", "inflight", "deleted", "dead"}

MessageState == [status : Status, receives : 0..MaxReceive]

(* A documents row and its chunks.  content is the hash of the edition the *)
(* chunks were made from, 0 without chunks; serial tells one set of chunks *)
(* of the row from another, as their ids do.                               *)
Row == [doc : Documents, hash : Nat, scope : BOOLEAN,
        serial : Nat, content : Nat, model : Models]

Phase == {"polling", "prepare", "lookup", "chunks", "clear", "embed", "delete"}

AnyJob == CHOOSE j \in Jobs : TRUE

AnyModel == CHOOSE m \in Models : TRUE

NoSnapshot == [d \in Documents |-> 1]

(* found is the index of the row the lookup returned, 0 for none; hash,    *)
(* scope and serial are what was read of it; clean says no row failed.     *)
WorkerState ==
    [phase : Phase, job : Jobs, receipt : 0..MaxReceive, seen : [Documents -> Editions],
     at : Documents \union {0}, found : Nat, hash : Nat, scope : BOOLEAN, serial : Nat,
     clean : BOOLEAN, model : Models]

Idle(m) ==
    [phase |-> "polling", job |-> AnyJob, receipt |-> 0, seen |-> NoSnapshot, at |-> 0,
     found |-> 0, hash |-> 0, scope |-> FALSE, serial |-> 0, clean |-> TRUE, model |-> m]

(* The rows a job visits, in order.                                        *)
FirstRow(j) == IF "csv" \in Selects[j] THEN 1 ELSE CatalogueSize + 1

LastRow(j) == IF "external" \in Selects[j] THEN DocumentCount ELSE CatalogueSize

Visits(j) == FirstRow(j)..LastRow(j)

HashSeen(w) == Digest[worker[w].at][worker[w].seen[worker[w].at]]

ScopeSeen(w) == InScope[worker[w].at][worker[w].seen[worker[w].at]]

WordlessSeen(w) == <<worker[w].at, worker[w].seen[worker[w].at]>> \in Wordless

RowsOf(d) == {n \in DOMAIN table : table[n].doc = d}

(* The next row of the job, or its end.  A rolled back or finished         *)
(* transaction leaves nothing read.                                        *)
Forward(w, from, ok) ==
    LET more == from < LastRow(worker[w].job)
    IN  worker' = [worker EXCEPT ![w] = [@ EXCEPT
            !.phase = IF more THEN "lookup" ELSE "delete",
            !.at = IF more THEN from + 1 ELSE 0,
            !.found = 0, !.hash = 0, !.scope = FALSE, !.serial = 0,
            !.clean = worker[w].clean /\ ok]]

(* The chunks worker w deleted and has not committed: other deletes of the *)
(* same chunks, and inserts with the same chunk_index, wait for it.        *)
Deleting(w, n) ==
    /\ worker[w].phase = "embed" /\ worker[w].found = n
    /\ table[n].serial = worker[w].serial /\ table[n].content # 0

LockedByOther(w, n) == \E v \in Workers \ {w} : Deleting(v, n)

-------------------------------------------------------------------------------
Init ==
    /\ source = [d \in Documents |-> 1]
    /\ message = [j \in Jobs |-> [status |-> "unsent", receives |-> 0]]
    /\ table = <<>>
    /\ worker \in [Workers -> {Idle(m) : m \in Models}]

(* A new edition of a document reaches the bucket.                         *)
Publish(d) ==
    /\ source[d] < MaxEdition
    /\ source' = [source EXCEPT ![d] = @ + 1]
    /\ UNCHANGED <<message, table, worker>>

(* POST /ingest/jobs.                                                      *)
Enqueue(j) ==
    /\ message[j].status = "unsent"
    /\ message' = [message EXCEPT ![j].status = "queued"]
    /\ UNCHANGED <<source, table, worker>>

(* The visibility timeout ends, or SQS delivers the message once more.     *)
VisibilityEnds(j) ==
    /\ message[j].status = "inflight"
    /\ message' = [message EXCEPT ![j].status = "queued"]
    /\ UNCHANGED <<source, table, worker>>

(* Faulty variant: no redrive policy.                                      *)
DeadLetter_Never(j) == FALSE /\ UNCHANGED vars

(* A message received maxReceiveCount times goes to the dead-letter queue. *)
DeadLetter(j) ==
    /\ message[j].status = "queued"
    /\ message[j].receives = MaxReceive
    /\ message' = [message EXCEPT ![j].status = "dead"]
    /\ UNCHANGED <<source, table, worker>>

-------------------------------------------------------------------------------
(* poll_once receives one message (sqs_max_messages).                      *)
Receive(w, j) ==
    /\ worker[w].phase = "polling"
    /\ message[j].status = "queued"
    /\ message[j].receives < MaxReceive
    /\ message' = [message EXCEPT ![j].status = "inflight", ![j].receives = @ + 1]
    /\ worker' = [worker EXCEPT ![w] = [Idle(worker[w].model) EXCEPT
                    !.phase = "prepare", !.job = j, !.receipt = message[j].receives + 1]]
    /\ UNCHANGED <<source, table>>

(* A source is not the approved one, or an S3 URI is invalid: the message  *)
(* stays in the queue.  (A body that does not parse ends the process, which *)
(* is replaced: the same without the log entry.)                           *)
Reject(w) ==
    /\ worker[w].phase = "prepare"
    /\ worker[w].job \in Poison
    /\ worker' = [worker EXCEPT ![w] = Idle(worker[w].model)]
    /\ UNCHANGED <<source, message, table>>

(* The sources are downloaded; the job works on this copy to its end.      *)
Prepare(w) ==
    LET j == worker[w].job
    IN  /\ worker[w].phase = "prepare"
        /\ j \notin Poison
        /\ worker' = [worker EXCEPT ![w] =
                [@ EXCEPT !.seen = source,
                          !.phase = IF Visits(j) = {} THEN "delete" ELSE "lookup",
                          !.at = IF Visits(j) = {} THEN 0 ELSE FirstRow(j)]]
        /\ UNCHANGED <<source, message, table>>

(* _find_existing(...).first(), without an order: any matching row.        *)
Lookup(w) ==
    /\ worker[w].phase = "lookup"
    /\ \/ /\ RowsOf(worker[w].at) = {}
          /\ worker' = [worker EXCEPT ![w].phase = "embed"]
       \/ \E n \in RowsOf(worker[w].at) :
            worker' = [worker EXCEPT ![w] =
                [@ EXCEPT !.phase = "chunks", !.found = n,
                          !.hash = table[n].hash, !.scope = table[n].scope]]
    /\ UNCHANGED <<source, message, table>>

(* Faulty variant: unchanged content is skipped whatever the model.        *)
ReadChunks_AnyModel(w) ==
    /\ worker[w].phase = "chunks"
    /\ IF worker[w].hash = HashSeen(w)
       THEN Forward(w, worker[w].at, TRUE)
       ELSE worker' = [worker EXCEPT ![w].phase = "clear",
                                     ![w].serial = table[worker[w].found].serial]
    /\ UNCHANGED <<source, message, table>>

(* The lazy load of existing.chunks is a statement of its own and sees     *)
(* what was committed since the lookup; then the decision to skip.         *)
ReadChunks(w) ==
    LET row == table[worker[w].found]
        sameModel == (row.content # 0 /\ row.model = worker[w].model) \/ WordlessSeen(w)
    IN  /\ worker[w].phase = "chunks"
        /\ IF worker[w].hash = HashSeen(w) /\ sameModel
           THEN Forward(w, worker[w].at, TRUE)
           ELSE worker' = [worker EXCEPT ![w].phase = "clear", ![w].serial = row.serial]
        /\ UNCHANGED <<source, message, table>>

(* Faulty variant: the deletes are committed before the embedding.         *)
ClearChunks_Committed(w) ==
    /\ worker[w].phase = "clear"
    /\ table[worker[w].found].serial = worker[w].serial => ~LockedByOther(w, worker[w].found)
    /\ table' = [table EXCEPT ![worker[w].found].content = 0]
    /\ worker' = [worker EXCEPT ![w].phase = "embed"]
    /\ UNCHANGED <<source, message>>

(* existing.chunks.clear() and flush: the deletes take row locks that are  *)
(* held while the new chunks are embedded.  Chunks that another worker     *)
(* replaced in the meantime match nothing, which is only a warning.        *)
ClearChunks(w) ==
    /\ worker[w].phase = "clear"
    /\ table[worker[w].found].serial = worker[w].serial => ~LockedByOther(w, worker[w].found)
    /\ worker' = [worker EXCEPT ![w].phase = "embed"]
    /\ UNCHANGED <<source, message, table>>

(* Faulty variant: no unique index on object_identifier.                   *)
InsertDocument_NoIndex(w) ==
    LET row == [doc |-> worker[w].at, hash |-> HashSeen(w), scope |-> ScopeSeen(w), serial |-> 1,
                content |-> IF WordlessSeen(w) THEN 0 ELSE HashSeen(w),
                model |-> worker[w].model]
    IN  /\ worker[w].phase = "embed"
        /\ worker[w].found = 0
        /\ table' = Append(table, row)
        /\ Forward(w, worker[w].at, TRUE)
        /\ UNCHANGED <<source, message>>

(* INSERT of a new document and its chunks.  The only unique index on      *)
(* documents is that of object_identifier.                                 *)
InsertDocument(w) ==
    LET d == worker[w].at
        duplicate == d \in Catalogue /\ RowsOf(d) # {}
        row == [doc |-> d, hash |-> HashSeen(w), scope |-> ScopeSeen(w), serial |-> 1,
                content |-> IF WordlessSeen(w) THEN 0 ELSE HashSeen(w),
                model |-> worker[w].model]
    IN  /\ worker[w].phase = "embed"
        /\ worker[w].found = 0
        /\ table' = IF duplicate THEN table ELSE Append(table, row)
        /\ Forward(w, d, ~duplicate)
        /\ UNCHANGED <<source, message>>

(* Faulty variant: chunk rows that are in the way are left as they are.    *)
UpdateDocument_KeepOld(w) ==
    LET n == worker[w].found
        leftover == table[n].serial # worker[w].serial /\ table[n].content # 0
    IN  /\ worker[w].phase = "embed"
        /\ n # 0
        /\ table' = [table EXCEPT ![n].hash = HashSeen(w), ![n].scope = ScopeSeen(w),
                                  ![n].serial = IF leftover THEN @ ELSE @ + 1,
                                  ![n].content = IF leftover THEN @ ELSE HashSeen(w)]
        /\ Forward(w, worker[w].at, TRUE)
        /\ UNCHANGED <<source, message>>

(* Chunks that another worker put in place of those this one read.         *)
Leftover(w) ==
    /\ table[worker[w].found].serial # worker[w].serial
    /\ table[worker[w].found].content # 0

(* The row after the flush: only the columns that differ from what the     *)
(* lookup read are set, and chunks that were not deleted stay.             *)
Updated(w) ==
    LET row == table[worker[w].found]
    IN  [doc |-> row.doc,
         hash |-> IF HashSeen(w) = worker[w].hash THEN row.hash ELSE HashSeen(w),
         scope |-> IF ScopeSeen(w) = worker[w].scope THEN row.scope ELSE ScopeSeen(w),
         serial |-> IF Leftover(w) THEN row.serial ELSE row.serial + 1,
         content |-> IF Leftover(w) THEN row.content
                     ELSE IF WordlessSeen(w) THEN 0 ELSE HashSeen(w),
         model |-> IF Leftover(w) THEN row.model ELSE worker[w].model]

(* UPDATE, INSERT of the chunks, COMMIT.  Leftover chunks violate          *)
(* UNIQUE (document_id, chunk_index), unless this edition has none.        *)
UpdateDocument(w) ==
    LET n == worker[w].found
        conflict == Leftover(w) /\ ~WordlessSeen(w)
    IN  /\ worker[w].phase = "embed"
        /\ n # 0
        /\ conflict => ~LockedByOther(w, n)
        /\ table' = IF conflict THEN table ELSE [table EXCEPT ![n] = Updated(w)]
        /\ Forward(w, worker[w].at, ~conflict)
        /\ UNCHANGED <<source, message>>

(* Any other exception of a row, from its first field to its embedding: it *)
(* is rolled back, counted and logged, and the job goes on.                *)
RowFails(w) ==
    /\ worker[w].phase \in {"lookup", "chunks", "clear", "embed"}
    /\ Forward(w, worker[w].at, FALSE)
    /\ UNCHANGED <<source, message, table>>

(* The datastore is unavailable, or something outside the rows raises: the *)
(* job ends and its message is left alone.                                 *)
JobFails(w) ==
    /\ worker[w].phase \in {"prepare", "lookup", "chunks", "clear", "embed"}
    /\ worker' = [worker EXCEPT ![w] = Idle(worker[w].model)]
    /\ UNCHANGED <<source, message, table>>

(* The row loop is through: the message is deleted.  A receipt from an     *)
(* earlier receive may or may not still work, and does not reach the       *)
(* dead-letter queue.                                                      *)
DeleteMessage(w) ==
    LET j == worker[w].job
        reachable == message[j].status \in {"queued", "inflight"}
    IN  /\ worker[w].phase = "delete"
        /\ \/ /\ reachable
              /\ message' = [message EXCEPT ![j].status = "deleted"]
           \/ /\ ~reachable \/ worker[w].receipt # message[j].receives
              /\ UNCHANGED message
        /\ worker' = [worker EXCEPT ![w] = Idle(worker[w].model)]
        /\ UNCHANGED <<source, table>>

(* A deployment, a lost task, a delete that raises: the process ends, what *)
(* it had not committed is rolled back, and another takes its place.       *)
ProcessReplaced(w) ==
    /\ \E m \in Models : worker' = [worker EXCEPT ![w] = Idle(m)]
    /\ UNCHANGED <<source, message, table>>

JobStep(w) ==
    \/ Reject(w) \/ Prepare(w) \/ Lookup(w) \/ ReadChunks(w) \/ ClearChunks(w)
    \/ InsertDocument(w) \/ UpdateDocument(w) \/ DeleteMessage(w)

Next ==
    \/ \E d \in Documents : Publish(d)
    \/ \E j \in Jobs : Enqueue(j) \/ VisibilityEnds(j) \/ DeadLetter(j)
    \/ \E w \in Workers :
        JobStep(w) \/ RowFails(w) \/ JobFails(w) \/ ProcessReplaced(w)
            \/ \E j \in Jobs : Receive(w, j)

Spec == Init /\ [][Next]_vars

(* run_forever polls and works without end, and SQS keeps its clock.       *)
Fairness ==
    /\ \A w \in Workers : WF_vars(JobStep(w)) /\ WF_vars(\E j \in Jobs : Receive(w, j))
    /\ \A j \in Jobs : WF_vars(VisibilityEnds(j)) /\ WF_vars(DeadLetter(j))

FairSpec == Spec /\ Fairness

-------------------------------------------------------------------------------
TypeOK ==
    /\ source \in [Documents -> Editions]
    /\ message \in [Jobs -> MessageState]
    /\ table \in Seq(Row)
    /\ worker \in [Workers -> WorkerState]

(* A museum object has one document, however many workers insert it.       *)
CatalogueUnique == \A d \in Catalogue : Cardinality(RowsOf(d)) <= 1

(* Every document has at most one row: running a job again, or redriving   *)
(* it, never double-writes.                                                *)
DocumentsUnique == \A d \in Documents : Cardinality(RowsOf(d)) <= 1

(* Row n, its scope and its chunks come from edition e of its document.    *)
Shows(n, e) ==
    /\ table[n].hash = Digest[table[n].doc][e]
    /\ table[n].scope = InScope[table[n].doc][e]
    /\ table[n].content = IF <<table[n].doc, e>> \in Wordless THEN 0 ELSE table[n].hash

(* A row, its scope and its chunks always come from one edition of its     *)
(* document: no reader of the corpus ever meets a mixture.                 *)
RowsAreWhole == \A n \in DOMAIN table : \E e \in Editions : Shows(n, e)

(* A job that reached the end of its rows without an error left exactly    *)
(* what it downloaded in the corpus, embedded with its own model.          *)
CleanRunsLand ==
    \A w \in Workers :
        worker[w].phase = "delete" /\ worker[w].clean =>
            \A d \in Visits(worker[w].job) :
                \E n \in RowsOf(d) :
                    /\ table[n].hash = Digest[d][worker[w].seen[d]]
                    /\ table[n].scope = InScope[d][worker[w].seen[d]]
                    /\ table[n].content # 0 => table[n].model = worker[w].model

(* Every job that was sent is deleted or ends in the dead-letter queue.    *)
JobsSettle ==
    \A j \in Jobs : message[j].status = "queued" ~> message[j].status \in {"deleted", "dead"}

(* The edition that the corpus shows of d: 0 without a row, and no edition *)
(* at all for two rows or a mixture.                                       *)
Garbled == MaxEdition + 1

Shown(d) ==
    CASE RowsOf(d) = {} -> 0
      [] \E n \in RowsOf(d), e \in Editions : RowsOf(d) = {n} /\ Shows(n, e) ->
            CHOOSE e \in Editions : \E n \in RowsOf(d) : Shows(n, e)
      [] OTHER -> Garbled

Promise == INSTANCE Corpus WITH published <- source, shown <- [d \in Documents |-> Shown(d)]

(* With one worker the queue, its retries and the statements of an upsert  *)
(* together show complete editions only, and never go back.                *)
ImplementsCorpus == Promise!Spec
===============================================================================
