--------------------------- MODULE IngestJobs_proofs ---------------------------
(***************************************************************************)
(* Proofs about IngestJobs for every number of workers, jobs, documents    *)
(* and editions.                                                           *)
(***************************************************************************)
EXTENDS IngestJobs, FiniteSetTheorems, TLAPS

InRow == {"lookup", "chunks", "clear", "embed"}

(* A worker in a row knows the document, and the row it found, if any, is  *)
(* a row of that document.                                                 *)
Located(w) ==
    /\ worker[w].phase \in InRow => worker[w].at \in Documents
    /\ worker[w].phase \in {"prepare", "lookup"} => worker[w].found = 0
    /\ worker[w].phase \in {"chunks", "clear"} => worker[w].found \in RowsOf(worker[w].at)
    /\ worker[w].phase = "embed" /\ worker[w].found # 0 =>
            worker[w].found \in RowsOf(worker[w].at)

TypeInv == TypeOK /\ \A w \in Workers : Located(w)

-------------------------------------------------------------------------------
(* The numbers of a job's first and last rows.                             *)
LEMMA RowNumbers ==
    /\ \A j \in Jobs : FirstRow(j) \in 1..(DocumentCount + 1) /\ LastRow(j) \in 0..DocumentCount
    /\ AnyJob \in Jobs
    /\ NoSnapshot \in [Documents -> Editions]
    /\ \A d \in Documents, e \in Editions : Digest[d][e] \in Nat \ {0} /\ InScope[d][e] \in BOOLEAN
BY ConstantsAssumption DEF FirstRow, LastRow, AnyJob, NoSnapshot, Editions, Documents

(* An idle worker is one.                                                  *)
LEMMA IdleType == ASSUME NEW m \in Models PROVE Idle(m) \in WorkerState
BY RowNumbers, ConstantsAssumption DEF Idle, WorkerState, Phase

(* Going on to the next row keeps the worker's type and leaves it nowhere  *)
(* in a table.                                                             *)
LEMMA ForwardFacts ==
    ASSUME TypeOK, NEW w \in Workers, NEW from \in Documents, NEW ok \in BOOLEAN,
           Forward(w, from, ok)
    PROVE  /\ worker' \in [Workers -> WorkerState]
           /\ \A v \in Workers \ {w} : worker'[v] = worker[v]
           /\ worker'[w].phase \in {"lookup", "delete"}
           /\ worker'[w].phase = "lookup" =>
                worker'[w].at = from + 1 /\ worker'[w].at \in Documents
           /\ worker'[w].phase = "delete" => from >= LastRow(worker[w].job)
           /\ worker'[w].phase = "lookup" => from < LastRow(worker[w].job)
           /\ worker'[w].found = 0
           /\ worker'[w].job = worker[w].job /\ worker'[w].seen = worker[w].seen
           /\ worker'[w].clean = (worker[w].clean /\ ok)
           /\ worker'[w].model = worker[w].model
<1>1. worker[w] \in WorkerState /\ worker[w].job \in Jobs
    BY DEF TypeOK, WorkerState
<1>2. LastRow(worker[w].job) \in 0..DocumentCount
    BY <1>1, RowNumbers
<1>3. from < LastRow(worker[w].job) => from + 1 \in Documents
    BY <1>2, ConstantsAssumption DEF Documents
<1>4. LastRow(worker[w].job) \in Nat /\ from \in Nat
    BY <1>2, ConstantsAssumption DEF Documents
<1>5. worker'[w] \in WorkerState
    BY <1>1, <1>3 DEF Forward, TypeOK, WorkerState, Phase
<1>. QED BY <1>1, <1>3, <1>4, <1>5 DEF Forward, TypeOK, WorkerState

(* Rows are never removed, and never come to stand for another document.   *)
TableKeeps ==
    /\ DOMAIN table \subseteq DOMAIN table'
    /\ \A n \in DOMAIN table : table'[n].doc = table[n].doc

(* The types of what a row transaction reads of the table and the source.  *)
LEMMA RowFacts ==
    ASSUME TypeInv, NEW w \in Workers, worker[w].phase \in InRow
    PROVE  /\ worker[w].at \in Documents
           /\ HashSeen(w) \in Nat \ {0} /\ ScopeSeen(w) \in BOOLEAN
           /\ worker[w] \in WorkerState
           /\ worker[w].phase \in {"chunks", "clear"} \/ (worker[w].phase = "embed" /\ worker[w].found # 0)
                => worker[w].found \in DOMAIN table /\ table[worker[w].found] \in Row
                    /\ table[worker[w].found].doc = worker[w].at
<1>1. worker[w] \in WorkerState /\ Located(w) /\ table \in Seq(Row)
    BY DEF TypeInv, TypeOK
<1>2. worker[w].at \in Documents
    BY <1>1 DEF Located
<1>3. worker[w].seen[worker[w].at] \in Editions
    BY <1>1, <1>2 DEF WorkerState
<1>4. HashSeen(w) \in Nat \ {0} /\ ScopeSeen(w) \in BOOLEAN
    BY <1>2, <1>3, RowNumbers DEF HashSeen, ScopeSeen
<1>5. \A n \in DOMAIN table : table[n] \in Row
    BY <1>1
<1>. QED BY <1>1, <1>2, <1>4, <1>5 DEF Located, RowsOf

(* The insert appends one row of the document, or fails.                   *)
LEMMA InsertFacts ==
    ASSUME TypeInv, NEW w \in Workers, InsertDocument(w)
    PROVE  /\ table' \in Seq(Row) /\ TableKeeps
           /\ \/ table' = table
              \/ /\ DOMAIN table' = DOMAIN table \union {Len(table) + 1}
                 /\ Len(table) + 1 \notin DOMAIN table
                 /\ \A n \in DOMAIN table : table'[n] = table[n]
                 /\ worker[w].at \in Catalogue => RowsOf(worker[w].at) = {}
                 /\ table'[Len(table) + 1].doc = worker[w].at
                 /\ table'[Len(table) + 1].hash = HashSeen(w)
                 /\ table'[Len(table) + 1].scope = ScopeSeen(w)
                 /\ table'[Len(table) + 1].content = IF WordlessSeen(w) THEN 0 ELSE HashSeen(w)
                 /\ table'[Len(table) + 1].model = worker[w].model
           /\ \E ok \in BOOLEAN :
                Forward(w, worker[w].at, ok) /\ (ok => table' # table)
<1>1. worker[w].phase \in InRow
    BY DEF InsertDocument, InRow
<1>2. worker[w].at \in Documents /\ HashSeen(w) \in Nat \ {0} /\ ScopeSeen(w) \in BOOLEAN
        /\ worker[w] \in WorkerState
    BY <1>1, RowFacts
<1>3. table \in Seq(Row)
    BY DEF TypeInv, TypeOK
<1>. DEFINE d == worker[w].at
            duplicate == d \in Catalogue /\ RowsOf(d) # {}
            row == [doc |-> d, hash |-> HashSeen(w), scope |-> ScopeSeen(w), serial |-> 1,
                    content |-> IF WordlessSeen(w) THEN 0 ELSE HashSeen(w),
                    model |-> worker[w].model]
<1>4. row \in Row
    BY <1>2 DEF Row, WorkerState
<1>5. (table' = IF duplicate THEN table ELSE Append(table, row)) /\ Forward(w, d, ~duplicate)
    BY DEF InsertDocument
<1>. HIDE DEF row
<1>6. CASE duplicate
    BY <1>3, <1>5, <1>6 DEF TableKeeps
<1>7. CASE ~duplicate
    <2>1. table' = Append(table, row)
        BY <1>5, <1>7
    <2>2. /\ table' \in Seq(Row) /\ Len(table') = Len(table) + 1
          /\ \A n \in 1..Len(table) : table'[n] = table[n]
          /\ table'[Len(table) + 1] = row
          /\ Len(table) \in Nat /\ DOMAIN table = 1..Len(table)
          /\ DOMAIN table' = 1..(Len(table) + 1)
        BY <2>1, <1>3, <1>4
    <2>3. DOMAIN table' = DOMAIN table \union {Len(table) + 1} /\ Len(table) + 1 \notin DOMAIN table
        BY <2>2
    <2>4. table' # table
        BY <2>3
    <2>5. d \in Catalogue => RowsOf(d) = {}
        BY <1>7
    <2>6. /\ row.doc = d /\ row.hash = HashSeen(w) /\ row.scope = ScopeSeen(w)
          /\ row.content = (IF WordlessSeen(w) THEN 0 ELSE HashSeen(w))
          /\ row.model = worker[w].model
        BY DEF row
    <2>7. TableKeeps
        BY <2>2, <2>3 DEF TableKeeps
    <2>. QED BY <2>2, <2>3, <2>4, <2>5, <2>6, <2>7, <1>5, <1>7
<1>. QED BY <1>6, <1>7

(* The update replaces the row it found by another of the same document,   *)
(* or fails.                                                               *)
LEMMA UpdateFacts ==
    ASSUME TypeInv, NEW w \in Workers, UpdateDocument(w)
    PROVE  /\ table' \in Seq(Row) /\ TableKeeps /\ DOMAIN table' = DOMAIN table
           /\ worker[w].found \in DOMAIN table /\ table[worker[w].found].doc = worker[w].at
           /\ \A n \in DOMAIN table \ {worker[w].found} : table'[n] = table[n]
           /\ \/ Leftover(w) /\ ~WordlessSeen(w) /\ table' = table
                    /\ Forward(w, worker[w].at, FALSE)
              \/ (Leftover(w) => WordlessSeen(w)) /\ table'[worker[w].found] = Updated(w)
                    /\ Forward(w, worker[w].at, TRUE)
<1>1. worker[w].phase \in InRow /\ worker[w].phase = "embed" /\ worker[w].found # 0
    BY DEF UpdateDocument, InRow
<1>2. /\ worker[w].at \in Documents /\ HashSeen(w) \in Nat \ {0} /\ ScopeSeen(w) \in BOOLEAN
      /\ worker[w] \in WorkerState
      /\ worker[w].found \in DOMAIN table /\ table[worker[w].found] \in Row
      /\ table[worker[w].found].doc = worker[w].at
    BY <1>1, RowFacts
<1>3. table \in Seq(Row)
    BY DEF TypeInv, TypeOK
<1>4. Updated(w) \in Row /\ Updated(w).doc = worker[w].at
    <2>. DEFINE row == table[worker[w].found]
    <2>1. /\ row.doc \in Documents /\ row.hash \in Nat /\ row.scope \in BOOLEAN
          /\ row.serial \in Nat /\ row.content \in Nat /\ row.model \in Models
          /\ row.doc = worker[w].at /\ worker[w].model \in Models
          /\ row = [doc |-> row.doc, hash |-> row.hash, scope |-> row.scope,
                    serial |-> row.serial, content |-> row.content, model |-> row.model]
        BY <1>2 DEF Row, WorkerState
    <2>2. (IF ScopeSeen(w) = worker[w].scope THEN row.scope ELSE ScopeSeen(w)) \in BOOLEAN
        BY <1>2, <2>1
    <2>3. (IF HashSeen(w) = worker[w].hash THEN row.hash ELSE HashSeen(w)) \in Nat
        BY <1>2, <2>1
    <2>4. (IF Leftover(w) THEN row.serial ELSE row.serial + 1) \in Nat
          /\ (IF Leftover(w) THEN row.content
                ELSE IF WordlessSeen(w) THEN 0 ELSE HashSeen(w)) \in Nat
          /\ (IF Leftover(w) THEN row.model ELSE worker[w].model) \in Models
        BY <1>2, <2>1
    <2>. QED BY <2>1, <2>2, <2>3, <2>4 DEF Updated, Row
<1>. DEFINE conflict == Leftover(w) /\ ~WordlessSeen(w)
<1>5. /\ table' = IF conflict THEN table ELSE [table EXCEPT ![worker[w].found] = Updated(w)]
      /\ Forward(w, worker[w].at, ~conflict)
    BY DEF UpdateDocument
<1>. HIDE DEF conflict
<1>6. CASE conflict
    BY <1>2, <1>3, <1>5, <1>6 DEF TableKeeps, conflict
<1>7. CASE ~conflict
    <2>1. table' = [table EXCEPT ![worker[w].found] = Updated(w)]
        BY <1>5, <1>7
    <2>2. table' \in Seq(Row) /\ DOMAIN table' = DOMAIN table
        BY <2>1, <1>2, <1>3, <1>4
    <2>3. /\ \A n \in DOMAIN table \ {worker[w].found} : table'[n] = table[n]
          /\ table'[worker[w].found] = Updated(w)
        BY <2>1, <1>2
    <2>. QED BY <2>2, <2>3, <1>2, <1>4, <1>5, <1>7 DEF TableKeeps, conflict
<1>. QED BY <1>6, <1>7

(* Where another worker is does not change while the table only grows.     *)
LEMMA LocatedKept ==
    ASSUME TypeInv, NEW v \in Workers, worker'[v] = worker[v],
           TableKeeps \/ UNCHANGED table
    PROVE  Located(v)'
<1>1. DOMAIN table \subseteq DOMAIN table' /\ \A n \in DOMAIN table : table'[n].doc = table[n].doc
    BY DEF TableKeeps
<1>2. \A d : RowsOf(d) \subseteq RowsOf(d)'
    BY <1>1 DEF RowsOf
<1>3. Located(v)
    BY DEF TypeInv
<1>. QED BY <1>2, <1>3 DEF Located

(* One worker moves on with a well-typed state; the rest stays as it is.   *)
LEMMA OneWorkerMoves ==
    ASSUME TypeInv, NEW w \in Workers, NEW s \in WorkerState,
           worker' = [worker EXCEPT ![w] = s],
           UNCHANGED source, message' \in [Jobs -> MessageState], UNCHANGED table,
           Located(w)'
    PROVE  TypeInv'
<1>1. worker' \in [Workers -> WorkerState] /\ \A v \in Workers \ {w} : worker'[v] = worker[v]
    BY DEF TypeInv, TypeOK
<1>2. TypeOK'
    BY <1>1 DEF TypeInv, TypeOK
<1>3. \A v \in Workers \ {w} : Located(v)'
    BY <1>1, LocatedKept
<1>. QED BY <1>2, <1>3 DEF TypeInv

(* A worker that becomes idle is nowhere in the table.                     *)
LEMMA BecomesIdle ==
    ASSUME TypeInv, NEW w \in Workers, NEW m \in Models,
           worker' = [worker EXCEPT ![w] = Idle(m)],
           UNCHANGED source, message' \in [Jobs -> MessageState], UNCHANGED table
    PROVE  TypeInv'
<1>1. worker'[w] = Idle(m)
    BY DEF TypeInv, TypeOK
<1>2. Located(w)'
    BY <1>1 DEF Located, Idle, InRow
<1>. QED BY <1>2, IdleType, OneWorkerMoves

(* A worker that goes on to the next row keeps the types.                  *)
LEMMA GoesOn ==
    ASSUME TypeInv, NEW w \in Workers, NEW ok \in BOOLEAN, worker[w].at \in Documents,
           Forward(w, worker[w].at, ok), table' \in Seq(Row), TableKeeps \/ UNCHANGED table,
           UNCHANGED <<source, message>>
    PROVE  TypeInv'
<1>1. /\ worker' \in [Workers -> WorkerState]
      /\ \A v \in Workers \ {w} : worker'[v] = worker[v]
      /\ worker'[w].phase \in {"lookup", "delete"}
      /\ worker'[w].phase = "lookup" => worker'[w].at \in Documents
      /\ worker'[w].found = 0
    BY ForwardFacts DEF TypeInv
<1>2. Located(w)'
    BY <1>1 DEF Located, InRow
<1>3. \A v \in Workers \ {w} : Located(v)'
    BY <1>1, LocatedKept
<1>. QED BY <1>1, <1>2, <1>3 DEF TypeInv, TypeOK

(* At the start every worker is idle and the table is empty.                *)
LEMMA TypeInit == Init => TypeInv
<1>. SUFFICES ASSUME Init PROVE TypeInv
    OBVIOUS
<1>1. source \in [Documents -> Editions]
    BY ConstantsAssumption DEF Init, Editions
<1>2. message \in [Jobs -> MessageState]
    BY ConstantsAssumption DEF Init, MessageState, Status
<1>3. \A m \in Models : Idle(m) \in WorkerState
    BY IdleType
<1>4. worker \in [Workers -> WorkerState] /\ \A w \in Workers : worker[w].phase = "polling"
    BY <1>3 DEF Init, Idle
<1>5. \A w \in Workers : Located(w)
    BY <1>4 DEF Located, InRow
<1>6. table \in Seq(Row)
    BY DEF Init
<1>. QED BY <1>1, <1>2, <1>4, <1>5, <1>6 DEF TypeInv, TypeOK

(* Every step keeps the types and where the workers are.                    *)
LEMMA TypeNext == TypeInv /\ [Next]_vars => TypeInv'
<1>. SUFFICES ASSUME TypeInv, [Next]_vars PROVE TypeInv'
    OBVIOUS
<1>0. /\ TypeOK /\ \A w \in Workers : worker[w] \in WorkerState /\ worker[w].model \in Models
            /\ worker[w].job \in Jobs /\ worker[w].receipt \in 0..MaxReceive
      /\ \A j \in Jobs : message[j] \in MessageState /\ message[j].status \in Status
            /\ message[j].receives \in 0..MaxReceive
      /\ table \in Seq(Row) /\ MaxReceive \in Nat
    BY ConstantsAssumption DEF TypeInv, TypeOK, WorkerState, MessageState
<1>1. ASSUME NEW d \in Documents, Publish(d) PROVE TypeInv'
    <2>1. source' \in [Documents -> Editions]
        BY <1>0, <1>1, ConstantsAssumption DEF TypeOK, Publish, Editions
    <2>2. TypeOK'
        BY <1>0, <1>1, <2>1 DEF TypeOK, Publish
    <2>. QED BY <1>1, <2>2, LocatedKept DEF Publish, TypeInv
<1>2. ASSUME NEW j \in Jobs, Enqueue(j) \/ VisibilityEnds(j) \/ DeadLetter(j) PROVE TypeInv'
    <2>1. message' \in [Jobs -> MessageState] /\ UNCHANGED <<source, table, worker>>
        BY <1>0, <1>2 DEF TypeOK, Enqueue, VisibilityEnds, DeadLetter, MessageState, Status
    <2>2. TypeOK'
        BY <1>0, <2>1 DEF TypeOK
    <2>. QED BY <2>1, <2>2, LocatedKept DEF TypeInv
<1>3. ASSUME NEW w \in Workers, NEW j \in Jobs, Receive(w, j) PROVE TypeInv'
    <2>. DEFINE s == [Idle(worker[w].model) EXCEPT !.phase = "prepare", !.job = j,
                                                  !.receipt = message[j].receives + 1]
    <2>1. message[j].receives + 1 \in 0..MaxReceive
        BY <1>0, <1>3 DEF Receive
    <2>2. message' \in [Jobs -> MessageState]
        BY <1>0, <1>3, <2>1 DEF TypeOK, Receive, MessageState, Status
    <2>3. Idle(worker[w].model) \in WorkerState
        BY <1>0, IdleType
    <2>4. s \in WorkerState /\ s.phase = "prepare" /\ s.found = 0
        BY <2>1, <2>3 DEF WorkerState, Phase, Idle
    <2>. HIDE DEF s
    <2>5. worker' = [worker EXCEPT ![w] = s] /\ UNCHANGED <<source, table>>
        BY <1>3 DEF Receive, s
    <2>6. worker'[w] = s
        BY <1>0, <2>5 DEF TypeOK
    <2>7. Located(w)'
        BY <2>4, <2>6 DEF Located, InRow
    <2>. QED BY <2>2, <2>4, <2>5, <2>7, OneWorkerMoves
<1>4. ASSUME NEW w \in Workers, Reject(w) \/ JobFails(w) PROVE TypeInv'
    BY <1>0, <1>4, BecomesIdle DEF Reject, JobFails, TypeOK
<1>5. ASSUME NEW w \in Workers, ProcessReplaced(w) PROVE TypeInv'
    BY <1>0, <1>5, BecomesIdle DEF ProcessReplaced, TypeOK
<1>6. ASSUME NEW w \in Workers, DeleteMessage(w) PROVE TypeInv'
    <2>1. message' \in [Jobs -> MessageState]
        <3>. DEFINE j == worker[w].job
        <3>1. \/ message' = [message EXCEPT ![j].status = "deleted"]
              \/ message' = message
            BY <1>6 DEF DeleteMessage
        <3>2. j \in Jobs /\ message \in [Jobs -> MessageState]
            BY <1>0 DEF TypeOK
        <3>3. [message[j] EXCEPT !.status = "deleted"] \in MessageState
            BY <3>2 DEF MessageState, Status
        <3>. HIDE DEF j
        <3>. QED BY <3>1, <3>2, <3>3
    <2>. QED BY <1>0, <1>6, <2>1, BecomesIdle DEF DeleteMessage
<1>7. ASSUME NEW w \in Workers, Prepare(w) PROVE TypeInv'
    <2>. DEFINE j == worker[w].job
                s == [worker[w] EXCEPT
                        !.seen = source,
                        !.phase = IF Visits(j) = {} THEN "delete" ELSE "lookup",
                        !.at = IF Visits(j) = {} THEN 0 ELSE FirstRow(j)]
    <2>1. Visits(j) # {} => FirstRow(j) \in Documents
        <3>1. FirstRow(j) \in 1..(DocumentCount + 1) /\ LastRow(j) \in 0..DocumentCount
            BY <1>0, RowNumbers
        <3>2. Visits(j) # {} => FirstRow(j) <= LastRow(j)
            BY <3>1 DEF Visits
        <3>. QED BY <3>1, <3>2, ConstantsAssumption DEF Documents
    <2>2. /\ s \in WorkerState /\ s.phase \in {"lookup", "delete"}
          /\ s.phase = "lookup" => s.at \in Documents /\ s.found = 0
        BY <1>0, <1>7, <2>1 DEF WorkerState, Phase, TypeOK, TypeInv, Located, Prepare
    <2>3. worker' = [worker EXCEPT ![w] = s] /\ UNCHANGED <<source, message, table>>
        BY <1>7 DEF Prepare
    <2>. HIDE DEF s
    <2>4. worker'[w] = s
        BY <1>0, <2>3 DEF TypeOK
    <2>5. Located(w)'
        BY <2>2, <2>4 DEF Located, InRow
    <2>. QED BY <1>0, <2>2, <2>3, <2>5, OneWorkerMoves DEF TypeOK
<1>8. ASSUME NEW w \in Workers, Lookup(w) PROVE TypeInv'
    <2>1. worker[w].phase \in InRow /\ worker[w].at \in Documents
        BY <1>8, RowFacts DEF Lookup, InRow
    <2>2. CASE RowsOf(worker[w].at) = {} /\ worker' = [worker EXCEPT ![w].phase = "embed"]
        <3>. DEFINE s == [worker[w] EXCEPT !.phase = "embed"]
        <3>1. s \in WorkerState /\ worker' = [worker EXCEPT ![w] = s]
            BY <1>0, <2>2 DEF WorkerState, Phase, TypeOK
        <3>2. s.phase = "embed" /\ s.found = 0 /\ s.at \in Documents
            BY <1>0, <1>8, <2>1 DEF Lookup, TypeInv, Located, WorkerState
        <3>. HIDE DEF s
        <3>3. worker'[w] = s
            BY <1>0, <3>1 DEF TypeOK
        <3>4. Located(w)'
            BY <3>2, <3>3 DEF Located, InRow
        <3>. QED BY <1>0, <1>8, <3>1, <3>4, OneWorkerMoves DEF Lookup, TypeOK
    <2>3. ASSUME NEW n \in RowsOf(worker[w].at),
                 worker' = [worker EXCEPT ![w] = [worker[w] EXCEPT
                    !.phase = "chunks", !.found = n, !.hash = table[n].hash,
                    !.scope = table[n].scope]]
          PROVE  TypeInv'
        <3>. DEFINE s == [worker[w] EXCEPT !.phase = "chunks", !.found = n,
                            !.hash = table[n].hash, !.scope = table[n].scope]
        <3>1. n \in Nat /\ n \in DOMAIN table /\ table[n] \in Row
            BY <1>0, <2>3 DEF RowsOf
        <3>2. table[n].hash \in Nat /\ table[n].scope \in BOOLEAN
            BY <3>1 DEF Row
        <3>3. s \in WorkerState
            BY <1>0, <3>1, <3>2 DEF WorkerState, Phase
        <3>4. s.phase = "chunks" /\ s.found = n /\ s.at = worker[w].at
            BY <1>0 DEF WorkerState
        <3>. HIDE DEF s
        <3>5. worker' = [worker EXCEPT ![w] = s] /\ UNCHANGED <<source, message, table>>
            BY <1>8, <2>3 DEF s, Lookup
        <3>6. worker'[w] = s
            BY <1>0, <3>5 DEF TypeOK
        <3>7. Located(w)'
            BY <2>1, <2>3, <3>4, <3>5, <3>6 DEF Located, InRow, RowsOf
        <3>. QED BY <1>0, <3>3, <3>5, <3>7, OneWorkerMoves DEF TypeOK
    <2>. QED BY <1>8, <2>2, <2>3 DEF Lookup
<1>9. ASSUME NEW w \in Workers, ReadChunks(w) PROVE TypeInv'
    <2>1. /\ worker[w].phase \in InRow /\ worker[w].at \in Documents
          /\ table[worker[w].found] \in Row /\ worker[w].found \in RowsOf(worker[w].at)
        BY <1>9, RowFacts DEF ReadChunks, InRow, TypeInv, Located
    <2>2. CASE Forward(w, worker[w].at, TRUE)
        BY <1>0, <1>9, <2>1, <2>2, GoesOn DEF ReadChunks
    <2>3. CASE worker' = [worker EXCEPT ![w].phase = "clear",
                                        ![w].serial = table[worker[w].found].serial]
        <3>. DEFINE s == [worker[w] EXCEPT !.phase = "clear",
                                          !.serial = table[worker[w].found].serial]
        <3>1. s \in WorkerState /\ s.phase = "clear" /\ s.at = worker[w].at
                /\ s.found = worker[w].found
            BY <1>0, <2>1 DEF WorkerState, Phase, Row
        <3>2. worker' = [worker EXCEPT ![w] = s] /\ UNCHANGED <<source, message, table>>
            BY <1>0, <1>9, <2>3 DEF ReadChunks, TypeOK
        <3>. HIDE DEF s
        <3>3. worker'[w] = s
            BY <1>0, <3>2 DEF TypeOK
        <3>4. Located(w)'
            BY <2>1, <3>1, <3>2, <3>3 DEF Located, InRow, RowsOf
        <3>. QED BY <1>0, <3>1, <3>2, <3>4, OneWorkerMoves DEF TypeOK
    <2>. QED BY <1>9, <2>2, <2>3 DEF ReadChunks
<1>10. ASSUME NEW w \in Workers, ClearChunks(w) PROVE TypeInv'
    <2>. DEFINE s == [worker[w] EXCEPT !.phase = "embed"]
    <2>1. worker[w].at \in Documents /\ worker[w].found \in RowsOf(worker[w].at)
        BY <1>10, RowFacts DEF ClearChunks, InRow, TypeInv, Located
    <2>2. s \in WorkerState /\ s.phase = "embed" /\ s.at = worker[w].at /\ s.found = worker[w].found
        BY <1>0 DEF WorkerState, Phase
    <2>3. worker' = [worker EXCEPT ![w] = s] /\ UNCHANGED <<source, message, table>>
        BY <1>0, <1>10 DEF ClearChunks, TypeOK
    <2>. HIDE DEF s
    <2>4. worker'[w] = s
        BY <1>0, <2>3 DEF TypeOK
    <2>5. Located(w)'
        BY <2>1, <2>2, <2>3, <2>4 DEF Located, InRow, RowsOf
    <2>. QED BY <1>0, <2>2, <2>3, <2>5, OneWorkerMoves DEF TypeOK
<1>11. ASSUME NEW w \in Workers, InsertDocument(w) PROVE TypeInv'
    BY <1>11, RowFacts, InsertFacts, GoesOn DEF InsertDocument, InRow
<1>12. ASSUME NEW w \in Workers, UpdateDocument(w) PROVE TypeInv'
    BY <1>12, RowFacts, UpdateFacts, GoesOn DEF UpdateDocument, InRow
<1>13. ASSUME NEW w \in Workers, RowFails(w) PROVE TypeInv'
    BY <1>0, <1>13, RowFacts, GoesOn DEF RowFails, InRow
<1>14. CASE UNCHANGED vars
    BY <1>0, <1>14, LocatedKept DEF vars, TypeInv, TypeOK
<1>. QED BY <1>1, <1>2, <1>3, <1>4, <1>5, <1>6, <1>7, <1>8, <1>9, <1>10, <1>11, <1>12, <1>13,
            <1>14 DEF Next, JobStep

(* The variables keep their types, and a worker in a row is at a document  *)
(* of the source with a row of that document.                              *)
THEOREM IngestTypeCorrect == Spec => []TypeOK
<1>1. Spec => []TypeInv
    BY TypeInit, TypeNext, PTL DEF Spec
<1>2. TypeInv => TypeOK
    BY DEF TypeInv
<1>. QED BY <1>1, <1>2, PTL

-------------------------------------------------------------------------------
(* No two rows of the table stand for the same document of D.              *)
NoTwins(D) ==
    \A n, k \in DOMAIN table : table[n].doc \in D /\ table[n].doc = table[k].doc => n = k

(* Without twins a document has at most one row.                            *)
LEMMA TwinsCounted ==
    ASSUME NEW D, NoTwins(D), NEW d \in D PROVE Cardinality(RowsOf(d)) <= 1
<1>1. CASE RowsOf(d) = {}
    BY <1>1, FS_EmptySet
<1>2. ASSUME NEW n \in RowsOf(d) PROVE Cardinality(RowsOf(d)) <= 1
    <2>1. RowsOf(d) = {n}
        BY <1>2 DEF NoTwins, RowsOf
    <2>. QED BY <2>1, FS_Singleton
<1>. QED BY <1>1, <1>2

(* Only the commit of an upsert changes the table.                         *)
LEMMA TableWriters ==
    ASSUME [Next]_vars
    PROVE  UNCHANGED table \/ \E w \in Workers : InsertDocument(w) \/ UpdateDocument(w)
BY DEF Next, JobStep, vars, Publish, Enqueue, VisibilityEnds, DeadLetter, Receive, Reject, Prepare,
       Lookup, ReadChunks, ClearChunks, RowFails, JobFails, DeleteMessage, ProcessReplaced

(* Only an insert could bring a twin, and the index refuses it.             *)
LEMMA CatalogueNext == TypeInv /\ NoTwins(Catalogue) /\ [Next]_vars => NoTwins(Catalogue)'
<1>. SUFFICES ASSUME TypeInv, NoTwins(Catalogue), [Next]_vars PROVE NoTwins(Catalogue)'
    OBVIOUS
<1>1. CASE UNCHANGED table
    BY <1>1 DEF NoTwins
<1>2. ASSUME NEW w \in Workers, UpdateDocument(w) PROVE NoTwins(Catalogue)'
    <2>1. DOMAIN table' = DOMAIN table /\ TableKeeps
        BY <1>2, UpdateFacts
    <2>. QED BY <2>1 DEF NoTwins, TableKeeps
<1>3. ASSUME NEW w \in Workers, InsertDocument(w) PROVE NoTwins(Catalogue)'
    <2>1. CASE table' = table
        BY <2>1 DEF NoTwins
    <2>2. CASE table' # table
        <3>. DEFINE k == Len(table) + 1
        <3>1. /\ DOMAIN table' = DOMAIN table \union {k} /\ k \notin DOMAIN table
              /\ \A n \in DOMAIN table : table'[n] = table[n]
              /\ worker[w].at \in Catalogue => RowsOf(worker[w].at) = {}
              /\ table'[k].doc = worker[w].at
            BY <1>3, <2>2, InsertFacts
        <3>. HIDE DEF k
        <3>. QED BY <3>1 DEF NoTwins, RowsOf
    <2>. QED BY <2>1, <2>2
<1>. QED BY <1>1, <1>2, <1>3, TableWriters

(* A museum object never gets a second document, whatever overlaps.        *)
THEOREM CatalogueIsUnique == Spec => []CatalogueUnique
<1>1. Init => NoTwins(Catalogue)
    BY DEF Init, NoTwins
<1>2. Spec => [](TypeInv /\ NoTwins(Catalogue))
    BY <1>1, TypeInit, TypeNext, CatalogueNext, PTL DEF Spec
<1>3. NoTwins(Catalogue) => CatalogueUnique
    BY TwinsCounted DEF CatalogueUnique
<1>. QED BY <1>2, <1>3, PTL

-------------------------------------------------------------------------------
(* Overlapping workers keep the corpus free of mixtures under three        *)
(* conditions: no edition without text, one embedding model, and a scope   *)
(* that does not change.                                                   *)
Steady ==
    /\ Wordless = {}
    /\ \A m, n \in Models : m = n
    /\ \A d \in Documents : \A e, f \in Editions : InScope[d][e] = InScope[d][f]

HoldsRow(w) ==
    \/ worker[w].phase \in {"chunks", "clear"}
    \/ worker[w].phase = "embed" /\ worker[w].found # 0

(* An upsert that goes on after reading the chunks has another hash to     *)
(* write, and its scope is the document's.                                 *)
ReadsChange(w) ==
    HoldsRow(w) =>
        /\ \A e \in Editions : worker[w].scope = InScope[worker[w].at][e]
        /\ worker[w].phase \in {"clear", "embed"} => worker[w].hash # HashSeen(w)

OverlapInv == TypeInv /\ RowsAreWhole /\ \A w \in Workers : ReadsChange(w)

(* A row that is not written shows what it showed.                          *)
LEMMA WholeKept ==
    ASSUME NEW n \in DOMAIN table, n \in DOMAIN table', table'[n] = table[n],
           \E e \in Editions : Shows(n, e)
    PROVE  \E e \in Editions : Shows(n, e)'
BY DEF Shows

(* What an insert adds shows the edition the job downloaded.               *)
LEMMA InsertShows ==
    ASSUME TypeInv, NEW w \in Workers, InsertDocument(w), table' # table,
           NEW k, k = Len(table) + 1,
           NEW d, d = worker[w].at, NEW e, e = worker[w].seen[d]
    PROVE  /\ d \in Documents /\ e \in Editions
           /\ Shows(k, e)' /\ table'[k].doc = d /\ table'[k].model = worker[w].model
           /\ DOMAIN table' = DOMAIN table \union {k} /\ k \notin DOMAIN table
           /\ \A n \in DOMAIN table : table'[n] = table[n]
<1>1. /\ DOMAIN table' = DOMAIN table \union {k} /\ k \notin DOMAIN table
      /\ \A n \in DOMAIN table : table'[n] = table[n]
      /\ table'[k].doc = worker[w].at
      /\ table'[k].hash = HashSeen(w)
      /\ table'[k].scope = ScopeSeen(w)
      /\ table'[k].content = IF WordlessSeen(w) THEN 0 ELSE HashSeen(w)
      /\ table'[k].model = worker[w].model
    BY InsertFacts
<1>2. d \in Documents /\ worker[w] \in WorkerState
    BY RowFacts DEF InsertDocument, InRow
<1>3. e \in Editions
    BY <1>2 DEF WorkerState
<1>4. HashSeen(w) = Digest[d][e] /\ ScopeSeen(w) = InScope[d][e]
        /\ (WordlessSeen(w) <=> <<d, e>> \in Wordless)
    BY DEF HashSeen, ScopeSeen, WordlessSeen
<1>5. Shows(k, e)'
    BY <1>1, <1>4 DEF Shows
<1>. QED BY <1>1, <1>2, <1>3, <1>5

(* An update that meets no leftover chunks, by a worker that read what the *)
(* row's columns hold or knows them to differ, shows its edition.          *)
LEMMA UpdateShows ==
    ASSUME TypeInv, NEW w \in Workers, UpdateDocument(w), ~Leftover(w),
           NEW d, d = worker[w].at, NEW e, e = worker[w].seen[d],
           NEW n, n = worker[w].found,
           HashSeen(w) # worker[w].hash \/ table[n].hash = HashSeen(w),
           ScopeSeen(w) # worker[w].scope \/ table[n].scope = ScopeSeen(w)
    PROVE  /\ d \in Documents /\ e \in Editions
           /\ Shows(n, e)' /\ table'[n].doc = d /\ table'[n].model = worker[w].model
           /\ n \in DOMAIN table /\ DOMAIN table' = DOMAIN table /\ table[n].doc = d
           /\ \A k \in DOMAIN table \ {n} : table'[k] = table[k]
<1>1. /\ n \in DOMAIN table /\ DOMAIN table' = DOMAIN table /\ table[n].doc = d
      /\ \A k \in DOMAIN table \ {n} : table'[k] = table[k]
      /\ table'[n] = Updated(w)
    BY UpdateFacts
<1>2. d \in Documents /\ worker[w] \in WorkerState
    BY RowFacts DEF UpdateDocument, InRow
<1>3. e \in Editions
    BY <1>2 DEF WorkerState
<1>4. HashSeen(w) = Digest[d][e] /\ ScopeSeen(w) = InScope[d][e]
        /\ (WordlessSeen(w) <=> <<d, e>> \in Wordless)
    BY DEF HashSeen, ScopeSeen, WordlessSeen
<1>5. /\ Updated(w).doc = d /\ Updated(w).hash = HashSeen(w) /\ Updated(w).scope = ScopeSeen(w)
      /\ Updated(w).content = (IF WordlessSeen(w) THEN 0 ELSE HashSeen(w))
      /\ Updated(w).model = worker[w].model
    BY <1>1 DEF Updated
<1>6. Shows(n, e)'
    BY <1>1, <1>4, <1>5 DEF Shows
<1>. QED BY <1>1, <1>2, <1>3, <1>5, <1>6

(* A commit leaves the row it writes whole, and touches no other.           *)
LEMMA WholeNext == Steady /\ OverlapInv /\ [Next]_vars => RowsAreWhole'
<1>. SUFFICES ASSUME Steady, OverlapInv, [Next]_vars PROVE RowsAreWhole'
    OBVIOUS
<1>0. TypeInv /\ RowsAreWhole
    BY DEF OverlapInv
<1>1. CASE UNCHANGED table
    BY <1>0, <1>1 DEF RowsAreWhole, Shows
<1>2. ASSUME NEW w \in Workers, InsertDocument(w), table' # table PROVE RowsAreWhole'
    <2>0. PICK k, d, e : k = Len(table) + 1 /\ d = worker[w].at /\ e = worker[w].seen[d]
        OBVIOUS
    <2>1. /\ e \in Editions /\ Shows(k, e)' /\ DOMAIN table' = DOMAIN table \union {k}
          /\ \A n \in DOMAIN table : table'[n] = table[n]
        BY <1>0, <1>2, <2>0, InsertShows
    <2>2. \A n \in DOMAIN table : \E f \in Editions : Shows(n, f)'
        BY <1>0, <2>1, WholeKept DEF RowsAreWhole
    <2>. QED BY <2>1, <2>2 DEF RowsAreWhole
<1>3. ASSUME NEW w \in Workers, UpdateDocument(w), table' # table PROVE RowsAreWhole'
    <2>1. ~Leftover(w)
        BY <1>0, <1>3, UpdateFacts DEF Steady, WordlessSeen
    <2>2. /\ worker[w].at \in Documents /\ worker[w].seen[worker[w].at] \in Editions
          /\ worker[w].found \in DOMAIN table /\ table[worker[w].found].doc = worker[w].at
        BY <1>0, <1>3, RowFacts, UpdateFacts DEF UpdateDocument, InRow, WorkerState
    <2>3. HashSeen(w) # worker[w].hash
        BY <1>3 DEF OverlapInv, ReadsChange, HoldsRow, UpdateDocument
    <2>4. PICK f \in Editions : Shows(worker[w].found, f)
        BY <1>0, <2>2 DEF RowsAreWhole
    <2>5. table[worker[w].found].scope = ScopeSeen(w)
        BY <2>2, <2>4 DEF Shows, Steady, ScopeSeen
    <2>0. PICK n, d, e : n = worker[w].found /\ d = worker[w].at /\ e = worker[w].seen[d]
        OBVIOUS
    <2>6. /\ e \in Editions /\ Shows(n, e)' /\ DOMAIN table' = DOMAIN table
          /\ \A k \in DOMAIN table \ {n} : table'[k] = table[k]
        BY <1>0, <1>3, <2>0, <2>1, <2>3, <2>5, UpdateShows
    <2>7. \A k \in DOMAIN table \ {n} : \E g \in Editions : Shows(k, g)'
        BY <1>0, <2>6, WholeKept DEF RowsAreWhole
    <2>. QED BY <2>6, <2>7 DEF RowsAreWhole
<1>. QED BY <1>1, <1>2, <1>3, TableWriters

(* A worker that moves into the middle of an upsert does so by one of the  *)
(* three statements before the commit.                                     *)
LEMMA WorkerMoves ==
    ASSUME TypeInv, [Next]_vars, NEW v \in Workers
    PROVE  \/ worker'[v] = worker[v]
           \/ worker'[v].phase \in {"polling", "prepare", "lookup", "delete"}
           \/ Lookup(v) \/ ReadChunks(v) \/ ClearChunks(v)
<1>0. TypeOK /\ worker \in [Workers -> WorkerState] /\ worker[v] \in WorkerState
    BY DEF TypeInv, TypeOK
<1>1. CASE UNCHANGED worker
    BY <1>1
<1>2. ASSUME NEW w \in Workers, w # v,
             JobStep(w) \/ RowFails(w) \/ JobFails(w) \/ ProcessReplaced(w)
                \/ \E j \in Jobs : Receive(w, j)
      PROVE  worker'[v] = worker[v]
    BY <1>0, <1>2 DEF JobStep, Forward, Receive, Reject, Prepare, Lookup, ReadChunks, ClearChunks,
        RowFails, JobFails, DeleteMessage, ProcessReplaced, InsertDocument, UpdateDocument
<1>3. CASE Reject(v) \/ JobFails(v) \/ ProcessReplaced(v) \/ DeleteMessage(v)
    <2>1. \E m : worker' = [worker EXCEPT ![v] = Idle(m)]
        BY <1>3 DEF Reject, JobFails, ProcessReplaced, DeleteMessage
    <2>. QED BY <1>0, <2>1 DEF Idle
<1>4. CASE Prepare(v)
    BY <1>0, <1>4 DEF Prepare, WorkerState
<1>5. ASSUME NEW j \in Jobs, Receive(v, j) PROVE worker'[v].phase = "prepare"
    BY <1>0, <1>5 DEF Receive, Idle
<1>6. CASE InsertDocument(v) \/ UpdateDocument(v) \/ RowFails(v)
    <2>1. \E ok \in BOOLEAN : Forward(v, worker[v].at, ok)
        BY <1>6, InsertFacts, UpdateFacts DEF RowFails
    <2>2. worker[v].at \in Documents
        BY <1>6, RowFacts DEF InsertDocument, UpdateDocument, RowFails, InRow
    <2>. QED BY <1>0, <2>1, <2>2, ForwardFacts
<1>7. \/ UNCHANGED worker
      \/ \E w \in Workers :
            JobStep(w) \/ RowFails(w) \/ JobFails(w) \/ ProcessReplaced(w)
                \/ \E j \in Jobs : Receive(w, j)
    BY DEF Next, vars, Publish, Enqueue, VisibilityEnds, DeadLetter
<1>. QED BY <1>1, <1>2, <1>3, <1>4, <1>5, <1>6, <1>7 DEF JobStep

(* What a worker read stays good while others commit.                       *)
LEMMA ReadsNext == Steady /\ OverlapInv /\ [Next]_vars => \A v \in Workers : ReadsChange(v)'
<1>. SUFFICES ASSUME Steady, OverlapInv, [Next]_vars, NEW v \in Workers PROVE ReadsChange(v)'
    OBVIOUS
<1>0. /\ TypeInv /\ RowsAreWhole /\ ReadsChange(v) /\ worker \in [Workers -> WorkerState]
      /\ worker[v] \in WorkerState
    BY DEF OverlapInv, TypeInv, TypeOK
<1>1. CASE worker'[v] = worker[v]
    BY <1>0, <1>1 DEF ReadsChange, HoldsRow, HashSeen
<1>2. CASE worker'[v].phase \notin {"chunks", "clear", "embed"}
    BY <1>2 DEF ReadsChange, HoldsRow
<1>3. CASE Lookup(v)
    <2>1. worker[v].found = 0 /\ worker[v].at \in Documents
        BY <1>0, <1>3 DEF Lookup, TypeInv, Located, InRow
    <2>2. CASE worker' = [worker EXCEPT ![v].phase = "embed"]
        <3>1. worker'[v].found = 0 /\ worker'[v].phase = "embed"
            BY <1>0, <2>1, <2>2 DEF WorkerState
        <3>. QED BY <3>1 DEF ReadsChange, HoldsRow
    <2>3. ASSUME NEW n \in RowsOf(worker[v].at),
                 worker' = [worker EXCEPT ![v] = [worker[v] EXCEPT
                    !.phase = "chunks", !.found = n, !.hash = table[n].hash,
                    !.scope = table[n].scope]]
          PROVE  ReadsChange(v)'
        <3>1. /\ worker'[v].phase = "chunks" /\ worker'[v].at = worker[v].at
              /\ worker'[v].scope = table[n].scope
            BY <1>0, <2>3 DEF WorkerState
        <3>2. \A e \in Editions : table[n].scope = InScope[worker[v].at][e]
            BY <1>0, <2>1, <2>3 DEF RowsOf, RowsAreWhole, Shows, Steady
        <3>. QED BY <3>1, <3>2 DEF ReadsChange
    <2>. QED BY <1>3, <2>2, <2>3 DEF Lookup
<1>4. CASE ReadChunks(v) /\ worker'[v].phase \in {"chunks", "clear", "embed"}
    <2>. DEFINE row == table[worker[v].found]
    <2>1. /\ worker[v].at \in Documents /\ row \in Row
          /\ row.doc = worker[v].at /\ worker[v].found \in DOMAIN table
        BY <1>0, <1>4, RowFacts DEF ReadChunks, InRow
    <2>2. ~Forward(v, worker[v].at, TRUE)
        BY <1>0, <1>4, <2>1, ForwardFacts DEF TypeInv
    <2>3. PICK e \in Editions : Shows(worker[v].found, e)
        BY <1>0, <2>1 DEF RowsAreWhole
    <2>4. row.content # 0
        BY <2>1, <2>3, RowNumbers DEF Shows, Steady
    <2>5. row.model = worker[v].model
        BY <1>0, <2>1 DEF Steady, Row, WorkerState
    <2>6. /\ worker[v].hash # HashSeen(v)
          /\ worker' = [worker EXCEPT ![v].phase = "clear", ![v].serial = row.serial]
        BY <1>4, <2>2, <2>4, <2>5 DEF ReadChunks
    <2>. HIDE DEF row
    <2>7. /\ worker'[v].phase = "clear" /\ worker'[v].at = worker[v].at
          /\ worker'[v].seen = worker[v].seen /\ worker'[v].hash = worker[v].hash
          /\ worker'[v].scope = worker[v].scope
        BY <1>0, <2>6 DEF WorkerState
    <2>8. HoldsRow(v)
        BY <1>4 DEF HoldsRow, ReadChunks
    <2>. QED BY <1>0, <2>6, <2>7, <2>8 DEF ReadsChange, HashSeen
<1>5. CASE ClearChunks(v)
    <2>1. worker' = [worker EXCEPT ![v].phase = "embed"] /\ worker[v].phase = "clear"
        BY <1>5 DEF ClearChunks
    <2>2. /\ worker'[v].phase = "embed" /\ worker'[v].at = worker[v].at
          /\ worker'[v].seen = worker[v].seen /\ worker'[v].hash = worker[v].hash
          /\ worker'[v].scope = worker[v].scope
        BY <1>0, <2>1 DEF WorkerState
    <2>. QED BY <1>0, <2>1, <2>2 DEF ReadsChange, HoldsRow, HashSeen
<1>6. \/ worker'[v] = worker[v] \/ worker'[v].phase \notin {"chunks", "clear", "embed"}
      \/ Lookup(v) \/ ReadChunks(v) \/ ClearChunks(v)
    BY <1>0, WorkerMoves
<1>. QED BY <1>1, <1>2, <1>3, <1>4, <1>5, <1>6

(* Under these conditions no reader ever meets a mixture of editions, in   *)
(* any interleaving of any number of workers.                              *)
THEOREM OverlapKeepsRowsWhole == ASSUME Steady PROVE Spec => []RowsAreWhole
<1>1. Init => OverlapInv
    <2>. SUFFICES ASSUME Init PROVE OverlapInv
        OBVIOUS
    <2>1. RowsAreWhole
        BY DEF Init, RowsAreWhole
    <2>2. \A w \in Workers : worker[w].phase = "polling"
        BY DEF Init, Idle
    <2>. QED BY <2>1, <2>2, TypeInit DEF OverlapInv, ReadsChange, HoldsRow
<1>2. OverlapInv /\ [Next]_vars => OverlapInv'
    BY TypeNext, WholeNext, ReadsNext DEF OverlapInv
<1>3. OverlapInv => RowsAreWhole
    BY DEF OverlapInv
<1>. QED BY <1>1, <1>2, <1>3, PTL DEF Spec
=============================================================================
