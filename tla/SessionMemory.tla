----------------------------- MODULE SessionMemory -----------------------------
(***************************************************************************)
(* Server-side session memory: backend/app/session_memory.py with its two  *)
(* callers, the POST /chat handler of backend/app/main.py and the cleanup  *)
(* loop.  Any number of API instances share one Postgres, so a turn is one *)
(* /chat request on any instance and a cleaner is one instance's loop.     *)
(*                                                                         *)
(* Two stores are involved.  agent_sessions (owned here, through the       *)
(* SQLAlchemy engine) holds a session's expiry; the LangGraph checkpointer *)
(* holds its messages and works on autocommit connections of its own pool, *)
(* so what it does is visible at once and survives a rollback of the       *)
(* transaction around it.  Row locks are the only mutual exclusion.        *)
(***************************************************************************)
EXTENDS Integers, Sequences, FiniteSets

CONSTANTS
    Sessions,       \* session ids visitors send
    Turns,          \* /chat requests that carry a session id
    Cleaners,       \* one cleanup loop per API instance
    TTL,            \* session_memory_ttl_seconds
    BatchSize,      \* session_cleanup_batch_size
    MaxTurn,        \* bound: the longest a turn lasts after its refresh began
    MaxTime,        \* bound on the clock
    MaxFaults,      \* bound on database errors and process stops
    SerialClients   \* TRUE: a visitor sends a turn only after the last ended

ASSUME ConstantsAssumption ==
    /\ TTL \in Nat \ {0} /\ BatchSize \in Nat \ {0}
    /\ MaxTurn \in Nat /\ MaxTime \in Nat /\ MaxFaults \in Nat
    /\ SerialClients \in BOOLEAN
    /\ IsFiniteSet(Sessions) /\ Sessions # {}

VARIABLES
    now,            \* the database clock
    live,           \* session ids with a committed agent_sessions row
    expiresAt,      \* its expires_at; kept as history when the row is deleted
    checkpoints,    \* messages in the latest checkpoint of each thread
    epoch,          \* history: how many conversations the session id has had
    turn,           \* each request's progress through the handler
    sweep,          \* each cleaner's transaction
    faults

vars == <<now, live, expiresAt, checkpoints, epoch, turn, sweep, faults>>

Message == [turn : Turns, role : {"user", "assistant"}]

UserMessage(r) == [turn |-> r, role |-> "user"]
Reply(r) == [turn |-> r, role |-> "assistant"]

Refreshing == {"refresh", "clear", "upsert"}
Invoking == {"load", "input", "generate", "reply"}
Active == Refreshing \union Invoking \union {"stateless"}
Ended == {"remembered", "fallback", "failed"}
Phase == {"idle"} \union Active \union Ended

TurnState == [phase : Phase,
              session : Sessions,
              begun : Nat,              \* now() of the refresh transaction
              found : BOOLEAN,          \* refresh locked an existing row
              base : Seq(Message),      \* the history the graph loaded
              epoch : Nat]              \* history: the conversation joined

SweepState == [batch : SUBSET Sessions,     \* rows selected, hence locked
               todo : SUBSET Sessions]      \* threads still to delete

-------------------------------------------------------------------------------
(* Helpers                                                                   *)

InFlight(r) == turn[r].phase \in Active

(* FOR UPDATE: the row is held from the SELECT to the end of the           *)
(* transaction, by a refresh that found it or by a sweep that picked it.   *)
HeldByTurn(r, s) ==
    turn[r].session = s /\ turn[r].found /\ turn[r].phase \in {"clear", "upsert"}

(* Faulty variant: the sweep reads its batch without FOR UPDATE.           *)
HeldBySweep_Never(c, s) == FALSE

HeldBySweep(c, s) == s \in sweep[c].batch

Locked(s) ==
    \/ \E r \in Turns : HeldByTurn(r, s)
    \/ \E c \in Cleaners : HeldBySweep(c, s)

(* Faulty variant: the upsert on a second connection, waiting for its own row. *)
LockedByOther_Self(r, s) == Locked(s)

LockedByOther(r, s) ==
    \/ \E q \in Turns \ {r} : HeldByTurn(q, s)
    \/ \E c \in Cleaners : HeldBySweep(c, s)

AnySession == CHOOSE s \in Sessions : TRUE

Advance(r, phase) == turn' = [turn EXCEPT ![r].phase = phase]

(* The turn leaves the session path, and what the graph held is dropped.   *)
Leave(r, phase) == turn' = [turn EXCEPT ![r].phase = phase, ![r].base = <<>>]

Write(s, messages) == checkpoints' = [checkpoints EXCEPT ![s] = messages]

Erase(s) == Write(s, <<>>)

-------------------------------------------------------------------------------
Init ==
    /\ now = 0
    /\ live = {}
    /\ expiresAt = [s \in Sessions |-> 0]
    /\ checkpoints = [s \in Sessions |-> <<>>]
    /\ epoch = [s \in Sessions |-> 0]
    /\ turn = [r \in Turns |-> [phase |-> "idle", session |-> AnySession, begun |-> 0,
                                found |-> FALSE, base |-> <<>>, epoch |-> 0]]
    /\ sweep = [c \in Cleaners |-> [batch |-> {}, todo |-> {}]]
    /\ faults = 0

(* A request arrives and its refresh transaction begins; now() keeps this  *)
(* time for the whole transaction, however long it waits for the row.      *)
Chat(r, s) ==
    /\ turn[r].phase = "idle"
    /\ SerialClients => \A q \in Turns : InFlight(q) => turn[q].session # s
    /\ turn' = [turn EXCEPT ![r].phase = "refresh", ![r].session = s,
                            ![r].begun = now]
    /\ UNCHANGED <<now, live, expiresAt, checkpoints, epoch, sweep, faults>>

(* Faulty variant: refresh leaves an expired thread to the sweep.          *)
RefreshSelect_NoClear(r) ==
    /\ turn[r].phase = "refresh"
    /\ ~Locked(turn[r].session)
    /\ turn' = [turn EXCEPT ![r].phase = "upsert",
                            ![r].found = turn[r].session \in live]
    /\ UNCHANGED <<now, live, expiresAt, checkpoints, epoch, sweep, faults>>

(* SELECT expires_at <= now() ... FOR UPDATE.                              *)
RefreshSelect(r) ==
    LET s == turn[r].session
        expired == s \in live /\ expiresAt[s] <= turn[r].begun
    IN  /\ turn[r].phase = "refresh"
        /\ ~Locked(s)
        /\ turn' = [turn EXCEPT ![r].phase = IF expired THEN "clear" ELSE "upsert",
                                ![r].found = s \in live]
        /\ UNCHANGED <<now, live, expiresAt, checkpoints, epoch, sweep, faults>>

(* checkpointer.delete_thread, on the checkpointer's autocommit pool.      *)
RefreshClear(r) ==
    /\ turn[r].phase = "clear"
    /\ Erase(turn[r].session)
    /\ Advance(r, "upsert")
    /\ UNCHANGED <<now, live, expiresAt, epoch, sweep, faults>>

(* INSERT ... ON CONFLICT DO UPDATE, then COMMIT.  The insert waits for    *)
(* whoever holds a row with this key.  A deadline that had passed when the *)
(* request began makes this the first turn of a new conversation.          *)
RefreshCommit(r) ==
    LET s == turn[r].session
        lapsed == expiresAt[s] <= turn[r].begun
    IN  /\ turn[r].phase = "upsert"
        /\ ~LockedByOther(r, s)
        /\ live' = live \union {s}
        /\ expiresAt' = [expiresAt EXCEPT ![s] = turn[r].begun + TTL]
        /\ epoch' = [epoch EXCEPT ![s] = IF lapsed THEN @ + 1 ELSE @]
        /\ turn' = [turn EXCEPT ![r].phase = "load", ![r].epoch = epoch'[s]]
        /\ UNCHANGED <<now, checkpoints, sweep, faults>>

(* session_graph.invoke reads the thread's latest checkpoint ...           *)
LoadCheckpoint(r) ==
    /\ turn[r].phase = "load"
    /\ turn' = [turn EXCEPT ![r].phase = "input",
                            ![r].base = checkpoints[turn[r].session]]
    /\ UNCHANGED <<now, live, expiresAt, checkpoints, epoch, sweep, faults>>

(* ... writes a checkpoint with the visitor's message appended ...         *)
WriteInput(r) ==
    /\ turn[r].phase = "input"
    /\ Write(turn[r].session, Append(turn[r].base, UserMessage(r)))
    /\ Advance(r, "generate")
    /\ UNCHANGED <<now, live, expiresAt, epoch, sweep, faults>>

(* ... runs the persona node: retrieval and at most two model calls end in *)
(* a grounded reply, or in a 503 or 502 that leaves the input checkpoint.  *)
Generate(r) ==
    /\ turn[r].phase = "generate"
    /\ Advance(r, "reply") \/ Leave(r, "failed")
    /\ UNCHANGED <<now, live, expiresAt, checkpoints, epoch, sweep, faults>>

(* Faulty variant: the reply is added to whatever the thread holds by now. *)
WriteReply_ToCurrent(r) ==
    /\ turn[r].phase = "reply"
    /\ Write(turn[r].session, Append(checkpoints[turn[r].session], Reply(r)))
    /\ Leave(r, "remembered")
    /\ UNCHANGED <<now, live, expiresAt, epoch, sweep, faults>>

(* ... and writes a checkpoint with the reply appended.                    *)
WriteReply(r) ==
    /\ turn[r].phase = "reply"
    /\ Write(turn[r].session, turn[r].base \o <<UserMessage(r), Reply(r)>>)
    /\ Leave(r, "remembered")
    /\ UNCHANGED <<now, live, expiresAt, epoch, sweep, faults>>

(* A database error on the memory path, as the handler sees it: the open   *)
(* transaction rolls back and the turn is answered without memory, from    *)
(* the history the client sent.  The last write may have landed anyway.    *)
FallBack(r) ==
    /\ turn[r].phase \in Refreshing \union Invoking
    /\ faults < MaxFaults
    /\ faults' = faults + 1
    /\ Leave(r, "stateless")
    /\ \/ UNCHANGED checkpoints
       \/ /\ turn[r].phase = "reply"
          /\ Write(turn[r].session, turn[r].base \o <<UserMessage(r), Reply(r)>>)
    /\ UNCHANGED <<now, live, expiresAt, epoch, sweep>>

AnswerStateless(r) ==
    /\ turn[r].phase = "stateless"
    /\ Advance(r, "fallback") \/ Advance(r, "failed")
    /\ UNCHANGED <<now, live, expiresAt, checkpoints, epoch, sweep, faults>>

(* The process running the turn stops; Postgres ends its transaction.      *)
TurnLost(r) ==
    /\ InFlight(r)
    /\ faults < MaxFaults
    /\ faults' = faults + 1
    /\ Leave(r, "failed")
    /\ UNCHANGED <<now, live, expiresAt, checkpoints, epoch, sweep>>

-------------------------------------------------------------------------------
(* cleanup_expired                                                           *)

Expired == {s \in live : expiresAt[s] <= now}

Earliest(chosen, all) ==
    \A s \in chosen, t \in all \ chosen : expiresAt[s] <= expiresAt[t]

(* SELECT ... ORDER BY expires_at FOR UPDATE SKIP LOCKED LIMIT batch_size. *)
SweepSelect(c) ==
    LET eligible == {s \in Expired : ~Locked(s)}
    IN  /\ sweep[c].batch = {}
        /\ \E batch \in SUBSET eligible \ {{}} :
            /\ \/ batch = eligible /\ Cardinality(batch) <= BatchSize
               \/ Cardinality(batch) = BatchSize /\ Earliest(batch, eligible)
            /\ sweep' = [sweep EXCEPT ![c] = [batch |-> batch, todo |-> batch]]
        /\ UNCHANGED <<now, live, expiresAt, checkpoints, epoch, turn, faults>>

(* One delete_thread per selected row, in the order they were selected.    *)
SweepClear(c) ==
    /\ \E s \in sweep[c].todo :
        /\ Earliest({s}, sweep[c].todo)
        /\ Erase(s)
        /\ sweep' = [sweep EXCEPT ![c].todo = @ \ {s}]
    /\ UNCHANGED <<now, live, expiresAt, epoch, turn, faults>>

(* DELETE FROM agent_sessions WHERE session_id = ANY(batch), then COMMIT.  *)
SweepCommit(c) ==
    /\ sweep[c].batch # {}
    /\ sweep[c].todo = {}
    /\ live' = live \ sweep[c].batch
    /\ sweep' = [sweep EXCEPT ![c].batch = {}]
    /\ UNCHANGED <<now, expiresAt, checkpoints, epoch, turn, faults>>

(* Faulty variant: a failed delete_thread is skipped, its row deleted.     *)
SweepFail_RowsGo(c) ==
    /\ sweep[c].batch # {}
    /\ faults < MaxFaults
    /\ faults' = faults + 1
    /\ live' = live \ sweep[c].batch
    /\ sweep' = [sweep EXCEPT ![c] = [batch |-> {}, todo |-> {}]]
    /\ UNCHANGED <<now, expiresAt, checkpoints, epoch, turn>>

(* An exception, or the process stopping: rows roll back, threads do not.  *)
SweepFail(c) ==
    /\ sweep[c].batch # {}
    /\ faults < MaxFaults
    /\ faults' = faults + 1
    /\ sweep' = [sweep EXCEPT ![c] = [batch |-> {}, todo |-> {}]]
    /\ UNCHANGED <<now, live, expiresAt, checkpoints, epoch, turn>>

(* Time passes, but never past the longest a turn may last.                *)
Tick ==
    /\ now < MaxTime
    /\ \A r \in Turns : InFlight(r) => now < turn[r].begun + MaxTurn
    /\ now' = now + 1
    /\ UNCHANGED <<live, expiresAt, checkpoints, epoch, turn, sweep, faults>>

TurnStep(r) ==
    \/ RefreshSelect(r) \/ RefreshClear(r) \/ RefreshCommit(r)
    \/ LoadCheckpoint(r) \/ WriteInput(r) \/ Generate(r) \/ WriteReply(r)
    \/ AnswerStateless(r)

SweepStep(c) == SweepSelect(c) \/ SweepClear(c) \/ SweepCommit(c)

Next ==
    \/ Tick
    \/ \E r \in Turns :
        \/ \E s \in Sessions : Chat(r, s)
        \/ TurnStep(r)
        \/ FallBack(r)
        \/ TurnLost(r)
    \/ \E c \in Cleaners : SweepStep(c) \/ SweepFail(c)

(* A request keeps running, and every cleanup loop keeps waking up.        *)
Fairness ==
    /\ \A r \in Turns : WF_vars(TurnStep(r))
    /\ \A c \in Cleaners : WF_vars(SweepStep(c))

Spec == Init /\ [][Next]_vars

FairSpec == Spec /\ Fairness

-------------------------------------------------------------------------------
(* Properties                                                                *)

TypeOK ==
    /\ now \in Nat /\ faults \in Nat
    /\ live \subseteq Sessions
    /\ expiresAt \in [Sessions -> Nat]
    /\ checkpoints \in [Sessions -> Seq(Message)]
    /\ epoch \in [Sessions -> Nat]
    /\ turn \in [Turns -> TurnState]
    /\ sweep \in [Cleaners -> SweepState]

(* Everything in the list was said in conversation number e of session s.  *)
SaidIn(messages, s, e) ==
    \A i \in DOMAIN messages :
        LET q == messages[i].turn IN turn[q].session = s /\ turn[q].epoch = e

(* Reusing an expired session id starts a new conversation: nothing the    *)
(* graph loads was said before the last time the session's deadline had    *)
(* passed, whether a sweep, a refresh or neither erased the old thread.    *)
NoStaleContext ==
    \A r \in Turns :
        turn[r].phase \in Invoking =>
            SaidIn(turn[r].base, turn[r].session, turn[r].epoch)

(* The part of it that the README promises without a condition: a turn     *)
(* that reuses a session whose row was still there starts a conversation   *)
(* anew once the deadline has passed, however long earlier turns last.     *)
ReuseStartsAnew ==
    \A r \in Turns :
        turn[r].phase \in Invoking /\ turn[r].found =>
            SaidIn(turn[r].base, turn[r].session, turn[r].epoch)

(* No thread outlives its agent_sessions row: the row is the only thing    *)
(* the sweep looks at, so a thread without one would never be deleted.     *)
NoOrphanedThread == \A s \in Sessions : checkpoints[s] # <<>> => s \in live

(* FOR UPDATE and SKIP LOCKED leave each row to one transaction at a time. *)
RowHeldOnce ==
    \A s \in Sessions :
        /\ \A r, q \in Turns : HeldByTurn(r, s) /\ HeldByTurn(q, s) => r = q
        /\ \A c, d \in Cleaners : HeldBySweep(c, s) /\ HeldBySweep(d, s) => c = d
        /\ \A r \in Turns, c \in Cleaners : ~(HeldByTurn(r, s) /\ HeldBySweep(c, s))

(* Cleaners and refreshes delete only threads whose deadline has passed    *)
(* and that no turn is working on.                                         *)
OnlyIdleThreadsErased ==
    [][\A s \in Sessions :
        checkpoints[s] # <<>> /\ checkpoints'[s] = <<>> =>
            /\ expiresAt[s] <= now
            /\ \A r \in Turns : turn[r].phase \in Invoking => turn[r].session # s]_vars

(* Every reply in a thread directly follows the question it answers, and   *)
(* no question is there twice, however turns of one session interleave.    *)
RepliesFollowQuestions ==
    \A s \in Sessions :
        /\ \A i \in DOMAIN checkpoints[s] :
            checkpoints[s][i].role = "assistant" =>
                i > 1 /\ checkpoints[s][i - 1] = UserMessage(checkpoints[s][i].turn)
        /\ \A i, j \in DOMAIN checkpoints[s] :
            checkpoints[s][i] = checkpoints[s][j] => i = j

(* An exchange that was answered from memory stays in the thread for as    *)
(* long as the conversation lasts: messages are appended, not overwritten. *)
ExchangesKept ==
    \A r \in Turns :
        LET s == turn[r].session
        IN  turn[r].phase = "remembered" /\ turn[r].epoch = epoch[s] /\ now < expiresAt[s] =>
                \E i \in DOMAIN checkpoints[s] : checkpoints[s][i] = Reply(r)

(* With visitors who wait for each answer, the two stores together behave  *)
(* as one transcript per session with a sliding deadline.                  *)
Memory == INSTANCE Conversation WITH
    Grace <- MaxTurn, clock <- now, deadline <- expiresAt, transcript <- checkpoints

ImplementsConversation == Memory!Spec

(* What is left of a conversation after its deadline is eventually erased, *)
(* unless the visitor comes back first.                                    *)
ExpiredIsSwept ==
    \A s \in Sessions :
        (checkpoints[s] # <<>> /\ expiresAt[s] <= now)
            ~> (checkpoints[s] = <<>> \/ now < expiresAt[s])

(* No turn waits for ever for a row, a sweep or another turn.              *)
EveryTurnEnds == \A r \in Turns : InFlight(r) ~> turn[r].phase \in Ended
===============================================================================
