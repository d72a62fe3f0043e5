------------------------- MODULE SessionMemory_proofs -------------------------
(***************************************************************************)
(* Proofs about SessionMemory for every number of sessions, turns and      *)
(* cleaners and every TTL.                                                 *)
(*                                                                         *)
(* The safety theorems assume ShortTurns.  One MaxTurn is for the turn     *)
(* itself; the other is because a refresh dates its renewal by the start   *)
(* of its transaction, so a refresh that commits late can move expires_at  *)
(* back by up to MaxTurn under a turn that is already running.             *)
(***************************************************************************)
EXTENDS SessionMemory, TLAPS

ShortTurns == 2 * MaxTurn < TTL

(* A turn that is in flight began recently.                                *)
TurnsAreRecent ==
    \A r \in Turns : InFlight(r) => turn[r].begun <= now /\ now <= turn[r].begun + MaxTurn

(* While the graph runs, its session is alive and still in the             *)
(* conversation the turn joined.                                           *)
InvokingSessionsLive ==
    \A r \in Turns :
        turn[r].phase \in Invoking =>
            /\ turn[r].session \in live
            /\ turn[r].begun + TTL <= expiresAt[turn[r].session] + MaxTurn
            /\ turn[r].epoch = epoch[turn[r].session]

(* What a refresh knows between its SELECT and its COMMIT.                 *)
Lapsed(r) == expiresAt[turn[r].session] <= turn[r].begun

Knows(r) ==
    /\ turn[r].phase = "clear" => turn[r].found /\ Lapsed(r)
    /\ turn[r].phase \in {"clear", "upsert"} /\ turn[r].found => turn[r].session \in live
    /\ turn[r].phase = "upsert" /\ Lapsed(r) /\ turn[r].found =>
            checkpoints[turn[r].session] = <<>>
    /\ turn[r].phase = "upsert" /\ Lapsed(r) /\ ~turn[r].found =>
            turn[r].session \notin live

RefreshKnows == \A r \in Turns : Knows(r)

(* What a sweep knows of the rows it holds.                                *)
SweepKnows ==
    \A c \in Cleaners : \A s \in sweep[c].batch :
        /\ s \in live /\ expiresAt[s] <= now
        /\ s \notin sweep[c].todo => checkpoints[s] = <<>>

TodoInBatch == \A c \in Cleaners : sweep[c].todo \subseteq sweep[c].batch

(* Turn q has passed its refresh, as conversation e of session s.  This    *)
(* never changes again.                                                    *)
Joined(turns, q, s, e) ==
    /\ turns[q].phase \notin {"idle"} \union Refreshing
    /\ turns[q].session = s
    /\ turns[q].epoch = e

ThreadsAreCurrent ==
    \A s \in Sessions : \A i \in DOMAIN checkpoints[s] :
        Joined(turn, checkpoints[s][i].turn, s, epoch[s])

ContextsAreCurrent ==
    \A r \in Turns : turn[r].phase \in Invoking =>
        \A i \in DOMAIN turn[r].base :
            Joined(turn, turn[r].base[i].turn, turn[r].session, turn[r].epoch)

NothingLoadedYet ==
    \A r \in Turns : turn[r].phase \in {"idle"} \union Refreshing => turn[r].base = <<>>

IInv ==
    /\ TypeOK
    /\ TurnsAreRecent
    /\ InvokingSessionsLive
    /\ RefreshKnows
    /\ SweepKnows
    /\ TodoInBatch
    /\ RowHeldOnce
    /\ NoOrphanedThread
    /\ ThreadsAreCurrent
    /\ ContextsAreCurrent
    /\ NothingLoadedYet

-------------------------------------------------------------------------------
(* Type correctness                                                          *)

(* A message appended to a list of messages gives a list of messages.      *)
LEMMA AppendType ==
    ASSUME NEW seq \in Seq(Message), NEW m \in Message
    PROVE  Append(seq, m) \in Seq(Message)
OBVIOUS

(* So does an exchange.                                                    *)
LEMMA ExchangeType ==
    ASSUME NEW seq \in Seq(Message), NEW r \in Turns
    PROVE  seq \o <<UserMessage(r), Reply(r)>> \in Seq(Message)
<1>1. UserMessage(r) \in Message /\ Reply(r) \in Message
    BY DEF UserMessage, Reply, Message
<1>2. <<UserMessage(r), Reply(r)>> \in Seq(Message)
    BY <1>1
<1>. QED BY <1>2

(* The phases the actions name are phases.                                 *)
LEMMA PhaseMembers ==
    /\ "idle" \in Phase /\ "refresh" \in Phase /\ "clear" \in Phase
    /\ "upsert" \in Phase /\ "load" \in Phase /\ "input" \in Phase
    /\ "generate" \in Phase /\ "reply" \in Phase /\ "stateless" \in Phase
    /\ "remembered" \in Phase /\ "fallback" \in Phase /\ "failed" \in Phase
BY DEF Phase, Active, Refreshing, Invoking, Ended

(* The initial state has the types.                                        *)
LEMMA InitTypeOK == Init => TypeOK
<1>. SUFFICES ASSUME Init PROVE TypeOK
    OBVIOUS
<1>1. AnySession \in Sessions
    BY ConstantsAssumption DEF AnySession
<1>2. turn \in [Turns -> TurnState]
    <2>1. <<>> \in Seq(Message)
        OBVIOUS
    <2>. QED BY <1>1, <2>1, PhaseMembers DEF Init, TurnState
<1>3. sweep \in [Cleaners -> SweepState]
    BY DEF Init, SweepState
<1>4. checkpoints \in [Sessions -> Seq(Message)]
    <2>1. <<>> \in Seq(Message)
        OBVIOUS
    <2>. QED BY <2>1 DEF Init
<1>5. /\ now \in Nat /\ faults \in Nat /\ live \subseteq Sessions
      /\ expiresAt \in [Sessions -> Nat] /\ epoch \in [Sessions -> Nat]
    BY DEF Init
<1>. QED BY <1>2, <1>3, <1>4, <1>5 DEF TypeOK

(* A turn's own steps, the faults it meets and the clock keep the types.   *)
LEMMA TurnTypeOK ==
    ASSUME TypeOK, NEW r \in Turns,
           TurnStep(r) \/ FallBack(r) \/ TurnLost(r) \/ \E s \in Sessions : Chat(r, s)
    PROVE  TypeOK'
<1>. DEFINE s == turn[r].session
<1>0. turn \in [Turns -> TurnState] /\ now \in Nat
    BY DEF TypeOK
<1>a. s \in Sessions /\ turn[r].begun \in Nat /\ turn[r].base \in Seq(Message)
    BY <1>0 DEF TurnState
<1>b. /\ Append(turn[r].base, UserMessage(r)) \in Seq(Message)
      /\ turn[r].base \o <<UserMessage(r), Reply(r)>> \in Seq(Message)
    BY <1>a, AppendType, ExchangeType DEF UserMessage, Message
<1>1. ASSUME NEW z \in Sessions, Chat(r, z) PROVE TypeOK'
    <2>1. turn' \in [Turns -> TurnState]
        <3>1. /\ turn' = [turn EXCEPT ![r].phase = "refresh", ![r].session = z,
                                      ![r].begun = now]
              /\ "refresh" \in Phase
            BY <1>1, PhaseMembers DEF Chat
        <3>. QED BY <1>0, <3>1 DEF TurnState
    <2>. QED BY <1>1, <2>1 DEF TypeOK, Chat
<1>2. CASE RefreshSelect(r)
    <2>1. turn' \in [Turns -> TurnState]
        <3>. DEFINE phase == IF s \in live /\ expiresAt[s] <= turn[r].begun
                             THEN "clear" ELSE "upsert"
                    found == s \in live
        <3>1. /\ turn' = [turn EXCEPT ![r].phase = phase, ![r].found = found]
              /\ phase \in Phase /\ found \in BOOLEAN
            BY <1>2, PhaseMembers DEF RefreshSelect
        <3>. HIDE DEF phase, found
        <3>. QED BY <1>0, <3>1 DEF TurnState
    <2>. QED BY <1>2, <2>1 DEF TypeOK, RefreshSelect
<1>3. CASE RefreshClear(r)
    <2>1. turn' \in [Turns -> TurnState]
        BY <1>0, <1>3, PhaseMembers DEF RefreshClear, Advance, TurnState
    <2>2. checkpoints' \in [Sessions -> Seq(Message)]
        BY <1>a, <1>3 DEF TypeOK, RefreshClear, Erase, Write
    <2>. QED BY <1>3, <2>1, <2>2 DEF TypeOK, RefreshClear
<1>4. CASE RefreshCommit(r)
    <2>1. epoch' \in [Sessions -> Nat] /\ epoch'[s] \in Nat
        BY <1>a, <1>4 DEF TypeOK, RefreshCommit
    <2>2. turn' \in [Turns -> TurnState]
        <3>1. /\ turn' = [turn EXCEPT ![r].phase = "load", ![r].epoch = epoch'[s]]
              /\ "load" \in Phase
            BY <1>4, PhaseMembers DEF RefreshCommit
        <3>. QED BY <1>0, <2>1, <3>1 DEF TurnState
    <2>3. expiresAt' \in [Sessions -> Nat]
        <3>1. turn[r].begun + TTL \in Nat
            BY <1>a, ConstantsAssumption
        <3>. QED BY <1>a, <1>4, <3>1 DEF TypeOK, RefreshCommit
    <2>. QED BY <1>a, <1>4, <2>1, <2>2, <2>3 DEF TypeOK, RefreshCommit
<1>5. CASE LoadCheckpoint(r)
    <2>1. checkpoints[s] \in Seq(Message)
        BY <1>a DEF TypeOK
    <2>2. turn' \in [Turns -> TurnState]
        BY <1>0, <1>5, <2>1, PhaseMembers DEF LoadCheckpoint, TurnState
    <2>. QED BY <1>5, <2>2 DEF TypeOK, LoadCheckpoint
<1>6. CASE WriteInput(r)
    <2>1. turn' \in [Turns -> TurnState]
        BY <1>0, <1>6, PhaseMembers DEF WriteInput, Advance, TurnState
    <2>2. checkpoints' \in [Sessions -> Seq(Message)]
        BY <1>a, <1>b, <1>6 DEF TypeOK, WriteInput, Write
    <2>. QED BY <1>6, <2>1, <2>2 DEF TypeOK, WriteInput
<1>. DEFINE left(phase) ==
        turn' = [turn EXCEPT ![r].phase = phase, ![r].base = <<>>]
<1>c. ASSUME NEW phase \in Phase, left(phase) PROVE turn' \in [Turns -> TurnState]
    <2>1. <<>> \in Seq(Message)
        OBVIOUS
    <2>. QED BY <1>0, <1>c, <2>1 DEF TurnState
<1>7. CASE Generate(r)
    <2>1. turn' \in [Turns -> TurnState]
        <3>1. CASE Advance(r, "reply")
            BY <1>0, <3>1, PhaseMembers DEF Advance, TurnState
        <3>2. CASE Leave(r, "failed")
            BY <3>2, <1>c, PhaseMembers DEF Leave
        <3>. QED BY <1>7, <3>1, <3>2 DEF Generate
    <2>. QED BY <1>7, <2>1 DEF TypeOK, Generate
<1>8. CASE WriteReply(r)
    <2>1. turn' \in [Turns -> TurnState]
        BY <1>8, <1>c, PhaseMembers DEF WriteReply, Leave
    <2>2. checkpoints' \in [Sessions -> Seq(Message)]
        BY <1>a, <1>b, <1>8 DEF TypeOK, WriteReply, Write
    <2>. QED BY <1>8, <2>1, <2>2 DEF TypeOK, WriteReply
<1>9. CASE AnswerStateless(r)
    <2>1. turn' \in [Turns -> TurnState]
        BY <1>0, <1>9, PhaseMembers DEF AnswerStateless, Advance, TurnState
    <2>. QED BY <1>9, <2>1 DEF TypeOK, AnswerStateless
<1>10. CASE FallBack(r)
    <2>1. turn' \in [Turns -> TurnState]
        BY <1>10, <1>c, PhaseMembers DEF FallBack, Leave
    <2>2. checkpoints' \in [Sessions -> Seq(Message)]
        BY <1>a, <1>b, <1>10 DEF TypeOK, FallBack, Write
    <2>. QED BY <1>10, <2>1, <2>2 DEF TypeOK, FallBack
<1>11. CASE TurnLost(r)
    <2>1. turn' \in [Turns -> TurnState]
        BY <1>11, <1>c, PhaseMembers DEF TurnLost, Leave
    <2>. QED BY <1>11, <2>1 DEF TypeOK, TurnLost
<1>. QED
    BY <1>1, <1>2, <1>3, <1>4, <1>5, <1>6, <1>7, <1>8, <1>9, <1>10, <1>11 DEF TurnStep

(* So do a cleaner's.                                                      *)
LEMMA SweepTypeOK ==
    ASSUME TypeOK, NEW c \in Cleaners, SweepStep(c) \/ SweepFail(c)
    PROVE  TypeOK'
<1>0. sweep[c].todo \subseteq Sessions /\ sweep[c].batch \subseteq Sessions
    BY DEF TypeOK, SweepState
<1>1. CASE SweepSelect(c)
    BY <1>1 DEF TypeOK, SweepSelect, SweepState, Expired
<1>2. CASE SweepClear(c)
    <2>1. PICK s \in sweep[c].todo : Erase(s) /\ sweep' = [sweep EXCEPT ![c].todo = @ \ {s}]
        BY <1>2 DEF SweepClear
    <2>2. checkpoints' \in [Sessions -> Seq(Message)]
        BY <2>1, <1>0 DEF TypeOK, Erase, Write
    <2>3. sweep' \in [Cleaners -> SweepState]
        BY <2>1 DEF TypeOK, SweepState
    <2>. QED BY <1>2, <2>2, <2>3 DEF TypeOK, SweepClear
<1>3. CASE SweepCommit(c)
    BY <1>3 DEF TypeOK, SweepCommit, SweepState
<1>4. CASE SweepFail(c)
    BY <1>4 DEF TypeOK, SweepFail, SweepState
<1>. QED BY <1>1, <1>2, <1>3, <1>4 DEF SweepStep

(* Every step keeps the types.                                             *)
LEMMA NextTypeOK == TypeOK /\ [Next]_vars => TypeOK'
<1>. SUFFICES ASSUME TypeOK, [Next]_vars PROVE TypeOK'
    OBVIOUS
<1>1. CASE Tick
    BY <1>1 DEF TypeOK, Tick
<1>2. CASE UNCHANGED vars
    BY <1>2 DEF TypeOK, vars
<1>. QED BY <1>1, <1>2, TurnTypeOK, SweepTypeOK DEF Next

(* The state of both stores, of every request and of every cleaner keeps   *)
(* its shape.                                                              *)
THEOREM TypeCorrect == Spec => []TypeOK
<1>. QED BY InitTypeOK, NextTypeOK, PTL DEF Spec

-------------------------------------------------------------------------------
(* The inductive invariant                                                   *)

(* What the type invariant says of one turn, and of one list of messages.  *)
LEMMA TurnFacts ==
    ASSUME TypeOK, NEW q \in Turns
    PROVE  /\ turn[q].session \in Sessions /\ turn[q].begun \in Nat
           /\ turn[q].base \in Seq(Message) /\ turn[q].epoch \in Nat
           /\ turn[q].found \in BOOLEAN
BY DEF TypeOK, TurnState

(* The messages of a thread were written by turns.                         *)
LEMMA MessageTurns ==
    ASSUME NEW messages \in Seq(Message), NEW i \in DOMAIN messages
    PROVE  messages[i].turn \in Turns
<1>1. messages[i] \in Message
    OBVIOUS
<1>. QED BY <1>1 DEF Message

(* While the graph runs on a session its deadline is ahead, no sweep holds *)
(* its row, and no refresh of it is about to erase it or to find it lapsed.*)
LEMMA InvokingProtects ==
    ASSUME IInv, ShortTurns, NEW r \in Turns, turn[r].phase \in Invoking
    PROVE  LET s == turn[r].session
           IN  /\ now < expiresAt[s]
               /\ \A c \in Cleaners : s \notin sweep[c].batch
               /\ \A q \in Turns : turn[q].session = s /\ turn[q].phase \in Refreshing =>
                    turn[q].phase # "clear" /\ turn[q].begun < expiresAt[s]
<1>. DEFINE s == turn[r].session
<1>1. /\ now \in Nat /\ s \in Sessions /\ expiresAt[s] \in Nat
      /\ TTL \in Nat /\ MaxTurn \in Nat
      /\ \A q \in Turns : turn[q].begun \in Nat
    BY ConstantsAssumption DEF IInv, TypeOK, TurnState
<1>2. now <= turn[r].begun + MaxTurn
    BY DEF IInv, TurnsAreRecent, InFlight, Active
<1>3. turn[r].begun + TTL <= expiresAt[s] + MaxTurn
    BY DEF IInv, InvokingSessionsLive
<1>4. now < expiresAt[s]
    BY <1>1, <1>2, <1>3 DEF ShortTurns
<1>5. \A c \in Cleaners : s \notin sweep[c].batch
    BY <1>1, <1>4 DEF IInv, SweepKnows
<1>6. ASSUME NEW q \in Turns, turn[q].session = s, turn[q].phase \in Refreshing
      PROVE  turn[q].phase # "clear" /\ turn[q].begun < expiresAt[s]
    <2>1. turn[q].begun <= now
        BY <1>6 DEF IInv, TurnsAreRecent, InFlight, Active
    <2>2. turn[q].begun < expiresAt[s]
        BY <1>1, <1>4, <2>1
    <2>3. turn[q].phase # "clear"
        BY <1>1, <1>6, <2>2 DEF IInv, RefreshKnows, Knows, Lapsed
    <2>. QED BY <2>2, <2>3
<1>. QED BY <1>4, <1>5, <1>6

(* A step of a turn past its refresh, or out of it: it may load the thread, *)
(* write what it loaded with its own messages appended, or leave.          *)
LEMMA PastRefreshInv ==
    ASSUME IInv, TypeOK', ShortTurns, NEW r \in Turns,
           InFlight(r),
           \A q \in Turns \ {r} : turn'[q] = turn[q],
           /\ turn'[r].session = turn[r].session /\ turn'[r].begun = turn[r].begun
           /\ turn'[r].found = turn[r].found /\ turn'[r].epoch = turn[r].epoch,
           turn'[r].phase \notin {"idle"} \union Refreshing,
           turn'[r].phase \in Invoking =>
                /\ turn[r].phase \in Invoking
                /\ turn'[r].base \in {turn[r].base, checkpoints[turn[r].session]},
           UNCHANGED <<now, live, expiresAt, epoch, sweep>>,
           \/ UNCHANGED checkpoints
           \/ \E messages \in Seq(Message) :
                /\ turn[r].phase \in Invoking
                /\ checkpoints' = [checkpoints EXCEPT ![turn[r].session] = messages]
                /\ \A i \in DOMAIN messages :
                    \/ messages[i].turn = r
                    \/ \E j \in DOMAIN turn[r].base : messages[i] = turn[r].base[j]
    PROVE  IInv'
<1>. DEFINE s == turn[r].session
<1>a. TypeOK /\ s \in Sessions
    BY TurnFacts DEF IInv
<1>b. \A q \in Turns :
        /\ turn'[q].session = turn[q].session /\ turn'[q].begun = turn[q].begun
        /\ turn'[q].found = turn[q].found /\ turn'[q].epoch = turn[q].epoch
    OBVIOUS
<1>c. \A q \in Turns : \A z, e : Joined(turn, q, z, e) => Joined(turn', q, z, e)
    BY DEF Joined
<1>d. /\ checkpoints \in [Sessions -> Seq(Message)]
      /\ checkpoints' \in [Sessions -> Seq(Message)]
    BY <1>a DEF TypeOK
<1>e. \A z \in Sessions : checkpoints'[z] # checkpoints[z] =>
            z = s /\ turn[r].phase \in Invoking
    BY <1>a, <1>d
<1>1. TurnsAreRecent'
    BY <1>b DEF IInv, TurnsAreRecent, InFlight
<1>2. InvokingSessionsLive'
    BY <1>b DEF IInv, InvokingSessionsLive
<1>3. ASSUME NEW q \in Turns PROVE Knows(q)'
    <2>1. CASE q = r
        BY <2>1 DEF Knows, Refreshing
    <2>2. CASE q # r
        <3>1. turn'[q] = turn[q] /\ turn[q].session \in Sessions
            BY <1>a, <2>2, TurnFacts
        <3>2. Knows(q) /\ (Lapsed(q)' <=> Lapsed(q))
            BY <3>1 DEF IInv, RefreshKnows, Lapsed
        <3>3. ASSUME turn[q].phase = "upsert", Lapsed(q)
              PROVE  checkpoints'[turn[q].session] = checkpoints[turn[q].session]
            <4>. SUFFICES ASSUME checkpoints'[turn[q].session] # checkpoints[turn[q].session]
                          PROVE  FALSE
                OBVIOUS
            <4>1. turn[q].session = s /\ turn[r].phase \in Invoking
                BY <1>e, <3>1
            <4>2. turn[q].begun < expiresAt[s] /\ expiresAt[s] <= turn[q].begun
                BY <3>3, <4>1, InvokingProtects DEF Refreshing, Lapsed
            <4>3. turn[q].begun \in Nat /\ expiresAt[s] \in Nat
                BY <1>a, TurnFacts DEF TypeOK
            <4>. QED BY <4>2, <4>3
        <3>. QED BY <3>1, <3>2, <3>3 DEF Knows
    <2>. QED BY <2>1, <2>2
<1>4. SweepKnows' /\ TodoInBatch'
    <2>1. \A c \in Cleaners : \A z \in sweep[c].batch : z \in Sessions
        BY <1>a DEF TypeOK, SweepState
    <2>2. \A c \in Cleaners : \A z \in sweep[c].batch : checkpoints'[z] = checkpoints[z]
        BY <1>e, <2>1, InvokingProtects
    <2>. QED BY <2>2 DEF IInv, SweepKnows, TodoInBatch
<1>5. RowHeldOnce'
    <2>1. \A q \in Turns, z \in Sessions : HeldByTurn(q, z)' => HeldByTurn(q, z)
        BY <1>b DEF HeldByTurn, Refreshing
    <2>2. \A c \in Cleaners, z \in Sessions : HeldBySweep(c, z)' <=> HeldBySweep(c, z)
        BY DEF HeldBySweep
    <2>. QED BY <2>1, <2>2 DEF IInv, RowHeldOnce
<1>6. NoOrphanedThread'
    BY <1>e DEF IInv, NoOrphanedThread, InvokingSessionsLive
<1>7. ASSUME NEW z \in Sessions, NEW i \in DOMAIN checkpoints'[z]
      PROVE  Joined(turn', checkpoints'[z][i].turn, z, epoch[z])
    <2>1. checkpoints'[z][i].turn \in Turns
        BY <1>d, MessageTurns
    <2>3. CASE checkpoints'[z] = checkpoints[z]
        BY <2>1, <1>c, <2>3 DEF IInv, ThreadsAreCurrent
    <2>4. CASE checkpoints'[z] # checkpoints[z]
        <3>1. z = s /\ turn[r].phase \in Invoking
            BY <1>e, <2>4
        <3>2. turn[r].epoch = epoch[s] /\ Joined(turn, r, s, epoch[s])
            BY <3>1 DEF IInv, InvokingSessionsLive, Joined, Invoking, Refreshing
        <3>3. \/ checkpoints'[z][i].turn = r
              \/ \E j \in DOMAIN turn[r].base : checkpoints'[z][i] = turn[r].base[j]
            BY <1>d, <2>4, <3>1
        <3>4. Joined(turn, checkpoints'[z][i].turn, s, epoch[s])
            BY <3>1, <3>2, <3>3 DEF IInv, ContextsAreCurrent
        <3>. QED BY <1>c, <2>1, <3>1, <3>4
    <2>. QED BY <2>3, <2>4
<1>8. ASSUME NEW q \in Turns, turn'[q].phase \in Invoking, NEW i \in DOMAIN turn'[q].base
      PROVE  Joined(turn', turn'[q].base[i].turn, turn[q].session, turn[q].epoch)
    <2>1. turn'[q].base \in Seq(Message)
        BY DEF TypeOK, TurnState
    <2>2. turn'[q].base[i].turn \in Turns
        BY <2>1, MessageTurns
    <2>3. turn[q].phase \in Invoking
        BY <1>8
    <2>4. Joined(turn, turn'[q].base[i].turn, turn[q].session, turn[q].epoch)
        <3>1. CASE turn'[q].base = turn[q].base
            BY <2>3, <3>1 DEF IInv, ContextsAreCurrent
        <3>2. CASE q = r /\ turn'[r].base = checkpoints[s]
            BY <1>a, <2>3, <3>2 DEF IInv, ThreadsAreCurrent, InvokingSessionsLive
        <3>. QED BY <1>8, <3>1, <3>2
    <2>. QED BY <1>c, <2>2, <2>4
<1>9. NothingLoadedYet'
    BY DEF IInv, NothingLoadedYet
<1>10. RefreshKnows' /\ ThreadsAreCurrent' /\ ContextsAreCurrent'
    BY <1>b, <1>3, <1>7, <1>8 DEF RefreshKnows, ThreadsAreCurrent, ContextsAreCurrent
<1>. QED BY <1>1, <1>2, <1>4, <1>5, <1>6, <1>9, <1>10 DEF IInv

(* Any other step leaves alone, or erases, what was said and loaded.       *)
LEMMA HistoryKept ==
    ASSUME IInv, TypeOK',
           \A q \in Turns :
                \/ turn'[q] = turn[q]
                \/ /\ turn[q].phase \in {"idle"} \union Refreshing
                   /\ turn'[q].base = turn[q].base,
           \A z \in Sessions :
                \/ checkpoints'[z] = <<>>
                \/ checkpoints'[z] = checkpoints[z] /\ epoch'[z] = epoch[z]
    PROVE  ThreadsAreCurrent' /\ ContextsAreCurrent' /\ NothingLoadedYet'
<1>a. TypeOK
    BY DEF IInv
<1>b. \A q \in Turns : \A z, e : Joined(turn, q, z, e) => turn'[q] = turn[q]
    BY DEF Joined
<1>1. ASSUME NEW z \in Sessions, NEW i \in DOMAIN checkpoints'[z]
      PROVE  Joined(turn', checkpoints'[z][i].turn, z, epoch'[z])
    <2>1. checkpoints'[z] = checkpoints[z] /\ epoch'[z] = epoch[z]
        OBVIOUS
    <2>2. Joined(turn, checkpoints'[z][i].turn, z, epoch[z])
        BY <2>1 DEF IInv, ThreadsAreCurrent
    <2>3. checkpoints'[z] \in Seq(Message)
        BY DEF TypeOK
    <2>4. checkpoints'[z][i].turn \in Turns
        BY <2>3, MessageTurns
    <2>. QED BY <1>b, <2>1, <2>2, <2>4 DEF Joined
<1>2. ASSUME NEW q \in Turns, turn'[q].phase \in Invoking, NEW i \in DOMAIN turn'[q].base
      PROVE  Joined(turn', turn'[q].base[i].turn, turn'[q].session, turn'[q].epoch)
    <2>1. turn'[q] = turn[q]
        BY DEF IInv, NothingLoadedYet
    <2>2. Joined(turn, turn[q].base[i].turn, turn[q].session, turn[q].epoch)
        BY <1>2, <2>1 DEF IInv, ContextsAreCurrent
    <2>3. turn[q].base[i].turn \in Turns
        BY <1>a, <2>1, TurnFacts, MessageTurns
    <2>. QED BY <1>b, <2>1, <2>2, <2>3 DEF Joined
<1>3. NothingLoadedYet'
    BY DEF IInv, NothingLoadedYet
<1>. QED BY <1>1, <1>2, <1>3 DEF ThreadsAreCurrent, ContextsAreCurrent

(* A request that arrives begins now, and holds nothing yet.               *)
LEMMA ChatInv ==
    ASSUME IInv, TypeOK', NEW r \in Turns, NEW z \in Sessions, Chat(r, z)
    PROVE  IInv'
<1>1. /\ turn[r].phase = "idle" /\ turn'[r].phase = "refresh"
      /\ turn'[r].begun = now /\ turn'[r].base = turn[r].base
      /\ \A q \in Turns \ {r} : turn'[q] = turn[q]
    BY DEF Chat, IInv, TypeOK, TurnState
<1>2. UNCHANGED <<now, live, expiresAt, checkpoints, epoch, sweep>>
    BY DEF Chat
<1>3. ThreadsAreCurrent' /\ ContextsAreCurrent' /\ NothingLoadedYet'
    BY <1>1, <1>2, HistoryKept
<1>4. TurnsAreRecent'
    <2>1. now \in Nat /\ MaxTurn \in Nat
        BY ConstantsAssumption DEF IInv, TypeOK
    <2>2. turn'[r].begun <= now' /\ now' <= turn'[r].begun + MaxTurn
        BY <1>1, <1>2, <2>1
    <2>. QED BY <1>1, <1>2, <2>2 DEF IInv, TurnsAreRecent, InFlight
<1>5. InvokingSessionsLive'
    BY <1>1, <1>2 DEF IInv, InvokingSessionsLive, Invoking
<1>6. \A q \in Turns : Knows(q)'
    BY <1>1, <1>2 DEF IInv, RefreshKnows, Knows, Lapsed
<1>7. SweepKnows' /\ TodoInBatch'
    BY <1>2 DEF IInv, SweepKnows, TodoInBatch
<1>8. RowHeldOnce'
    BY <1>1, <1>2 DEF IInv, RowHeldOnce, HeldByTurn, HeldBySweep
<1>9. NoOrphanedThread'
    BY <1>2 DEF IInv, NoOrphanedThread
<1>. QED BY <1>3, <1>4, <1>5, <1>6, <1>7, <1>8, <1>9 DEF IInv, RefreshKnows

(* A refresh that found the row knows whether it had lapsed.               *)
LEMMA RefreshSelectInv ==
    ASSUME IInv, TypeOK', NEW r \in Turns, RefreshSelect(r)
    PROVE  IInv'
<1>. DEFINE s == turn[r].session
<1>0. TypeOK /\ s \in Sessions /\ ~Locked(s)
    BY TurnFacts DEF IInv, RefreshSelect
<1>1. /\ turn[r].phase = "refresh"
      /\ turn'[r].phase = IF s \in live /\ Lapsed(r) THEN "clear" ELSE "upsert"
      /\ turn'[r].session = s /\ turn'[r].begun = turn[r].begun
      /\ turn'[r].base = turn[r].base
      /\ \A q \in Turns \ {r} : turn'[q] = turn[q]
    BY <1>0 DEF RefreshSelect, TypeOK, TurnState, Lapsed
<1>a. turn'[r].found <=> s \in live
    <2>. DEFINE phase == IF s \in live /\ expiresAt[s] <= turn[r].begun
                         THEN "clear" ELSE "upsert"
                found == s \in live
    <2>1. turn' = [turn EXCEPT ![r].phase = phase, ![r].found = found]
        BY DEF RefreshSelect
    <2>2. turn'[r].found = found
        <3>. HIDE DEF phase, found
        <3>. QED BY <1>0, <2>1 DEF TypeOK, TurnState
    <2>. QED BY <2>2
<1>2. UNCHANGED <<now, live, expiresAt, checkpoints, epoch, sweep>>
    BY DEF RefreshSelect
<1>3. ThreadsAreCurrent' /\ ContextsAreCurrent' /\ NothingLoadedYet'
    <2>1. turn[r].phase \in {"idle"} \union Refreshing
        BY <1>1 DEF Refreshing
    <2>. QED BY <1>1, <1>2, <2>1, HistoryKept
<1>4. TurnsAreRecent'
    BY <1>1, <1>2 DEF IInv, TurnsAreRecent, InFlight, Active, Refreshing
<1>5. InvokingSessionsLive'
    BY <1>1, <1>2 DEF IInv, InvokingSessionsLive, Invoking
<1>6. ASSUME NEW q \in Turns PROVE Knows(q)'
    <2>1. CASE q = r
        <3>1. Lapsed(r)' <=> Lapsed(r)
            BY <1>1, <1>2 DEF Lapsed
        <3>. QED BY <1>1, <1>2, <1>a, <2>1, <3>1 DEF Knows
    <2>2. CASE q # r
        BY <1>1, <1>2, <2>2 DEF IInv, RefreshKnows, Knows, Lapsed
    <2>. QED BY <2>1, <2>2
<1>7. SweepKnows' /\ TodoInBatch'
    BY <1>2 DEF IInv, SweepKnows, TodoInBatch
<1>8. RowHeldOnce'
    <2>1. \A c \in Cleaners, z \in Sessions : HeldBySweep(c, z)' <=> HeldBySweep(c, z)
        BY <1>2 DEF HeldBySweep
    <2>2. \A q \in Turns, z \in Sessions :
            HeldByTurn(q, z)' => HeldByTurn(q, z) \/ (q = r /\ z = s)
        BY <1>1 DEF HeldByTurn
    <2>. QED BY <1>0, <2>1, <2>2 DEF IInv, RowHeldOnce, Locked
<1>9. NoOrphanedThread'
    BY <1>2 DEF IInv, NoOrphanedThread
<1>. QED BY <1>3, <1>4, <1>5, <1>6, <1>7, <1>8, <1>9 DEF IInv, RefreshKnows

(* An erased thread takes nothing from what is known of any other.         *)
LEMMA RefreshClearInv ==
    ASSUME IInv, TypeOK', NEW r \in Turns, RefreshClear(r)
    PROVE  IInv'
<1>. DEFINE s == turn[r].session
<1>0. TypeOK /\ s \in Sessions
    BY TurnFacts DEF IInv
<1>1. /\ turn[r].phase = "clear" /\ turn'[r].phase = "upsert"
      /\ turn'[r].session = s /\ turn'[r].begun = turn[r].begun
      /\ turn'[r].base = turn[r].base /\ turn'[r].found = turn[r].found
      /\ \A q \in Turns \ {r} : turn'[q] = turn[q]
    BY <1>0 DEF RefreshClear, Advance, TypeOK, TurnState
<1>2. UNCHANGED <<now, live, expiresAt, epoch, sweep>>
    BY DEF RefreshClear
<1>a. /\ checkpoints'[s] = <<>>
      /\ \A z \in Sessions : checkpoints'[z] = checkpoints[z] \/ checkpoints'[z] = <<>>
    BY <1>0 DEF RefreshClear, Erase, Write, TypeOK
<1>3. ThreadsAreCurrent' /\ ContextsAreCurrent' /\ NothingLoadedYet'
    <2>1. turn[r].phase \in {"idle"} \union Refreshing
        BY <1>1 DEF Refreshing
    <2>. QED BY <1>1, <1>2, <1>a, <2>1, HistoryKept
<1>4. TurnsAreRecent'
    BY <1>1, <1>2 DEF IInv, TurnsAreRecent, InFlight, Active, Refreshing
<1>5. InvokingSessionsLive'
    BY <1>1, <1>2 DEF IInv, InvokingSessionsLive, Invoking
<1>6. ASSUME NEW q \in Turns PROVE Knows(q)'
    <2>1. CASE q = r
        BY <1>1, <1>2, <1>a, <2>1 DEF IInv, RefreshKnows, Knows, Lapsed
    <2>2. CASE q # r
        <3>1. turn'[q] = turn[q] /\ turn[q].session \in Sessions
            BY <1>0, <1>1, <2>2, TurnFacts
        <3>. QED BY <1>2, <1>a, <3>1 DEF IInv, RefreshKnows, Knows, Lapsed
    <2>. QED BY <2>1, <2>2
<1>7. SweepKnows' /\ TodoInBatch'
    <2>1. \A c \in Cleaners : \A z \in sweep[c].batch : z \in Sessions
        BY <1>0 DEF TypeOK, SweepState
    <2>. QED BY <1>2, <1>a, <2>1 DEF IInv, SweepKnows, TodoInBatch
<1>8. RowHeldOnce'
    <2>1. \A c \in Cleaners, z \in Sessions : HeldBySweep(c, z)' <=> HeldBySweep(c, z)
        BY <1>2 DEF HeldBySweep
    <2>2. \A q \in Turns, z \in Sessions : HeldByTurn(q, z)' => HeldByTurn(q, z)
        BY <1>1 DEF HeldByTurn
    <2>. QED BY <2>1, <2>2 DEF IInv, RowHeldOnce
<1>9. NoOrphanedThread'
    BY <1>2, <1>a DEF IInv, NoOrphanedThread
<1>. QED BY <1>3, <1>4, <1>5, <1>6, <1>7, <1>8, <1>9 DEF IInv, RefreshKnows

(* The renewal: it starts a conversation only over an empty thread that no *)
(* turn is working on, and never shortens a deadline below what a running  *)
(* turn needs.                                                             *)
LEMMA RefreshCommitInv ==
    ASSUME IInv, TypeOK', ShortTurns, NEW r \in Turns, RefreshCommit(r)
    PROVE  IInv'
<1>. DEFINE s == turn[r].session
<1>0. /\ TypeOK /\ s \in Sessions /\ ~LockedByOther(r, s)
      /\ now \in Nat /\ TTL \in Nat /\ MaxTurn \in Nat
      /\ \A q \in Turns : turn[q].session \in Sessions /\ turn[q].begun \in Nat
      /\ \A z \in Sessions : expiresAt[z] \in Nat
    BY TurnFacts, ConstantsAssumption DEF IInv, RefreshCommit, TypeOK
<1>1. /\ turn[r].phase = "upsert" /\ turn'[r].phase = "load"
      /\ turn'[r].session = s /\ turn'[r].begun = turn[r].begun
      /\ turn'[r].base = turn[r].base /\ turn'[r].found = turn[r].found
      /\ turn'[r].epoch = epoch'[s]
      /\ \A q \in Turns \ {r} : turn'[q] = turn[q]
    BY <1>0 DEF RefreshCommit, TypeOK, TurnState
<1>2. /\ UNCHANGED <<now, checkpoints, sweep>>
      /\ live' = live \union {s}
      /\ expiresAt'[s] = turn[r].begun + TTL
      /\ \A z \in Sessions \ {s} : expiresAt'[z] = expiresAt[z]
    BY <1>0 DEF RefreshCommit, TypeOK
<1>a. /\ ~Lapsed(r) => epoch'[s] = epoch[s]
      /\ \A z \in Sessions \ {s} : epoch'[z] = epoch[z]
    BY <1>0 DEF RefreshCommit, TypeOK, Lapsed
<1>b. Lapsed(r) => checkpoints[s] = <<>>
    BY <1>0, <1>1 DEF IInv, RefreshKnows, Knows, NoOrphanedThread
<1>c. turn[r].begun <= now /\ now <= turn[r].begun + MaxTurn
    BY <1>1 DEF IInv, TurnsAreRecent, InFlight, Active, Refreshing
<1>d. ASSUME NEW q \in Turns, turn[q].phase \in Refreshing PROVE turn[q].begun <= now
    BY <1>d DEF IInv, TurnsAreRecent, InFlight, Active
<1>3. ThreadsAreCurrent' /\ ContextsAreCurrent' /\ NothingLoadedYet'
    <2>1. turn[r].phase \in {"idle"} \union Refreshing
        BY <1>1 DEF Refreshing
    <2>2. \A z \in Sessions :
            checkpoints'[z] = <<>> \/ (checkpoints'[z] = checkpoints[z] /\ epoch'[z] = epoch[z])
        BY <1>2, <1>a, <1>b
    <2>. QED BY <1>1, <2>1, <2>2, HistoryKept
<1>4. TurnsAreRecent'
    BY <1>1, <1>2 DEF IInv, TurnsAreRecent, InFlight, Active, Refreshing
<1>5. InvokingSessionsLive'
    <2>. SUFFICES ASSUME NEW q \in Turns, turn'[q].phase \in Invoking
                  PROVE  /\ turn'[q].session \in live'
                         /\ turn'[q].begun + TTL <= expiresAt'[turn'[q].session] + MaxTurn
                         /\ turn'[q].epoch = epoch'[turn'[q].session]
        BY DEF InvokingSessionsLive
    <2>1. CASE q = r
        BY <1>0, <1>1, <1>2, <2>1
    <2>2. CASE q # r
        <3>1. turn'[q] = turn[q] /\ turn[q].phase \in Invoking
            BY <1>1, <2>2
        <3>2. /\ turn[q].session \in live
              /\ turn[q].begun + TTL <= expiresAt[turn[q].session] + MaxTurn
              /\ turn[q].epoch = epoch[turn[q].session]
            BY <3>1 DEF IInv, InvokingSessionsLive
        <3>3. CASE turn[q].session = s
            <4>1. turn[r].begun < expiresAt[s]
                BY <1>1, <3>1, <3>3, InvokingProtects DEF Refreshing
            <4>2. ~Lapsed(r)
                BY <1>0, <4>1 DEF Lapsed
            <4>3. turn[q].begun <= now
                BY <3>1 DEF IInv, TurnsAreRecent, InFlight, Active
            <4>4. turn[q].begun + TTL <= expiresAt'[s] + MaxTurn
                BY <1>0, <1>2, <1>c, <4>3
            <4>. QED BY <1>2, <1>a, <3>1, <3>2, <3>3, <4>2, <4>4
        <3>4. CASE turn[q].session # s
            BY <1>0, <1>2, <1>a, <3>1, <3>2, <3>4
        <3>. QED BY <3>3, <3>4
    <2>. QED BY <2>1, <2>2
<1>6. ASSUME NEW q \in Turns PROVE Knows(q)'
    <2>1. CASE q = r
        BY <1>1, <2>1 DEF Knows
    <2>2. CASE q # r
        <3>1. turn'[q] = turn[q] /\ Knows(q)
            BY <1>1, <2>2 DEF IInv, RefreshKnows
        <3>2. CASE turn[q].session = s
            <4>1. ~(turn[q].phase \in {"clear", "upsert"} /\ turn[q].found)
                BY <1>0, <2>2, <3>2 DEF LockedByOther, HeldByTurn
            <4>2. turn[q].phase # "clear"
                BY <3>1, <4>1 DEF Knows
            <4>3. ASSUME turn[q].phase = "upsert" PROVE ~Lapsed(q)'
                <5>1. turn[q].begun <= now
                    BY <1>d, <4>3 DEF Refreshing
                <5>2. turn[q].begun < turn[r].begun + TTL
                    BY <1>0, <1>c, <5>1 DEF ShortTurns
                <5>. QED BY <1>0, <1>2, <3>1, <3>2, <5>2 DEF Lapsed
            <4>. QED BY <3>1, <4>1, <4>2, <4>3 DEF Knows
        <3>3. CASE turn[q].session # s
            <4>1. Lapsed(q)' <=> Lapsed(q)
                BY <1>0, <1>2, <3>1, <3>3 DEF Lapsed
            <4>. QED BY <1>2, <3>1, <3>3, <4>1 DEF Knows
        <3>. QED BY <3>2, <3>3
    <2>. QED BY <2>1, <2>2
<1>7. SweepKnows' /\ TodoInBatch'
    <2>1. \A c \in Cleaners : sweep[c].batch \subseteq Sessions \ {s}
        BY <1>0 DEF TypeOK, SweepState, LockedByOther, HeldBySweep
    <2>. QED BY <1>2, <2>1 DEF IInv, SweepKnows, TodoInBatch
<1>8. RowHeldOnce'
    <2>1. \A c \in Cleaners, z \in Sessions : HeldBySweep(c, z)' <=> HeldBySweep(c, z)
        BY <1>2 DEF HeldBySweep
    <2>2. \A q \in Turns, z \in Sessions : HeldByTurn(q, z)' => HeldByTurn(q, z)
        BY <1>1 DEF HeldByTurn
    <2>. QED BY <2>1, <2>2 DEF IInv, RowHeldOnce
<1>9. NoOrphanedThread'
    BY <1>2 DEF IInv, NoOrphanedThread
<1>. QED BY <1>3, <1>4, <1>5, <1>6, <1>7, <1>8, <1>9 DEF IInv, RefreshKnows

(* What a sweep does disturbs no turn.                                     *)
LEMMA SweepInv ==
    ASSUME IInv, TypeOK', ShortTurns, NEW c \in Cleaners,
           SweepStep(c) \/ SweepFail(c)
    PROVE  IInv'
<1>0. /\ TypeOK /\ sweep[c].batch \subseteq Sessions /\ sweep[c].todo \subseteq Sessions
      /\ sweep \in [Cleaners -> SweepState]
    BY DEF IInv, TypeOK, SweepState
<1>1. UNCHANGED <<now, expiresAt, epoch, turn>>
    BY DEF SweepStep, SweepSelect, SweepClear, SweepCommit, SweepFail
<1>2. \A q \in Turns, z \in Sessions : HeldByTurn(q, z)' <=> HeldByTurn(q, z)
    BY <1>1 DEF HeldByTurn
<1>3. TurnsAreRecent'
    BY <1>1 DEF IInv, TurnsAreRecent, InFlight
<1>a. ASSUME \A z \in Sessions : checkpoints'[z] = checkpoints[z] \/ checkpoints'[z] = <<>>
      PROVE  ThreadsAreCurrent' /\ ContextsAreCurrent' /\ NothingLoadedYet'
    BY <1>1, <1>a, HistoryKept
<1>b. ASSUME live' = live,
             \A z \in Sessions : checkpoints'[z] = checkpoints[z] \/ checkpoints'[z] = <<>>
      PROVE  InvokingSessionsLive' /\ RefreshKnows' /\ NoOrphanedThread'
    <2>1. ASSUME NEW q \in Turns PROVE Knows(q)'
        BY <1>0, <1>1, <1>b, TurnFacts DEF IInv, RefreshKnows, Knows, Lapsed
    <2>2. InvokingSessionsLive'
        BY <1>1, <1>b DEF IInv, InvokingSessionsLive
    <2>3. NoOrphanedThread'
        BY <1>b DEF IInv, NoOrphanedThread
    <2>. QED BY <2>1, <2>2, <2>3 DEF RefreshKnows
<1>c. ASSUME \A d \in Cleaners : sweep'[d].batch \subseteq sweep[d].batch PROVE RowHeldOnce'
    BY <1>2, <1>c DEF IInv, RowHeldOnce, HeldBySweep
<1>4. CASE SweepSelect(c)
    <2>1. PICK batch \in SUBSET {z \in Expired : ~Locked(z)} :
            sweep' = [sweep EXCEPT ![c] = [batch |-> batch, todo |-> batch]]
        BY <1>4 DEF SweepSelect
    <2>2. /\ sweep'[c].batch = batch /\ sweep'[c].todo = batch
          /\ \A d \in Cleaners \ {c} : sweep'[d] = sweep[d]
        BY <1>0, <2>1
    <2>3. UNCHANGED <<live, checkpoints>>
        BY <1>4 DEF SweepSelect
    <2>4. SweepKnows' /\ TodoInBatch'
        BY <1>1, <2>1, <2>2, <2>3 DEF IInv, SweepKnows, TodoInBatch, Expired
    <2>5. RowHeldOnce'
        <3>1. \A d \in Cleaners, z \in Sessions :
                HeldBySweep(d, z)' => HeldBySweep(d, z) \/ (d = c /\ ~Locked(z))
            BY <2>1, <2>2 DEF HeldBySweep
        <3>. QED BY <1>2, <3>1 DEF IInv, RowHeldOnce, Locked
    <2>. QED BY <1>3, <1>a, <1>b, <2>3, <2>4, <2>5 DEF IInv
<1>5. CASE SweepClear(c)
    <2>1. PICK s \in sweep[c].todo : Erase(s) /\ sweep' = [sweep EXCEPT ![c].todo = @ \ {s}]
        BY <1>5 DEF SweepClear
    <2>2. /\ checkpoints'[s] = <<>>
          /\ \A z \in Sessions : checkpoints'[z] = checkpoints[z] \/ checkpoints'[z] = <<>>
        BY <1>0, <2>1 DEF Erase, Write, TypeOK
    <2>3. /\ sweep'[c].batch = sweep[c].batch /\ sweep'[c].todo = sweep[c].todo \ {s}
          /\ \A d \in Cleaners \ {c} : sweep'[d] = sweep[d]
        BY <1>0, <2>1 DEF SweepState
    <2>4. live' = live
        BY <1>5 DEF SweepClear
    <2>5. SweepKnows' /\ TodoInBatch'
        <3>1. \A d \in Cleaners : \A z \in sweep[d].batch : z \in Sessions
            BY <1>0 DEF SweepState
        <3>. QED BY <1>1, <2>2, <2>3, <2>4, <3>1 DEF IInv, SweepKnows, TodoInBatch
    <2>. QED BY <1>3, <1>a, <1>b, <1>c, <2>2, <2>3, <2>4, <2>5 DEF IInv
<1>6. CASE SweepCommit(c)
    <2>1. /\ sweep'[c].batch = {} /\ sweep'[c].todo = {} /\ sweep[c].todo = {}
          /\ \A d \in Cleaners \ {c} : sweep'[d] = sweep[d]
        BY <1>0, <1>6 DEF SweepCommit, SweepState
    <2>2. live' = live \ sweep[c].batch /\ checkpoints' = checkpoints
        BY <1>6 DEF SweepCommit
    <2>3. \A d \in Cleaners \ {c} : sweep[d].batch \intersect sweep[c].batch = {}
        BY <1>0 DEF IInv, RowHeldOnce, HeldBySweep
    <2>4. SweepKnows' /\ TodoInBatch'
        BY <1>1, <2>1, <2>2, <2>3 DEF IInv, SweepKnows, TodoInBatch
    <2>5. NoOrphanedThread'
        BY <2>1, <2>2 DEF IInv, NoOrphanedThread, SweepKnows
    <2>6. ASSUME NEW q \in Turns PROVE Knows(q)'
        <3>1. turn[q].phase \in {"clear", "upsert"} /\ turn[q].found =>
                turn[q].session \notin sweep[c].batch
            BY <1>0, TurnFacts DEF IInv, RowHeldOnce, HeldByTurn, HeldBySweep
        <3>. QED BY <1>1, <2>2, <3>1 DEF IInv, RefreshKnows, Knows, Lapsed
    <2>7. InvokingSessionsLive'
        <3>1. ASSUME NEW q \in Turns, turn[q].phase \in Invoking
              PROVE  turn[q].session \notin sweep[c].batch
            BY <3>1, InvokingProtects
        <3>. QED BY <1>1, <2>2, <3>1 DEF IInv, InvokingSessionsLive
    <2>. QED BY <1>3, <1>a, <1>c, <2>1, <2>2, <2>4, <2>5, <2>6, <2>7 DEF IInv, RefreshKnows
<1>7. CASE SweepFail(c)
    <2>1. /\ sweep'[c].batch = {} /\ sweep'[c].todo = {}
          /\ \A d \in Cleaners \ {c} : sweep'[d] = sweep[d]
        BY <1>0, <1>7 DEF SweepFail
    <2>2. UNCHANGED <<live, checkpoints>>
        BY <1>7 DEF SweepFail
    <2>3. SweepKnows' /\ TodoInBatch'
        BY <1>1, <2>1, <2>2 DEF IInv, SweepKnows, TodoInBatch
    <2>. QED BY <1>3, <1>a, <1>b, <1>c, <2>1, <2>2, <2>3 DEF IInv
<1>. QED BY <1>4, <1>5, <1>6, <1>7 DEF SweepStep

(* The clock moves on only as far as every turn in flight allows.          *)
LEMMA TickInv == ASSUME IInv, TypeOK', Tick PROVE IInv'
<1>0. now \in Nat /\ now' = now + 1 /\ MaxTurn \in Nat /\ TypeOK
    BY ConstantsAssumption DEF IInv, TypeOK, Tick
<1>1. UNCHANGED <<live, expiresAt, checkpoints, epoch, turn, sweep>>
    BY DEF Tick
<1>2. TurnsAreRecent'
    <2>. SUFFICES ASSUME NEW q \in Turns, InFlight(q)
                  PROVE  turn[q].begun <= now' /\ now' <= turn[q].begun + MaxTurn
        BY <1>1 DEF TurnsAreRecent, InFlight
    <2>1. turn[q].begun \in Nat /\ turn[q].begun <= now
        BY <1>0, TurnFacts DEF IInv, TurnsAreRecent
    <2>2. now < turn[q].begun + MaxTurn
        BY DEF Tick
    <2>. QED BY <1>0, <2>1, <2>2
<1>3. SweepKnows' /\ TodoInBatch'
    <2>1. ASSUME NEW c \in Cleaners, NEW z \in sweep[c].batch
          PROVE  expiresAt[z] <= now'
        <3>1. z \in Sessions
            BY <1>0 DEF TypeOK, SweepState
        <3>2. expiresAt[z] \in Nat /\ expiresAt[z] <= now
            BY <1>0, <3>1 DEF IInv, TypeOK, SweepKnows
        <3>. QED BY <1>0, <3>2
    <2>. QED BY <1>1, <2>1 DEF IInv, SweepKnows, TodoInBatch
<1>4. ThreadsAreCurrent' /\ ContextsAreCurrent' /\ NothingLoadedYet'
    BY <1>1, HistoryKept
<1>5. \A q \in Turns : Knows(q)'
    BY <1>1 DEF IInv, RefreshKnows, Knows, Lapsed
<1>6. InvokingSessionsLive' /\ RowHeldOnce' /\ NoOrphanedThread'
    BY <1>1 DEF IInv, InvokingSessionsLive, RowHeldOnce, HeldByTurn, HeldBySweep,
                NoOrphanedThread
<1>. QED BY <1>2, <1>3, <1>4, <1>5, <1>6 DEF IInv, RefreshKnows

(* Every store starts empty, so the invariant holds.                       *)
LEMMA InitInv == Init => IInv
<1>. SUFFICES ASSUME Init PROVE IInv
    OBVIOUS
<1>1. TypeOK
    BY InitTypeOK
<1>2. \A q \in Turns : turn[q].phase = "idle" /\ turn[q].base = <<>>
    BY DEF Init
<1>3. TurnsAreRecent /\ InvokingSessionsLive /\ RefreshKnows /\ NothingLoadedYet
    BY <1>2 DEF TurnsAreRecent, InFlight, Active, Refreshing, Invoking,
                InvokingSessionsLive, RefreshKnows, Knows, NothingLoadedYet
<1>4. SweepKnows /\ TodoInBatch
    BY DEF Init, SweepKnows, TodoInBatch
<1>5. RowHeldOnce
    BY <1>2 DEF Init, RowHeldOnce, HeldByTurn, HeldBySweep
<1>6. NoOrphanedThread /\ ThreadsAreCurrent
    BY DEF Init, NoOrphanedThread, ThreadsAreCurrent
<1>7. ContextsAreCurrent
    BY <1>2 DEF ContextsAreCurrent, Invoking
<1>. QED BY <1>1, <1>3, <1>4, <1>5, <1>6, <1>7 DEF IInv

(* Every step of a request, and every fault it meets.                      *)
LEMMA TurnInv ==
    ASSUME IInv, TypeOK', ShortTurns, NEW r \in Turns,
           TurnStep(r) \/ FallBack(r) \/ TurnLost(r)
    PROVE  IInv'
<1>. DEFINE s == turn[r].session
            exchange == turn[r].base \o <<UserMessage(r), Reply(r)>>
            asked == Append(turn[r].base, UserMessage(r))
<1>0. TypeOK /\ s \in Sessions /\ turn[r].base \in Seq(Message)
    BY TurnFacts DEF IInv
<1>a. /\ turn \in [Turns -> TurnState]
      /\ checkpoints \in [Sessions -> Seq(Message)] /\ checkpoints[s] \in Seq(Message)
    BY <1>0 DEF TypeOK
<1>b. /\ UserMessage(r) \in Message /\ Reply(r) \in Message
      /\ UserMessage(r).turn = r /\ Reply(r).turn = r
    BY DEF UserMessage, Reply, Message
<1>c. /\ asked \in Seq(Message)
      /\ \A i \in DOMAIN asked :
            asked[i].turn = r \/ \E j \in DOMAIN turn[r].base : asked[i] = turn[r].base[j]
    BY <1>0, <1>b
<1>d. /\ exchange \in Seq(Message)
      /\ \A i \in DOMAIN exchange :
            exchange[i].turn = r
                \/ \E j \in DOMAIN turn[r].base : exchange[i] = turn[r].base[j]
    BY <1>0, <1>b
<1>e. ASSUME NEW phase \in Ended \union {"stateless"}, InFlight(r), Leave(r, phase),
             UNCHANGED <<now, live, expiresAt, epoch, sweep>>,
             \/ UNCHANGED checkpoints
             \/ turn[r].phase = "reply" /\ Write(s, exchange)
      PROVE  IInv'
    <2>. HIDE DEF exchange
    <2>1. /\ turn'[r].phase = phase
          /\ turn'[r].session = turn[r].session /\ turn'[r].begun = turn[r].begun
          /\ turn'[r].found = turn[r].found /\ turn'[r].epoch = turn[r].epoch
          /\ \A q \in Turns \ {r} : turn'[q] = turn[q]
        BY <1>a, <1>e DEF Leave, TurnState
    <2>2. phase \notin {"idle"} \union Refreshing /\ phase \notin Invoking
        BY DEF Ended, Refreshing, Invoking
    <2>3. turn[r].phase = "reply" => turn[r].phase \in Invoking
        BY DEF Invoking
    <2>4. \/ UNCHANGED checkpoints
          \/ /\ turn[r].phase \in Invoking
             /\ checkpoints' = [checkpoints EXCEPT ![s] = exchange]
        BY <1>e, <2>3 DEF Write
    <2>. QED BY <1>d, <1>e, <2>1, <2>2, <2>4, PastRefreshInv
<1>f. ASSUME NEW phase \in Invoking, turn[r].phase \in Invoking,
             /\ turn'[r].phase = phase
             /\ turn'[r].session = turn[r].session /\ turn'[r].begun = turn[r].begun
             /\ turn'[r].found = turn[r].found /\ turn'[r].epoch = turn[r].epoch
             /\ turn'[r].base \in {turn[r].base, checkpoints[s]}
             /\ \A q \in Turns \ {r} : turn'[q] = turn[q],
             UNCHANGED <<now, live, expiresAt, epoch, sweep>>,
             UNCHANGED checkpoints \/ Write(s, asked)
      PROVE  IInv'
    <2>. HIDE DEF asked
    <2>1. InFlight(r) /\ turn'[r].phase \notin {"idle"} \union Refreshing
        BY <1>f DEF InFlight, Active, Invoking, Refreshing
    <2>2. \/ UNCHANGED checkpoints
          \/ checkpoints' = [checkpoints EXCEPT ![s] = asked]
        BY <1>f DEF Write
    <2>. QED BY <1>c, <1>f, <2>1, <2>2, PastRefreshInv
<1>1. CASE LoadCheckpoint(r)
    <2>1. turn[r].phase \in Invoking /\ "input" \in Invoking
        BY <1>1 DEF LoadCheckpoint, Invoking
    <2>2. /\ turn'[r].phase = "input" /\ turn'[r].base = checkpoints[s]
          /\ turn'[r].session = turn[r].session /\ turn'[r].begun = turn[r].begun
          /\ turn'[r].found = turn[r].found /\ turn'[r].epoch = turn[r].epoch
          /\ \A q \in Turns \ {r} : turn'[q] = turn[q]
        BY <1>a, <1>1 DEF LoadCheckpoint, TurnState
    <2>. QED BY <1>f, <1>1, <2>1, <2>2 DEF LoadCheckpoint
<1>g. ASSUME NEW phase \in Phase, Advance(r, phase)
      PROVE  /\ turn'[r].phase = phase /\ turn'[r].base = turn[r].base
             /\ turn'[r].session = turn[r].session /\ turn'[r].begun = turn[r].begun
             /\ turn'[r].found = turn[r].found /\ turn'[r].epoch = turn[r].epoch
             /\ \A q \in Turns \ {r} : turn'[q] = turn[q]
    BY <1>a, <1>g DEF Advance, TurnState
<1>2. CASE WriteInput(r)
    <2>1. turn[r].phase \in Invoking /\ "generate" \in Invoking
        BY <1>2 DEF WriteInput, Invoking
    <2>2. Advance(r, "generate") /\ Write(s, asked)
        BY <1>2 DEF WriteInput
    <2>. QED BY <1>f, <1>g, <1>2, <2>1, <2>2, PhaseMembers DEF WriteInput
<1>3. CASE Generate(r)
    <2>1. turn[r].phase \in Invoking /\ "reply" \in Invoking /\ InFlight(r) /\ "failed" \in Ended
        BY <1>3 DEF Generate, Invoking, InFlight, Active, Ended
    <2>2. CASE Advance(r, "reply")
        BY <1>f, <1>g, <1>3, <2>1, <2>2, PhaseMembers DEF Generate
    <2>3. CASE Leave(r, "failed")
        BY <1>e, <1>3, <2>1, <2>3 DEF Generate
    <2>. QED BY <1>3, <2>2, <2>3 DEF Generate
<1>4. CASE WriteReply(r)
    <2>1. InFlight(r) /\ "remembered" \in Ended
        BY <1>4 DEF WriteReply, Invoking, InFlight, Active, Ended
    <2>. QED BY <1>e, <1>4, <2>1 DEF WriteReply
<1>5. CASE FallBack(r)
    <2>1. InFlight(r)
        BY <1>5 DEF FallBack, InFlight, Active
    <2>. QED BY <1>e, <1>5, <2>1 DEF FallBack
<1>6. CASE TurnLost(r)
    <2>1. "failed" \in Ended
        BY DEF Ended
    <2>. QED BY <1>e, <1>6, <2>1 DEF TurnLost
<1>7. CASE AnswerStateless(r)
    <2>1. PICK phase \in {"fallback", "failed"} : Advance(r, phase)
        BY <1>7 DEF AnswerStateless
    <2>2. /\ InFlight(r) /\ phase \in Phase
          /\ phase \notin {"idle"} \union Refreshing /\ phase \notin Invoking
        BY <1>7, PhaseMembers DEF AnswerStateless, InFlight, Active, Refreshing, Invoking
    <2>3. UNCHANGED <<now, live, expiresAt, epoch, sweep>> /\ UNCHANGED checkpoints
        BY <1>7 DEF AnswerStateless
    <2>. QED BY <1>g, <2>1, <2>2, <2>3, PastRefreshInv
<1>. QED
    BY <1>1, <1>2, <1>3, <1>4, <1>5, <1>6, <1>7,
       RefreshSelectInv, RefreshClearInv, RefreshCommitInv DEF TurnStep

(* Every step of a system with short turns preserves the invariant.        *)
LEMMA NextInv == IInv /\ ShortTurns /\ [Next]_vars => IInv'
<1>. SUFFICES ASSUME IInv, ShortTurns, [Next]_vars PROVE IInv'
    OBVIOUS
<1>1. TypeOK'
    BY NextTypeOK DEF IInv
<1>2. CASE UNCHANGED vars
    <2>1. UNCHANGED <<now, live, expiresAt, checkpoints, epoch, turn, sweep>>
        BY <1>2 DEF vars
    <2>2. ThreadsAreCurrent' /\ ContextsAreCurrent' /\ NothingLoadedYet'
        BY <1>1, <2>1, HistoryKept
    <2>3. TurnsAreRecent' /\ InvokingSessionsLive' /\ RefreshKnows'
        BY <2>1 DEF IInv, TurnsAreRecent, InFlight, InvokingSessionsLive,
                    RefreshKnows, Knows, Lapsed
    <2>4. SweepKnows' /\ TodoInBatch' /\ RowHeldOnce' /\ NoOrphanedThread'
        BY <2>1 DEF IInv, SweepKnows, TodoInBatch, RowHeldOnce, HeldByTurn, HeldBySweep,
                    NoOrphanedThread
    <2>. QED BY <1>1, <2>2, <2>3, <2>4 DEF IInv
<1>. QED BY <1>1, <1>2, ChatInv, TurnInv, SweepInv, TickInv DEF Next

(* The inductive invariant.                                                *)
THEOREM InvariantHolds == ASSUME ShortTurns PROVE Spec => []IInv
<1>1. IInv /\ [Next]_vars => IInv'
    BY NextInv
<1>. QED BY <1>1, InitInv, PTL DEF Spec

(* The invariant is stronger than NoStaleContext.                          *)
LEMMA InvNoStaleContext == IInv => NoStaleContext
<1>. SUFFICES ASSUME IInv, NEW r \in Turns, turn[r].phase \in Invoking,
                     NEW i \in DOMAIN turn[r].base
              PROVE  /\ turn[turn[r].base[i].turn].session = turn[r].session
                     /\ turn[turn[r].base[i].turn].epoch = turn[r].epoch
    BY DEF NoStaleContext, SaidIn
<1>. QED BY DEF IInv, ContextsAreCurrent, Joined

(* If turns are short, a turn is never answered from a conversation that   *)
(* had expired before it: what the graph loads was all said since the      *)
(* deadline had last passed.                                               *)
THEOREM ContextIsNeverStale == ASSUME ShortTurns PROVE Spec => []NoStaleContext
BY InvariantHolds, InvNoStaleContext, PTL

(* If turns are short, no thread is ever left without the agent_sessions   *)
(* row by which the sweep would find it.                                   *)
THEOREM ThreadsAreNeverOrphaned == ASSUME ShortTurns PROVE Spec => []NoOrphanedThread
<1>1. IInv => NoOrphanedThread
    BY DEF IInv
<1>. QED BY <1>1, InvariantHolds, PTL

(* Whatever a turn writes is not the empty thread.                         *)
LEMMA WritesAreNotErasures ==
    ASSUME NEW seq \in Seq(Message), NEW r \in Turns
    PROVE  /\ Append(seq, UserMessage(r)) # <<>>
           /\ seq \o <<UserMessage(r), Reply(r)>> # <<>>
<1>1. Len(Append(seq, UserMessage(r))) = Len(seq) + 1
    OBVIOUS
<1>2. Len(seq \o <<UserMessage(r), Reply(r)>>) = Len(seq) + 2
    OBVIOUS
<1>3. Len(seq) \in Nat /\ Len(<<>>) = 0
    OBVIOUS
<1>. QED BY <1>1, <1>2, <1>3

(* If turns are short, a refresh or a sweep erases a thread only after its *)
(* deadline, and never under a turn that is working on it.                 *)
LEMMA ErasureIsIdle ==
    ASSUME IInv, ShortTurns, [Next]_vars, NEW s \in Sessions,
           checkpoints[s] # <<>>, checkpoints'[s] = <<>>
    PROVE  /\ expiresAt[s] <= now
           /\ \A r \in Turns : turn[r].phase \in Invoking => turn[r].session # s
<1>0. TypeOK /\ checkpoints \in [Sessions -> Seq(Message)]
    BY DEF IInv, TypeOK
<1>1. ASSUME NEW r \in Turns, RefreshClear(r), turn[r].session = s
      PROVE  expiresAt[s] <= now
    <2>1. turn[r].phase = "clear"
        BY <1>1 DEF RefreshClear
    <2>2. expiresAt[s] <= turn[r].begun /\ turn[r].begun <= now
        BY <1>1, <2>1 DEF IInv, RefreshKnows, Knows, Lapsed,
                          TurnsAreRecent, InFlight, Active, Refreshing
    <2>3. expiresAt[s] \in Nat /\ turn[r].begun \in Nat /\ now \in Nat
        BY <1>0, TurnFacts DEF TypeOK
    <2>. QED BY <2>2, <2>3
<1>2. ASSUME NEW c \in Cleaners, SweepClear(c), s \in sweep[c].todo
      PROVE  expiresAt[s] <= now
    BY <1>2 DEF IInv, TodoInBatch, SweepKnows
<1>3. \/ \E r \in Turns : RefreshClear(r) /\ turn[r].session = s
      \/ \E c \in Cleaners : SweepClear(c) /\ s \in sweep[c].todo
    <2>1. ASSUME NEW r \in Turns, Next, TurnStep(r) \/ FallBack(r)
          PROVE  RefreshClear(r) /\ turn[r].session = s
        <3>1. turn[r].base \in Seq(Message)
            BY <1>0, TurnFacts
        <3>2. /\ ~Write(turn[r].session, Append(turn[r].base, UserMessage(r)))
              /\ ~Write(turn[r].session, turn[r].base \o <<UserMessage(r), Reply(r)>>)
            BY <1>0, <3>1, WritesAreNotErasures DEF Write
        <3>3. RefreshClear(r)
            BY <2>1, <3>2 DEF TurnStep, FallBack, RefreshSelect, RefreshCommit,
                LoadCheckpoint, WriteInput, Generate, WriteReply, AnswerStateless
        <3>. QED BY <1>0, <3>3 DEF RefreshClear, Erase, Write
    <2>2. ASSUME NEW c \in Cleaners, SweepStep(c) \/ SweepFail(c)
          PROVE  SweepClear(c) /\ s \in sweep[c].todo
        <3>1. SweepClear(c)
            BY <2>2 DEF SweepStep, SweepFail, SweepSelect, SweepCommit
        <3>. QED BY <1>0, <3>1 DEF SweepClear, Erase, Write
    <2>3. ~Tick /\ ~UNCHANGED vars /\ Next
        BY DEF Tick, vars
    <2>4. \A r \in Turns : ~TurnLost(r) /\ \A z \in Sessions : ~Chat(r, z)
        BY DEF TurnLost, Chat
    <2>. QED BY <2>1, <2>2, <2>3, <2>4 DEF Next
<1>4. expiresAt[s] <= now
    BY <1>1, <1>2, <1>3
<1>5. ASSUME NEW r \in Turns, turn[r].phase \in Invoking, turn[r].session = s
      PROVE  FALSE
    <2>1. now < expiresAt[s]
        BY <1>5, InvokingProtects
    <2>2. now \in Nat /\ expiresAt[s] \in Nat
        BY <1>0 DEF TypeOK
    <2>. QED BY <1>4, <2>1, <2>2
<1>. QED BY <1>4, <1>5

(* If turns are short, only idle threads whose deadline has passed are     *)
(* ever erased.                                                            *)
THEOREM ErasuresAreIdle == ASSUME ShortTurns PROVE Spec => OnlyIdleThreadsErased
<1>. DEFINE Idle == \A s \in Sessions :
        checkpoints[s] # <<>> /\ checkpoints'[s] = <<>> =>
            /\ expiresAt[s] <= now
            /\ \A r \in Turns : turn[r].phase \in Invoking => turn[r].session # s
<1>1. IInv /\ [Next]_vars => [Idle]_vars
    BY ErasureIsIdle
<1>2. Spec => [][Idle]_vars
    <2>. HIDE DEF Idle
    <2>. QED BY <1>1, InvariantHolds, PTL DEF Spec
<1>. QED BY <1>2 DEF OnlyIdleThreadsErased

(* Whatever the lengths of turns, a row is locked by one transaction at a  *)
(* time.                                                                   *)
LEMMA LocksInv == TypeOK /\ RowHeldOnce /\ [Next]_vars => RowHeldOnce'
<1>. SUFFICES ASSUME TypeOK, RowHeldOnce, [Next]_vars PROVE RowHeldOnce'
    OBVIOUS
<1>0. turn \in [Turns -> TurnState] /\ sweep \in [Cleaners -> SweepState]
    BY DEF TypeOK
<1>a. ASSUME \A q \in Turns, z \in Sessions : HeldByTurn(q, z)' => HeldByTurn(q, z),
             \A c \in Cleaners, z \in Sessions : HeldBySweep(c, z)' => HeldBySweep(c, z)
      PROVE  RowHeldOnce'
    BY <1>a DEF RowHeldOnce
<1>b. ASSUME sweep' = sweep, NEW c \in Cleaners, NEW z \in Sessions
      PROVE  HeldBySweep(c, z)' <=> HeldBySweep(c, z)
    BY <1>b DEF HeldBySweep
<1>c. ASSUME turn' = turn, NEW q \in Turns, NEW z \in Sessions
      PROVE  HeldByTurn(q, z)' <=> HeldByTurn(q, z)
    BY <1>c DEF HeldByTurn
<1>d. ASSUME NEW r \in Turns, sweep' = sweep,
             \A q \in Turns \ {r} : turn'[q] = turn[q],
             turn'[r].phase \in {"clear", "upsert"} =>
                /\ turn[r].phase \in {"clear", "upsert"}
                /\ turn'[r].session = turn[r].session /\ turn'[r].found = turn[r].found
      PROVE  RowHeldOnce'
    <2>1. \A q \in Turns, z \in Sessions : HeldByTurn(q, z)' => HeldByTurn(q, z)
        BY <1>d DEF HeldByTurn
    <2>. QED BY <1>a, <1>b, <1>d, <2>1
<1>1. CASE Tick \/ UNCHANGED vars
    BY <1>1, <1>a, <1>b, <1>c DEF Tick, vars
<1>2. ASSUME NEW r \in Turns,
             TurnStep(r) \/ FallBack(r) \/ TurnLost(r) \/ \E z \in Sessions : Chat(r, z)
      PROVE  RowHeldOnce'
    <2>1. CASE RefreshSelect(r)
        <3>. DEFINE phase == IF turn[r].session \in live
                                    /\ expiresAt[turn[r].session] <= turn[r].begun
                             THEN "clear" ELSE "upsert"
                    found == turn[r].session \in live
        <3>1. /\ turn' = [turn EXCEPT ![r].phase = phase, ![r].found = found]
              /\ sweep' = sweep /\ ~Locked(turn[r].session)
            BY <2>1 DEF RefreshSelect
        <3>2. /\ turn'[r].session = turn[r].session
              /\ \A q \in Turns \ {r} : turn'[q] = turn[q]
            <4>. HIDE DEF phase, found
            <4>. QED BY <1>0, <3>1 DEF TurnState
        <3>3. \A q \in Turns, z \in Sessions :
                HeldByTurn(q, z)' => HeldByTurn(q, z) \/ (q = r /\ ~Locked(z))
            BY <3>1, <3>2 DEF HeldByTurn
        <3>. QED BY <1>b, <3>1, <3>3 DEF RowHeldOnce, Locked
    <2>2. CASE RefreshClear(r)
        <3>1. turn' = [turn EXCEPT ![r].phase = "upsert"] /\ turn[r].phase = "clear"
            BY <2>2 DEF RefreshClear, Advance
        <3>. QED BY <1>0, <1>d, <2>2, <3>1 DEF RefreshClear, TurnState
    <2>3. CASE RefreshCommit(r)
        <3>1. turn' = [turn EXCEPT ![r].phase = "load",
                                   ![r].epoch = epoch'[turn[r].session]]
            BY <2>3 DEF RefreshCommit
        <3>. QED BY <1>0, <1>d, <2>3, <3>1 DEF RefreshCommit, TurnState
    <2>4. CASE LoadCheckpoint(r)
        BY <1>0, <1>d, <2>4 DEF LoadCheckpoint, TurnState
    <2>5. ASSUME sweep' = sweep,
                 NEW phase \in {"generate", "reply"} \union Ended \union {"stateless"},
                 Advance(r, phase) \/ Leave(r, phase)
          PROVE  RowHeldOnce'
        <3>1. turn'[r].phase = phase /\ \A q \in Turns \ {r} : turn'[q] = turn[q]
            BY <1>0, <2>5 DEF Advance, Leave, TurnState
        <3>2. phase \notin {"clear", "upsert"}
            BY DEF Ended
        <3>. QED BY <1>d, <2>5, <3>1, <3>2
    <2>6. CASE WriteInput(r) \/ Generate(r) \/ WriteReply(r) \/ AnswerStateless(r)
                \/ FallBack(r) \/ TurnLost(r)
        BY <2>5, <2>6 DEF WriteInput, Generate, WriteReply, AnswerStateless, FallBack,
                          TurnLost, Ended
    <2>7. ASSUME NEW z \in Sessions, Chat(r, z) PROVE RowHeldOnce'
        <3>1. /\ turn'[r].phase = "refresh" /\ \A q \in Turns \ {r} : turn'[q] = turn[q]
              /\ sweep' = sweep
            BY <1>0, <2>7 DEF Chat, TurnState
        <3>. QED BY <1>d, <3>1
    <2>. QED BY <1>2, <2>1, <2>2, <2>3, <2>4, <2>6, <2>7 DEF TurnStep
<1>3. ASSUME NEW c \in Cleaners, SweepStep(c) \/ SweepFail(c) PROVE RowHeldOnce'
    <2>0. turn' = turn
        BY <1>3 DEF SweepStep, SweepSelect, SweepClear, SweepCommit, SweepFail
    <2>1. CASE SweepSelect(c)
        <3>1. PICK batch \in SUBSET {z \in Expired : ~Locked(z)} :
                sweep' = [sweep EXCEPT ![c] = [batch |-> batch, todo |-> batch]]
            BY <2>1 DEF SweepSelect
        <3>2. \A d \in Cleaners, z \in Sessions :
                HeldBySweep(d, z)' => HeldBySweep(d, z) \/ (d = c /\ ~Locked(z))
            BY <1>0, <3>1 DEF HeldBySweep
        <3>. QED BY <1>c, <2>0, <3>2 DEF RowHeldOnce, Locked
    <2>2. CASE SweepClear(c) \/ SweepCommit(c) \/ SweepFail(c)
        <3>1. \A d \in Cleaners : sweep'[d].batch \subseteq sweep[d].batch
            <4>1. CASE SweepClear(c)
                BY <1>0, <4>1 DEF SweepClear, SweepState
            <4>2. CASE SweepCommit(c)
                BY <1>0, <4>2 DEF SweepCommit, SweepState
            <4>3. CASE SweepFail(c)
                BY <1>0, <4>3 DEF SweepFail, SweepState
            <4>. QED BY <2>2, <4>1, <4>2, <4>3
        <3>. QED BY <1>a, <1>c, <2>0, <3>1 DEF HeldBySweep
    <2>. QED BY <1>3, <2>1, <2>2 DEF SweepStep
<1>. QED BY <1>1, <1>2, <1>3 DEF Next

(* Two transactions never hold the same row, under any timing.             *)
THEOREM RowsHeldOnce == Spec => []RowHeldOnce
<1>1. Init => RowHeldOnce
    BY DEF Init, RowHeldOnce, HeldByTurn, HeldBySweep
<1>. QED BY <1>1, LocksInv, TypeCorrect, PTL DEF Spec

-------------------------------------------------------------------------------
(* Replies follow their questions, under any timing                          *)

(* Turn q may have its question, or its reply, in some history: it has     *)
(* written the one or has at least tried to write the other.  Neither      *)
(* changes back, for a turn's phases only advance.                         *)
Asked(turns, q) == turns[q].phase \notin {"idle", "load", "input"} \union Refreshing
Answered(turns, q) == Asked(turns, q) /\ turns[q].phase \notin {"generate", "reply"}

(* What RepliesFollowQuestions says of one list of messages, ...           *)
Orderly(messages) ==
    /\ \A i \in DOMAIN messages :
        messages[i].role = "assistant" =>
            i > 1 /\ messages[i - 1] = UserMessage(messages[i].turn)
    /\ \A i, j \in DOMAIN messages : messages[i] = messages[j] => i = j

(* ... and that it holds nothing its turns have not written yet.           *)
Written(turns, messages) ==
    \A i \in DOMAIN messages :
        /\ Asked(turns, messages[i].turn)
        /\ messages[i].role = "assistant" => Answered(turns, messages[i].turn)

(* A thread is one such history, and so is what a turn has loaded, in      *)
(* which the turn itself has said nothing.                                 *)
Sound(turns, messages) == Orderly(messages) /\ Written(turns, messages)

HistoriesInv ==
    /\ \A s \in Sessions : Sound(turn, checkpoints[s])
    /\ \A r \in Turns :
        /\ Sound(turn, turn[r].base)
        /\ \A i \in DOMAIN turn[r].base : turn[r].base[i].turn # r

(* Nothing is out of order in a history without messages.                  *)
LEMMA EmptyIsSound == ASSUME NEW turns PROVE Sound(turns, <<>>)
BY DEF Sound, Orderly, Written

(* A turn that puts its question after a history it has no part in, ...    *)
LEMMA QuestionIsOrderly ==
    ASSUME NEW messages \in Seq(Message), Orderly(messages), NEW r \in Turns,
           \A i \in DOMAIN messages : messages[i].turn # r
    PROVE  Orderly(Append(messages, UserMessage(r)))
<1>. DEFINE n == Len(messages)
            asked == Append(messages, UserMessage(r))
<1>1. /\ n \in Nat /\ DOMAIN messages = 1..n /\ DOMAIN asked = 1..(n + 1)
      /\ \A i \in 1..n : asked[i] = messages[i]
      /\ asked[n + 1] = UserMessage(r)
    OBVIOUS
<1>2. /\ UserMessage(r).turn = r /\ UserMessage(r).role = "user"
    BY DEF UserMessage
<1>. HIDE DEF n, asked
<1>3. ASSUME NEW i \in 1..(n + 1), asked[i].role = "assistant"
      PROVE  i > 1 /\ asked[i - 1] = UserMessage(asked[i].turn)
    <2>1. i \in 1..n
        BY <1>1, <1>2, <1>3
    <2>2. i > 1 /\ messages[i - 1] = UserMessage(messages[i].turn)
        BY <1>1, <1>3, <2>1 DEF Orderly
    <2>3. i - 1 \in 1..n
        BY <1>1, <2>1, <2>2
    <2>. QED BY <1>1, <2>1, <2>2, <2>3
<1>4. ASSUME NEW i \in 1..(n + 1), NEW j \in 1..(n + 1), asked[i] = asked[j]
      PROVE  i = j
    <2>1. CASE i \in 1..n /\ j \in 1..n
        BY <1>1, <1>4, <2>1 DEF Orderly
    <2>2. CASE i = n + 1 /\ j \in 1..n
        BY <1>1, <1>2, <1>4, <2>2
    <2>3. CASE i \in 1..n /\ j = n + 1
        BY <1>1, <1>2, <1>4, <2>3
    <2>4. CASE i = n + 1 /\ j = n + 1
        BY <2>4
    <2>. QED BY <1>1, <2>1, <2>2, <2>3, <2>4
<1>5. Orderly(asked)
    BY <1>1, <1>3, <1>4 DEF Orderly
<1>. QED BY <1>5 DEF asked

(* ... and its reply after the question, leaves it in order.               *)
LEMMA ExchangeIsOrderly ==
    ASSUME NEW messages \in Seq(Message), Orderly(messages), NEW r \in Turns,
           \A i \in DOMAIN messages : messages[i].turn # r
    PROVE  Orderly(messages \o <<UserMessage(r), Reply(r)>>)
<1>. DEFINE n == Len(messages)
            asked == Append(messages, UserMessage(r))
            told == messages \o <<UserMessage(r), Reply(r)>>
<1>1. /\ n \in Nat /\ DOMAIN messages = 1..n
      /\ DOMAIN asked = 1..(n + 1) /\ DOMAIN told = 1..(n + 2)
      /\ \A i \in 1..n : asked[i] = messages[i] /\ told[i] = messages[i]
      /\ asked[n + 1] = UserMessage(r) /\ told[n + 1] = UserMessage(r)
      /\ told[n + 2] = Reply(r)
    OBVIOUS
<1>2. /\ UserMessage(r).role = "user" /\ UserMessage(r).turn = r
      /\ Reply(r).role = "assistant" /\ Reply(r).turn = r
    BY DEF UserMessage, Reply
<1>3. Orderly(asked)
    BY QuestionIsOrderly
<1>. HIDE DEF n, asked, told
<1>4. \A i \in 1..(n + 1) : told[i] = asked[i]
    BY <1>1
<1>5. \A i \in 1..(n + 1) : told[i] # told[n + 2]
    BY <1>1, <1>2
<1>6. ASSUME NEW i \in 1..(n + 2), told[i].role = "assistant"
      PROVE  i > 1 /\ told[i - 1] = UserMessage(told[i].turn)
    <2>1. CASE i = n + 2
        BY <1>1, <1>2, <2>1
    <2>2. CASE i \in 1..(n + 1)
        <3>1. i > 1 /\ asked[i - 1] = UserMessage(asked[i].turn)
            BY <1>1, <1>3, <1>4, <1>6, <2>2 DEF Orderly
        <3>2. i - 1 \in 1..(n + 1)
            BY <1>1, <2>2, <3>1
        <3>. QED BY <1>4, <2>2, <3>1, <3>2
    <2>. QED BY <1>1, <2>1, <2>2
<1>7. ASSUME NEW i \in 1..(n + 2), NEW j \in 1..(n + 2), told[i] = told[j]
      PROVE  i = j
    <2>1. CASE i \in 1..(n + 1) /\ j \in 1..(n + 1)
        BY <1>1, <1>3, <1>4, <1>7, <2>1 DEF Orderly
    <2>. QED BY <1>1, <1>5, <1>7, <2>1
<1>8. Orderly(told)
    BY <1>1, <1>6, <1>7 DEF Orderly
<1>. QED BY <1>8 DEF told

(* What was written stays written: a step in which no phase goes back.     *)
LEMMA SoundForward ==
    ASSUME NEW turns, NEW later, NEW messages \in Seq(Message), Sound(turns, messages),
           \A q \in Turns :
                /\ Asked(turns, q) => Asked(later, q)
                /\ Answered(turns, q) => Answered(later, q)
    PROVE  Sound(later, messages)
<1>1. \A i \in DOMAIN messages : messages[i].turn \in Turns
    BY MessageTurns
<1>. QED BY <1>1 DEF Sound, Written

(* A step of turn r, or of a cleaner, in which no phase goes back, every   *)
(* thread is left alone or gets a sound history, and turn r keeps what it  *)
(* loaded, drops it, or loads the thread before it has said anything.      *)
LEMMA HistoriesForward ==
    ASSUME TypeOK, HistoriesInv, TypeOK',
           \A q \in Turns :
                /\ Asked(turn, q) => Asked(turn', q)
                /\ Answered(turn, q) => Answered(turn', q)
                /\ \/ turn'[q].base = turn[q].base
                   \/ turn'[q].base = <<>>
                   \/ ~Asked(turn, q) /\ \E s \in Sessions : turn'[q].base = checkpoints[s],
           \A s \in Sessions :
                checkpoints'[s] # checkpoints[s] => Sound(turn', checkpoints'[s])
    PROVE  HistoriesInv'
<1>0. \A s \in Sessions : checkpoints[s] \in Seq(Message)
    BY DEF TypeOK
<1>1. ASSUME NEW s \in Sessions PROVE Sound(turn', checkpoints[s])
    BY <1>0, SoundForward DEF HistoriesInv
<1>2. \A s \in Sessions : Sound(turn', checkpoints'[s])
    BY <1>1
<1>3. ASSUME NEW r \in Turns
      PROVE  /\ Sound(turn', turn'[r].base)
             /\ \A i \in DOMAIN turn'[r].base : turn'[r].base[i].turn # r
    <2>1. CASE turn'[r].base = turn[r].base
        BY <2>1, SoundForward, TurnFacts DEF HistoriesInv
    <2>2. CASE turn'[r].base = <<>>
        BY <2>2, EmptyIsSound
    <2>3. ASSUME ~Asked(turn, r), NEW s \in Sessions, turn'[r].base = checkpoints[s]
          PROVE  \A i \in DOMAIN turn'[r].base : turn'[r].base[i].turn # r
        BY <2>3 DEF HistoriesInv, Sound, Written
    <2>. QED BY <1>1, <2>1, <2>2, <2>3
<1>. QED BY <1>2, <1>3 DEF HistoriesInv

(* What turn r writes: its question, or its question and its reply, after  *)
(* what it loaded.                                                         *)
LEMMA WhatIsWrittenIsSound ==
    ASSUME TypeOK, HistoriesInv, NEW r \in Turns, NEW later,
           \A q \in Turns :
                /\ Asked(turn, q) => Asked(later, q)
                /\ Answered(turn, q) => Answered(later, q)
    PROVE  /\ Asked(later, r) => Sound(later, Append(turn[r].base, UserMessage(r)))
           /\ Answered(later, r) =>
                Sound(later, turn[r].base \o <<UserMessage(r), Reply(r)>>)
<1>. DEFINE base == turn[r].base
            n == Len(base)
            asked == Append(base, UserMessage(r))
            told == base \o <<UserMessage(r), Reply(r)>>
<1>0. base \in Seq(Message)
    BY TurnFacts
<1>1. Sound(later, base) /\ \A i \in DOMAIN base : base[i].turn # r
    BY <1>0, SoundForward DEF HistoriesInv
<1>2. Orderly(asked) /\ Orderly(told)
    BY <1>0, <1>1, QuestionIsOrderly, ExchangeIsOrderly DEF Sound
<1>3. /\ n \in Nat /\ DOMAIN base = 1..n
      /\ DOMAIN asked = 1..(n + 1) /\ DOMAIN told = 1..(n + 2)
      /\ \A i \in 1..n : asked[i] = base[i] /\ told[i] = base[i]
      /\ asked[n + 1] = UserMessage(r) /\ told[n + 1] = UserMessage(r)
      /\ told[n + 2] = Reply(r)
    BY <1>0
<1>4. /\ UserMessage(r).role = "user" /\ UserMessage(r).turn = r
      /\ Reply(r).turn = r
    BY DEF UserMessage, Reply
<1>. HIDE DEF base, n, asked, told
<1>5. \A i \in 1..n : /\ Asked(later, base[i].turn)
                      /\ base[i].role = "assistant" => Answered(later, base[i].turn)
    BY <1>1, <1>3 DEF Sound, Written
<1>6. ASSUME Asked(later, r) PROVE Written(later, asked)
    <2>1. \A i \in 1..(n + 1) : i \in 1..n \/ i = n + 1
        BY <1>3
    <2>. QED BY <1>3, <1>4, <1>5, <1>6, <2>1 DEF Written
<1>7. ASSUME Answered(later, r) PROVE Written(later, told)
    <2>1. \A i \in 1..(n + 2) : i \in 1..n \/ i = n + 1 \/ i = n + 2
        BY <1>3
    <2>2. Asked(later, r)
        BY <1>7 DEF Answered
    <2>. QED BY <1>3, <1>4, <1>5, <1>7, <2>1, <2>2 DEF Written
<1>8. /\ Asked(later, r) => Sound(later, asked)
      /\ Answered(later, r) => Sound(later, told)
    BY <1>2, <1>6, <1>7 DEF Sound
<1>. QED BY <1>8 DEF base, asked, told

(* Every step of every turn and cleaner leaves every history in order,     *)
(* whatever the lengths of turns and whichever threads were erased.        *)
LEMMA NextHistories == TypeOK /\ HistoriesInv /\ [Next]_vars => HistoriesInv'
<1>. SUFFICES ASSUME TypeOK, HistoriesInv, [Next]_vars PROVE HistoriesInv'
    OBVIOUS
<1>0. /\ TypeOK' /\ turn \in [Turns -> TurnState]
      /\ checkpoints \in [Sessions -> Seq(Message)]
    BY NextTypeOK DEF TypeOK
<1>1. ASSUME turn' = turn,
             checkpoints' = checkpoints
                \/ \E s \in Sessions : checkpoints' = [checkpoints EXCEPT ![s] = <<>>]
      PROVE  HistoriesInv'
    <2>1. \A s \in Sessions : checkpoints'[s] # checkpoints[s] => checkpoints'[s] = <<>>
        BY <1>0, <1>1
    <2>. QED BY <1>0, <1>1, <2>1, EmptyIsSound, HistoriesForward
<1>2. CASE Tick \/ UNCHANGED vars
    BY <1>1, <1>2 DEF Tick, vars
<1>3. ASSUME NEW c \in Cleaners, SweepStep(c) \/ SweepFail(c) PROVE HistoriesInv'
    <2>1. CASE SweepClear(c)
        <3>1. turn' = turn /\ \E s \in sweep[c].todo : Erase(s)
            BY <2>1 DEF SweepClear
        <3>2. sweep[c].todo \subseteq Sessions
            BY DEF TypeOK, SweepState
        <3>. QED BY <1>1, <3>1, <3>2 DEF Erase, Write
    <2>2. CASE SweepSelect(c) \/ SweepCommit(c) \/ SweepFail(c)
        BY <1>1, <2>2 DEF SweepSelect, SweepCommit, SweepFail
    <2>. QED BY <1>3, <2>1, <2>2 DEF SweepStep
<1>4. ASSUME NEW r \in Turns,
             TurnStep(r) \/ FallBack(r) \/ TurnLost(r) \/ \E s \in Sessions : Chat(r, s)
      PROVE  HistoriesInv'
    <2>. DEFINE s == turn[r].session
                asked == Append(turn[r].base, UserMessage(r))
                told == turn[r].base \o <<UserMessage(r), Reply(r)>>
                onward == /\ \A q \in Turns \ {r} : turn'[q] = turn[q]
                          /\ Asked(turn, r) => Asked(turn', r)
                          /\ Answered(turn, r) => Answered(turn', r)
    <2>0. s \in Sessions
        BY TurnFacts
    <2>a. ASSUME onward PROVE \A q \in Turns : /\ Asked(turn, q) => Asked(turn', q)
                                               /\ Answered(turn, q) => Answered(turn', q)
        BY <2>a DEF Asked, Answered
    <2>b. ASSUME onward, turn'[r].base \in {turn[r].base, <<>>},
                 \/ checkpoints' = checkpoints
                 \/ Erase(s)
                 \/ Write(s, asked) /\ Asked(turn', r)
                 \/ Write(s, told) /\ Answered(turn', r)
          PROVE  HistoriesInv'
        <3>1. ASSUME NEW z \in Sessions, checkpoints'[z] # checkpoints[z]
              PROVE  Sound(turn', checkpoints'[z])
            <4>1. \/ checkpoints'[z] = <<>>
                  \/ checkpoints'[z] = asked /\ Asked(turn', r)
                  \/ checkpoints'[z] = told /\ Answered(turn', r)
                <5>. HIDE DEF asked, told
                <5>. QED BY <1>0, <2>0, <2>b, <3>1 DEF Erase, Write
            <4>2. /\ Asked(turn', r) => Sound(turn', asked)
                  /\ Answered(turn', r) => Sound(turn', told)
                BY <2>a, <2>b, WhatIsWrittenIsSound
            <4>. QED BY <4>1, <4>2, EmptyIsSound
        <3>2. \A q \in Turns : turn'[q].base \in {turn[q].base, <<>>}
            BY <2>b
        <3>. QED BY <1>0, <2>a, <2>b, <3>1, <3>2, HistoriesForward
    <2>. HIDE DEF onward, asked, told
    <2>c. ASSUME NEW phase \in Phase, Advance(r, phase) \/ Leave(r, phase)
          PROVE  /\ turn'[r].phase = phase /\ turn'[r].base \in {turn[r].base, <<>>}
                 /\ \A q \in Turns \ {r} : turn'[q] = turn[q]
        BY <1>0, <2>c DEF Advance, Leave, TurnState
    <2>d. ASSUME NEW phase \in {"stateless"} \union Ended, Advance(r, phase) \/ Leave(r, phase)
          PROVE  onward /\ turn'[r].base \in {turn[r].base, <<>>} /\ Answered(turn', r)
        <3>1. phase \in Phase /\ phase \notin {"idle", "load", "input", "generate", "reply"}
                \union Refreshing
            BY <2>d DEF Phase, Active, Ended, Refreshing
        <3>. QED BY <2>c, <2>d, <3>1 DEF onward, Asked, Answered
    <2>1. ASSUME NEW z \in Sessions, Chat(r, z) PROVE HistoriesInv'
        <3>1. /\ turn[r].phase = "idle" /\ turn'[r].base = turn[r].base
              /\ \A q \in Turns \ {r} : turn'[q] = turn[q]
              /\ checkpoints' = checkpoints
            BY <1>0, <2>1 DEF Chat, TurnState
        <3>. QED BY <2>b, <3>1 DEF onward, Asked, Answered
    <2>2. CASE RefreshSelect(r)
        <3>. DEFINE phase == IF s \in live /\ expiresAt[s] <= turn[r].begun
                             THEN "clear" ELSE "upsert"
                    found == s \in live
        <3>1. /\ turn' = [turn EXCEPT ![r].phase = phase, ![r].found = found]
              /\ turn[r].phase = "refresh" /\ checkpoints' = checkpoints
            BY <2>2 DEF RefreshSelect
        <3>. HIDE DEF phase, found
        <3>2. turn'[r].base = turn[r].base /\ \A q \in Turns \ {r} : turn'[q] = turn[q]
            BY <1>0, <3>1 DEF TurnState
        <3>. QED BY <2>b, <3>1, <3>2 DEF onward, Asked, Answered, Refreshing
    <2>3. CASE RefreshClear(r)
        <3>1. turn[r].phase = "clear" /\ Erase(s) /\ Advance(r, "upsert")
            BY <2>3 DEF RefreshClear
        <3>. QED BY <2>b, <2>c, <3>1, PhaseMembers DEF onward, Asked, Answered, Refreshing
    <2>4. CASE RefreshCommit(r)
        <3>1. /\ turn' = [turn EXCEPT ![r].phase = "load", ![r].epoch = epoch'[s]]
              /\ turn[r].phase = "upsert" /\ checkpoints' = checkpoints
            BY <2>4 DEF RefreshCommit
        <3>2. turn'[r].base = turn[r].base /\ \A q \in Turns \ {r} : turn'[q] = turn[q]
            BY <1>0, <3>1 DEF TurnState
        <3>. QED BY <2>b, <3>1, <3>2 DEF onward, Asked, Answered, Refreshing
    <2>5. CASE LoadCheckpoint(r)
        <3>1. /\ turn[r].phase = "load" /\ turn'[r].base = checkpoints[s]
              /\ \A q \in Turns \ {r} : turn'[q] = turn[q]
              /\ checkpoints' = checkpoints
            BY <1>0, <2>5 DEF LoadCheckpoint, TurnState
        <3>2. ~Asked(turn, r) /\ onward
            BY <3>1 DEF onward, Asked, Answered
        <3>. QED BY <1>0, <2>0, <2>a, <3>1, <3>2, HistoriesForward
    <2>6. CASE WriteInput(r)
        <3>1. turn[r].phase = "input" /\ Write(s, asked) /\ Advance(r, "generate")
            BY <2>6 DEF WriteInput, asked
        <3>2. turn'[r].phase = "generate"
            BY <2>c, <3>1, PhaseMembers
        <3>. QED BY <2>b, <2>c, <3>1, <3>2, PhaseMembers DEF onward, Asked, Answered, Refreshing
    <2>7. CASE Generate(r)
        <3>1. turn[r].phase = "generate" /\ checkpoints' = checkpoints
            BY <2>7 DEF Generate
        <3>2. CASE Advance(r, "reply")
            <4>1. turn'[r].phase = "reply"
                BY <2>c, <3>2, PhaseMembers
            <4>. QED BY <2>b, <2>c, <3>1, <3>2, <4>1, PhaseMembers
                     DEF onward, Asked, Answered, Refreshing
        <3>3. CASE Leave(r, "failed")
            BY <2>b, <2>d, <3>1, <3>3 DEF Ended
        <3>. QED BY <2>7, <3>2, <3>3 DEF Generate
    <2>8. CASE WriteReply(r)
        <3>1. Write(s, told) /\ Leave(r, "remembered") /\ "remembered" \in Ended
            BY <2>8 DEF WriteReply, told, Ended
        <3>. QED BY <2>b, <2>d, <3>1
    <2>9. CASE FallBack(r)
        <3>1. /\ Leave(r, "stateless")
              /\ checkpoints' = checkpoints \/ Write(s, told)
            BY <2>9 DEF FallBack, told
        <3>. QED BY <2>b, <2>d, <3>1
    <2>10. CASE AnswerStateless(r) \/ TurnLost(r)
        <3>1. /\ checkpoints' = checkpoints
              /\ \E phase \in Ended : Advance(r, phase) \/ Leave(r, phase)
            BY <2>10 DEF AnswerStateless, TurnLost, Ended
        <3>. QED BY <2>b, <2>d, <3>1
    <2>. QED BY <1>4, <2>1, <2>2, <2>3, <2>4, <2>5, <2>6, <2>7, <2>8, <2>9, <2>10
             DEF TurnStep
<1>. QED BY <1>2, <1>3, <1>4 DEF Next

(* However many turns of one session run at once, on however many          *)
(* instances and for however long, and whichever of them fail: no reply is *)
(* ever stored apart from the question it answers, and no question twice.  *)
THEOREM ThreadsStayOrderly == Spec => []RepliesFollowQuestions
<1>1. Init => HistoriesInv
    BY EmptyIsSound DEF Init, HistoriesInv
<1>2. HistoriesInv => RepliesFollowQuestions
    BY DEF HistoriesInv, Sound, Orderly, RepliesFollowQuestions
<1>. QED BY <1>1, <1>2, NextHistories, TypeCorrect, PTL DEF Spec

-------------------------------------------------------------------------------
(* SessionMemory implements Conversation, for every number of sessions,    *)
(* turns and cleaners and every TTL, when visitors wait for each answer    *)
(* and turns are short.                                                    *)

(* A visitor who waits has at most one turn in flight in a session.        *)
OneTurnAtATime ==
    \A r, q \in Turns :
        InFlight(r) /\ InFlight(q) /\ turn[r].session = turn[q].session => r = q

(* What the graph loaded, with what it wrote, is still the whole thread.   *)
Faithful(r) ==
    LET thread == checkpoints[turn[r].session]
    IN  /\ turn[r].phase = "input" => thread = turn[r].base
        /\ turn[r].phase \in {"generate", "reply"} =>
                thread = Append(turn[r].base, UserMessage(r))

SerialInv == OneTurnAtATime /\ \A r \in Turns : Faithful(r)

(* A step of a turn is about its own session and leaves the other turns.   *)
LEMMA TurnKeepsSession ==
    ASSUME TypeOK, NEW r \in Turns, TurnStep(r) \/ FallBack(r) \/ TurnLost(r)
    PROVE  /\ turn'[r].session = turn[r].session
           /\ \A q \in Turns \ {r} : turn'[q] = turn[q]
<1>0. turn \in [Turns -> TurnState]
    BY DEF TypeOK
<1>1. CASE RefreshSelect(r)
    <2>. DEFINE phase == IF turn[r].session \in live
                                /\ expiresAt[turn[r].session] <= turn[r].begun
                         THEN "clear" ELSE "upsert"
                found == turn[r].session \in live
    <2>1. turn' = [turn EXCEPT ![r].phase = phase, ![r].found = found]
        BY <1>1 DEF RefreshSelect
    <2>. HIDE DEF phase, found
    <2>. QED BY <1>0, <2>1 DEF TurnState
<1>2. CASE RefreshCommit(r)
    <2>1. turn' = [turn EXCEPT ![r].phase = "load",
                               ![r].epoch = epoch'[turn[r].session]]
        BY <1>2 DEF RefreshCommit
    <2>. QED BY <1>0, <2>1 DEF TurnState
<1>3. CASE LoadCheckpoint(r)
    BY <1>0, <1>3 DEF LoadCheckpoint, TurnState
<1>4. ASSUME NEW phase, Advance(r, phase) \/ Leave(r, phase)
      PROVE  /\ turn'[r].session = turn[r].session
             /\ \A q \in Turns \ {r} : turn'[q] = turn[q]
    BY <1>0, <1>4 DEF Advance, Leave, TurnState
<1>5. CASE RefreshClear(r) \/ WriteInput(r) \/ Generate(r) \/ WriteReply(r)
            \/ AnswerStateless(r) \/ FallBack(r) \/ TurnLost(r)
    BY <1>4, <1>5 DEF RefreshClear, WriteInput, Generate, WriteReply, AnswerStateless,
                      FallBack, TurnLost
<1>. QED BY <1>1, <1>2, <1>3, <1>5 DEF TurnStep

(* Steps that end a turn's work on its thread, or precede it.              *)
LEMMA TurnLeavesGraph ==
    ASSUME TypeOK, NEW r \in Turns,
           \/ RefreshSelect(r) \/ RefreshClear(r) \/ RefreshCommit(r) \/ WriteReply(r)
           \/ AnswerStateless(r) \/ FallBack(r) \/ TurnLost(r)
    PROVE  turn'[r].phase \notin {"input", "generate", "reply"}
<1>0. turn \in [Turns -> TurnState]
    BY DEF TypeOK
<1>1. CASE RefreshSelect(r)
    <2>. DEFINE phase == IF turn[r].session \in live
                                /\ expiresAt[turn[r].session] <= turn[r].begun
                         THEN "clear" ELSE "upsert"
                found == turn[r].session \in live
    <2>1. turn' = [turn EXCEPT ![r].phase = phase, ![r].found = found]
          /\ phase \in {"clear", "upsert"}
        BY <1>1 DEF RefreshSelect
    <2>. HIDE DEF phase, found
    <2>. QED BY <1>0, <2>1 DEF TurnState
<1>2. CASE RefreshCommit(r)
    <2>1. turn' = [turn EXCEPT ![r].phase = "load",
                               ![r].epoch = epoch'[turn[r].session]]
        BY <1>2 DEF RefreshCommit
    <2>. QED BY <1>0, <2>1 DEF TurnState
<1>3. ASSUME NEW phase, Advance(r, phase) \/ Leave(r, phase)
      PROVE  turn'[r].phase = phase
    BY <1>0, <1>3 DEF Advance, Leave, TurnState
<1>4. CASE RefreshClear(r) \/ WriteReply(r) \/ AnswerStateless(r) \/ FallBack(r) \/ TurnLost(r)
    BY <1>3, <1>4 DEF RefreshClear, WriteReply, AnswerStateless, FallBack, TurnLost
<1>. QED BY <1>1, <1>2, <1>4

(* Only the turn in flight on a session writes its thread, and nobody      *)
(* erases it meanwhile.                                                    *)
LEMMA SerialWrites ==
    ASSUME IInv, SerialInv, ShortTurns, NEW r \in Turns,
           TurnStep(r) \/ FallBack(r) \/ TurnLost(r),
           NEW q \in Turns \ {r}, turn[q].phase \in Invoking
    PROVE  checkpoints'[turn[q].session] = checkpoints[turn[q].session]
<1>1. /\ checkpoints \in [Sessions -> Seq(Message)]
      /\ turn[q].session \in Sessions /\ turn[r].session \in Sessions
    BY TurnFacts DEF IInv, TypeOK
<1>2. InFlight(r) /\ InFlight(q)
    BY DEF TurnStep, FallBack, TurnLost, RefreshSelect, RefreshClear, RefreshCommit,
           LoadCheckpoint, WriteInput, Generate, WriteReply, AnswerStateless,
           InFlight, Active, Refreshing, Invoking
<1>3. turn[q].session # turn[r].session
    BY <1>2 DEF SerialInv, OneTurnAtATime
<1>. QED BY <1>1, <1>3
    DEF TurnStep, FallBack, TurnLost, RefreshSelect, RefreshClear, RefreshCommit,
        LoadCheckpoint, WriteInput, Generate, WriteReply, AnswerStateless, Erase, Write

(* With visitors who wait, every step keeps the turns serial.              *)
LEMMA SerialNext ==
    ASSUME IInv, SerialInv, SerialClients, ShortTurns, [Next]_vars
    PROVE  SerialInv'
<1>0. /\ TypeOK /\ turn \in [Turns -> TurnState]
      /\ checkpoints \in [Sessions -> Seq(Message)]
    BY DEF IInv, TypeOK
<1>1. ASSUME NEW r \in Turns, NEW z \in Sessions, Chat(r, z) PROVE SerialInv'
    <2>1. /\ turn'[r].phase = "refresh" /\ turn'[r].session = z
          /\ \A q \in Turns \ {r} : turn'[q] = turn[q]
          /\ checkpoints' = checkpoints
        BY <1>0, <1>1 DEF Chat, TurnState
    <2>2. \A q \in Turns : InFlight(q) => turn[q].session # z
        BY <1>1 DEF Chat
    <2>3. OneTurnAtATime'
        BY <2>1, <2>2 DEF SerialInv, OneTurnAtATime, InFlight
    <2>4. \A q \in Turns : Faithful(q)'
        BY <2>1 DEF SerialInv, Faithful
    <2>. QED BY <2>3, <2>4 DEF SerialInv
<1>2. ASSUME NEW r \in Turns, TurnStep(r) \/ FallBack(r) \/ TurnLost(r) PROVE SerialInv'
    <2>0. turn[r].session \in Sessions /\ turn[r].base \in Seq(Message)
        BY <1>0, TurnFacts
    <2>1. InFlight(r)
        BY <1>2 DEF TurnStep, FallBack, TurnLost, RefreshSelect, RefreshClear,
            RefreshCommit, LoadCheckpoint, WriteInput, Generate, WriteReply,
            AnswerStateless, InFlight, Active, Refreshing, Invoking
    <2>2. /\ turn'[r].session = turn[r].session
          /\ \A q \in Turns \ {r} : turn'[q] = turn[q]
        BY <1>0, <1>2, TurnKeepsSession
    <2>3. OneTurnAtATime'
        BY <2>1, <2>2 DEF SerialInv, OneTurnAtATime, InFlight
    <2>4. ASSUME NEW q \in Turns \ {r} PROVE Faithful(q)'
        <3>1. turn'[q] = turn[q] /\ Faithful(q)
            BY <2>2 DEF SerialInv
        <3>2. turn[q].phase \in Invoking =>
                checkpoints'[turn[q].session] = checkpoints[turn[q].session]
            BY <1>2, SerialWrites
        <3>. QED BY <3>1, <3>2 DEF Faithful, Invoking
    <2>5. Faithful(r)'
        <3>1. CASE LoadCheckpoint(r)
            BY <1>0, <2>2, <3>1 DEF LoadCheckpoint, Faithful, TurnState
        <3>2. CASE WriteInput(r)
            <4>1. turn'[r].phase = "generate" /\ turn'[r].base = turn[r].base
                BY <1>0, <3>2 DEF WriteInput, Advance, TurnState
            <4>2. checkpoints'[turn[r].session] = Append(turn[r].base, UserMessage(r))
                BY <1>0, <2>0, <3>2 DEF WriteInput, Write
            <4>. QED BY <2>2, <4>1, <4>2 DEF Faithful
        <3>3. CASE Generate(r)
            <4>1. /\ turn[r].phase = "generate" /\ checkpoints' = checkpoints
                  /\ \/ turn'[r].phase = "reply" /\ turn'[r].base = turn[r].base
                     \/ turn'[r].phase = "failed"
                BY <1>0, <3>3 DEF Generate, Advance, Leave, TurnState
            <4>. QED BY <2>2, <4>1 DEF SerialInv, Faithful
        <3>4. CASE RefreshSelect(r) \/ RefreshClear(r) \/ RefreshCommit(r) \/ WriteReply(r)
                    \/ AnswerStateless(r) \/ FallBack(r) \/ TurnLost(r)
            <4>1. turn'[r].phase \notin {"input", "generate", "reply"}
                BY <1>0, <3>4, TurnLeavesGraph
            <4>. QED BY <4>1 DEF Faithful
        <3>. QED BY <1>2, <3>1, <3>2, <3>3, <3>4 DEF TurnStep
    <2>. QED BY <2>3, <2>4, <2>5 DEF SerialInv
<1>3. ASSUME NEW c \in Cleaners, SweepStep(c) \/ SweepFail(c) PROVE SerialInv'
    <2>1. turn' = turn
        BY <1>3 DEF SweepStep, SweepSelect, SweepClear, SweepCommit, SweepFail
    <2>2. ASSUME NEW q \in Turns, turn[q].phase \in Invoking
          PROVE  checkpoints'[turn[q].session] = checkpoints[turn[q].session]
        <3>1. turn[q].session \in Sessions /\ turn[q].session \notin sweep[c].todo
            BY <1>0, <2>2, TurnFacts, InvokingProtects DEF IInv, TodoInBatch
        <3>. QED BY <1>0, <1>3, <3>1
            DEF SweepStep, SweepSelect, SweepClear, SweepCommit, SweepFail, Erase, Write
    <2>3. \A q \in Turns : Faithful(q)'
        BY <2>1, <2>2 DEF SerialInv, Faithful, Invoking
    <2>. QED BY <2>1, <2>3 DEF SerialInv, OneTurnAtATime, InFlight
<1>4. CASE Tick \/ UNCHANGED vars
    <2>1. turn' = turn /\ checkpoints' = checkpoints
        BY <1>4 DEF Tick, vars
    <2>. QED BY <2>1 DEF SerialInv, OneTurnAtATime, InFlight, Faithful
<1>. QED BY <1>1, <1>2, <1>3, <1>4 DEF Next

(* No turn is in flight at first.                                          *)
LEMMA SerialInit == Init => SerialInv
BY DEF Init, SerialInv, OneTurnAtATime, InFlight, Active, Refreshing, Invoking, Faithful

-------------------------------------------------------------------------------
(* The refinement                                                            *)

(* An exchange is two messages said one after the other.                   *)
LEMMA ExchangeIsTwoMessages ==
    ASSUME NEW seq \in Seq(Message), NEW r \in Turns
    PROVE  seq \o <<UserMessage(r), Reply(r)>>
                = Append(Append(seq, UserMessage(r)), Reply(r))
<1>1. UserMessage(r) \in Message /\ Reply(r) \in Message
    BY DEF UserMessage, Reply, Message
<1>. QED BY <1>1

(* A turn of a visitor who waits renews, speaks, or forgets a lapsed thread. *)
LEMMA TurnRefines ==
    ASSUME IInv, SerialInv, ShortTurns, NEW r \in Turns,
           TurnStep(r) \/ FallBack(r) \/ TurnLost(r)
    PROVE  [Memory!Next]_Memory!vars
<1>. DEFINE s == turn[r].session
            exchange == turn[r].base \o <<UserMessage(r), Reply(r)>>
<1>0. /\ TypeOK /\ s \in Sessions /\ turn[r].base \in Seq(Message)
      /\ turn[r].begun \in Nat /\ now \in Nat /\ MaxTurn \in Nat
      /\ expiresAt[s] \in Nat
      /\ expiresAt \in [Sessions -> Nat] /\ checkpoints \in [Sessions -> Seq(Message)]
    BY TurnFacts, ConstantsAssumption DEF IInv, TypeOK
<1>a. UserMessage(r) \in Message /\ Reply(r) \in Message
    BY DEF UserMessage, Reply, Message
<1>b. turn[r].phase \in Invoking => now < expiresAt[s]
    BY InvokingProtects
<1>c. ASSUME NEW m \in Message, turn[r].phase \in Invoking,
             UNCHANGED <<now, expiresAt>>,
             checkpoints' = [checkpoints EXCEPT ![s] = Append(@, m)]
      PROVE  Memory!Next
    BY <1>0, <1>b, <1>c DEF Memory!Next, Memory!Say
<1>d. ASSUME turn[r].phase = "reply", Write(s, exchange), UNCHANGED <<now, expiresAt>>
      PROVE  Memory!Next
    <2>1. checkpoints[s] = Append(turn[r].base, UserMessage(r))
        BY <1>d DEF SerialInv, Faithful
    <2>2. exchange = Append(checkpoints[s], Reply(r))
        BY <1>0, <2>1, ExchangeIsTwoMessages
    <2>3. checkpoints' = [checkpoints EXCEPT ![s] = Append(@, Reply(r))]
        <3>. HIDE DEF exchange
        <3>. QED BY <1>0, <1>d, <2>2 DEF Write
    <2>. QED BY <1>a, <1>c, <1>d, <2>3 DEF Invoking
<1>1. CASE RefreshClear(r)
    <2>1. turn[r].phase = "clear"
        BY <1>1 DEF RefreshClear
    <2>2. expiresAt[s] <= turn[r].begun /\ turn[r].begun <= now
        BY <2>1 DEF IInv, RefreshKnows, Knows, Lapsed, TurnsAreRecent, InFlight, Active,
                    Refreshing
    <2>3. expiresAt[s] <= now
        BY <1>0, <2>2
    <2>4. Memory!Forget(s)
        BY <1>0, <1>1, <2>3 DEF RefreshClear, Erase, Write, Memory!Forget
    <2>. QED BY <1>0, <2>4 DEF Memory!Next
<1>2. CASE RefreshCommit(r)
    <2>1. turn[r].phase = "upsert"
        BY <1>2 DEF RefreshCommit
    <2>2. turn[r].begun <= now /\ now <= turn[r].begun + MaxTurn
        BY <2>1 DEF IInv, TurnsAreRecent, InFlight, Active, Refreshing
    <2>3. turn[r].begun \in (now - MaxTurn) .. now /\ turn[r].begun >= 0
        BY <1>0, <2>2
    <2>4. expiresAt[s] <= turn[r].begun => checkpoints[s] = <<>>
        BY <1>0, <2>1 DEF IInv, RefreshKnows, Knows, Lapsed, NoOrphanedThread
    <2>5. /\ expiresAt' = [expiresAt EXCEPT ![s] = turn[r].begun + TTL]
          /\ UNCHANGED <<now, checkpoints>>
        BY <1>2 DEF RefreshCommit
    <2>6. Memory!Renew(s)
        BY <2>3, <2>4, <2>5 DEF Memory!Renew
    <2>. QED BY <1>0, <2>6 DEF Memory!Next
<1>3. CASE WriteInput(r)
    <2>1. turn[r].phase = "input" /\ turn[r].phase \in Invoking
        BY <1>3 DEF WriteInput, Invoking
    <2>2. checkpoints[s] = turn[r].base
        BY <2>1 DEF SerialInv, Faithful
    <2>3. checkpoints' = [checkpoints EXCEPT ![s] = Append(@, UserMessage(r))]
        BY <1>0, <1>3, <2>2 DEF WriteInput, Write
    <2>. QED BY <1>a, <1>c, <1>3, <2>1, <2>3 DEF WriteInput
<1>4. CASE WriteReply(r)
    BY <1>d, <1>4 DEF WriteReply
<1>5. CASE FallBack(r)
    <2>1. CASE UNCHANGED checkpoints
        BY <1>5, <2>1 DEF FallBack, Memory!vars
    <2>2. CASE turn[r].phase = "reply" /\ Write(s, exchange)
        BY <1>d, <1>5, <2>2 DEF FallBack
    <2>. QED BY <1>5, <2>1, <2>2 DEF FallBack
<1>6. CASE RefreshSelect(r) \/ LoadCheckpoint(r) \/ Generate(r) \/ AnswerStateless(r)
            \/ TurnLost(r)
    BY <1>6 DEF RefreshSelect, LoadCheckpoint, Generate, AnswerStateless, TurnLost,
                Memory!vars
<1>. QED BY <1>1, <1>2, <1>3, <1>4, <1>5, <1>6 DEF TurnStep

(* Every step is a step of Conversation or leaves it unchanged.            *)
LEMMA NextRefines ==
    ASSUME IInv, SerialInv, ShortTurns, [Next]_vars
    PROVE  [Memory!Next]_Memory!vars
<1>0. TypeOK
    BY DEF IInv
<1>1. CASE Tick
    BY <1>1 DEF Tick, Memory!Next, Memory!Pass
<1>2. ASSUME NEW r \in Turns, NEW z \in Sessions, Chat(r, z)
      PROVE  [Memory!Next]_Memory!vars
    BY <1>2 DEF Chat, Memory!vars
<1>3. ASSUME NEW c \in Cleaners, SweepClear(c) PROVE [Memory!Next]_Memory!vars
    <2>1. PICK s \in sweep[c].todo : Erase(s)
        BY <1>3 DEF SweepClear
    <2>2. s \in Sessions /\ expiresAt[s] <= now
        BY <1>0 DEF IInv, TypeOK, SweepState, TodoInBatch, SweepKnows
    <2>3. Memory!Forget(s)
        BY <1>3, <2>1, <2>2 DEF SweepClear, Erase, Write, Memory!Forget
    <2>. QED BY <2>2, <2>3 DEF Memory!Next
<1>4. ASSUME NEW c \in Cleaners, SweepSelect(c) \/ SweepCommit(c) \/ SweepFail(c)
      PROVE  [Memory!Next]_Memory!vars
    BY <1>4 DEF SweepSelect, SweepCommit, SweepFail, Memory!vars
<1>5. CASE UNCHANGED vars
    BY <1>5 DEF vars, Memory!vars
<1>. QED BY <1>1, <1>2, <1>3, <1>4, <1>5, TurnRefines DEF Next, SweepStep

(* If visitors wait for each answer and turns are short, the two stores,   *)
(* with all their transactions, sweeps and failures, are together one      *)
(* transcript per session with a sliding deadline.                         *)
THEOREM Refinement ==
    ASSUME SerialClients, ShortTurns
    PROVE  Spec => ImplementsConversation
<1>1. Init => Memory!Init
    BY DEF Init, Memory!Init
<1>2. IInv /\ SerialInv /\ [Next]_vars => SerialInv'
    BY SerialNext
<1>3. IInv /\ SerialInv /\ [Next]_vars => [Memory!Next]_Memory!vars
    BY NextRefines
<1>. QED BY <1>1, <1>2, <1>3, SerialInit, InvariantHolds, PTL
         DEF Spec, ImplementsConversation, Memory!Spec
===============================================================================
