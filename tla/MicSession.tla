----------------------------- MODULE MicSession -----------------------------
(***************************************************************************)
(* The live transcription client, lib/voice.ts: any number of recordings   *)
(* on one page, each an await chain that sets up the microphone, an audio  *)
(* worklet and a socket, then a set of callbacks and timers.  Between two  *)
(* awaits JavaScript runs to completion, so an action is one callback, or  *)
(* one continuation of the set-up up to its next await.                    *)
(*                                                                         *)
(* Sound is counted in 100 ms windows.  A transcript is the number of the  *)
(* segment of speech it is of, and whether it is final.                    *)
(***************************************************************************)
EXTENDS Naturals, Sequences

CONSTANTS
    Sessions,       \* calls of startLiveTranscription
    NoSession,      \* nobody holds the microphone
    MaxWindows      \* bound on the windows spoken in each recording

ASSUME ClientAssumption ==
    /\ NoSession \notin Sessions
    /\ MaxWindows \in Nat

VARIABLES
    active,         \* whose cancelThisSession is in cancelActiveSession
    rec,            \* the closure of each call, see Closure below
    conn,           \* each recording's connection, as both ends see it
    up,             \* messages under way from the browser to the server
    down            \* messages under way from the server to the browser

clientVars == <<active, rec, conn, up, down>>

SetUpSteps == {"microphone", "worklet", "socket"}

(* heldSocket says that the socket variable is set, with its handlers; late *)
(* that the wait for the final transcript was given up; calls lists the    *)
(* callbacks made.                                                         *)
Closure ==
    [phase: {"unused", "recording", "thrown"} \cup SetUpSteps,
     mic: {"none", "asked", "live", "stopped"},
     heldSocket: BOOLEAN, cancelled: BOOLEAN, settled: BOOLEAN, stopping: BOOLEAN,
     late: BOOLEAN, timers: SUBSET {"max", "final"}, spoken: Nat,
     finalizedParts: Seq(Nat), currentPartial: Nat, calls: Seq({"done", "error"})]

Unused ==
    [phase |-> "unused", mic |-> "none", heldSocket |-> FALSE, cancelled |-> FALSE,
     settled |-> FALSE, stopping |-> FALSE, late |-> FALSE, timers |-> {}, spoken |-> 0,
     finalizedParts |-> <<>>, currentPartial |-> 0, calls |-> <<>>]

Connections == {"none", "requested", "accepted", "open", "closed", "cut"}

Transcript == [kind: {"transcript"}, segment: Nat \ {0}, final: BOOLEAN]
Transcribed(n, final) == [kind |-> "transcript", segment |-> n, final |-> final]
Signal(k) == [kind |-> k]

TypeOK ==
    /\ active \in Sessions \cup {NoSession}
    /\ rec \in [Sessions -> Closure]
    /\ conn \in [Sessions -> Connections]
    /\ up \in [Sessions -> Seq({"chunk", "end"})]
    /\ down \in [Sessions -> Seq(Transcript \cup [kind: {"error", "close"}])]

ClientInit ==
    /\ active = NoSession
    /\ rec = [s \in Sessions |-> Unused]
    /\ conn = [s \in Sessions |-> "none"]
    /\ up = [s \in Sessions |-> <<>>]
    /\ down = [s \in Sessions |-> <<>>]

-----------------------------------------------------------------------------
(* teardown, on the closure, on the connection and on the page.            *)
TornDown(r) ==
    [r EXCEPT !.mic = IF @ = "live" THEN "stopped" ELSE @, !.timers = {}]

HungUp(s) == IF rec[s].heldSocket /\ conn[s] = "open" THEN "closed" ELSE conn[s]

(* Faulty variant: teardown forgets whose turn it is. *)
GivenUpBy_Anyone(s) == NoSession

GivenUpBy(s) == IF active = s THEN NoSession ELSE active

Cancelled(r) ==
    IF r.settled THEN [r EXCEPT !.cancelled = TRUE]
    ELSE TornDown([r EXCEPT !.cancelled = TRUE, !.settled = TRUE])

(* Faulty variant: without the check of settled. *)
SettleWith_Again(s, r, call) ==
    /\ rec' = [rec EXCEPT ![s] = TornDown([r EXCEPT !.settled = TRUE, !.calls = Append(@, call)])]
    /\ conn' = [conn EXCEPT ![s] = HungUp(s)]
    /\ active' = GivenUpBy(s)

(* finish and fail: a callback, at most once.                              *)
SettleWith(s, r, call) ==
    /\ ~r.settled
    /\ rec' = [rec EXCEPT ![s] = TornDown([r EXCEPT !.settled = TRUE, !.calls = Append(@, call)])]
    /\ conn' = [conn EXCEPT ![s] = HungUp(s)]
    /\ active' = GivenUpBy(s)

Finish(s, r) == SettleWith(s, r, "done")
Fail(s, r) == SettleWith(s, r, "error")

(* The catch block around the set-up.                                      *)
Throw(s, r) ==
    /\ rec' = [rec EXCEPT ![s] = TornDown([r EXCEPT !.phase = "thrown"])]
    /\ active' = GivenUpBy(s)

-----------------------------------------------------------------------------
(* The call itself, up to its first await: claim the microphone and ask.   *)
Start(s) ==
    /\ rec[s].phase = "unused"
    /\ LET old == active
           asked == [Unused EXCEPT !.phase = "microphone", !.mic = "asked"]
       IN /\ rec' = [t \in Sessions |-> CASE t = s -> asked
                                          [] t = old -> Cancelled(rec[t])
                                          [] OTHER -> rec[t]]
          /\ conn' = [t \in Sessions |->
                         IF t = old /\ ~rec[t].settled THEN HungUp(t) ELSE conn[t]]
    /\ active' = s
    /\ UNCHANGED <<up, down>>

GrantMicrophone(s) ==
    /\ rec[s].phase = "microphone"
    /\ LET r == [rec[s] EXCEPT !.mic = "live"]
       IN IF r.cancelled THEN Throw(s, r)
          ELSE /\ rec' = [rec EXCEPT ![s] = [r EXCEPT !.phase = "worklet"]]
               /\ UNCHANGED active
    /\ UNCHANGED <<conn, up, down>>

(* The visitor answers after the time limit: onLate stops the tracks.      *)
GrantLate(s) ==
    /\ rec[s].phase = "thrown" /\ rec[s].mic = "asked"
    /\ rec' = [rec EXCEPT ![s].mic = "stopped"]
    /\ UNCHANGED <<active, conn, up, down>>

LoadWorklet(s) ==
    /\ rec[s].phase = "worklet"
    /\ IF rec[s].cancelled
       THEN Throw(s, rec[s]) /\ UNCHANGED conn
       ELSE /\ rec' = [rec EXCEPT ![s].phase = "socket"]
            /\ conn' = [conn EXCEPT ![s] = "requested"]
            /\ UNCHANGED active
    /\ UNCHANGED <<up, down>>

(* The socket opens.  The rest of the function has no await, but is out of *)
(* the try block: if the browser refuses to build the audio graph the call *)
(* rejects and nothing is torn down.                                       *)
OpenSocket(s) ==
    /\ rec[s].phase = "socket" /\ conn[s] = "accepted"
    /\ LET r == [rec[s] EXCEPT !.heldSocket = TRUE]
       IN \/ /\ r.cancelled
             /\ Throw(s, r)
             /\ conn' = [conn EXCEPT ![s] = "closed"]
          \/ /\ ~r.cancelled
             /\ \/ rec' = [rec EXCEPT ![s] = [r EXCEPT !.phase = "recording", !.timers = {"max"}]]
                \/ rec' = [rec EXCEPT ![s] = [r EXCEPT !.phase = "thrown"]]
             /\ conn' = [conn EXCEPT ![s] = "open"]
             /\ UNCHANGED active
    /\ UNCHANGED <<up, down>>

(* A set-up step is refused, or its time limit passes.  For a socket that  *)
(* was refused nothing can come later; after the time limit it still may.  *)
SetUpFails(s) ==
    /\ rec[s].phase \in SetUpSteps
    /\ \E refused \in BOOLEAN :
          /\ Throw(s, [rec[s] EXCEPT !.mic = IF refused /\ @ = "asked" THEN "none" ELSE @])
          /\ conn' = [conn EXCEPT ![s] = IF refused /\ @ # "none" THEN "closed" ELSE @]
    /\ UNCHANGED <<up, down>>

(* A socket that opens after its time limit is closed by onLate.           *)
OpenLate(s) ==
    /\ rec[s].phase = "thrown" /\ conn[s] = "accepted"
    /\ conn' = [conn EXCEPT ![s] = "closed"]
    /\ UNCHANGED <<active, rec, up, down>>

-----------------------------------------------------------------------------
(* A message on an open socket.                                            *)
Arrives(s, kind) ==
    /\ conn[s] = "open"
    /\ down[s] # <<>>
    /\ Head(down[s]).kind = kind
    /\ down' = [down EXCEPT ![s] = Tail(@)]
    /\ UNCHANGED up

(* Faulty variant: a final transcript does not clear the partial one. *)
HearTranscript_KeepPartial(s) ==
    /\ Arrives(s, "transcript")
    /\ LET m == Head(down[s])
       IN rec' = IF m.final THEN [rec EXCEPT ![s].finalizedParts = Append(@, m.segment)]
                 ELSE [rec EXCEPT ![s].currentPartial = m.segment]
    /\ UNCHANGED <<active, conn>>

HearTranscript(s) ==
    /\ Arrives(s, "transcript")
    /\ LET m == Head(down[s])
       IN rec' = [rec EXCEPT
              ![s].finalizedParts = IF m.final THEN Append(@, m.segment) ELSE @,
              ![s].currentPartial = IF m.final THEN 0 ELSE m.segment]
    /\ UNCHANGED <<active, conn>>

HearError(s) == Arrives(s, "error") /\ Fail(s, rec[s])

(* onclose: the end of the recording, if it was asked to stop.             *)
SocketCloses(s) ==
    /\ Arrives(s, "close")
    /\ IF rec[s].stopping THEN Finish(s, rec[s]) ELSE Fail(s, rec[s])

(* The connection was lost and the browser notices: onclose, and for some  *)
(* losses onerror before it.                                               *)
NoticeLoss(s) ==
    /\ conn[s] = "cut" /\ rec[s].heldSocket
    /\ \/ Fail(s, rec[s])
       \/ rec[s].stopping /\ Finish(s, rec[s])
    /\ UNCHANGED <<up, down>>

(* What is sent on a socket that is not open is discarded silently.        *)
Sent(s, messages) ==
    up' = IF conn[s] = "open" THEN [up EXCEPT ![s] = @ \o messages] ELSE up

SendWindow(s) ==
    /\ rec[s].phase = "recording" /\ ~rec[s].settled /\ ~rec[s].stopping
    /\ rec[s].spoken < MaxWindows
    /\ rec' = [rec EXCEPT ![s].spoken = @ + 1]
    /\ Sent(s, <<"chunk">>)
    /\ UNCHANGED <<active, conn, down>>

(* Faulty variant: nothing bounds the wait for the final transcript. *)
StopWith_NoTimer(s, r) ==
    /\ ~r.settled /\ ~r.stopping
    /\ Sent(s, <<"end">>)
    /\ rec' = [rec EXCEPT ![s] = [r EXCEPT !.stopping = TRUE, !.mic = "stopped"]]
    /\ UNCHANGED <<active, conn, down>>

(* stop(): sends what is left of the last window, if anything, and "end".  *)
StopWith(s, r) ==
    /\ \/ /\ r.settled \/ r.stopping
          /\ rec' = [rec EXCEPT ![s] = r]
          /\ UNCHANGED up
       \/ /\ ~r.settled /\ ~r.stopping
          /\ \E flushed \in {<<>>, <<"chunk">>} :
                /\ r.spoken + Len(flushed) <= MaxWindows
                /\ Sent(s, flushed \o <<"end">>)
                /\ rec' = [rec EXCEPT ![s] = [r EXCEPT
                       !.stopping = TRUE, !.timers = @ \cup {"final"},
                       !.mic = "stopped", !.spoken = @ + Len(flushed)]]
    /\ UNCHANGED <<active, conn, down>>

Stop(s) ==
    /\ rec[s].phase = "recording" /\ ~rec[s].settled /\ ~rec[s].stopping
    /\ StopWith(s, rec[s])

MaxTimer(s) ==
    /\ "max" \in rec[s].timers
    /\ StopWith(s, [rec[s] EXCEPT !.timers = @ \ {"max"}])

FinalTimer(s) ==
    /\ "final" \in rec[s].timers
    /\ Finish(s, [rec[s] EXCEPT !.timers = @ \ {"final"}, !.late = TRUE])
    /\ UNCHANGED <<up, down>>

(* handle.cancel(), for instance because the page leaves the narrator.     *)
Cancel(s) ==
    /\ rec[s].phase = "recording" /\ ~rec[s].settled
    /\ rec' = [rec EXCEPT ![s] = Cancelled(@)]
    /\ conn' = [conn EXCEPT ![s] = HungUp(s)]
    /\ active' = GivenUpBy(s)
    /\ UNCHANGED <<up, down>>

(* The network loses the connection; neither end is told.                  *)
CutConnection(s) ==
    /\ conn[s] = "open"
    /\ conn' = [conn EXCEPT ![s] = "cut"]
    /\ down' = [down EXCEPT ![s] = <<>>]
    /\ UNCHANGED <<active, rec, up>>

SetUp(s) == GrantMicrophone(s) \/ LoadWorklet(s) \/ OpenSocket(s) \/ SetUpFails(s)

ClientStep(s) ==
    \/ Start(s) \/ SetUp(s) \/ GrantLate(s) \/ OpenLate(s)
    \/ HearTranscript(s) \/ HearError(s) \/ SocketCloses(s) \/ NoticeLoss(s)
    \/ SendWindow(s) \/ Stop(s) \/ MaxTimer(s) \/ FinalTimer(s) \/ Cancel(s)
    \/ CutConnection(s)
=============================================================================
