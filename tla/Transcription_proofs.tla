------------------------- MODULE Transcription_proofs -------------------------
(***************************************************************************)
(* The page-wide microphone, for any number of recordings, whatever their  *)
(* servers do: the handlers of Transcription or any other; and for those   *)
(* handlers, how far their tasks can be apart.                             *)
(***************************************************************************)
EXTENDS Transcription, SequenceTheorems, TLAPS

Message == Transcript \cup [kind: {"error", "close"}]

TypeInv == TypeOK /\ ServerTypeOK

-------------------------------------------------------------------------------
(* teardown leaves nothing live and nothing armed, and nothing else changed. *)
LEMMA TornDownFacts ==
    ASSUME NEW r \in Closure
    PROVE  /\ TornDown(r) \in Closure
           /\ TornDown(r).timers = {} /\ TornDown(r).mic # "live"
           /\ TornDown(r).phase = r.phase /\ TornDown(r).heldSocket = r.heldSocket
           /\ TornDown(r).cancelled = r.cancelled /\ TornDown(r).settled = r.settled
           /\ TornDown(r).calls = r.calls
BY DEF TornDown, Closure

(* cancelThisSession settles, tears down, and calls nobody.                *)
LEMMA CancelledFacts ==
    ASSUME NEW r \in Closure
    PROVE  /\ Cancelled(r) \in Closure
           /\ Cancelled(r).settled /\ Cancelled(r).cancelled
           /\ Cancelled(r).phase = r.phase /\ Cancelled(r).heldSocket = r.heldSocket
           /\ Cancelled(r).calls = r.calls
           /\ ~r.settled => Cancelled(r).timers = {} /\ Cancelled(r).mic # "live"
           /\ r.settled => Cancelled(r).timers = r.timers /\ Cancelled(r).mic = r.mic
<1>1. CASE r.settled
    BY <1>1 DEF Cancelled, Closure
<1>2. CASE ~r.settled
    <2>. DEFINE q == [r EXCEPT !.cancelled = TRUE, !.settled = TRUE]
    <2>1. q \in Closure
        BY DEF Closure
    <2>2. /\ q.settled /\ q.cancelled /\ q.phase = r.phase
          /\ q.heldSocket = r.heldSocket /\ q.calls = r.calls
        BY DEF Closure
    <2>3. Cancelled(r) = TornDown(q)
        BY <1>2 DEF Cancelled
    <2>. HIDE DEF q
    <2>. QED BY <1>2, <2>1, <2>2, <2>3, TornDownFacts
<1>. QED BY <1>1, <1>2

(* What one recording's own steps do to the page.                          *)
Steps(s) ==
    /\ \A t \in Sessions \ {s} : rec'[t] = rec[t] /\ conn'[t] = conn[t]
    /\ active' = active \/ active' = GivenUpBy(s)
    /\ Holds(s)' => active' = s
    /\ FlagsAgree(s)'

LEMMA StepsKeepPage ==
    ASSUME PageInv, TypeOK', NEW s \in Sessions, Steps(s)
    PROVE  PageInv'
<1>. NoSession \notin Sessions
    BY ClientAssumption
<1>1. ASSUME NEW t \in Sessions PROVE (Holds(t)' => active' = t) /\ FlagsAgree(t)'
    <2>1. CASE t = s
        BY <2>1 DEF Steps
    <2>2. CASE t # s
        <3>1. /\ rec'[t] = rec[t] /\ conn'[t] = conn[t]
              /\ active = t <=> active' = t
            BY <2>2 DEF Steps, GivenUpBy, PageInv, TypeOK
        <3>. QED BY <3>1 DEF PageInv, HeldByActive, Holds, Live, FlagsAgree
    <2>. QED BY <2>1, <2>2
<1>. QED BY <1>1 DEF PageInv, HeldByActive

-------------------------------------------------------------------------------
(* finish and fail.                                                        *)
LEMMA SettleFacts ==
    ASSUME TypeOK, NEW s \in Sessions, NEW r \in Closure, NEW call \in {"done", "error"},
           rec[s].heldSocket, r.heldSocket, r.phase \in {"recording", "thrown"},
           SettleWith(s, r, call)
    PROVE  /\ active' \in Sessions \cup {NoSession}
           /\ rec' \in [Sessions -> Closure] /\ conn' \in [Sessions -> Connections]
           /\ Steps(s)
           /\ rec'[s].calls = Append(r.calls, call)
           /\ ~r.settled /\ rec'[s].phase = r.phase /\ ~Live(s)'
           /\ active' = GivenUpBy(s)
<1>. DEFINE q == [r EXCEPT !.settled = TRUE, !.calls = Append(@, call)]
<1>0. Append(r.calls, call) \in Seq({"done", "error"})
    BY DEF Closure
<1>1. q \in Closure
    BY <1>0 DEF Closure
<1>2. /\ q.settled /\ q.phase = r.phase /\ q.heldSocket = r.heldSocket
      /\ q.cancelled = r.cancelled /\ q.calls = Append(r.calls, call)
    BY DEF Closure
<1>3. /\ rec' = [rec EXCEPT ![s] = TornDown(q)]
      /\ conn' = [conn EXCEPT ![s] = HungUp(s)]
      /\ active' = GivenUpBy(s) /\ ~r.settled
    BY DEF SettleWith
<1>. HIDE DEF q
<1>4. HungUp(s) \in Connections \ {"open"}
    BY DEF HungUp, TypeOK, Connections
<1>5. /\ rec' \in [Sessions -> Closure] /\ rec'[s] = TornDown(q)
      /\ conn' \in [Sessions -> Connections] /\ conn'[s] # "open"
      /\ \A t \in Sessions \ {s} : rec'[t] = rec[t] /\ conn'[t] = conn[t]
    BY <1>1, <1>3, <1>4, TornDownFacts DEF TypeOK
<1>6. /\ rec'[s].timers = {} /\ rec'[s].mic # "live" /\ rec'[s].settled
      /\ rec'[s].phase = r.phase /\ rec'[s].heldSocket = r.heldSocket
      /\ rec'[s].cancelled = r.cancelled /\ rec'[s].calls = Append(r.calls, call)
    BY <1>1, <1>2, <1>5, TornDownFacts
<1>7. active' \in Sessions \cup {NoSession} /\ active' # s
    BY <1>3, ClientAssumption DEF GivenUpBy, TypeOK
<1>8. Steps(s)
    BY <1>3, <1>5, <1>6, <1>7 DEF Steps, Holds, Live, FlagsAgree, SetUpSteps
<1>. QED BY <1>3, <1>5, <1>6, <1>7, <1>8 DEF Live

(* The catch block of the set-up, and what it lets the connection become.  *)
LEMMA ThrowFacts ==
    ASSUME TypeOK, NEW s \in Sessions, NEW r \in Closure, Throw(s, r),
           r.cancelled => r.settled, r.heldSocket => r.settled, ~r.settled => r.calls = <<>>,
           conn' \in [Sessions -> Connections], conn'[s] # "open",
           \A t \in Sessions \ {s} : conn'[t] = conn[t]
    PROVE  /\ active' \in Sessions \cup {NoSession}
           /\ rec' \in [Sessions -> Closure]
           /\ Steps(s)
           /\ rec'[s].calls = r.calls /\ rec'[s].phase = "thrown" /\ ~Live(s)'
           /\ active' = GivenUpBy(s)
<1>. DEFINE q == [r EXCEPT !.phase = "thrown"]
<1>1. q \in Closure
    BY DEF Closure
<1>2. /\ q.settled = r.settled /\ q.phase = "thrown" /\ q.heldSocket = r.heldSocket
      /\ q.cancelled = r.cancelled /\ q.calls = r.calls
    BY DEF Closure
<1>3. rec' = [rec EXCEPT ![s] = TornDown(q)] /\ active' = GivenUpBy(s)
    BY DEF Throw
<1>. HIDE DEF q
<1>5. /\ rec' \in [Sessions -> Closure] /\ rec'[s] = TornDown(q)
      /\ \A t \in Sessions \ {s} : rec'[t] = rec[t]
    BY <1>1, <1>3, TornDownFacts DEF TypeOK
<1>6. /\ rec'[s].timers = {} /\ rec'[s].mic # "live" /\ rec'[s].settled = r.settled
      /\ rec'[s].phase = "thrown" /\ rec'[s].heldSocket = r.heldSocket
      /\ rec'[s].cancelled = r.cancelled /\ rec'[s].calls = r.calls
    BY <1>1, <1>2, <1>5, TornDownFacts
<1>7. active' \in Sessions \cup {NoSession} /\ active' # s
    BY <1>3, ClientAssumption DEF GivenUpBy, TypeOK
<1>8. Steps(s)
    BY <1>3, <1>5, <1>6, <1>7 DEF Steps, Holds, Live, FlagsAgree, SetUpSteps
<1>. QED BY <1>3, <1>5, <1>6, <1>7, <1>8 DEF Live

(* What the invariant says of one recording.                               *)
LEMMA RecordingFacts ==
    ASSUME PageInv, NEW s \in Sessions
    PROVE  /\ rec[s] \in Closure /\ conn[s] \in Connections
           /\ active \in Sessions \cup {NoSession}
           /\ FlagsAgree(s) /\ (Holds(s) => active = s)
           /\ NoSession # s
BY ClientAssumption DEF PageInv, TypeOK, HeldByActive

(* The kinds of step a recording takes on the page: of its own, with its   *)
(* closure left alone except in what the page does not see (Quiet), one    *)
(* that gives the microphone back (Ends), or one that begins to capture.   *)
Typed ==
    /\ active' \in Sessions \cup {NoSession}
    /\ rec' \in [Sessions -> Closure]
    /\ conn' \in [Sessions -> Connections]

Quiet(s) ==
    /\ active' = active
    /\ rec'[s].calls = rec[s].calls /\ rec[s].phase # "unused" /\ rec'[s].phase # "unused"
    /\ Live(s)' => Live(s)

Ends(s) ==
    /\ active' = GivenUpBy(s) /\ rec[s].phase # "unused" /\ rec'[s].phase # "unused"
    /\ ~Live(s)'
    /\ \/ rec'[s].calls = rec[s].calls
       \/ /\ active = s /\ rec[s].calls = <<>>
          /\ \E o \in {"done", "error"} : rec'[s].calls = <<o>>

Captures(s) ==
    /\ active' = active /\ active = s
    /\ rec'[s].calls = rec[s].calls /\ rec[s].phase # "unused" /\ rec'[s].phase # "unused"

PageStep(s) == Typed /\ Steps(s) /\ (Quiet(s) \/ Ends(s) \/ Captures(s))

LEMMA SetUpPage ==
    ASSUME PageInv, NEW s \in Sessions, SetUp(s)
    PROVE  PageStep(s)
<1>0. /\ rec[s] \in Closure /\ conn[s] \in Connections /\ FlagsAgree(s)
      /\ (Holds(s) => active = s) /\ NoSession # s /\ active \in Sessions \cup {NoSession}
    BY RecordingFacts
<1>1. CASE GrantMicrophone(s)
    <2>. DEFINE r == [rec[s] EXCEPT !.mic = "live"]
    <2>1. /\ r \in Closure /\ r.cancelled = rec[s].cancelled /\ r.settled = rec[s].settled
          /\ r.heldSocket = rec[s].heldSocket /\ r.calls = rec[s].calls
          /\ r.timers = rec[s].timers
          /\ r.phase = "microphone" /\ rec[s].phase = "microphone"
        BY <1>0, <1>1 DEF GrantMicrophone, Closure
    <2>2. CASE r.cancelled
        <3>1. Throw(s, r) /\ conn' = conn
            BY <1>1, <2>2 DEF GrantMicrophone
        <3>. HIDE DEF r
        <3>. QED BY <1>0, <2>1, <3>1, ThrowFacts
                DEF PageStep, Typed, Ends, FlagsAgree, SetUpSteps, Holds, PageInv, TypeOK
    <2>3. CASE ~r.cancelled
        <3>1. rec' = [rec EXCEPT ![s] = [r EXCEPT !.phase = "worklet"]]
              /\ active' = active /\ conn' = conn
            BY <1>1, <2>3 DEF GrantMicrophone
        <3>. HIDE DEF r
        <3>2. /\ rec' \in [Sessions -> Closure]
              /\ \A t \in Sessions \ {s} : rec'[t] = rec[t]
              /\ rec'[s].phase = "worklet" /\ rec'[s].cancelled = r.cancelled
              /\ rec'[s].settled = r.settled /\ rec'[s].heldSocket = r.heldSocket
              /\ rec'[s].calls = r.calls /\ rec'[s].timers = r.timers
            BY <2>1, <3>1 DEF Closure, SetUpSteps, PageInv, TypeOK
        <3>3. active = s
            BY <1>0, <2>1, <2>3 DEF FlagsAgree, SetUpSteps
        <3>4. Steps(s)
            BY <1>0, <2>1, <2>3, <3>1, <3>2, <3>3
               DEF Steps, FlagsAgree, Holds, Live, SetUpSteps
        <3>. QED BY <1>0, <2>1, <3>1, <3>2, <3>3, <3>4
                DEF PageStep, Typed, Captures, PageInv, TypeOK
    <2>. QED BY <2>2, <2>3
<1>2. CASE LoadWorklet(s)
    <2>1. CASE rec[s].cancelled
        <3>1. Throw(s, rec[s]) /\ conn' = conn /\ rec[s].phase = "worklet"
            BY <1>2, <2>1 DEF LoadWorklet
        <3>. QED BY <1>0, <2>1, <3>1, ThrowFacts
                DEF PageStep, Typed, Ends, FlagsAgree, SetUpSteps, Holds, PageInv, TypeOK
    <2>2. CASE ~rec[s].cancelled
        <3>1. /\ rec' = [rec EXCEPT ![s].phase = "socket"] /\ rec[s].phase = "worklet"
              /\ conn' = [conn EXCEPT ![s] = "requested"] /\ active' = active
            BY <1>2, <2>2 DEF LoadWorklet
        <3>2. /\ rec' \in [Sessions -> Closure] /\ conn' \in [Sessions -> Connections]
              /\ \A t \in Sessions \ {s} : rec'[t] = rec[t] /\ conn'[t] = conn[t]
              /\ rec'[s].phase = "socket" /\ rec'[s].cancelled = rec[s].cancelled
              /\ rec'[s].settled = rec[s].settled /\ rec'[s].heldSocket = rec[s].heldSocket
              /\ rec'[s].calls = rec[s].calls /\ rec'[s].timers = rec[s].timers
              /\ rec'[s].mic = rec[s].mic /\ conn'[s] = "requested"
            BY <1>0, <3>1 DEF Closure, SetUpSteps, Connections, PageInv, TypeOK
        <3>3. Steps(s)
            BY <1>0, <3>1, <3>2 DEF Steps, FlagsAgree, Holds, Live, SetUpSteps
        <3>. QED BY <1>0, <3>1, <3>2, <3>3 DEF PageStep, Typed, Quiet, Live
    <2>. QED BY <2>1, <2>2
<1>3. CASE OpenSocket(s)
    <2>. DEFINE r == [rec[s] EXCEPT !.heldSocket = TRUE]
    <2>1. /\ r \in Closure /\ r.cancelled = rec[s].cancelled /\ r.settled = rec[s].settled
          /\ r.heldSocket /\ r.calls = rec[s].calls /\ r.mic = rec[s].mic
          /\ r.timers = rec[s].timers
          /\ r.phase = "socket" /\ rec[s].phase = "socket"
        BY <1>0, <1>3 DEF OpenSocket, Closure
    <2>2. CASE r.cancelled
        <3>1. Throw(s, r) /\ conn' = [conn EXCEPT ![s] = "closed"]
            BY <1>3, <2>2 DEF OpenSocket
        <3>2. /\ conn' \in [Sessions -> Connections] /\ conn'[s] # "open"
              /\ \A t \in Sessions \ {s} : conn'[t] = conn[t]
            BY <3>1 DEF PageInv, TypeOK, Connections
        <3>. HIDE DEF r
        <3>. QED BY <1>0, <2>1, <2>2, <3>1, <3>2, ThrowFacts
                DEF PageStep, Typed, Ends, FlagsAgree, PageInv
    <2>3. CASE ~r.cancelled
        <3>0. rec[s].timers = {}
            BY <1>0, <2>1 DEF FlagsAgree
        <3>1. PICK p \in {"recording", "thrown"}, m \in {{"max"}, {}} :
                /\ p = "recording" \/ m = {}
                /\ rec' = [rec EXCEPT ![s] = [r EXCEPT !.phase = p, !.timers = m]]
                /\ active' = active /\ conn' = [conn EXCEPT ![s] = "open"]
            <4>2. CASE rec' = [rec EXCEPT ![s] = [r EXCEPT !.phase = "recording", !.timers = {"max"}]]
                BY <1>3, <2>3, <4>2 DEF OpenSocket
            <4>3. CASE rec' = [rec EXCEPT ![s] = [r EXCEPT !.phase = "thrown"]]
                <5>1. \A q \in Closure : q.timers = {} =>
                        [q EXCEPT !.phase = "thrown"] = [q EXCEPT !.phase = "thrown", !.timers = {}]
                    BY DEF Closure
                <5>2. [r EXCEPT !.phase = "thrown"] = [r EXCEPT !.phase = "thrown", !.timers = {}]
                    BY <2>1, <3>0, <5>1
                <5>. QED BY <1>3, <2>3, <4>3, <5>2 DEF OpenSocket
            <4>. QED BY <1>3, <2>3, <4>2, <4>3 DEF OpenSocket
        <3>. HIDE DEF r
        <3>2. /\ rec' \in [Sessions -> Closure] /\ conn' \in [Sessions -> Connections]
              /\ \A t \in Sessions \ {s} : rec'[t] = rec[t] /\ conn'[t] = conn[t]
              /\ rec'[s].phase = p /\ rec'[s].cancelled = r.cancelled
              /\ rec'[s].settled = r.settled /\ rec'[s].heldSocket
              /\ rec'[s].calls = r.calls /\ rec'[s].mic = r.mic /\ rec'[s].timers = m
            BY <1>0, <2>1, <3>1 DEF Closure, Connections, PageInv, TypeOK
        <3>3. active = s
            BY <1>0, <2>1, <2>3 DEF FlagsAgree, SetUpSteps
        <3>4. Steps(s)
            BY <1>0, <2>1, <2>3, <3>1, <3>2, <3>3
               DEF Steps, FlagsAgree, Holds, Live, SetUpSteps
        <3>. QED BY <1>0, <2>1, <3>1, <3>2, <3>3, <3>4 DEF PageStep, Typed, Captures
    <2>. QED BY <2>2, <2>3
<1>4. CASE SetUpFails(s)
    <2>1. PICK refused \in BOOLEAN :
            /\ Throw(s, [rec[s] EXCEPT !.mic = IF refused /\ @ = "asked" THEN "none" ELSE @])
            /\ conn' = [conn EXCEPT ![s] = IF refused /\ @ # "none" THEN "closed" ELSE @]
        BY <1>4 DEF SetUpFails
    <2>. DEFINE r == [rec[s] EXCEPT !.mic = IF refused /\ @ = "asked" THEN "none" ELSE @]
    <2>2. /\ r \in Closure /\ r.cancelled = rec[s].cancelled /\ r.settled = rec[s].settled
          /\ r.heldSocket = rec[s].heldSocket /\ r.calls = rec[s].calls
          /\ r.phase = rec[s].phase /\ rec[s].phase \in SetUpSteps
        <3>1. PICK m \in {"none", rec[s].mic} : r = [rec[s] EXCEPT !.mic = m]
            OBVIOUS
        <3>2. rec[s].phase \in SetUpSteps
            BY <1>4 DEF SetUpFails
        <3>. HIDE DEF r
        <3>. QED BY <1>0, <3>1, <3>2 DEF Closure
    <2>3. Throw(s, r)
        BY <2>1
    <2>. HIDE DEF r
    <2>4. rec[s].phase \notin {"recording", "thrown", "unused"}
        BY <2>2 DEF SetUpSteps
    <2>5. ~rec[s].heldSocket /\ conn[s] # "open"
        BY <1>0, <2>4 DEF FlagsAgree
    <2>6. /\ conn' \in [Sessions -> Connections] /\ conn'[s] # "open"
          /\ \A t \in Sessions \ {s} : conn'[t] = conn[t]
        BY <1>0, <2>1, <2>5 DEF PageInv, TypeOK, Connections
    <2>. QED BY <1>0, <2>2, <2>3, <2>4, <2>5, <2>6, ThrowFacts
            DEF PageStep, Typed, Ends, FlagsAgree, PageInv
<1>. QED BY <1>1, <1>2, <1>3, <1>4 DEF SetUp

LEMMA StopPage ==
    ASSUME PageInv, NEW s \in Sessions, rec[s].phase = "recording",
           NEW m \in SUBSET {"max", "final"}, m \subseteq rec[s].timers,
           StopWith(s, [rec[s] EXCEPT !.timers = m])
    PROVE  PageStep(s)
<1>0. /\ rec[s] \in Closure /\ conn[s] \in Connections /\ FlagsAgree(s)
      /\ (Holds(s) => active = s) /\ NoSession # s /\ active \in Sessions \cup {NoSession}
    BY RecordingFacts
<1>. DEFINE r == [rec[s] EXCEPT !.timers = m]
<1>1. /\ r \in Closure /\ r.cancelled = rec[s].cancelled /\ r.settled = rec[s].settled
      /\ r.heldSocket = rec[s].heldSocket /\ r.calls = rec[s].calls
      /\ r.mic = rec[s].mic /\ r.timers = m /\ r.phase = "recording"
    BY <1>0 DEF Closure
<1>2. active' = active /\ conn' = conn
    BY DEF StopWith
<1>3. CASE rec' = [rec EXCEPT ![s] = r]
    <2>. HIDE DEF r
    <2>1. /\ rec' \in [Sessions -> Closure] /\ rec'[s] = r
          /\ \A t \in Sessions \ {s} : rec'[t] = rec[t]
        BY <1>1, <1>3 DEF PageInv, TypeOK
    <2>. QED BY <1>0, <1>1, <1>2, <2>1
            DEF PageStep, Typed, Steps, Quiet, FlagsAgree, Holds, Live, SetUpSteps, PageInv, TypeOK
<1>4. ASSUME NEW flushed \in {<<>>, <<"chunk">>}, ~r.settled,
             rec' = [rec EXCEPT ![s] = [r EXCEPT
                       !.stopping = TRUE, !.timers = @ \cup {"final"},
                       !.mic = "stopped", !.spoken = @ + Len(flushed)]]
      PROVE  PageStep(s)
    <2>. DEFINE n == r.spoken + Len(flushed)
                armed == r.timers \cup {"final"}
                q == [r EXCEPT !.stopping = TRUE, !.timers = armed,
                               !.mic = "stopped", !.spoken = n]
    <2>. HIDE DEF r
    <2>0. n \in Nat
        <3>1. Len(flushed) \in Nat
            OBVIOUS
        <3>2. r.spoken \in Nat
            BY <1>1 DEF Closure
        <3>. QED BY <3>1, <3>2
    <2>1. armed \in SUBSET {"max", "final"}
        BY <1>1
    <2>2. /\ q \in Closure /\ q.cancelled = r.cancelled /\ q.settled = r.settled
          /\ q.heldSocket = r.heldSocket /\ q.calls = r.calls
          /\ q.mic = "stopped" /\ q.phase = "recording"
        <3>. HIDE DEF n, armed
        <3>. QED BY <1>1, <2>0, <2>1 DEF Closure
    <2>3. rec' = [rec EXCEPT ![s] = q]
        BY <1>4
    <2>. HIDE DEF q
    <2>4. /\ rec' \in [Sessions -> Closure] /\ rec'[s] = q
          /\ \A t \in Sessions \ {s} : rec'[t] = rec[t]
        BY <2>2, <2>3 DEF PageInv, TypeOK
    <2>5. active = s
        BY <1>0, <1>1, <1>4 DEF FlagsAgree
    <2>. QED BY <1>0, <1>1, <1>2, <1>4, <2>2, <2>4, <2>5
            DEF PageStep, Typed, Steps, Quiet, FlagsAgree, Holds, Live, SetUpSteps, PageInv, TypeOK
<1>. QED BY <1>3, <1>4 DEF StopWith

(* A recording's callbacks: what follows the set-up.                       *)
LEMMA CallbackPage ==
    ASSUME PageInv, NEW s \in Sessions,
           NEW r \in Closure, r.settled = rec[s].settled, r.calls = rec[s].calls,
           r.heldSocket, rec[s].heldSocket, r.phase = rec[s].phase,
           NEW call \in {"done", "error"}, SettleWith(s, r, call)
    PROVE  PageStep(s)
<1>0. /\ rec[s] \in Closure /\ conn[s] \in Connections /\ FlagsAgree(s)
      /\ (Holds(s) => active = s) /\ NoSession # s /\ active \in Sessions \cup {NoSession}
    BY RecordingFacts
<1>1. r.phase \in {"recording", "thrown"} /\ TypeOK
    BY <1>0 DEF FlagsAgree, PageInv
<1>2. /\ active' \in Sessions \cup {NoSession}
      /\ rec' \in [Sessions -> Closure] /\ conn' \in [Sessions -> Connections]
      /\ Steps(s) /\ rec'[s].calls = Append(r.calls, call)
      /\ ~r.settled /\ rec'[s].phase = r.phase /\ ~Live(s)' /\ active' = GivenUpBy(s)
    BY <1>1, SettleFacts
<1>3. active = s /\ rec[s].calls = <<>>
    BY <1>0, <1>2 DEF FlagsAgree
<1>4. rec'[s].calls = <<call>>
    BY <1>2, <1>3
<1>. QED BY <1>1, <1>2, <1>3, <1>4 DEF PageStep, Typed, Ends

(* Every step of a recording but the first is a step of the page.          *)
LEMMA ClientPage ==
    ASSUME PageInv, NEW s \in Sessions, ClientStep(s), ~Start(s)
    PROVE  PageStep(s)
<1>0. /\ rec[s] \in Closure /\ conn[s] \in Connections /\ FlagsAgree(s)
      /\ (Holds(s) => active = s) /\ NoSession # s /\ active \in Sessions \cup {NoSession}
    BY RecordingFacts
<1>. USE DEF PageInv, TypeOK
<1>1. CASE SetUp(s)
    BY <1>1, SetUpPage
<1>2. CASE GrantLate(s)
    <2>1. /\ rec' = [rec EXCEPT ![s].mic = "stopped"] /\ rec[s].phase = "thrown"
          /\ active' = active /\ conn' = conn
        BY <1>2 DEF GrantLate
    <2>2. /\ rec' \in [Sessions -> Closure]
          /\ \A t \in Sessions \ {s} : rec'[t] = rec[t]
          /\ rec'[s].phase = "thrown" /\ rec'[s].cancelled = rec[s].cancelled
          /\ rec'[s].settled = rec[s].settled /\ rec'[s].heldSocket = rec[s].heldSocket
          /\ rec'[s].calls = rec[s].calls /\ rec'[s].timers = rec[s].timers
          /\ rec'[s].mic = "stopped"
        BY <1>0, <2>1 DEF Closure
    <2>. QED BY <1>0, <2>1, <2>2
            DEF PageStep, Typed, Steps, Quiet, FlagsAgree, Holds, Live, SetUpSteps
<1>3. CASE OpenLate(s)
    <2>1. /\ rec' = rec /\ rec[s].phase = "thrown" /\ active' = active
          /\ conn' = [conn EXCEPT ![s] = "closed"]
        BY <1>3 DEF OpenLate
    <2>2. /\ conn' \in [Sessions -> Connections] /\ conn'[s] = "closed"
          /\ \A t \in Sessions \ {s} : conn'[t] = conn[t]
        BY <2>1 DEF Connections
    <2>. QED BY <1>0, <2>1, <2>2
            DEF PageStep, Typed, Steps, Quiet, FlagsAgree, Holds, Live, SetUpSteps
<1>4. CASE HearTranscript(s)
    <2>. DEFINE m == Head(down[s])
    <2>1. m \in Transcript
        <3>1. m \in Transcript \cup [kind: {"error", "close"}] /\ m.kind = "transcript"
            BY <1>4 DEF HearTranscript, Arrives
        <3>. QED BY <3>1
    <2>. DEFINE parts == IF m.final THEN Append(rec[s].finalizedParts, m.segment)
                         ELSE rec[s].finalizedParts
                partial == IF m.final THEN 0 ELSE m.segment
    <2>2. parts \in Seq(Nat) /\ partial \in Nat
        <3>1. m.segment \in Nat /\ rec[s].finalizedParts \in Seq(Nat)
            BY <1>0, <2>1 DEF Transcript, Closure
        <3>. QED BY <3>1
    <2>3. /\ rec' = [rec EXCEPT ![s].finalizedParts = parts, ![s].currentPartial = partial]
          /\ active' = active /\ conn' = conn /\ conn[s] = "open"
        BY <1>4 DEF HearTranscript, Arrives
    <2>. HIDE DEF m, parts, partial
    <2>4. /\ rec' \in [Sessions -> Closure]
          /\ \A t \in Sessions \ {s} : rec'[t] = rec[t]
          /\ rec'[s].phase = rec[s].phase /\ rec'[s].cancelled = rec[s].cancelled
          /\ rec'[s].settled = rec[s].settled /\ rec'[s].heldSocket = rec[s].heldSocket
          /\ rec'[s].calls = rec[s].calls /\ rec'[s].timers = rec[s].timers
          /\ rec'[s].mic = rec[s].mic
        BY <1>0, <2>2, <2>3 DEF Closure
    <2>. QED BY <1>0, <2>3, <2>4
            DEF PageStep, Typed, Steps, Quiet, FlagsAgree, Holds, Live, SetUpSteps
<1>5. CASE HearError(s) \/ SocketCloses(s) \/ NoticeLoss(s)
    <2>1. rec[s].heldSocket
        BY <1>0, <1>5 DEF HearError, SocketCloses, NoticeLoss, Arrives, FlagsAgree
    <2>2. PICK call \in {"done", "error"} : SettleWith(s, rec[s], call)
        BY <1>5 DEF HearError, SocketCloses, NoticeLoss, Finish, Fail
    <2>. QED BY <1>0, <2>1, <2>2, CallbackPage
<1>6. CASE SendWindow(s)
    <2>. DEFINE n == rec[s].spoken + 1
    <2>1. /\ rec' = [rec EXCEPT ![s].spoken = n] /\ rec[s].phase = "recording"
          /\ active' = active /\ conn' = conn
        BY <1>6 DEF SendWindow
    <2>0. n \in Nat
        BY <1>0 DEF Closure
    <2>. HIDE DEF n
    <2>2. /\ rec' \in [Sessions -> Closure]
          /\ \A t \in Sessions \ {s} : rec'[t] = rec[t]
          /\ rec'[s].phase = rec[s].phase /\ rec'[s].cancelled = rec[s].cancelled
          /\ rec'[s].settled = rec[s].settled /\ rec'[s].heldSocket = rec[s].heldSocket
          /\ rec'[s].calls = rec[s].calls /\ rec'[s].timers = rec[s].timers
          /\ rec'[s].mic = rec[s].mic
        BY <1>0, <2>0, <2>1 DEF Closure
    <2>. QED BY <1>0, <2>1, <2>2
            DEF PageStep, Typed, Steps, Quiet, FlagsAgree, Holds, Live, SetUpSteps
<1>7. CASE Stop(s)
    <2>1. /\ rec[s] = [rec[s] EXCEPT !.timers = rec[s].timers]
          /\ rec[s].timers \in SUBSET {"max", "final"}
        BY <1>0 DEF Closure
    <2>2. /\ StopWith(s, [rec[s] EXCEPT !.timers = rec[s].timers])
          /\ rec[s].phase = "recording"
        BY <1>7, <2>1 DEF Stop
    <2>. QED BY <2>1, <2>2, StopPage
<1>8. CASE MaxTimer(s)
    <2>1. rec[s].phase = "recording"
        BY <1>0, <1>8 DEF MaxTimer, FlagsAgree, Holds
    <2>2. /\ rec[s].timers \ {"max"} \in SUBSET {"max", "final"}
          /\ rec[s].timers \ {"max"} \subseteq rec[s].timers
        BY <1>0 DEF Closure
    <2>. QED BY <1>8, <2>1, <2>2, StopPage DEF MaxTimer
<1>9. CASE FinalTimer(s)
    <2>. DEFINE r == [rec[s] EXCEPT !.timers = @ \ {"final"}, !.late = TRUE]
    <2>1. /\ r \in Closure /\ r.settled = rec[s].settled /\ r.calls = rec[s].calls
          /\ r.heldSocket = rec[s].heldSocket /\ r.phase = rec[s].phase
        BY <1>0 DEF Closure
    <2>2. SettleWith(s, r, "done")
        BY <1>9 DEF FinalTimer, Finish
    <2>. HIDE DEF r
    <2>3. rec[s].heldSocket
        BY <1>0, <1>9 DEF FinalTimer, FlagsAgree, Holds
    <2>. QED BY <2>1, <2>2, <2>3, CallbackPage
<1>10. CASE Cancel(s)
    <2>1. /\ rec' = [rec EXCEPT ![s] = Cancelled(rec[s])] /\ rec[s].phase = "recording"
          /\ conn' = [conn EXCEPT ![s] = HungUp(s)] /\ active' = GivenUpBy(s)
          /\ ~rec[s].settled
        BY <1>10 DEF Cancel
    <2>2. HungUp(s) \in Connections \ {"open"}
        BY <1>0 DEF HungUp, Connections, FlagsAgree
    <2>3. /\ rec' \in [Sessions -> Closure] /\ conn' \in [Sessions -> Connections]
          /\ \A t \in Sessions \ {s} : rec'[t] = rec[t] /\ conn'[t] = conn[t]
          /\ rec'[s] = Cancelled(rec[s]) /\ conn'[s] # "open"
        BY <1>0, <2>1, <2>2, CancelledFacts
    <2>4. active' \in Sessions \cup {NoSession} /\ active' # s
        BY <1>0, <2>1 DEF GivenUpBy
    <2>. QED BY <1>0, <2>1, <2>3, <2>4, CancelledFacts
            DEF PageStep, Typed, Steps, Ends, FlagsAgree, Holds, Live, SetUpSteps
<1>11. CASE CutConnection(s)
    <2>1. /\ rec' = rec /\ active' = active /\ conn[s] = "open"
          /\ conn' = [conn EXCEPT ![s] = "cut"]
        BY <1>11 DEF CutConnection
    <2>2. /\ conn' \in [Sessions -> Connections] /\ conn'[s] = "cut"
          /\ \A t \in Sessions \ {s} : conn'[t] = conn[t]
        BY <2>1 DEF Connections
    <2>. QED BY <1>0, <2>1, <2>2
            DEF PageStep, Typed, Steps, Quiet, FlagsAgree, Holds, Live, SetUpSteps
<1>. QED BY <1>1, <1>2, <1>3, <1>4, <1>5, <1>6, <1>7, <1>8, <1>9, <1>10, <1>11 DEF ClientStep

LEMMA UnusedFacts ==
    /\ Unused \in Closure
    /\ Unused.phase = "unused" /\ Unused.mic = "none" /\ Unused.timers = {}
    /\ ~Unused.heldSocket /\ ~Unused.cancelled /\ ~Unused.settled /\ Unused.calls = <<>>
<1>1. <<>> \in Seq(Nat) /\ <<>> \in Seq({"done", "error"}) /\ {} \in SUBSET {"max", "final"}
    OBVIOUS
<1>. QED BY <1>1 DEF Unused, Closure, SetUpSteps

(* The first step: a new recording takes the microphone from an older one. *)
LEMMA StartPage ==
    ASSUME PageInv, NEW s \in Sessions, Start(s)
    PROVE  /\ Typed /\ active' = s /\ rec[s].phase = "unused"
           /\ rec'[s] = [Unused EXCEPT !.phase = "microphone", !.mic = "asked"]
           /\ rec[s] = Unused
           /\ \A t \in Sessions \ {s} :
                 rec'[t].phase = rec[t].phase /\ rec'[t].calls = rec[t].calls
           /\ \A t \in Sessions : (Holds(t)' => active' = t) /\ FlagsAgree(t)'
           /\ \A t \in Sessions : ~Live(t)'
<1>. USE DEF PageInv, TypeOK
<1>. DEFINE asked == [Unused EXCEPT !.phase = "microphone", !.mic = "asked"]
<1>0. /\ asked \in Closure /\ asked.phase = "microphone" /\ asked.mic = "asked"
      /\ asked.timers = {} /\ ~asked.heldSocket /\ ~asked.cancelled /\ ~asked.settled
      /\ asked.calls = <<>>
    BY UnusedFacts DEF Closure, SetUpSteps
<1>1. /\ rec' = [t \in Sessions |-> CASE t = s -> asked
                                       [] t = active -> Cancelled(rec[t])
                                       [] OTHER -> rec[t]]
      /\ conn' = [t \in Sessions |->
                     IF t = active /\ ~rec[t].settled THEN HungUp(t) ELSE conn[t]]
      /\ active' = s /\ rec[s].phase = "unused"
    BY DEF Start
<1>. HIDE DEF asked
<1>2. /\ rec[s] = Unused /\ active # s /\ conn[s] # "open" /\ rec[s].phase = "unused"
    <2>1. FlagsAgree(s)
        BY RecordingFacts
    <2>. QED BY <1>1, <2>1 DEF FlagsAgree, Unused
<1>3. /\ rec'[s] = asked /\ conn'[s] = conn[s]
      /\ \A t \in Sessions \ {s} : rec'[t] = IF t = active THEN Cancelled(rec[t]) ELSE rec[t]
      /\ \A t \in Sessions \ {s} :
            conn'[t] = IF t = active /\ ~rec[t].settled THEN HungUp(t) ELSE conn[t]
    BY <1>1, <1>2
<1>4. Typed
    <2>1. \A t \in Sessions : HungUp(t) \in Connections
        BY DEF HungUp, Connections
    <2>2. \A t \in Sessions : Cancelled(rec[t]) \in Closure
        BY CancelledFacts
    <2>3. rec' \in [Sessions -> Closure]
        BY <1>0, <1>1, <2>2
    <2>4. conn' \in [Sessions -> Connections]
        BY <1>1, <2>1
    <2>. QED BY <1>1, <2>3, <2>4 DEF Typed
<1>5. (Holds(s)' => active' = s) /\ FlagsAgree(s)' /\ ~Live(s)'
    BY <1>0, <1>1, <1>2, <1>3, ClientAssumption DEF Holds, Live, FlagsAgree, SetUpSteps
<1>6. ASSUME NEW t \in Sessions \ {s}
      PROVE  /\ (Holds(t)' => active' = t) /\ FlagsAgree(t)' /\ ~Live(t)'
             /\ rec'[t].phase = rec[t].phase /\ rec'[t].calls = rec[t].calls
    <2>0. /\ rec[t] \in Closure /\ FlagsAgree(t) /\ (Holds(t) => active = t)
        BY RecordingFacts
    <2>1. CASE t = active
        <3>1. ~rec[t].settled /\ rec[t].phase # "unused"
            BY <2>0, <2>1 DEF FlagsAgree
        <3>2. rec'[t] = Cancelled(rec[t]) /\ conn'[t] = HungUp(t)
            BY <1>3, <2>1, <3>1
        <3>3. conn'[t] # "open"
            BY <2>0, <3>2 DEF HungUp, FlagsAgree
        <3>. QED BY <1>1, <2>0, <3>1, <3>2, <3>3, CancelledFacts
                DEF Holds, Live, FlagsAgree, SetUpSteps
    <2>2. CASE t # active
        <3>1. rec'[t] = rec[t] /\ conn'[t] = conn[t] /\ active' # t
            BY <1>1, <1>3, <2>2
        <3>2. ~Holds(t)
            BY <2>0, <2>2
        <3>. QED BY <2>0, <2>2, <3>1, <3>2 DEF Holds, Live, FlagsAgree, SetUpSteps
    <2>. QED BY <2>1, <2>2
<1>. QED BY <1>1, <1>2, <1>3, <1>4, <1>5, <1>6 DEF asked

-------------------------------------------------------------------------------
(* The channels.                                                           *)
ChannelsOK ==
    /\ up' \in [Sessions -> Seq({"chunk", "end"})]
    /\ down' \in [Sessions -> Seq(Message)]

LEMMA ClientChannels ==
    ASSUME TypeOK, NEW s \in Sessions, ClientStep(s)
    PROVE  ChannelsOK
<1>0. up \in [Sessions -> Seq({"chunk", "end"})] /\ down \in [Sessions -> Seq(Message)]
    BY DEF TypeOK, Message
<1>1. CASE up' = up /\ down' = down
    BY <1>0, <1>1 DEF ChannelsOK
<1>2. ASSUME NEW messages \in Seq({"chunk", "end"}), Sent(s, messages), down' = down
      PROVE  ChannelsOK
    <2>1. up[s] \o messages \in Seq({"chunk", "end"})
        BY <1>0
    <2>. QED BY <1>0, <1>2, <2>1 DEF ChannelsOK, Sent
<1>3. ASSUME NEW kind, Arrives(s, kind)
      PROVE  ChannelsOK
    <2>1. Tail(down[s]) \in Seq(Message)
        BY <1>0, <1>3 DEF Arrives
    <2>. QED BY <1>0, <1>3, <2>1 DEF ChannelsOK, Arrives
<1>4. CASE CutConnection(s)
    BY <1>0, <1>4 DEF CutConnection, ChannelsOK
<1>5. CASE SendWindow(s)
    <2>1. <<"chunk">> \in Seq({"chunk", "end"})
        OBVIOUS
    <2>. QED BY <1>2, <1>5, <2>1 DEF SendWindow
<1>6. ASSUME NEW r, StopWith(s, r) PROVE ChannelsOK
    <2>1. CASE up' = up
        BY <1>1, <1>6, <2>1 DEF StopWith
    <2>2. ASSUME NEW flushed \in {<<>>, <<"chunk">>}, Sent(s, flushed \o <<"end">>)
          PROVE  ChannelsOK
        <3>0. flushed \in Seq({"chunk", "end"}) /\ <<"end">> \in Seq({"chunk", "end"})
            <4>1. <<>> \in Seq({"chunk", "end"}) /\ <<"chunk">> \in Seq({"chunk", "end"})
                  /\ <<"end">> \in Seq({"chunk", "end"})
                OBVIOUS
            <4>. QED BY <4>1
        <3>1. flushed \o <<"end">> \in Seq({"chunk", "end"})
            BY <3>0
        <3>. QED BY <1>2, <1>6, <2>2, <3>1 DEF StopWith
    <2>. QED BY <1>6, <2>1, <2>2 DEF StopWith
<1>7. CASE Stop(s) \/ MaxTimer(s)
    BY <1>6, <1>7 DEF Stop, MaxTimer
<1>8. CASE HearTranscript(s) \/ HearError(s) \/ SocketCloses(s)
    BY <1>3, <1>8 DEF HearTranscript, HearError, SocketCloses
<1>9. CASE Start(s) \/ SetUp(s) \/ GrantLate(s) \/ OpenLate(s)
           \/ NoticeLoss(s) \/ FinalTimer(s) \/ Cancel(s)
    BY <1>1, <1>9 DEF Start, SetUp, GrantMicrophone, LoadWorklet, OpenSocket, SetUpFails,
        GrantLate, OpenLate, NoticeLoss, FinalTimer, Cancel
<1>. QED BY <1>4, <1>5, <1>7, <1>8, <1>9 DEF ClientStep

(* A step of the browser keeps the invariant.                              *)
LEMMA ClientKeepsPage ==
    ASSUME PageInv, NEW s \in Sessions, ClientStep(s)
    PROVE  PageInv'
<1>1. ChannelsOK
    BY ClientChannels DEF PageInv
<1>2. CASE Start(s)
    BY <1>1, <1>2, StartPage DEF PageInv, TypeOK, HeldByActive, Typed, ChannelsOK, Message
<1>3. CASE ~Start(s)
    <2>1. Typed /\ Steps(s)
        BY <1>3, ClientPage DEF PageStep
    <2>2. TypeOK'
        BY <1>1, <2>1 DEF TypeOK, Typed, ChannelsOK, Message
    <2>. QED BY <2>1, <2>2, StepsKeepPage
<1>. QED BY <1>2, <1>3

-------------------------------------------------------------------------------
(* The servers.                                                            *)
HandlerState ==
    [main: {"off", "starting", "sending", "closing", "done", "escaped"},
     receiver: {"off", "running", "done"}, writer: {"off", "running", "done"},
     reader: {"off", "running", "done"}, generator: {"none", "open", "abandoned", "closed"},
     queued: Nat, audioEnded: BOOLEAN, total: Nat,
     transcripts: Seq(Transcript \cup {None}), disconnected: BOOLEAN, closed: BOOLEAN]

StreamState ==
    [state: {"none", "open", "ended", "over"}, fed: Nat, segment: Nat,
     partial: BOOLEAN, failed: BOOLEAN]

(* What a server's step does to the page: at most it accepts a socket.     *)
Serves(s) ==
    /\ rec' = rec /\ active' = active
    /\ \/ conn' = conn
       \/ conn[s] = "requested" /\ conn' = [conn EXCEPT ![s] = "accepted"]

LEMMA ServesKeepsPage ==
    ASSUME PageInv, NEW s \in Sessions, Serves(s), ChannelsOK
    PROVE  PageInv'
<1>. USE DEF PageInv, TypeOK
<1>1. conn' \in [Sessions -> Connections]
    BY DEF Serves, Connections
<1>2. TypeOK'
    BY <1>1 DEF Serves, ChannelsOK, Message
<1>3. ASSUME NEW t \in Sessions
      PROVE  (Holds(t)' => active' = t) /\ FlagsAgree(t)'
    <2>1. /\ (Holds(t) => active = t) /\ FlagsAgree(t)
        BY RecordingFacts
    <2>2. conn'[t] = "open" => conn[t] = "open"
        BY DEF Serves
    <2>. QED BY <2>1, <2>2 DEF Serves, Holds, Live, FlagsAgree
<1>. QED BY <1>2, <1>3 DEF HeldByActive

(* Helpers of the handler give handlers, from handlers.                    *)
LEMMA HandlerHelpers ==
    /\ Idle \in HandlerState
    /\ \A h \in HandlerState :
         /\ ReceiverOver(h) \in HandlerState
         /\ \A how \in {"done", "escaped"} : Over(h, how) \in HandlerState
<1>1. <<>> \in Seq(Transcript \cup {None})
    OBVIOUS
<1>2. Idle \in HandlerState
    BY <1>1 DEF Idle, HandlerState
<1>3. \A h \in HandlerState : ReceiverOver(h) \in HandlerState
    BY DEF ReceiverOver, HandlerState
<1>4. \A h \in HandlerState, how \in {"done", "escaped"} :
         [h EXCEPT !.main = how] \in HandlerState
    BY DEF HandlerState
<1>. QED BY <1>2, <1>3, <1>4 DEF Over

LEMMA DeliveredType ==
    ASSUME TypeOK, NEW s \in Sessions, NEW messages \in Seq(Message), Delivered(s, messages)
    PROVE  down' \in [Sessions -> Seq(Message)]
<1>1. down[s] \o messages \in Seq(Message)
    BY DEF TypeOK, Message
<1>. QED BY <1>1 DEF Delivered, TypeOK, Message

LEMMA ClosingMessages ==
    /\ <<Signal("error"), Signal("close")>> \in Seq(Message)
    /\ <<Signal("close")>> \in Seq(Message)
    /\ Signal("error") \in Message /\ Signal("close") \in Message
<1>1. Signal("error") \in Message /\ Signal("close") \in Message
    BY DEF Signal, Message
<1>. QED BY <1>1

LEMMA ReportFailureType ==
    ASSUME TypeOK, ServerTypeOK, NEW s \in Sessions, NEW h \in HandlerState,
           ReportFailure(s, h)
    PROVE  /\ handler' \in [Sessions -> HandlerState]
           /\ down' \in [Sessions -> Seq(Message)]
<1>0. handler \in [Sessions -> HandlerState] /\ down \in [Sessions -> Seq(Message)]
    BY DEF ServerTypeOK, HandlerState, TypeOK, Message
<1>1. \A how \in {"done", "escaped"} :
        /\ Over(h, how) \in HandlerState
        /\ [Over(h, how) EXCEPT !.closed = TRUE] \in HandlerState
    <2>1. \A g \in HandlerState : [g EXCEPT !.closed = TRUE] \in HandlerState
        BY DEF HandlerState
    <2>. QED BY <2>1, HandlerHelpers
<1>2. handler' \in [Sessions -> HandlerState]
    BY <1>0, <1>1 DEF ReportFailure
<1>3. down' \in [Sessions -> Seq(Message)]
    BY <1>0, ClosingMessages, DeliveredType DEF ReportFailure
<1>. QED BY <1>2, <1>3

(* Types of what a server's step leaves behind.                            *)
ServerTyped ==
    /\ ChannelsOK
    /\ handler' \in [Sessions -> HandlerState]
    /\ stream' \in [Sessions -> StreamState]

(* No task of a server touches a recording.                                *)
LEMMA TasksServe ==
    ASSUME NEW s \in Sessions, Task(s) \/ Remote(s)
    PROVE  Serves(s)
<1>1. CASE Accept(s)
    BY <1>1 DEF Accept, Serves
<1>2. CASE ReceiveChunk(s) \/ Refuse(s) \/ ReceiveEnd(s) \/ ReceiveDisconnect(s)
    <2>1. rec' = rec /\ active' = active /\ conn' = conn
        BY <1>2 DEF ReceiveChunk, Refuse, ReceiveEnd, ReceiveDisconnect
    <2>. QED BY <2>1 DEF Serves
<1>3. CASE WriteChunk(s) \/ EndAudio(s) \/ Transcribe(s) \/ StreamEnds(s)
    <2>1. rec' = rec /\ active' = active /\ conn' = conn
        BY <1>3 DEF WriteChunk, EndAudio, Transcribe, StreamEnds
    <2>. QED BY <2>1 DEF Serves
<1>4. CASE StartStream(s) \/ SendTranscript(s) \/ EndTranscripts(s) \/ CloseNormally(s) \/ CloseAbandoned(s)
    <2>1. rec' = rec /\ active' = active /\ conn' = conn
        BY <1>4 DEF StartStream, SendTranscript, EndTranscripts, CloseNormally, CloseAbandoned
    <2>. QED BY <2>1 DEF Serves
<1>. QED BY <1>1, <1>2, <1>3, <1>4 DEF Task, Remote

(* Changing one field of a handler.                                        *)
LEMMA HandlerFields ==
    ASSUME NEW h \in HandlerState
    PROVE  /\ h.transcripts \in Seq(Transcript \cup {None})
           /\ \A n \in Nat : /\ [h EXCEPT !.total = n] \in HandlerState
                           /\ [h EXCEPT !.queued = n] \in HandlerState
           /\ [h EXCEPT !.closed = TRUE] \in HandlerState
           /\ [h EXCEPT !.disconnected = TRUE] \in HandlerState
           /\ [h EXCEPT !.writer = "done"] \in HandlerState
           /\ [h EXCEPT !.reader = "done"] \in HandlerState
           /\ [h EXCEPT !.generator = "abandoned"] \in HandlerState
           /\ [h EXCEPT !.main = "closing"] \in HandlerState
           /\ \A ts \in Seq(Transcript \cup {None}) :
                 [h EXCEPT !.transcripts = ts] \in HandlerState
BY DEF HandlerState

LEMMA HandlerCounts ==
    ASSUME NEW h \in HandlerState
    PROVE  /\ h.total \in Nat /\ h.queued \in Nat
           /\ h.total + 1 \in Nat /\ h.queued + 1 \in Nat
           /\ h.queued > 0 => h.queued - 1 \in Nat
<1>1. h.total \in Nat /\ h.queued \in Nat
    BY DEF HandlerState
<1>. QED BY <1>1

LEMMA ReceiverTypes ==
    ASSUME TypeOK, ServerTypeOK, NEW s \in Sessions,
           Accept(s) \/ ReceiveChunk(s) \/ Refuse(s) \/ ReceiveEnd(s) \/ ReceiveDisconnect(s)
    PROVE  ServerTyped
<1>. DEFINE h == handler[s]
<1>0. /\ handler \in [Sessions -> HandlerState] /\ stream \in [Sessions -> StreamState]
      /\ up \in [Sessions -> Seq({"chunk", "end"})] /\ down \in [Sessions -> Seq(Message)]
      /\ h \in HandlerState
    BY DEF ServerTypeOK, HandlerState, StreamState, TypeOK, Message
<1>1. stream' = stream
    BY DEF Accept, ReceiveChunk, Refuse, ReceiveEnd, ReceiveDisconnect
<1>2. up' \in [Sessions -> Seq({"chunk", "end"})]
    <2>1. CASE up' = up
        BY <1>0, <2>1
    <2>2. CASE Received(s)
        <3>1. Tail(up[s]) \in Seq({"chunk", "end"}) /\ up' = [up EXCEPT ![s] = Tail(@)]
            BY <1>0, <2>2 DEF Received
        <3>. QED BY <1>0, <3>1
    <2>. QED BY <2>1, <2>2 DEF Accept, ReceiveChunk, Refuse, ReceiveEnd, ReceiveDisconnect
<1>3. down' \in [Sessions -> Seq(Message)]
    <2>1. CASE down' = down
        BY <1>0, <2>1
    <2>2. CASE Refuse(s)
        BY <2>2, ClosingMessages, DeliveredType DEF Refuse
    <2>. QED BY <2>1, <2>2 DEF Accept, ReceiveChunk, ReceiveEnd, ReceiveDisconnect
<1>4. ReceiverOver(h) \in HandlerState
    BY <1>0, HandlerHelpers
<1>5. \E g \in HandlerState : handler' = [handler EXCEPT ![s] = g]
    <2>1. CASE Accept(s)
        <3>1. [Idle EXCEPT !.main = "starting", !.receiver = "running"] \in HandlerState
            BY HandlerHelpers DEF HandlerState
        <3>. QED BY <2>1, <3>1 DEF Accept
    <2>2. CASE ReceiveChunk(s)
        <3>. DEFINE g == [h EXCEPT !.total = h.total + 1]
        <3>1. g \in HandlerState /\ g.queued = h.queued /\ h.queued + 1 \in Nat
            <4>1. h.total + 1 \in Nat /\ h.queued + 1 \in Nat
                BY <1>0, HandlerCounts
            <4>2. g \in HandlerState
                BY <1>0, <4>1, HandlerFields
            <4>. QED BY <1>0, <4>1, <4>2 DEF HandlerState
        <3>2. handler' = [handler EXCEPT ![s] = [g EXCEPT !.queued = h.queued + 1]]
            BY <1>0, <2>2 DEF ReceiveChunk, HandlerState
        <3>. HIDE DEF g
        <3>3. [g EXCEPT !.queued = h.queued + 1] \in HandlerState
            BY <3>1, HandlerFields
        <3>. QED BY <3>2, <3>3
    <2>3. CASE Refuse(s)
        <3>. DEFINE g == ReceiverOver(h)
                    n == h.total + 1
                    k == [g EXCEPT !.total = n]
        <3>0. handler' = [handler EXCEPT ![s] = [g EXCEPT !.total = n, !.closed = TRUE]]
            BY <2>3 DEF Refuse
        <3>. HIDE DEF g, n
        <3>1. handler' = [handler EXCEPT ![s] = [k EXCEPT !.closed = TRUE]]
            BY <3>0
        <3>2. k \in HandlerState
            <4>1. n \in Nat /\ g \in HandlerState
                BY <1>0, <1>4, HandlerCounts DEF n, g
            <4>. QED BY <4>1, HandlerFields
        <3>. HIDE DEF k
        <3>3. [k EXCEPT !.closed = TRUE] \in HandlerState
            BY <3>2, HandlerFields
        <3>. QED BY <3>1, <3>3
    <2>4. CASE ReceiveEnd(s)
        BY <1>4, <2>4 DEF ReceiveEnd
    <2>5. CASE ReceiveDisconnect(s)
        <3>1. [ReceiverOver(h) EXCEPT !.disconnected = TRUE] \in HandlerState
            BY <1>4, HandlerFields
        <3>. QED BY <2>5, <3>1 DEF ReceiveDisconnect
    <2>. QED BY <2>1, <2>2, <2>3, <2>4, <2>5
<1>6. handler' \in [Sessions -> HandlerState]
    BY <1>0, <1>5
<1>. QED BY <1>0, <1>1, <1>2, <1>3, <1>6 DEF ServerTyped, ChannelsOK

LEMMA GeneratorEndsType ==
    ASSUME ServerTypeOK, NEW s \in Sessions, NEW h \in HandlerState, GeneratorEnds(s, h)
    PROVE  /\ handler' \in [Sessions -> HandlerState]
           /\ stream' \in [Sessions -> StreamState]
<1>0. handler \in [Sessions -> HandlerState] /\ stream \in [Sessions -> StreamState]
    BY DEF ServerTypeOK, HandlerState, StreamState
<1>1. [h EXCEPT !.generator = "closed", !.writer = "done", !.reader = "done"] \in HandlerState
    BY DEF HandlerState
<1>2. handler' \in [Sessions -> HandlerState]
    BY <1>0, <1>1 DEF GeneratorEnds
<1>3. \A a \in {"ended", stream[s].state} : [stream[s] EXCEPT !.state = a] \in StreamState
    BY <1>0 DEF StreamState
<1>4. stream' \in [Sessions -> StreamState]
    BY <1>0, <1>3 DEF GeneratorEnds
<1>. QED BY <1>2, <1>4

LEMMA HandlerTypes ==
    ASSUME TypeOK, ServerTypeOK, NEW s \in Sessions,
           \/ StartStream(s) \/ SendTranscript(s) \/ EndTranscripts(s)
           \/ CloseNormally(s) \/ CloseAbandoned(s)
    PROVE  ServerTyped
<1>. DEFINE h == handler[s]
<1>0. /\ handler \in [Sessions -> HandlerState] /\ stream \in [Sessions -> StreamState]
      /\ up \in [Sessions -> Seq({"chunk", "end"})] /\ down \in [Sessions -> Seq(Message)]
      /\ h \in HandlerState
    BY DEF ServerTypeOK, HandlerState, StreamState, TypeOK, Message
<1>. DEFINE Rest == /\ handler' \in [Sessions -> HandlerState]
                    /\ stream' \in [Sessions -> StreamState]
                    /\ down' \in [Sessions -> Seq(Message)]
<1>1. ASSUME StartStream(s) PROVE Rest
    <2>1. CASE ReportFailure(s, h) /\ stream' = stream
        BY <1>0, <2>1, ReportFailureType
    <2>2. CASE /\ stream' = [stream EXCEPT ![s].state = "open"]
               /\ handler' = [handler EXCEPT ![s].main = "sending", ![s].writer = "running",
                                 ![s].reader = "running", ![s].generator = "open"]
               /\ down' = down
        <3>. DEFINE g == [h EXCEPT !.main = "sending", !.writer = "running",
                                   !.reader = "running", !.generator = "open"]
        <3>1. g \in HandlerState
            BY <1>0 DEF HandlerState
        <3>2. handler' = [handler EXCEPT ![s] = g]
            BY <1>0, <2>2
        <3>3. [stream[s] EXCEPT !.state = "open"] \in StreamState
            BY <1>0 DEF StreamState
        <3>. HIDE DEF g
        <3>4. handler' \in [Sessions -> HandlerState]
            BY <1>0, <3>1, <3>2
        <3>5. stream' \in [Sessions -> StreamState]
            BY <1>0, <2>2, <3>3
        <3>. QED BY <1>0, <2>2, <3>4, <3>5
    <2>. QED BY <1>1, <2>1, <2>2 DEF StartStream
<1>2. ASSUME SendTranscript(s) PROVE Rest
    <2>. DEFINE ts == h.transcripts
                rest == [h EXCEPT !.transcripts = Tail(@)]
                left == [rest EXCEPT !.generator = "abandoned"]
    <2>1. /\ ts \in Seq(Transcript \cup {None}) /\ ts # <<>> /\ Head(ts) # None
        BY <1>0, <1>2, HandlerFields DEF SendTranscript
    <2>2. Tail(ts) \in Seq(Transcript \cup {None}) /\ Head(ts) \in Transcript
        BY <2>1
    <2>3. <<Head(ts)>> \in Seq(Message)
        BY <2>2 DEF Message
    <2>4. rest \in HandlerState
        BY <1>0, <2>2, HandlerFields
    <2>5. left \in HandlerState
        <3>. HIDE DEF rest
        <3>. QED BY <2>4, HandlerFields
    <2>6. [Over(left, "done") EXCEPT !.closed = TRUE] \in HandlerState
        <3>. HIDE DEF left
        <3>1. Over(left, "done") \in HandlerState
            BY <2>5, HandlerHelpers
        <3>. QED BY <3>1, HandlerFields
    <2>7. /\ stream' = stream
          /\ \/ Delivered(s, <<Head(ts)>>) /\ handler' = [handler EXCEPT ![s] = rest]
             \/ /\ handler' = [handler EXCEPT ![s] = [Over(left, "done") EXCEPT !.closed = TRUE]]
                /\ down' = down
             \/ ReportFailure(s, left)
        BY <1>2 DEF SendTranscript
    <2>. HIDE DEF ts, rest, left
    <2>8. handler' \in [Sessions -> HandlerState] /\ down' \in [Sessions -> Seq(Message)]
        <3>1. CASE Delivered(s, <<Head(ts)>>) /\ handler' = [handler EXCEPT ![s] = rest]
            BY <1>0, <2>3, <2>4, <3>1, DeliveredType
        <3>2. CASE /\ handler' = [handler EXCEPT ![s] = [Over(left, "done") EXCEPT !.closed = TRUE]]
                   /\ down' = down
            BY <1>0, <2>6, <3>2
        <3>3. CASE ReportFailure(s, left)
            BY <2>5, <3>3, ReportFailureType
        <3>. QED BY <2>7, <3>1, <3>2, <3>3
    <2>. QED BY <1>0, <2>7, <2>8
<1>3. ASSUME EndTranscripts(s) PROVE Rest
    <2>. DEFINE g == [h EXCEPT !.main = "closing", !.transcripts = <<>>]
    <2>1. <<>> \in Seq(Transcript \cup {None})
        OBVIOUS
    <2>2. g \in HandlerState
        BY <1>0, <2>1 DEF HandlerState
    <2>3. GeneratorEnds(s, g) /\ down' = down
        BY <1>3 DEF EndTranscripts
    <2>. HIDE DEF g
    <2>. QED BY <1>0, <2>2, <2>3, GeneratorEndsType
<1>4. ASSUME CloseNormally(s) PROVE Rest
    <2>1. down' \in [Sessions -> Seq(Message)] /\ stream' = stream
        BY <1>0, <1>4, ClosingMessages, DeliveredType DEF CloseNormally
    <2>2. PICK how \in {"done", "escaped"} :
            handler' = [handler EXCEPT ![s] = [Over(h, how) EXCEPT !.closed = TRUE]]
        BY <1>4 DEF CloseNormally
    <2>3. Over(h, how) \in HandlerState
        BY <1>0, HandlerHelpers
    <2>4. [Over(h, how) EXCEPT !.closed = TRUE] \in HandlerState
        BY <2>3, HandlerFields
    <2>5. handler' \in [Sessions -> HandlerState]
        BY <1>0, <2>2, <2>4
    <2>. QED BY <1>0, <2>1, <2>5
<1>5. ASSUME CloseAbandoned(s) PROVE Rest
    <2>1. GeneratorEnds(s, h) /\ down' = down
        BY <1>5 DEF CloseAbandoned
    <2>. QED BY <1>0, <2>1, GeneratorEndsType
<1>6. Rest
    BY <1>1, <1>2, <1>3, <1>4, <1>5
<1>7. up' = up
    BY DEF StartStream, SendTranscript, EndTranscripts, CloseNormally, CloseAbandoned
<1>. QED BY <1>0, <1>6, <1>7 DEF ServerTyped, ChannelsOK

(* The inductive invariant of one handler and its stream: how far the tasks *)
(* of a connection can be apart.                                           *)
Ended(ts) == ts # <<>> /\ ts[Len(ts)] = None

Agree(h, r) ==
    /\ h.main = "starting" => h.generator = "none"
    /\ h.main = "sending" => r.state # "none"
    /\ h.main = "closing" => h.generator = "closed"
    /\ h.main \in {"done", "escaped"} =>
          h.receiver = "done" /\ h.generator \in {"none", "abandoned", "closed"}
    /\ h.generator = "abandoned" => h.main \in {"done", "escaped"} /\ r.state # "none"
    /\ h.receiver = "done" => h.audioEnded
    /\ h.reader = "running" => r.state \in {"open", "ended"}
    /\ h.writer = "running" => r.state # "none"
    /\ h.writer = "done" => r.state \in {"ended", "over"}
    /\ h.main = "sending" /\ h.reader = "done" => Ended(h.transcripts)
    /\ r.partial => r.segment > 0

(* The writer and the reader.                                              *)
LEMMA StreamFields ==
    ASSUME NEW r \in StreamState
    PROVE  /\ r.segment \in Nat /\ r.fed \in Nat
           /\ [r EXCEPT !.fed = r.fed + 1] \in StreamState
           /\ [r EXCEPT !.segment = r.segment + 1, !.partial = TRUE] \in StreamState
           /\ [r EXCEPT !.partial = FALSE] \in StreamState
           /\ \A a \in {"open", "ended", "over", r.state} : [r EXCEPT !.state = a] \in StreamState
           /\ [r EXCEPT !.state = "over", !.failed = TRUE] \in StreamState
<1>1. r.segment \in Nat /\ r.fed \in Nat
    BY DEF StreamState
<1>2. r.segment + 1 \in Nat /\ r.fed + 1 \in Nat
    BY <1>1
<1>3. \A n \in Nat : /\ [r EXCEPT !.fed = n] \in StreamState
                    /\ [r EXCEPT !.segment = n, !.partial = TRUE] \in StreamState
    BY DEF StreamState
<1>4. /\ [r EXCEPT !.partial = FALSE] \in StreamState
      /\ \A a \in {"open", "ended", "over", r.state} : [r EXCEPT !.state = a] \in StreamState
      /\ [r EXCEPT !.state = "over", !.failed = TRUE] \in StreamState
    BY DEF StreamState
<1>. QED BY <1>1, <1>2, <1>3, <1>4

LEMMA WriterTypes ==
    ASSUME TypeOK, ServerTypeOK, NEW s \in Sessions, WriteChunk(s) \/ EndAudio(s)
    PROVE  ServerTyped
<1>. DEFINE h == handler[s]
            r == stream[s]
<1>0. /\ handler \in [Sessions -> HandlerState] /\ stream \in [Sessions -> StreamState]
      /\ up \in [Sessions -> Seq({"chunk", "end"})] /\ down \in [Sessions -> Seq(Message)]
      /\ h \in HandlerState /\ r \in StreamState
    BY DEF ServerTypeOK, HandlerState, StreamState, TypeOK, Message
<1>1. up' = up /\ down' = down
    BY DEF WriteChunk, EndAudio
<1>2. [h EXCEPT !.writer = "done"] \in HandlerState
    BY <1>0, HandlerFields
<1>3. ASSUME WriteChunk(s)
      PROVE  handler' \in [Sessions -> HandlerState] /\ stream' \in [Sessions -> StreamState]
    <2>. DEFINE n == h.queued - 1
                g == [h EXCEPT !.queued = n]
    <2>1. n \in Nat
        BY <1>0, <1>3, HandlerCounts DEF WriteChunk
    <2>2. /\ \/ handler' = [handler EXCEPT ![s].queued = n]
             \/ handler' = [handler EXCEPT ![s].queued = n, ![s].writer = "done"]
          /\ \/ stream' = [stream EXCEPT ![s].fed = r.fed + 1]
             \/ stream' = stream
        BY <1>3 DEF WriteChunk
    <2>. HIDE DEF n
    <2>3. g \in HandlerState
        BY <1>0, <2>1, HandlerFields
    <2>4. [g EXCEPT !.writer = "done"] \in HandlerState
        <3>. HIDE DEF g
        <3>. QED BY <2>3, HandlerFields
    <2>5. \/ handler' = [handler EXCEPT ![s] = g]
          \/ handler' = [handler EXCEPT ![s] = [g EXCEPT !.writer = "done"]]
        BY <1>0, <2>2
    <2>. HIDE DEF g
    <2>6. handler' \in [Sessions -> HandlerState]
        BY <1>0, <2>3, <2>4, <2>5
    <2>7. [r EXCEPT !.fed = r.fed + 1] \in StreamState
        BY <1>0, StreamFields
    <2>8. stream' \in [Sessions -> StreamState]
        BY <1>0, <2>2, <2>7
    <2>. QED BY <2>6, <2>8
<1>4. ASSUME EndAudio(s)
      PROVE  handler' \in [Sessions -> HandlerState] /\ stream' \in [Sessions -> StreamState]
    <2>1. /\ handler' = [handler EXCEPT ![s] = [h EXCEPT !.writer = "done"]]
          /\ \E a \in {"ended", r.state} : stream' = [stream EXCEPT ![s] = [r EXCEPT !.state = a]]
        BY <1>0, <1>4 DEF EndAudio
    <2>2. \A a \in {"ended", r.state} : [r EXCEPT !.state = a] \in StreamState
        BY <1>0, StreamFields
    <2>. QED BY <1>0, <1>2, <2>1, <2>2
<1>. QED BY <1>0, <1>1, <1>3, <1>4 DEF ServerTyped, ChannelsOK

LEMMA ReaderTypes ==
    ASSUME TypeOK, ServerTypeOK, NEW s \in Sessions, Transcribe(s) \/ StreamEnds(s),
           Agree(handler[s], stream[s])
    PROVE  ServerTyped
<1>. DEFINE h == handler[s]
            r == stream[s]
            Said == Transcript \cup {None}
<1>0. /\ handler \in [Sessions -> HandlerState] /\ stream \in [Sessions -> StreamState]
      /\ up \in [Sessions -> Seq({"chunk", "end"})] /\ down \in [Sessions -> Seq(Message)]
      /\ h \in HandlerState /\ r \in StreamState
    BY DEF ServerTypeOK, HandlerState, StreamState, TypeOK, Message
<1>1. up' = up /\ down' = down
    BY DEF Transcribe, StreamEnds
<1>2. ASSUME NEW m \in Said
      PROVE  [h EXCEPT !.transcripts = Append(h.transcripts, m)] \in HandlerState
    <2>1. h.transcripts \in Seq(Said)
        BY <1>0, HandlerFields
    <2>2. Append(h.transcripts, m) \in Seq(Said)
        BY <2>1
    <2>. QED BY <1>0, <2>2, HandlerFields
<1>3. ASSUME NEW m \in Said, Put(s, m)
      PROVE  handler' \in [Sessions -> HandlerState]
    <2>1. handler' = [handler EXCEPT ![s] = [h EXCEPT !.transcripts = Append(h.transcripts, m)]]
        BY <1>0, <1>3 DEF Put
    <2>. QED BY <1>0, <1>2, <2>1
<1>4. \A n \in Nat \ {0} : \A b \in BOOLEAN : Transcribed(n, b) \in Said
    BY DEF Transcribed, Transcript
<1>5. None \in Said
    OBVIOUS
<1>. HIDE DEF Said
<1>6. ASSUME Transcribe(s)
      PROVE  handler' \in [Sessions -> HandlerState] /\ stream' \in [Sessions -> StreamState]
    <2>1. CASE /\ stream' = [stream EXCEPT ![s].segment = @ + 1, ![s].partial = TRUE]
               /\ Put(s, Transcribed(r.segment + 1, FALSE))
        <3>1. r.segment + 1 \in Nat \ {0}
            <4>1. r.segment \in Nat
                BY <1>0, StreamFields
            <4>. QED BY <4>1
        <3>2. handler' \in [Sessions -> HandlerState]
            BY <1>3, <1>4, <2>1, <3>1
        <3>3. stream' = [stream EXCEPT ![s] = [r EXCEPT !.segment = r.segment + 1, !.partial = TRUE]]
            BY <1>0, <2>1
        <3>4. [r EXCEPT !.segment = r.segment + 1, !.partial = TRUE] \in StreamState
            BY <1>0, StreamFields
        <3>. QED BY <1>0, <3>2, <3>3, <3>4
    <2>2. CASE /\ r.partial
               /\ stream' = [stream EXCEPT ![s].partial = FALSE]
               /\ Put(s, Transcribed(r.segment, TRUE))
        <3>1. r.segment \in Nat \ {0}
            <4>1. r.segment \in Nat
                BY <1>0, StreamFields
            <4>. QED BY <2>2, <4>1 DEF Agree
        <3>2. handler' \in [Sessions -> HandlerState]
            BY <1>3, <1>4, <2>2, <3>1
        <3>3. stream' = [stream EXCEPT ![s] = [r EXCEPT !.partial = FALSE]]
            BY <1>0, <2>2
        <3>4. [r EXCEPT !.partial = FALSE] \in StreamState
            BY <1>0, StreamFields
        <3>. QED BY <1>0, <3>2, <3>3, <3>4
    <2>. QED BY <1>6, <2>1, <2>2 DEF Transcribe
<1>7. ASSUME StreamEnds(s)
      PROVE  handler' \in [Sessions -> HandlerState] /\ stream' \in [Sessions -> StreamState]
    <2>. DEFINE g == [h EXCEPT !.transcripts = Append(h.transcripts, None)]
    <2>1. g \in HandlerState
        BY <1>2, <1>5
    <2>2. /\ handler' = [handler EXCEPT ![s].reader = "done",
                                       ![s].transcripts = Append(h.transcripts, None)]
          /\ \/ stream' = [stream EXCEPT ![s].state = "over"]
             \/ stream' = [stream EXCEPT ![s].state = "over", ![s].failed = TRUE]
        BY <1>7 DEF StreamEnds
    <2>3. handler' = [handler EXCEPT ![s] = [g EXCEPT !.reader = "done"]]
        BY <1>0, <2>2
    <2>. HIDE DEF g
    <2>4. [g EXCEPT !.reader = "done"] \in HandlerState
        BY <2>1, HandlerFields
    <2>5. handler' \in [Sessions -> HandlerState]
        BY <1>0, <2>3, <2>4
    <2>6. /\ [r EXCEPT !.state = "over"] \in StreamState
          /\ [r EXCEPT !.state = "over", !.failed = TRUE] \in StreamState
        BY <1>0, StreamFields
    <2>7. stream' \in [Sessions -> StreamState]
        BY <1>0, <2>2, <2>6
    <2>. QED BY <2>5, <2>7
<1>. QED BY <1>0, <1>1, <1>6, <1>7 DEF ServerTyped, ChannelsOK

(* A queue that ends with None still does when its head is taken.          *)
LEMMA EndedFacts ==
    ASSUME NEW ts \in Seq(Transcript \cup {None})
    PROVE  /\ Ended(Append(ts, None))
           /\ Head(ts) # None /\ Ended(ts) => Ended(Tail(ts))
<1>1. Ended(Append(ts, None))
    <2>1. Append(ts, None) # <<>> /\ Len(Append(ts, None)) = Len(ts) + 1
        <3>. DEFINE S == Transcript \cup {None}
        <3>1. None \in S /\ ts \in Seq(S)
            OBVIOUS
        <3>. HIDE DEF S
        <3>2. Len(Append(ts, None)) = Len(ts) + 1 /\ Len(ts) \in Nat
            BY <3>1
        <3>3. Len(Append(ts, None)) # 0
            BY <3>2
        <3>. QED BY <3>2, <3>3
    <2>2. Append(ts, None)[Len(ts) + 1] = None
        OBVIOUS
    <2>. QED BY <2>1, <2>2 DEF Ended
<1>2. ASSUME Head(ts) # None, Ended(ts) PROVE Ended(Tail(ts))
    <2>1. ts # <<>> /\ ts[Len(ts)] = None
        BY <1>2 DEF Ended
    <2>2. Len(ts) \in Nat /\ Len(ts) > 0 /\ Head(ts) = ts[1]
        BY <2>1
    <2>3. Len(ts) > 1
        BY <1>2, <2>1, <2>2
    <2>4. Len(Tail(ts)) = Len(ts) - 1 /\ Tail(ts) # <<>>
        <3>. DEFINE S == Transcript \cup {None}
        <3>1. ts \in Seq(S)
            OBVIOUS
        <3>. HIDE DEF S
        <3>2. Len(Tail(ts)) = Len(ts) - 1
            BY <2>1, <3>1
        <3>3. Len(ts) - 1 # 0
            <4>1. \A n \in Nat : n > 1 => n - 1 # 0
                OBVIOUS
            <4>2. Len(ts) \in Nat
                BY <2>2
            <4>. QED BY ONLY <2>3, <4>1, <4>2
        <3>4. CASE Tail(ts) = <<>>
            <4>1. Len(Tail(ts)) = 0
                BY <3>4, EmptySeq
            <4>. QED BY <3>2, <3>3, <4>1
        <3>. QED BY <3>2, <3>4
    <2>5. Tail(ts)[Len(ts) - 1] = ts[Len(ts)]
        BY <2>2, <2>3
    <2>. QED BY <2>1, <2>4, <2>5 DEF Ended
<1>. QED BY <1>1, <1>2

(* What is left to say of a handler that is about to end.                  *)
CanEnd(h, r) ==
    /\ h.generator \in {"none", "abandoned", "closed"}
    /\ h.generator = "abandoned" => r.state # "none"
    /\ h.reader = "running" => r.state \in {"open", "ended"}
    /\ h.writer = "running" => r.state # "none"
    /\ h.writer = "done" => r.state \in {"ended", "over"}
    /\ r.partial => r.segment > 0

LEMMA OverAgrees ==
    ASSUME NEW h \in HandlerState, NEW r, CanEnd(h, r), NEW how \in {"done", "escaped"}
    PROVE  Agree(Over(h, how), r) /\ Agree([Over(h, how) EXCEPT !.closed = TRUE], r)
BY DEF Agree, CanEnd, Over, ReceiverOver, HandlerState

(* Every step of a task keeps Agree for its own connection.                *)
LEMMA TasksKeepAgree ==
    ASSUME ServerTypeOK, NEW s \in Sessions, Task(s) \/ Remote(s),
           Agree(handler[s], stream[s])
    PROVE  Agree(handler[s], stream[s])'
<1>. DEFINE h == handler[s]
            r == stream[s]
<1>0. /\ handler \in [Sessions -> HandlerState] /\ stream \in [Sessions -> StreamState]
      /\ h \in HandlerState /\ r \in StreamState
    BY DEF ServerTypeOK, HandlerState, StreamState
<1>1. CASE Accept(s)
    <2>1. /\ handler'[s] = [Idle EXCEPT !.main = "starting", !.receiver = "running"]
          /\ stream' = stream
        BY <1>0, <1>1 DEF Accept
    <2>. QED BY <2>1 DEF Agree, Idle
<1>2. CASE ReceiveChunk(s)
    <2>1. /\ handler'[s] = [h EXCEPT !.total = h.total + 1, !.queued = h.queued + 1]
          /\ stream' = stream
        BY <1>0, <1>2 DEF ReceiveChunk
    <2>. QED BY <1>0, <2>1 DEF Agree, HandlerState
<1>3. CASE Refuse(s)
    <2>1. /\ handler'[s] = [ReceiverOver(h) EXCEPT !.total = h.total + 1, !.closed = TRUE]
          /\ stream' = stream
        BY <1>0, <1>3 DEF Refuse
    <2>. QED BY <1>0, <2>1 DEF Agree, HandlerState, ReceiverOver
<1>4. CASE ReceiveEnd(s) \/ ReceiveDisconnect(s)
    <2>. DEFINE g == ReceiverOver(h)
    <2>1. g \in HandlerState /\ Agree(g, r)
        <3>1. g \in HandlerState
            BY <1>0, HandlerHelpers
        <3>2. Agree(g, r)
            BY <1>0 DEF Agree, HandlerState, ReceiverOver
        <3>. QED BY <3>1, <3>2
    <2>2. /\ handler'[s] = g \/ handler'[s] = [g EXCEPT !.disconnected = TRUE]
          /\ stream' = stream
        BY <1>0, <1>4 DEF ReceiveEnd, ReceiveDisconnect
    <2>. HIDE DEF g
    <2>3. Agree([g EXCEPT !.disconnected = TRUE], r)
        BY <2>1 DEF Agree, HandlerState
    <2>. QED BY <2>1, <2>2, <2>3
<1>5. ASSUME NEW g \in HandlerState, ReportFailure(s, g), CanEnd(g, r)
      PROVE  Agree(handler'[s], r)
    <2>1. \E how \in {"done", "escaped"} :
             handler'[s] \in {Over(g, how), [Over(g, how) EXCEPT !.closed = TRUE]}
        BY <1>0, <1>5 DEF ReportFailure
    <2>. QED BY <1>5, <2>1, OverAgrees
<1>6. CASE StartStream(s)
    <2>1. h.main = "starting" /\ h.generator = "none"
        BY <1>6 DEF StartStream, Agree
    <2>2. CASE ReportFailure(s, h) /\ stream' = stream
        <3>1. CanEnd(h, r)
            BY <2>1 DEF Agree, CanEnd
        <3>. QED BY <1>0, <1>5, <2>2, <3>1
    <2>3. CASE /\ stream' = [stream EXCEPT ![s].state = "open"]
               /\ handler' = [handler EXCEPT ![s].main = "sending", ![s].writer = "running",
                                 ![s].reader = "running", ![s].generator = "open"]
        <3>1. /\ handler'[s] = [h EXCEPT !.main = "sending", !.writer = "running",
                                         !.reader = "running", !.generator = "open"]
              /\ stream'[s] = [r EXCEPT !.state = "open"]
            BY <1>0, <2>3
        <3>. QED BY <1>0, <2>1, <3>1 DEF Agree, HandlerState, StreamState
    <2>. QED BY <1>6, <2>2, <2>3 DEF StartStream
<1>7. CASE SendTranscript(s)
    <2>. DEFINE rest == [h EXCEPT !.transcripts = Tail(@)]
                left == [rest EXCEPT !.generator = "abandoned"]
    <2>1. /\ stream' = stream /\ h.main = "sending" /\ Head(h.transcripts) # None
          /\ h.transcripts # <<>>
          /\ \/ handler' = [handler EXCEPT ![s] = rest]
             \/ handler' = [handler EXCEPT ![s] = [Over(left, "done") EXCEPT !.closed = TRUE]]
             \/ ReportFailure(s, left)
        BY <1>7 DEF SendTranscript
    <2>2. h.transcripts \in Seq(Transcript \cup {None})
        BY <1>0, HandlerFields
    <2>3. Tail(h.transcripts) \in Seq(Transcript \cup {None})
        BY <2>1, <2>2
    <2>4. rest \in HandlerState
        BY <1>0, <2>3, HandlerFields
    <2>5. left \in HandlerState
        <3>. HIDE DEF rest
        <3>. QED BY <2>4, HandlerFields
    <2>6. Ended(h.transcripts) => Ended(Tail(h.transcripts))
        BY <2>1, <2>2, EndedFacts
    <2>7. Agree(rest, r)
        BY <1>0, <2>1, <2>6 DEF Agree, HandlerState
    <2>8. CanEnd(left, r)
        BY <1>0, <2>1 DEF Agree, CanEnd, HandlerState
    <2>. HIDE DEF rest, left
    <2>9. CASE handler' = [handler EXCEPT ![s] = rest]
        BY <1>0, <2>1, <2>7, <2>9
    <2>10. CASE handler' = [handler EXCEPT ![s] = [Over(left, "done") EXCEPT !.closed = TRUE]]
        BY <1>0, <2>1, <2>5, <2>8, <2>10, OverAgrees
    <2>11. CASE ReportFailure(s, left)
        BY <1>0, <1>5, <2>1, <2>5, <2>8, <2>11
    <2>. QED BY <2>1, <2>9, <2>10, <2>11
<1>8. ASSUME NEW g \in HandlerState, GeneratorEnds(s, g), r.state # "none",
             g.main \in {"closing", "done", "escaped"}, g.main # "closing" => g.receiver = "done",
             g.receiver = "done" => g.audioEnded
      PROVE  Agree(handler[s], stream[s])'
    <2>1. /\ handler'[s] = [g EXCEPT !.generator = "closed", !.writer = "done", !.reader = "done"]
          /\ stream'[s] = [r EXCEPT !.state = IF @ = "open" THEN "ended" ELSE @]
        BY <1>0, <1>8 DEF GeneratorEnds
    <2>. QED BY <1>0, <1>8, <2>1 DEF Agree, HandlerState, StreamState
<1>9. CASE EndTranscripts(s)
    <2>. DEFINE g == [h EXCEPT !.main = "closing", !.transcripts = <<>>]
    <2>1. <<>> \in Seq(Transcript \cup {None})
        OBVIOUS
    <2>2. /\ g \in HandlerState /\ g.main = "closing" /\ r.state # "none"
          /\ g.receiver = "done" => g.audioEnded
        BY <1>0, <1>9, <2>1 DEF EndTranscripts, Agree, HandlerState
    <2>3. GeneratorEnds(s, g)
        BY <1>9 DEF EndTranscripts
    <2>. HIDE DEF g
    <2>. QED BY <1>8, <2>2, <2>3
<1>10. CASE CloseNormally(s)
    <2>1. PICK how \in {"done", "escaped"} :
            handler' = [handler EXCEPT ![s] = [Over(h, how) EXCEPT !.closed = TRUE]]
        BY <1>10 DEF CloseNormally
    <2>2. stream' = stream /\ h.main = "closing"
        BY <1>10 DEF CloseNormally
    <2>3. CanEnd(h, r)
        BY <2>2 DEF Agree, CanEnd
    <2>. QED BY <1>0, <2>1, <2>2, <2>3, OverAgrees
<1>11. CASE CloseAbandoned(s)
    <2>1. /\ GeneratorEnds(s, h) /\ r.state # "none" /\ h.main \in {"done", "escaped"}
          /\ h.receiver = "done" /\ h.audioEnded
        BY <1>11 DEF CloseAbandoned, Agree
    <2>. QED BY <1>0, <1>8, <2>1
<1>12. CASE WriteChunk(s)
    <2>. DEFINE g == [h EXCEPT !.queued = h.queued - 1]
    <2>1. g \in HandlerState /\ Agree(g, r)
        <3>1. h.queued - 1 \in Nat
            BY <1>0, <1>12, HandlerCounts DEF WriteChunk
        <3>2. g \in HandlerState
            BY <1>0, <3>1, HandlerFields
        <3>. QED BY <1>0, <3>2 DEF Agree, HandlerState
    <2>2. \/ handler'[s] = g /\ stream'[s] = [r EXCEPT !.fed = r.fed + 1]
          \/ handler'[s] = [g EXCEPT !.writer = "done"] /\ stream'[s] = r /\ r.state = "over"
        BY <1>0, <1>12 DEF WriteChunk
    <2>. HIDE DEF g
    <2>3. Agree(g, [r EXCEPT !.fed = r.fed + 1])
        BY <1>0, <2>1 DEF Agree, StreamState
    <2>4. r.state = "over" => Agree([g EXCEPT !.writer = "done"], r)
        BY <2>1 DEF Agree, HandlerState
    <2>. QED BY <2>2, <2>3, <2>4
<1>13. CASE EndAudio(s)
    <2>1. /\ handler'[s] = [h EXCEPT !.writer = "done"]
          /\ stream'[s] = [r EXCEPT !.state = IF @ = "open" THEN "ended" ELSE @]
          /\ r.state # "none"
        BY <1>0, <1>13 DEF EndAudio, Agree
    <2>. QED BY <1>0, <2>1 DEF Agree, HandlerState, StreamState
<1>14. CASE Transcribe(s)
    <2>1. h.reader = "running"
        BY <1>14 DEF Transcribe
    <2>2. /\ \E ts : handler'[s] = [h EXCEPT !.transcripts = ts]
          /\ \/ stream'[s] = [r EXCEPT !.segment = r.segment + 1, !.partial = TRUE]
             \/ stream'[s] = [r EXCEPT !.partial = FALSE]
        BY <1>0, <1>14 DEF Transcribe, Put
    <2>3. r.segment + 1 > 0
        <3>1. r.segment \in Nat
            BY <1>0, StreamFields
        <3>. QED BY <3>1
    <2>4. \A ts, q : Agree(h, q) => Agree([h EXCEPT !.transcripts = ts], q)
        BY <1>0, <2>1 DEF Agree, HandlerState
    <2>5. /\ Agree(h, [r EXCEPT !.segment = r.segment + 1, !.partial = TRUE])
          /\ Agree(h, [r EXCEPT !.partial = FALSE])
        BY <1>0, <2>3 DEF Agree, StreamState
    <2>. QED BY <2>2, <2>4, <2>5
<1>15. CASE StreamEnds(s)
    <2>. DEFINE ts == Append(h.transcripts, None)
    <2>1. h.reader = "running"
        BY <1>15 DEF StreamEnds
    <2>2. /\ handler'[s] = [h EXCEPT !.reader = "done", !.transcripts = ts]
          /\ \/ stream'[s] = [r EXCEPT !.state = "over"]
             \/ stream'[s] = [r EXCEPT !.state = "over", !.failed = TRUE]
        BY <1>0, <1>15 DEF StreamEnds
    <2>3. Ended(ts)
        BY <1>0, HandlerFields, EndedFacts
    <2>. HIDE DEF ts
    <2>5. \A q \in StreamState : q.state = "over" /\ (q.partial => q.segment > 0) =>
             Agree([h EXCEPT !.reader = "done", !.transcripts = ts], q)
        BY <1>0, <2>3 DEF Agree, HandlerState
    <2>6. /\ [r EXCEPT !.state = "over"] \in StreamState
          /\ [r EXCEPT !.state = "over", !.failed = TRUE] \in StreamState
        BY <1>0, StreamFields
    <2>7. /\ stream'[s] \in StreamState /\ stream'[s].state = "over"
          /\ stream'[s].partial => stream'[s].segment > 0
        BY <1>0, <2>2, <2>6 DEF Agree, StreamState
    <2>. QED BY <2>2, <2>5, <2>7
<1>. QED BY <1>1, <1>2, <1>3, <1>4, <1>6, <1>7, <1>9, <1>10, <1>11, <1>12, <1>13, <1>14, <1>15
        DEF Task, Remote

LEMMA TasksTyped ==
    ASSUME TypeOK, ServerTypeOK, NEW s \in Sessions, Task(s) \/ Remote(s),
           Agree(handler[s], stream[s])
    PROVE  ServerTyped
<1>1. CASE \/ Accept(s) \/ ReceiveChunk(s) \/ Refuse(s) \/ ReceiveEnd(s)
           \/ ReceiveDisconnect(s)
    BY <1>1, ReceiverTypes
<1>2. CASE \/ StartStream(s) \/ SendTranscript(s) \/ EndTranscripts(s)
           \/ CloseNormally(s) \/ CloseAbandoned(s)
    BY <1>2, HandlerTypes
<1>3. CASE WriteChunk(s) \/ EndAudio(s)
    BY <1>3, WriterTypes
<1>4. CASE Transcribe(s) \/ StreamEnds(s)
    BY <1>4, ReaderTypes
<1>. QED BY <1>1, <1>2, <1>3, <1>4 DEF Task, Remote

(* Nor does a task touch another connection's handler.                     *)
LEMMA TasksLeaveOthers ==
    ASSUME ServerTypeOK, NEW s \in Sessions, Task(s) \/ Remote(s), NEW t \in Sessions \ {s}
    PROVE  handler'[t] = handler[t] /\ stream'[t] = stream[t]
<1>0. /\ handler \in [Sessions -> HandlerState] /\ stream \in [Sessions -> StreamState]
    BY DEF ServerTypeOK, HandlerState, StreamState
<1>1. CASE Accept(s) \/ ReceiveChunk(s) \/ Refuse(s) \/ ReceiveEnd(s) \/ ReceiveDisconnect(s)
    BY <1>0, <1>1 DEF Accept, ReceiveChunk, Refuse, ReceiveEnd, ReceiveDisconnect
<1>2. CASE EndTranscripts(s) \/ CloseNormally(s) \/ CloseAbandoned(s)
    <2>1. ASSUME NEW h, GeneratorEnds(s, h)
          PROVE  handler'[t] = handler[t] /\ stream'[t] = stream[t]
        BY <1>0, <2>1 DEF GeneratorEnds
    <2>2. CASE CloseNormally(s)
        BY <1>0, <2>2 DEF CloseNormally
    <2>3. CASE EndTranscripts(s) \/ CloseAbandoned(s)
        BY <2>1, <2>3 DEF EndTranscripts, CloseAbandoned
    <2>. QED BY <1>2, <2>2, <2>3
<1>3. CASE WriteChunk(s) \/ EndAudio(s) \/ Transcribe(s) \/ StreamEnds(s)
    BY <1>0, <1>3 DEF WriteChunk, EndAudio, Transcribe, StreamEnds, Put
<1>4. CASE StartStream(s) \/ SendTranscript(s)
    BY <1>0, <1>4 DEF StartStream, SendTranscript, ReportFailure
<1>. QED BY <1>1, <1>2, <1>3, <1>4 DEF Task, Remote

(* Any other server is as good to the page.                                *)
LEMMA ServeTyped ==
    ASSUME TypeOK, NEW s \in Sessions, Serve(s)
    PROVE  Serves(s) /\ ChannelsOK /\ handler' = handler /\ stream' = stream
<1>0. /\ up \in [Sessions -> Seq({"chunk", "end"})] /\ down \in [Sessions -> Seq(Message)]
      /\ rec[s] \in Closure
    BY DEF TypeOK, Message
<1>1. rec' = rec /\ active' = active /\ handler' = handler /\ stream' = stream
    BY DEF Serve
<1>2. CASE /\ conn[s] = "requested" /\ conn' = [conn EXCEPT ![s] = "accepted"]
           /\ up' = up /\ down' = down
    BY <1>0, <1>1, <1>2 DEF Serves, ChannelsOK
<1>3. CASE /\ up[s] # <<>> /\ up' = [up EXCEPT ![s] = Tail(@)]
           /\ conn' = conn /\ down' = down
    <2>1. Tail(up[s]) \in Seq({"chunk", "end"})
        BY <1>0, <1>3
    <2>2. up' \in [Sessions -> Seq({"chunk", "end"})]
        BY <1>0, <1>3, <2>1
    <2>. QED BY <1>0, <1>1, <1>3, <2>2 DEF Serves, ChannelsOK
<1>4. ASSUME NEW m \in Message, down' = [down EXCEPT ![s] = <<m>>], conn' = conn, up' = up
      PROVE  Serves(s) /\ ChannelsOK
    <2>1. <<m>> \in Seq(Message)
        OBVIOUS
    <2>2. down' \in [Sessions -> Seq(Message)]
        BY <1>0, <1>4, <2>1
    <2>. QED BY <1>0, <1>1, <1>4, <2>2 DEF Serves, ChannelsOK
<1>5. \A final \in BOOLEAN :
         Transcribed(Len(rec[s].finalizedParts) + 1, final) \in Message
    <2>1. rec[s].finalizedParts \in Seq(Nat)
        BY <1>0 DEF Closure
    <2>2. Len(rec[s].finalizedParts) \in Nat
        BY <2>1
    <2>3. Len(rec[s].finalizedParts) + 1 \in Nat \ {0}
        BY <2>2
    <2>. QED BY <2>3 DEF Transcribed, Transcript, Message
<1>6. CASE /\ conn' = conn /\ up' = up
           /\ \/ \E k \in {"error", "close"} : down' = [down EXCEPT ![s] = <<Signal(k)>>]
              \/ \E final \in BOOLEAN : down' = [down EXCEPT
                     ![s] = <<Transcribed(Len(rec[s].finalizedParts) + 1, final)>>]
    <2>1. \A k \in {"error", "close"} : Signal(k) \in Message
        BY DEF Signal, Message
    <2>2. \E m \in Message : down' = [down EXCEPT ![s] = <<m>>]
        BY <1>5, <1>6, <2>1
    <2>. QED BY <1>1, <1>4, <1>6, <2>2
<1>. QED BY <1>1, <1>2, <1>3, <1>6 DEF Serve

-------------------------------------------------------------------------------
(* The inductive invariant of the whole.                                   *)
Inv ==
    /\ PageInv
    /\ ServerTypeOK
    /\ \A s \in Sessions : Agree(handler[s], stream[s])

LEMMA InitInv == Init => Inv
<1>. SUFFICES ASSUME Init PROVE Inv
    OBVIOUS
<1>. USE DEF Init, ClientInit, ServerInit
<1>1. TypeOK
    <2>1. Unused \in Closure
        BY UnusedFacts
    <2>2. <<>> \in Seq({"chunk", "end"}) /\ <<>> \in Seq(Transcript \cup [kind: {"error", "close"}])
        OBVIOUS
    <2>. QED BY <2>1, <2>2 DEF TypeOK, Connections
<1>2. HeldByActive /\ \A s \in Sessions : FlagsAgree(s)
    BY ClientAssumption DEF HeldByActive, Holds, Live, FlagsAgree, Unused, SetUpSteps
<1>3. ServerTypeOK
    <2>1. handler \in [Sessions -> HandlerState]
        BY HandlerHelpers
    <2>2. NoStream \in StreamState
        BY DEF NoStream, StreamState
    <2>3. stream \in [Sessions -> StreamState]
        BY <2>2
    <2>. QED BY <2>1, <2>3 DEF ServerTypeOK, HandlerState, StreamState
<1>4. \A s \in Sessions : Agree(handler[s], stream[s])
    BY DEF Agree, Idle, NoStream
<1>. QED BY <1>1, <1>2, <1>3, <1>4 DEF Inv, PageInv

LEMMA StepInv ==
    ASSUME Inv, [Next]_vars
    PROVE  Inv'
<1>. USE DEF Inv
<1>1. CASE UNCHANGED vars
    BY <1>1 DEF vars, clientVars, serverVars, PageInv, TypeOK, HeldByActive, Holds, Live,
        FlagsAgree, ServerTypeOK, Agree, Ended
<1>2. ASSUME NEW s \in Sessions, ClientStep(s), UNCHANGED serverVars
      PROVE  Inv'
    <2>1. handler' = handler /\ stream' = stream
        BY <1>2 DEF serverVars
    <2>2. ServerTypeOK' /\ \A t \in Sessions : Agree(handler[t], stream[t])'
        BY <2>1 DEF ServerTypeOK, Agree, Ended
    <2>. QED BY <1>2, <2>2, ClientKeepsPage
<1>3. ASSUME NEW s \in Sessions, Task(s) \/ Remote(s)
      PROVE  Inv'
    <2>1. TypeOK /\ ServerTyped /\ Serves(s)
        BY <1>3, TasksTyped, TasksServe DEF PageInv
    <2>2. PageInv'
        BY <2>1, ServesKeepsPage DEF ServerTyped
    <2>3. ServerTypeOK'
        BY <2>1 DEF ServerTyped, ServerTypeOK, HandlerState, StreamState
    <2>4. ASSUME NEW t \in Sessions PROVE Agree(handler[t], stream[t])'
        <3>1. CASE t = s
            BY <1>3, <3>1, TasksKeepAgree
        <3>2. CASE t # s
            <4>1. handler'[t] = handler[t] /\ stream'[t] = stream[t]
                BY <1>3, <3>2, TasksLeaveOthers
            <4>. QED BY <4>1
        <3>. QED BY <3>1, <3>2
    <2>. QED BY <2>2, <2>3, <2>4
<1>4. ASSUME NEW s \in Sessions, Serve(s)
      PROVE  Inv'
    <2>1. Serves(s) /\ ChannelsOK /\ handler' = handler /\ stream' = stream
        BY <1>4, ServeTyped DEF PageInv
    <2>2. ServerTypeOK' /\ \A t \in Sessions : Agree(handler[t], stream[t])'
        BY <2>1 DEF ServerTypeOK, Agree, Ended
    <2>. QED BY <2>1, <2>2, ServesKeepsPage
<1>. QED BY <1>1, <1>2, <1>3, <1>4 DEF Next, Step

LEMMA Invariant == Spec => []Inv
BY InitInv, StepInv, PTL DEF Spec

(* The inductive invariant of a page, for any number of recordings and any *)
(* servers: types, who holds the microphone, and the flags that agree with *)
(* it (lib/voice.ts, startLiveTranscription).                              *)
THEOREM PageInvariance == Spec => []PageInv
BY Invariant, PTL DEF Inv

(* What holds the microphone, a socket or a timer is what                  *)
(* cancelActiveSession would end (lib/voice.ts 138-156).                   *)
THEOREM OneHolder == Spec => []HeldByActive
BY Invariant, PTL DEF Inv, PageInv

(* The tasks of every handler agree on how far a transcription has got     *)
(* (main.py transcribe_endpoint, voice.py transcribe).                     *)
THEOREM HandlersAgree == Spec => []HandlerInv
<1>1. Inv => HandlerInv
    BY DEF Inv, HandlerInv, TasksAgree, Agree, Ended
<1>. QED BY <1>1, Invariant, PTL

-------------------------------------------------------------------------------
(* Refinement: what lib/voice.ts promises of the microphone.               *)
Capturing == {s \in Sessions : Live(s)}
Begun == {s \in Sessions : rec[s].phase # "unused"}
Told == [s \in Sessions |-> rec[s].calls]

(* Only the active recording can be capturing.                             *)
LEMMA CapturingHolder ==
    ASSUME HeldByActive
    PROVE  Capturing \subseteq {active}
BY DEF HeldByActive, Holds, Capturing

(* A step that leaves the mapped variables alone is a stutter of the page.  *)
Same == active' = active /\ Begun' = Begun /\ Told' = Told /\ Capturing' = Capturing

LEMMA SameStutters ==
    ASSUME Same
    PROVE  UNCHANGED Page!vars
BY DEF Same, Page!vars, Begun, Told, Capturing

(* What a step of one recording other than Start changes of the mapping.   *)
LEMMA MappedFacts ==
    ASSUME PageInv, PageInv', NEW s \in Sessions, PageStep(s)
    PROVE  /\ Begun' = Begun
           /\ Told' = [Told EXCEPT ![s] = rec'[s].calls]
           /\ Told[s] = rec[s].calls
           /\ \A t \in Sessions \ {s} : t \in Capturing' <=> t \in Capturing
<1>1. \A t \in Sessions \ {s} : rec'[t] = rec[t]
    BY DEF PageStep, Steps
<1>2. rec[s].phase # "unused" /\ rec'[s].phase # "unused"
    BY DEF PageStep, Quiet, Ends, Captures
<1>3. Begun' = Begun
    BY <1>1, <1>2 DEF Begun
<1>4. Told' = [Told EXCEPT ![s] = rec'[s].calls]
    BY <1>1 DEF Told
<1>5. \A t \in Sessions \ {s} : t \in Capturing' <=> t \in Capturing
    BY <1>1 DEF Capturing, Live
<1>. QED BY <1>3, <1>4, <1>5 DEF Told

LEMMA PageStepRefines ==
    ASSUME PageInv, PageInv', NEW s \in Sessions, PageStep(s)
    PROVE  [Page!Next]_Page!vars
<1>0. /\ Capturing \subseteq {active} /\ Capturing' \subseteq {active'}
      /\ FlagsAgree(s) /\ NoSession # s /\ NoSession \notin Sessions
      /\ Capturing \subseteq Sessions /\ Capturing' \subseteq Sessions
    <2>1. Capturing \subseteq {active}
        BY CapturingHolder DEF PageInv
    <2>2. Capturing' \subseteq {active'}
        BY DEF PageInv, HeldByActive, Holds, Capturing
    <2>. QED BY <2>1, <2>2, RecordingFacts, ClientAssumption DEF Capturing
<1>1. /\ Begun' = Begun /\ Told' = [Told EXCEPT ![s] = rec'[s].calls]
      /\ Told[s] = rec[s].calls
      /\ \A t \in Sessions \ {s} : t \in Capturing' <=> t \in Capturing
    BY MappedFacts
<1>2. ASSUME active' = active, Told' = Told, Capturing' = {}
      PROVE  Page!Quieten
    BY <1>1, <1>2 DEF Page!Quieten, Begun, Told, Capturing
<1>3. rec'[s].calls = rec[s].calls => Told' = Told
    BY <1>1 DEF Told
<1>4. CASE Quiet(s)
    <2>1. Told' = Told /\ active' = active /\ (Live(s)' => Live(s))
        BY <1>3, <1>4 DEF Quiet
    <2>2. Capturing' \subseteq Capturing
        BY <1>1, <2>1 DEF Capturing
    <2>3. CASE Capturing' = {}
        BY <1>2, <2>1, <2>3 DEF Page!Next
    <2>4. CASE Capturing' # {}
        <3>1. Capturing' = Capturing
            BY <1>0, <2>2, <2>4
        <3>. QED BY <1>1, <2>1, <3>1, SameStutters DEF Same
    <2>. QED BY <2>3, <2>4
<1>5. CASE Captures(s)
    <2>1. Told' = Told /\ active' = active /\ active = s
        BY <1>3, <1>5 DEF Captures
    <2>2. CASE Capturing' = {}
        BY <1>2, <2>1, <2>2 DEF Page!Next
    <2>3. CASE Capturing' # {}
        <3>1. Capturing' = {s}
            BY <1>0, <2>1, <2>3
        <3>2. Page!Capture(s)
            BY <1>1, <2>1, <3>1 DEF Page!Capture, Begun, Told, Capturing
        <3>. QED BY <3>2 DEF Page!Next
    <2>. QED BY <2>2, <2>3
<1>6. CASE Ends(s)
    <2>1. active' = GivenUpBy(s) /\ ~Live(s)'
        BY <1>6 DEF Ends
    <2>2. CASE active = s
        <3>1. active' = NoSession /\ Told[s] = <<>>
            BY <1>0, <1>1, <2>1, <2>2 DEF GivenUpBy, FlagsAgree
        <3>2. Capturing' = {}
            BY <1>0, <3>1
        <3>3. Told' = Told \/ \E o \in Page!Outcomes : Told' = [Told EXCEPT ![s] = <<o>>]
            BY <1>1, <1>3, <1>6 DEF Ends, Page!Outcomes
        <3>4. Page!Release(s)
            BY <1>1, <2>2, <3>1, <3>2, <3>3 DEF Page!Release, Begun, Told, Capturing
        <3>. QED BY <3>4 DEF Page!Next
    <2>3. CASE active # s
        <3>1. active' = active /\ Told' = Told
            BY <1>3, <1>6, <2>1, <2>3 DEF Ends, GivenUpBy
        <3>2. s \notin Capturing /\ s \notin Capturing'
            BY <1>0, <2>1, <2>3 DEF Capturing
        <3>3. Capturing' = Capturing
            BY <1>0, <1>1, <3>2
        <3>. QED BY <1>1, <3>1, <3>3, SameStutters DEF Same
    <2>. QED BY <2>2, <2>3
<1>. QED BY <1>4, <1>5, <1>6 DEF PageStep

LEMMA StartRefines ==
    ASSUME PageInv, NEW s \in Sessions, Start(s)
    PROVE  Page!Next
<1>1. /\ active' = s /\ rec[s].phase = "unused" /\ rec'[s].phase = "microphone"
      /\ rec'[s].calls = rec[s].calls
      /\ \A t \in Sessions \ {s} : rec'[t].phase = rec[t].phase /\ rec'[t].calls = rec[t].calls
      /\ \A t \in Sessions : ~Live(t)'
    <2>. DEFINE asked == [Unused EXCEPT !.phase = "microphone", !.mic = "asked"]
    <2>1. /\ active' = s /\ rec[s].phase = "unused" /\ rec'[s] = asked /\ rec[s] = Unused
          /\ \A t \in Sessions \ {s} :
                rec'[t].phase = rec[t].phase /\ rec'[t].calls = rec[t].calls
          /\ \A t \in Sessions : ~Live(t)'
        BY StartPage
    <2>2. asked.phase = "microphone" /\ asked.calls = Unused.calls
        BY DEF Unused
    <2>. HIDE DEF asked
    <2>. QED BY <2>1, <2>2
<1>2. s \notin Begun /\ Begun' = Begun \cup {s}
    BY <1>1 DEF Begun
<1>3. Told' = Told
    <2>1. \A t \in Sessions : rec'[t].calls = rec[t].calls
        BY <1>1
    <2>. QED BY <2>1 DEF Told
<1>4. Capturing' = {}
    BY <1>1 DEF Capturing
<1>5. Page!Claim(s)
    BY <1>1, <1>2, <1>3, <1>4 DEF Page!Claim, Begun, Told, Capturing
<1>. QED BY <1>5 DEF Page!Next

LEMMA StepRefines ==
    ASSUME Inv, Inv', [Next]_vars
    PROVE  [Page!Next]_Page!vars
<1>1. ASSUME rec' = rec, active' = active
      PROVE  [Page!Next]_Page!vars
    BY <1>1, SameStutters DEF Same, Begun, Told, Capturing, Live
<1>2. CASE UNCHANGED vars
    BY <1>1, <1>2 DEF vars, clientVars
<1>3. ASSUME NEW s \in Sessions, ClientStep(s)
      PROVE  [Page!Next]_Page!vars
    <2>1. CASE Start(s)
        BY <2>1, StartRefines DEF Inv
    <2>2. CASE ~Start(s)
        BY <1>3, <2>2, ClientPage, PageStepRefines DEF Inv
    <2>. QED BY <2>1, <2>2
<1>4. ASSUME NEW s \in Sessions, Task(s) \/ Remote(s)
      PROVE  [Page!Next]_Page!vars
    <2>1. Serves(s)
        BY <1>4, TasksServe
    <2>. QED BY <1>1, <2>1 DEF Serves
<1>5. ASSUME NEW s \in Sessions, Serve(s)
      PROVE  [Page!Next]_Page!vars
    <2>1. rec' = rec /\ active' = active
        BY <1>5 DEF Serve
    <2>. QED BY <1>1, <2>1
<1>. QED BY <1>2, <1>3, <1>4, <1>5 DEF Next, Step

(* Whatever its servers and its visitor do, a page keeps the promise of    *)
(* lib/voice.ts: one holder of the microphone, silence for everybody else, *)
(* at most one outcome for a recording, and only as it lets go.            *)
THEOREM PageImplementsMicrophone == Spec => ImplementsMicrophone
<1>1. Init => Page!Init
    BY DEF Init, ClientInit, Page!Init, Live, Unused
<1>2. Inv /\ Inv' /\ [Next]_vars => [Page!Next]_Page!vars
    BY StepRefines
<1>. QED BY <1>1, <1>2, Invariant, PTL DEF Spec, ImplementsMicrophone, Page!Spec

-------------------------------------------------------------------------------
(* Nothing is lost between Transcribe and the visitor.  What a stream says *)
(* is counted message by message: of every segment first the partial, then *)
(* the final transcript.                                                   *)
IsNth(m, n) == m.kind = "transcript" /\ n = 2 * m.segment - (IF m.final THEN 0 ELSE 1)

HeardCount(r) == 2 * Len(r.finalizedParts) + (IF r.currentPartial = 0 THEN 0 ELSE 1)
SaidCount(x) == 2 * x.segment - (IF x.partial THEN 1 ELSE 0)

(* What waits in the adapter's queue, before its None.                     *)
Waiting(h) ==
    Len(h.transcripts) - (IF h.reader = "done" /\ h.transcripts # <<>> THEN 1 ELSE 0)

HeardWell(r) ==
    /\ \A i \in 1..Len(r.finalizedParts) : r.finalizedParts[i] = i
    /\ r.currentPartial \in {0, Len(r.finalizedParts) + 1}

(* A closure has a connection only from its third step, and nothing to say *)
(* or to hear before that is open.                                         *)
Connects(r, c, u, d) ==
    /\ r.phase \in {"unused", "microphone", "worklet"} => c = "none"
    /\ r.phase = "socket" => c \in {"requested", "accepted"}
    /\ c = "cut" => r.heldSocket
    /\ c \in {"none", "requested", "accepted"} =>
          /\ ~r.heldSocket /\ ~r.stopping /\ r.spoken = 0
          /\ r.finalizedParts = <<>> /\ r.currentPartial = 0 /\ u = <<>>
    /\ c \in {"none", "requested"} => d = <<>>

(* Until the server closes the socket: the messages under way continue     *)
(* what was heard, those that wait continue them, and nothing is missing.  *)
Continues(r, d, h, x) ==
    /\ \A i \in 1..Len(d) : d[i].kind = "transcript"
    /\ \A i \in 1..Waiting(h) : IsNth(h.transcripts[i], HeardCount(r) + Len(d) + i)
    /\ HeardCount(r) + Len(d) + Waiting(h) = SaidCount(x)

(* And what is spoken is under way, counted, and queued or fed.            *)
Keeps(r, u, h, x) ==
    /\ \A i \in 1..Len(u) : u[i] = "end" => i = Len(u) /\ r.stopping
    /\ h.receiver = "running" =>
          /\ r.stopping => u # <<>> /\ u[Len(u)] = "end"
          /\ h.total + Len(u) = r.spoken + (IF r.stopping THEN 1 ELSE 0)
          /\ ~h.audioEnded
    /\ h.receiver = "done" => u = <<>> /\ r.stopping /\ h.total = r.spoken
    /\ x.failed \/ h.total = h.queued + x.fed
    /\ x.state \in {"ended", "over"} => x.failed \/ (h.queued = 0 /\ h.receiver = "done")

(* What the tasks are at while the socket is neither closed nor left.      *)
Serving(h, x) ==
    /\ h.main \in {"starting", "sending", "closing"} /\ h.receiver \in {"running", "done"}
    /\ ~h.disconnected
    /\ h.main = "starting" => x = NoStream /\ h.transcripts = <<>> /\ h.reader = "off"
    /\ h.main # "starting" => h.reader \in {"running", "done"}
    /\ h.reader = "done" => x.state = "over"
    /\ h.main = "closing" => h.reader = "done" /\ h.transcripts = <<>>

(* n messages are all there is, and all sound went into them.              *)
Whole(n, r, h, x) ==
    /\ h.main \in {"done", "escaped"} /\ h.reader = "done" /\ x.state = "over"
    /\ n = SaidCount(x)
    /\ x.failed \/ (r.stopping /\ x.fed = r.spoken)

Flows(r, c, u, d, h, x) ==
    /\ c \in {"none", "requested"} => h = Idle /\ x = NoStream
    /\ c \in {"accepted", "open"} =>
          /\ \A i \in 1..Len(d) : d[i].kind = "transcript" => IsNth(d[i], HeardCount(r) + i)
          /\ \A i \in 1..Len(d) : d[i].kind = "close" =>
                (i > 1 /\ d[i - 1].kind = "error") \/ Whole(HeardCount(r) + i - 1, r, h, x)
          /\ h.closed => h.receiver = "done"
          /\ ~h.closed => Serving(h, x) /\ Continues(r, d, h, x) /\ Keeps(r, u, h, x)
    /\ r.calls = <<"done">> /\ ~r.late /\ c # "cut" =>
          c = "closed" /\ Whole(HeardCount(r), r, h, x)

(* Any other server says one thing at a time, about the next segment.      *)
Follows(r, d) ==
    /\ Len(d) \in {0, 1}
    /\ d # <<>> /\ d[1].kind = "transcript" => d[1].segment = Len(r.finalizedParts) + 1

Flowing(s) ==
    /\ HeardWell(rec[s])
    /\ Connects(rec[s], conn[s], up[s], down[s])
    /\ s \in Detailed => Flows(rec[s], conn[s], up[s], down[s], handler[s], stream[s])
    /\ s \notin Detailed => Follows(rec[s], down[s])

FlowInv == \A s \in Sessions : Flowing(s)


(* Counting what is heard, for any closure.                                *)
LEMMA Counts ==
    ASSUME NEW r \in Closure, HeardWell(r)
    PROVE  /\ Len(r.finalizedParts) \in Nat /\ HeardCount(r) \in Nat
           /\ r.spoken \in Nat /\ r.currentPartial \in Nat
           /\ r.currentPartial = 0 => HeardCount(r) = 2 * Len(r.finalizedParts)
           /\ r.currentPartial # 0 => HeardCount(r) = 2 * Len(r.finalizedParts) + 1
<1>. DEFINE n == Len(r.finalizedParts)
<1>1. r.finalizedParts \in Seq(Nat) /\ r.spoken \in Nat /\ r.currentPartial \in Nat
    BY DEF Closure
<1>2. n \in Nat
    BY <1>1
<1>3. HeardCount(r) = 2 * n + (IF r.currentPartial = 0 THEN 0 ELSE 1)
    BY DEF HeardCount
<1>. HIDE DEF n
<1>4. r.currentPartial = 0 => HeardCount(r) = 2 * n
    BY <1>2, <1>3
<1>5. r.currentPartial # 0 => HeardCount(r) = 2 * n + 1
    BY <1>2, <1>3
<1>6. HeardCount(r) \in Nat
    BY <1>2, <1>4, <1>5
<1>. QED BY <1>1, <1>2, <1>4, <1>5, <1>6 DEF n

LEMMA NextIsNext ==
    ASSUME NEW r \in Closure, HeardWell(r), NEW m \in Transcript, IsNth(m, HeardCount(r) + 1)
    PROVE  /\ m.segment = Len(r.finalizedParts) + 1
           /\ m.final <=> r.currentPartial # 0
<1>. DEFINE n == Len(r.finalizedParts)
            k == m.segment
<1>1. n \in Nat /\ k \in Nat /\ m.final \in BOOLEAN
    BY Counts DEF Transcript
<1>2. /\ m.final => HeardCount(r) + 1 = 2 * k
      /\ ~m.final => HeardCount(r) + 1 = 2 * k - 1
    BY <1>1 DEF IsNth
<1>3. /\ r.currentPartial = 0 => HeardCount(r) = 2 * n
      /\ r.currentPartial # 0 => HeardCount(r) = 2 * n + 1
    BY Counts
<1>. HIDE DEF n, k
<1>4. CASE r.currentPartial = 0
    <2>1. k = n + 1 /\ ~m.final
        BY <1>1, <1>2, <1>3, <1>4
    <2>. QED BY <1>4, <2>1 DEF n, k
<1>5. CASE r.currentPartial # 0
    <2>1. k = n + 1 /\ m.final
        BY <1>1, <1>2, <1>3, <1>5
    <2>. QED BY <1>5, <2>1 DEF n, k
<1>. QED BY <1>4, <1>5

(* Hearing of the next segment leaves what is heard in order, and hearing  *)
(* the next message counts one.                                            *)
LEMMA HearingKeeps ==
    ASSUME NEW r \in Closure, HeardWell(r), NEW m \in Transcript,
           m.segment = Len(r.finalizedParts) + 1, NEW q \in Closure,
           q.finalizedParts = IF m.final THEN Append(r.finalizedParts, m.segment)
                              ELSE r.finalizedParts,
           q.currentPartial = IF m.final THEN 0 ELSE m.segment
    PROVE  /\ HeardWell(q)
           /\ IsNth(m, HeardCount(r) + 1) => HeardCount(q) = HeardCount(r) + 1
<1>1. Len(r.finalizedParts) \in Nat /\ r.finalizedParts \in Seq(Nat) /\ m.segment \in Nat
      /\ m.final \in BOOLEAN /\ m.segment # 0
    BY Counts DEF Closure, Transcript
<1>2. CASE m.final
    <2>1. /\ Len(q.finalizedParts) = Len(r.finalizedParts) + 1 /\ q.currentPartial = 0
          /\ q.finalizedParts[Len(r.finalizedParts) + 1] = m.segment
          /\ \A i \in 1..Len(r.finalizedParts) : q.finalizedParts[i] = r.finalizedParts[i]
        BY <1>1, <1>2
    <2>2. HeardWell(q)
        BY <1>1, <2>1 DEF HeardWell
    <2>3. ASSUME IsNth(m, HeardCount(r) + 1) PROVE HeardCount(q) = HeardCount(r) + 1
        <3>1. r.currentPartial # 0
            BY <1>2, <2>3, NextIsNext
        <3>. DEFINE n == Len(r.finalizedParts)
        <3>2. HeardCount(r) = 2 * n + 1
            BY <3>1, Counts
        <3>3. HeardCount(q) = 2 * Len(q.finalizedParts)
            BY <2>1, <2>2, Counts
        <3>4. Len(q.finalizedParts) = n + 1 /\ n \in Nat
            BY <1>1, <2>1
        <3>5. HeardCount(q) = 2 * (n + 1)
            BY <3>3, <3>4
        <3>. HIDE DEF n
        <3>. QED BY <3>2, <3>4, <3>5
    <2>. QED BY <2>2, <2>3
<1>3. CASE ~m.final
    <2>1. q.finalizedParts = r.finalizedParts /\ q.currentPartial = m.segment
        BY <1>3
    <2>2. HeardWell(q)
        BY <1>1, <2>1 DEF HeardWell
    <2>3. ASSUME IsNth(m, HeardCount(r) + 1) PROVE HeardCount(q) = HeardCount(r) + 1
        <3>1. r.currentPartial = 0
            BY <1>3, <2>3, NextIsNext
        <3>. QED BY <1>1, <2>1, <2>2, <3>1, Counts
    <2>. QED BY <2>2, <2>3
<1>. QED BY <1>2, <1>3

(* What counts of a closure: two that agree on it are the same to a flow.  *)
SameFlow(q, r) ==
    /\ q.heldSocket = r.heldSocket /\ q.stopping = r.stopping /\ q.spoken = r.spoken
    /\ q.finalizedParts = r.finalizedParts /\ q.currentPartial = r.currentPartial
    /\ q.late = r.late /\ q.calls = r.calls

LEMMA SameFlowKeeps ==
    ASSUME NEW r, NEW q, SameFlow(q, r), NEW c, NEW u, NEW d, NEW h, NEW x
    PROVE  /\ HeardWell(r) => HeardWell(q)
           /\ Flows(r, c, u, d, h, x) => Flows(q, c, u, d, h, x)
           /\ Follows(r, d) => Follows(q, d)
<1>. USE DEF SameFlow
<1>1. HeardCount(q) = HeardCount(r) /\ (HeardWell(r) => HeardWell(q))
    BY DEF HeardCount, HeardWell
<1>2. /\ Keeps(r, u, h, x) => Keeps(q, u, h, x)
      /\ Continues(r, d, h, x) => Continues(q, d, h, x)
      /\ \A n : Whole(n, r, h, x) => Whole(n, q, h, x)
    BY <1>1 DEF Keeps, Continues, Whole
<1>3. Flows(r, c, u, d, h, x) => Flows(q, c, u, d, h, x)
    BY <1>1, <1>2 DEF Flows
<1>. QED BY <1>1, <1>3 DEF Follows

(* When the browser's side is closed or cut, only what was told remains.   *)
LEMMA LeftFlows ==
    ASSUME NEW r, NEW c \in {"closed", "cut"}, NEW u, NEW d, NEW h, NEW x,
           r.calls = <<"done">> /\ ~r.late /\ c # "cut" => Whole(HeardCount(r), r, h, x)
    PROVE  Flows(r, c, u, d, h, x)
BY DEF Flows

LEMMA FollowsLess ==
    ASSUME NEW r, NEW q, NEW d \in Seq(Message), Follows(r, d),
           q.finalizedParts = r.finalizedParts,
           NEW e, e \in {d, <<>>} \/ (d # <<>> /\ e = Tail(d))
    PROVE  Follows(q, e)
<1>1. CASE e = d
    BY <1>1 DEF Follows
<1>2. CASE d # <<>> /\ e = Tail(d)
    <2>1. d # <<>> /\ Len(d) \in {0, 1}
        BY <1>2 DEF Follows
    <2>2. Len(d) # 0
        BY <2>1, EmptySeq
    <2>3. Len(Tail(d)) = 0 /\ Tail(d) \in Seq(Message)
        BY <2>1, <2>2
    <2>4. e = <<>>
        BY <1>2, <2>3, EmptySeq
    <2>. QED BY <2>3, <1>2, <2>4 DEF Follows
<1>3. CASE e = <<>>
    BY <1>3 DEF Follows
<1>. QED BY <1>1, <1>2, <1>3

-------------------------------------------------------------------------------
(* The browser's own steps.                                                *)
LEMMA TornDownSame ==
    ASSUME NEW r \in Closure
    PROVE  SameFlow(TornDown(r), r)
BY DEF TornDown, Closure, SameFlow

LEMMA CancelledSame ==
    ASSUME NEW r \in Closure
    PROVE  SameFlow(Cancelled(r), r)
<1>1. CASE r.settled
    BY <1>1 DEF Cancelled, Closure, SameFlow
<1>2. CASE ~r.settled
    <2>. DEFINE q == [r EXCEPT !.cancelled = TRUE, !.settled = TRUE]
    <2>1. q \in Closure /\ SameFlow(q, r)
        BY DEF Closure, SameFlow
    <2>2. Cancelled(r) = TornDown(q)
        BY <1>2 DEF Cancelled
    <2>. HIDE DEF q
    <2>. QED BY <2>1, <2>2, TornDownSame DEF SameFlow
<1>. QED BY <1>1, <1>2

(* A closure that changes in nothing that counts.                          *)
LEMMA CalmKeeps ==
    ASSUME NEW s \in Sessions, Flowing(s), SameFlow(rec'[s], rec[s]),
           conn'[s] = conn[s], up'[s] = up[s], down'[s] = down[s],
           handler'[s] = handler[s], stream'[s] = stream[s],
           \/ rec'[s].phase = rec[s].phase \/ rec'[s].phase \in {"recording", "thrown"}
           \/ rec'[s].phase \in {"unused", "microphone", "worklet"} /\ conn[s] = "none"
    PROVE  Flowing(s)'
<1>1. Connects(rec'[s], conn'[s], up'[s], down'[s])
    BY DEF Connects, SameFlow, Flowing
<1>. QED BY <1>1, SameFlowKeeps DEF Flowing

(* A socket that the browser closes, or that is cut.                       *)
LEMMA LeavingKeeps ==
    ASSUME TypeOK, NEW s \in Sessions, Flowing(s),
           rec'[s].finalizedParts = rec[s].finalizedParts,
           rec'[s].currentPartial = rec[s].currentPartial,
           rec'[s].phase \in {"recording", "thrown"},
           conn'[s] \in {"closed", "cut"}, conn'[s] = "cut" => rec'[s].heldSocket,
           \/ down'[s] \in {down[s], <<>>} \/ (down[s] # <<>> /\ down'[s] = Tail(down[s])),
           handler'[s] = handler[s], stream'[s] = stream[s],
           /\ s \in Detailed /\ rec'[s].calls = <<"done">> /\ ~rec'[s].late
           /\ conn'[s] = "closed"
           => Whole(HeardCount(rec[s]), rec'[s], handler[s], stream[s])
    PROVE  Flowing(s)'
<1>1. HeardWell(rec'[s]) /\ HeardCount(rec'[s]) = HeardCount(rec[s])
    BY DEF Flowing, HeardWell, HeardCount
<1>2. Connects(rec'[s], conn'[s], up'[s], down'[s])
    BY DEF Connects
<1>3. s \in Detailed =>
         Flows(rec'[s], conn'[s], up'[s], down'[s], handler'[s], stream'[s])
    BY <1>1, LeftFlows
<1>4. s \notin Detailed => Follows(rec'[s], down'[s])
    <2>1. down[s] \in Seq(Message)
        BY DEF TypeOK, Message
    <2>2. s \notin Detailed => Follows(rec[s], down[s])
        BY DEF Flowing
    <2>. QED BY <2>1, <2>2, FollowsLess
<1>. QED BY <1>1, <1>2, <1>3, <1>4 DEF Flowing

(* What was told when the connection had not been closed.                  *)
LEMMA NotTold ==
    ASSUME NEW s \in Sessions, Flowing(s), s \in Detailed, rec[s].calls = <<"done">>, ~rec[s].late,
           conn[s] # "cut"
    PROVE  conn[s] = "closed" /\ Whole(HeardCount(rec[s]), rec[s], handler[s], stream[s])
BY DEF Flowing, Flows

LEMMA WholeSame ==
    ASSUME NEW r, NEW q, SameFlow(q, r), NEW n, NEW h, NEW x, Whole(n, r, h, x)
    PROVE  Whole(n, q, h, x)
BY DEF Whole, SameFlow

(* Set-up, and what comes late.                                            *)
LEMMA SetUpFlow ==
    ASSUME PageInv, NEW s \in Sessions, Flowing(s), SetUp(s) \/ GrantLate(s) \/ OpenLate(s),
           handler'[s] = handler[s], stream'[s] = stream[s]
    PROVE  Flowing(s)'
<1>. DEFINE r == rec[s]
<1>0. /\ rec \in [Sessions -> Closure] /\ conn \in [Sessions -> Connections]
      /\ r \in Closure /\ FlagsAgree(s) /\ TypeOK
    BY DEF PageInv, TypeOK
<1>c. Connects(r, conn[s], up[s], down[s])
    BY DEF Flowing
<1>u. up' = up /\ down' = down
    BY DEF SetUp, GrantMicrophone, LoadWorklet, OpenSocket, SetUpFails, GrantLate, OpenLate
<1>1. ASSUME NEW q \in Closure, SameFlow(q, r), Throw(s, q),
             conn'[s] = conn[s] \/ conn'[s] = "closed", conn[s] # "cut"
      PROVE  Flowing(s)'
    <2>. DEFINE p == [q EXCEPT !.phase = "thrown"]
    <2>1. p \in Closure /\ p.phase = "thrown" /\ SameFlow(p, r)
        BY <1>1 DEF Closure, SameFlow
    <2>2. rec'[s] = TornDown(p)
        BY <1>0, <1>1 DEF Throw
    <2>. HIDE DEF p
    <2>3. rec'[s].phase = "thrown" /\ SameFlow(rec'[s], r)
        BY <2>1, <2>2, TornDownFacts, TornDownSame DEF SameFlow
    <2>4. CASE conn'[s] = conn[s]
        BY <1>u, <2>3, <2>4, CalmKeeps
    <2>5. CASE conn'[s] = "closed"
        <3>1. ASSUME s \in Detailed, rec'[s].calls = <<"done">>, ~rec'[s].late
              PROVE  Whole(HeardCount(r), rec'[s], handler[s], stream[s])
            <4>1. Whole(HeardCount(r), r, handler[s], stream[s])
                BY <1>1, <2>3, <3>1, NotTold DEF SameFlow
            <4>. QED BY <2>3, <4>1, WholeSame
        <3>. QED BY <1>0, <1>u, <2>3, <2>5, <3>1, LeavingKeeps DEF SameFlow
    <2>. QED BY <1>1, <2>4, <2>5
<1>2. CASE GrantMicrophone(s)
    <2>. DEFINE q == [r EXCEPT !.mic = "live"]
    <2>1. q \in Closure /\ SameFlow(q, r)
        BY <1>0 DEF Closure, SameFlow
    <2>2. conn'[s] = conn[s] /\ conn[s] = "none"
        BY <1>2, <1>c DEF GrantMicrophone, Connects
    <2>3. CASE Throw(s, q)
        BY <1>1, <2>1, <2>2, <2>3
    <2>4. CASE rec' = [rec EXCEPT ![s] = [q EXCEPT !.phase = "worklet"]]
        <3>1. rec'[s].phase = "worklet" /\ SameFlow(rec'[s], r)
            BY <1>0, <2>1, <2>4 DEF Closure, SameFlow
        <3>. QED BY <1>u, <2>2, <3>1, CalmKeeps
    <2>. QED BY <1>2, <2>3, <2>4 DEF GrantMicrophone
<1>3. CASE LoadWorklet(s)
    <2>2. conn[s] = "none" /\ r.phase = "worklet"
        BY <1>3, <1>c DEF LoadWorklet, Connects
    <2>3. CASE Throw(s, r) /\ conn' = conn
        BY <1>0, <1>1, <2>2, <2>3 DEF SameFlow
    <2>4. CASE rec' = [rec EXCEPT ![s].phase = "socket"] /\ conn' = [conn EXCEPT ![s] = "requested"]
        <3>1. rec'[s] = [r EXCEPT !.phase = "socket"] /\ conn'[s] = "requested"
            BY <1>0, <2>4
        <3>2. rec'[s].phase = "socket" /\ SameFlow(rec'[s], r)
            BY <1>0, <3>1 DEF Closure, SameFlow
        <3>3. Connects(rec'[s], "requested", up[s], down[s])
            BY <1>c, <2>2, <3>2 DEF Connects, SameFlow
        <3>4. s \in Detailed => Flows(r, "requested", up[s], down[s], handler[s], stream[s])
            <4>1. s \in Detailed => Flows(r, "none", up[s], down[s], handler[s], stream[s])
                BY <2>2 DEF Flowing
            <4>. QED BY <4>1 DEF Flows
        <3>. QED BY <1>u, <3>1, <3>2, <3>3, <3>4, SameFlowKeeps DEF Flowing
    <2>. QED BY <1>3, <2>3, <2>4 DEF LoadWorklet
<1>4. CASE OpenSocket(s)
    <2>. DEFINE q == [r EXCEPT !.heldSocket = TRUE]
    <2>2. conn[s] = "accepted" /\ r.phase = "socket" /\ ~r.heldSocket
        BY <1>4, <1>c DEF OpenSocket, Connects
    <2>1. /\ q \in Closure /\ q.heldSocket /\ SameFlow([q EXCEPT !.heldSocket = FALSE], r)
          /\ q.cancelled = r.cancelled /\ q.calls = r.calls /\ q.late = r.late
          /\ q.stopping = r.stopping /\ q.spoken = r.spoken
          /\ q.finalizedParts = r.finalizedParts /\ q.currentPartial = r.currentPartial
        BY <1>0, <2>2 DEF Closure, SameFlow
    <2>3. CASE Throw(s, q) /\ conn' = [conn EXCEPT ![s] = "closed"]
        <3>. DEFINE p == [q EXCEPT !.phase = "thrown"]
        <3>1. p \in Closure /\ p.phase = "thrown" /\ SameFlow(p, q)
            BY <2>1 DEF Closure, SameFlow
        <3>2. rec'[s] = TornDown(p)
            BY <1>0, <2>3 DEF Throw
        <3>. HIDE DEF p, q
        <3>3. rec'[s].phase = "thrown" /\ SameFlow(rec'[s], q)
            BY <3>1, <3>2, TornDownFacts, TornDownSame DEF SameFlow
        <3>4. conn'[s] = "closed"
            BY <1>0, <2>3
        <3>5. ASSUME s \in Detailed, rec'[s].calls = <<"done">>, ~rec'[s].late PROVE FALSE
            BY <2>1, <2>2, <3>3, <3>5, NotTold DEF SameFlow
        <3>. QED BY <1>0, <1>u, <2>1, <3>3, <3>4, <3>5, LeavingKeeps DEF SameFlow
    <2>4. CASE /\ \/ rec' = [rec EXCEPT ![s] = [q EXCEPT !.phase = "recording", !.timers = {"max"}]]
                  \/ rec' = [rec EXCEPT ![s] = [q EXCEPT !.phase = "thrown"]]
               /\ conn' = [conn EXCEPT ![s] = "open"]
        <3>1. /\ rec'[s] \in {[q EXCEPT !.phase = "recording", !.timers = {"max"}],
                              [q EXCEPT !.phase = "thrown"]}
              /\ conn'[s] = "open"
            BY <1>0, <2>1, <2>4
        <3>. HIDE DEF q
        <3>2. rec'[s].phase \in {"recording", "thrown"} /\ SameFlow(rec'[s], q)
            BY <2>1, <3>1 DEF Closure, SameFlow
        <3>3. Connects(rec'[s], "open", up[s], down[s])
            BY <3>2 DEF Connects
        <3>4. HeardWell(q) /\ HeardCount(q) = HeardCount(r)
            BY <2>1 DEF HeardWell, HeardCount, Flowing
        <3>5. s \in Detailed => Flows(q, "open", up[s], down[s], handler[s], stream[s])
            <4>1. s \in Detailed => Flows(r, "accepted", up[s], down[s], handler[s], stream[s])
                BY <2>2 DEF Flowing
            <4>2. /\ Keeps(r, up[s], handler[s], stream[s]) => Keeps(q, up[s], handler[s], stream[s])
                  /\ Continues(r, down[s], handler[s], stream[s]) =>
                        Continues(q, down[s], handler[s], stream[s])
                  /\ \A n : Whole(n, r, handler[s], stream[s]) => Whole(n, q, handler[s], stream[s])
                BY <2>1, <3>4 DEF Keeps, Continues, Whole
            <4>. QED BY <2>1, <3>4, <4>1, <4>2 DEF Flows
        <3>6. s \notin Detailed => Follows(q, down[s])
            BY <2>1 DEF Flowing, Follows
        <3>. QED BY <1>u, <3>1, <3>2, <3>3, <3>4, <3>5, <3>6, SameFlowKeeps DEF Flowing
    <2>. QED BY <1>4, <2>3, <2>4 DEF OpenSocket
<1>5. CASE SetUpFails(s)
    <2>1. conn[s] # "cut"
        BY <1>5, <1>c, <1>0 DEF SetUpFails, Connects, FlagsAgree, SetUpSteps
    <2>2. PICK refused \in BOOLEAN :
             /\ Throw(s, [r EXCEPT !.mic = IF refused /\ @ = "asked" THEN "none" ELSE @])
             /\ conn' = [conn EXCEPT ![s] = IF refused /\ @ # "none" THEN "closed" ELSE @]
        BY <1>5 DEF SetUpFails
    <2>. DEFINE q == [r EXCEPT !.mic = IF refused /\ @ = "asked" THEN "none" ELSE @]
    <2>3. q \in Closure /\ SameFlow(q, r)
        BY <1>0 DEF Closure, SameFlow
    <2>4. conn'[s] = conn[s] \/ conn'[s] = "closed"
        BY <1>0, <2>2
    <2>. QED BY <1>1, <2>1, <2>2, <2>3, <2>4
<1>6. CASE GrantLate(s)
    <2>1. rec'[s] = [r EXCEPT !.mic = "stopped"] /\ conn' = conn
        BY <1>0, <1>6 DEF GrantLate
    <2>2. rec'[s].phase = r.phase /\ SameFlow(rec'[s], r)
        BY <1>0, <2>1 DEF Closure, SameFlow
    <2>. QED BY <1>u, <2>1, <2>2, CalmKeeps
<1>7. CASE OpenLate(s)
    <2>1. rec' = rec /\ conn'[s] = "closed" /\ conn[s] = "accepted" /\ r.phase = "thrown"
        BY <1>0, <1>7 DEF OpenLate
    <2>2. ASSUME s \in Detailed, rec'[s].calls = <<"done">>, ~rec'[s].late PROVE FALSE
        BY <2>1, <2>2, NotTold
    <2>. QED BY <1>0, <1>u, <2>1, <2>2, LeavingKeeps
<1>. QED BY <1>2, <1>3, <1>4, <1>5, <1>6, <1>7 DEF SetUp

(* A message that is heard moves one from what is under way.               *)
LEMMA HearFlows ==
    ASSUME NEW r \in Closure, NEW q \in Closure, NEW u, NEW d \in Seq(Message),
           NEW h \in HandlerState, NEW x \in StreamState,
           Flows(r, "open", u, d, h, x), HeardWell(r), d # <<>>, d[1].kind = "transcript",
           HeardCount(q) = HeardCount(r) + 1,
           q.spoken = r.spoken, q.stopping = r.stopping, q.late = r.late, q.calls = r.calls
    PROVE  Flows(q, "open", u, Tail(d), h, x)
<1>. DEFINE n == HeardCount(r)
            e == Tail(d)
            w == Waiting(h)
<1>1. /\ Len(d) \in Nat /\ Len(d) > 0 /\ Len(e) = Len(d) - 1
      /\ \A i \in 1..Len(e) : i + 1 \in 1..Len(d) /\ e[i] = d[i + 1]
    BY EmptySeq
<1>2. n \in Nat
    BY Counts
<1>3. /\ \A i \in 1..Len(d) : d[i].kind = "transcript" => IsNth(d[i], n + i)
      /\ \A i \in 1..Len(d) : d[i].kind = "close" =>
            (i > 1 /\ d[i - 1].kind = "error") \/ Whole(n + i - 1, r, h, x)
      /\ h.closed => h.receiver = "done"
      /\ ~h.closed => Serving(h, x) /\ Continues(r, d, h, x) /\ Keeps(r, u, h, x)
      /\ ~(r.calls = <<"done">> /\ ~r.late)
    BY DEF Flows
<1>4. w \in Int
    <2>1. h.transcripts \in Seq(Transcript \cup {None})
        BY HandlerFields
    <2>2. Len(h.transcripts) \in Nat
        BY <2>1
    <2>. QED BY <2>2 DEF Waiting
<1>. HIDE DEF n, e, w
<1>5. ASSUME NEW i \in 1..Len(e), e[i].kind = "transcript" PROVE IsNth(e[i], (n + 1) + i)
    <2>1. IsNth(d[i + 1], n + (i + 1))
        BY <1>1, <1>3, <1>5
    <2>2. n + (i + 1) = (n + 1) + i
        BY <1>1, <1>2
    <2>. QED BY <1>1, <2>1, <2>2
<1>6. ASSUME NEW i \in 1..Len(e), e[i].kind = "close"
      PROVE  (i > 1 /\ e[i - 1].kind = "error") \/ Whole((n + 1) + i - 1, q, h, x)
    <2>1. (i + 1) - 1 = i /\ n + (i + 1) - 1 = (n + 1) + i - 1 /\ i \in Nat
        BY <1>1, <1>2
    <2>2. d[i].kind = "error" \/ Whole(n + (i + 1) - 1, r, h, x)
        BY <1>1, <1>3, <1>6, <2>1
    <2>3. CASE d[i].kind = "error"
        <3>1. i > 1
            BY <1>1, <2>3
        <3>2. i - 1 \in 1..Len(e) /\ (i - 1) + 1 = i
            BY <1>1, <3>1
        <3>. QED BY <1>1, <2>3, <3>1, <3>2
    <2>4. CASE Whole(n + (i + 1) - 1, r, h, x)
        BY <2>1, <2>4 DEF Whole
    <2>. QED BY <2>2, <2>3, <2>4
<1>7. ASSUME ~h.closed PROVE Continues(q, e, h, x) /\ Keeps(q, u, h, x)
    <2>1. Keeps(q, u, h, x)
        BY <1>3, <1>7 DEF Keeps
    <2>2. /\ \A i \in 1..Len(d) : d[i].kind = "transcript"
          /\ \A i \in 1..w : IsNth(h.transcripts[i], n + Len(d) + i)
          /\ n + Len(d) + w = SaidCount(x)
        BY <1>3, <1>7 DEF Continues, n, w
    <2>3. (n + 1) + Len(e) = n + Len(d)
        BY <1>1, <1>2
    <2>4. \A i \in 1..w : IsNth(h.transcripts[i], (n + 1) + Len(e) + i)
        BY <2>2, <2>3
    <2>5. (n + 1) + Len(e) + w = SaidCount(x)
        BY <2>2, <2>3
    <2>6. \A i \in 1..Len(e) : e[i].kind = "transcript"
        BY <1>1, <2>2
    <2>7. HeardCount(q) = n + 1
        BY DEF n
    <2>. QED BY <2>1, <2>4, <2>5, <2>6, <2>7 DEF Continues, w
<1>8. HeardCount(q) = n + 1
    BY DEF n
<1>9. Flows(q, "open", u, e, h, x)
    BY <1>3, <1>5, <1>6, <1>7, <1>8 DEF Flows
<1>. QED BY <1>9 DEF e

LEMMA HearTranscriptFlow ==
    ASSUME PageInv, TypeOK', ServerTypeOK, NEW s \in Sessions, Flowing(s), HearTranscript(s),
           handler'[s] = handler[s], stream'[s] = stream[s]
    PROVE  Flowing(s)'
<1>. DEFINE r == rec[s]
            q == rec'[s]
            d == down[s]
            m == Head(down[s])
<1>0. /\ rec \in [Sessions -> Closure] /\ r \in Closure /\ d \in Seq(Message)
      /\ q \in Closure /\ FlagsAgree(s) /\ down \in [Sessions -> Seq(Message)]
      /\ handler[s] \in HandlerState /\ stream[s] \in StreamState
    BY DEF PageInv, TypeOK, Message, ServerTypeOK, HandlerState, StreamState
<1>1. /\ conn[s] = "open" /\ conn' = conn /\ up' = up /\ d # <<>> /\ m.kind = "transcript"
      /\ down' = [down EXCEPT ![s] = Tail(@)]
      /\ rec' = [rec EXCEPT
             ![s].finalizedParts = IF m.final THEN Append(@, m.segment) ELSE @,
             ![s].currentPartial = IF m.final THEN 0 ELSE m.segment]
    BY <1>0 DEF HearTranscript, Arrives
<1>2. /\ down'[s] = Tail(d) /\ m = d[1] /\ Len(d) \in Nat /\ Len(d) > 0
    BY <1>0, <1>1, EmptySeq
<1>3. m \in Transcript
    <2>1. m \in Message
        BY <1>0, <1>1
    <2>. QED BY <1>1, <2>1 DEF Message
<1>4. /\ q.finalizedParts = IF m.final THEN Append(r.finalizedParts, m.segment)
                            ELSE r.finalizedParts
      /\ q.currentPartial = IF m.final THEN 0 ELSE m.segment
      /\ q.phase = r.phase /\ q.heldSocket = r.heldSocket
      /\ q.spoken = r.spoken /\ q.stopping = r.stopping /\ q.late = r.late /\ q.calls = r.calls
    BY <1>0, <1>1 DEF Closure
<1>. HIDE DEF q, r, m, d
<1>5. HeardWell(r) /\ Connects(r, "open", up[s], d)
    BY <1>1 DEF Flowing, r, d
<1>6. Connects(q, "open", up[s], Tail(d))
    BY <1>4, <1>5 DEF Connects
<1>7. CASE s \in Detailed
    <2>1. Flows(r, "open", up[s], d, handler[s], stream[s])
        BY <1>1, <1>7 DEF Flowing, r, d
    <2>2. IsNth(m, HeardCount(r) + 1)
        <3>1. 1 \in 1..Len(d)
            BY <1>2
        <3>. QED BY <1>1, <1>2, <2>1, <3>1 DEF Flows
    <2>3. m.segment = Len(r.finalizedParts) + 1
        BY <1>0, <1>3, <1>5, <2>2, NextIsNext
    <2>4. HeardWell(q) /\ HeardCount(q) = HeardCount(r) + 1
        BY <1>0, <1>3, <1>4, <1>5, <2>2, <2>3, HearingKeeps
    <2>5. Flows(q, "open", up[s], Tail(d), handler[s], stream[s])
        BY <1>0, <1>1, <1>2, <1>4, <1>5, <2>1, <2>4, HearFlows
    <2>. QED BY <1>1, <1>2, <1>6, <1>7, <2>4, <2>5 DEF Flowing, q
<1>8. CASE s \notin Detailed
    <2>1. Follows(r, d)
        BY <1>8 DEF Flowing, r, d
    <2>2. m.segment = Len(r.finalizedParts) + 1
        BY <1>1, <1>2, <2>1 DEF Follows
    <2>3. HeardWell(q)
        BY <1>0, <1>3, <1>4, <1>5, <2>2, HearingKeeps
    <2>4. Tail(d) = <<>>
        <3>1. Len(d) = 1
            BY <1>2, <2>1 DEF Follows
        <3>2. Len(Tail(d)) = 0 /\ Tail(d) \in Seq(Message)
            BY <1>0, <1>1, <3>1
        <3>. QED BY <3>2, EmptySeq
    <2>5. Follows(q, Tail(d))
        BY <2>4 DEF Follows
    <2>. QED BY <1>1, <1>2, <1>6, <1>8, <2>3, <2>5 DEF Flowing, q
<1>. QED BY <1>7, <1>8

(* finish and fail, of a socket that is held.                              *)
LEMMA SettleFlow ==
    ASSUME TypeOK, NEW s \in Sessions, Flowing(s), NEW r \in Closure, NEW call \in {"done", "error"},
           SettleWith(s, r, call), r.phase \in {"recording", "thrown"}, r.heldSocket,
           rec[s].heldSocket, conn[s] \in {"open", "closed", "cut"},
           r.finalizedParts = rec[s].finalizedParts, r.currentPartial = rec[s].currentPartial,
           r.calls = <<>>,
           \/ down'[s] \in {down[s], <<>>} \/ (down[s] # <<>> /\ down'[s] = Tail(down[s])),
           handler'[s] = handler[s], stream'[s] = stream[s],
           s \in Detailed /\ call = "done" /\ ~r.late /\ conn[s] # "cut"
           => Whole(HeardCount(rec[s]), r, handler[s], stream[s])
    PROVE  Flowing(s)'
<1>. DEFINE q == [r EXCEPT !.settled = TRUE, !.calls = Append(@, call)]
<1>0. Append(r.calls, call) \in Seq({"done", "error"})
    BY DEF Closure
<1>1. q \in Closure
    BY <1>0 DEF Closure
<1>2. /\ q.phase = r.phase /\ q.heldSocket = r.heldSocket /\ q.late = r.late
      /\ q.calls = Append(r.calls, call) /\ q.stopping = r.stopping /\ q.spoken = r.spoken
      /\ q.finalizedParts = r.finalizedParts /\ q.currentPartial = r.currentPartial
    BY DEF Closure
<1>3. rec'[s] = TornDown(q) /\ conn'[s] = HungUp(s)
    BY DEF SettleWith, TypeOK
<1>. HIDE DEF q
<1>4. SameFlow(rec'[s], q) /\ rec'[s].phase = q.phase
    BY <1>1, <1>3, TornDownSame, TornDownFacts
<1>5. conn'[s] \in {"closed", "cut"} /\ (conn'[s] = "closed" => conn[s] # "cut")
    BY <1>3 DEF HungUp
<1>6. ASSUME s \in Detailed, rec'[s].calls = <<"done">>, ~rec'[s].late, conn'[s] = "closed"
      PROVE  Whole(HeardCount(rec[s]), rec'[s], handler[s], stream[s])
    <2>1. rec'[s].calls = <<call>>
        BY <1>2, <1>4 DEF SameFlow
    <2>2. call = "done"
        BY <1>6, <2>1
    <2>3. ~r.late
        BY <1>2, <1>4, <1>6 DEF SameFlow
    <2>4. Whole(HeardCount(rec[s]), r, handler[s], stream[s])
        BY <1>5, <1>6, <2>2, <2>3
    <2>. QED BY <1>2, <1>4, <2>4 DEF Whole, SameFlow
<1>7. /\ rec'[s].finalizedParts = rec[s].finalizedParts
      /\ rec'[s].currentPartial = rec[s].currentPartial
      /\ rec'[s].phase \in {"recording", "thrown"} /\ rec'[s].heldSocket
    BY <1>2, <1>4 DEF SameFlow
<1>. QED BY <1>5, <1>6, <1>7, LeavingKeeps

(* What is spoken while nothing was stopped is counted with what is under  *)
(* way, and a stop is the last message.                                    *)
LEMMA SpeakingFlows ==
    ASSUME NEW r \in Closure, NEW q \in Closure, NEW u \in Seq({"chunk", "end"}), NEW d,
           NEW h \in HandlerState, NEW x \in StreamState,
           Flows(r, "open", u, d, h, x), ~r.stopping, q.calls = <<>>,
           q.finalizedParts = r.finalizedParts, q.currentPartial = r.currentPartial,
           NEW v \in Seq({"chunk", "end"}), v # <<>>,
           q.stopping => v[Len(v)] = "end",
           \A i \in 1..Len(v) : v[i] = "end" => i = Len(v) /\ q.stopping,
           r.spoken + Len(v) = q.spoken + (IF q.stopping THEN 1 ELSE 0)
    PROVE  Flows(q, "open", u \o v, d, h, x)
<1>. DEFINE w == u \o v
<1>1. /\ Len(u) \in Nat /\ Len(v) \in Nat /\ Len(v) > 0 /\ Len(w) = Len(u) + Len(v)
      /\ \A i \in 1..Len(u) : w[i] = u[i]
      /\ \A i \in 1..Len(v) : w[Len(u) + i] = v[i]
    BY EmptySeq
<1>2. \A i \in 1..Len(w) : i \in 1..Len(u) \/ (i - Len(u) \in 1..Len(v) /\ Len(u) + (i - Len(u)) = i)
    BY <1>1
<1>. HIDE DEF w
<1>3. HeardCount(q) = HeardCount(r)
    BY DEF HeardCount
<1>4. ASSUME Keeps(r, u, h, x), Serving(h, x) PROVE Keeps(q, w, h, x)
    <2>1. h.receiver = "running"
        BY <1>4 DEF Keeps, Serving
    <2>2. ASSUME NEW i \in 1..Len(w), w[i] = "end" PROVE i = Len(w) /\ q.stopping
        <3>1. CASE i \in 1..Len(u)
            BY <1>1, <1>4, <2>2, <3>1 DEF Keeps
        <3>2. CASE i - Len(u) \in 1..Len(v) /\ Len(u) + (i - Len(u)) = i
            <4>1. v[i - Len(u)] = "end"
                BY <1>1, <2>2, <3>2
            <4>2. i - Len(u) = Len(v) /\ q.stopping
                BY <3>2, <4>1
            <4>. QED BY <1>1, <3>2, <4>2
        <3>. QED BY <1>2, <3>1, <3>2
    <2>3. q.stopping => w # <<>> /\ w[Len(w)] = "end"
        <3>1. Len(w) # 0 /\ Len(v) \in 1..Len(v)
            BY <1>1
        <3>2. w[Len(w)] = v[Len(v)]
            BY <1>1, <3>1
        <3>. QED BY <3>1, <3>2, EmptySeq
    <2>4. h.total + Len(w) = q.spoken + (IF q.stopping THEN 1 ELSE 0)
        <3>1. h.total \in Nat /\ r.spoken \in Nat
            BY HandlerCounts DEF Closure
        <3>2. h.total + Len(u) = r.spoken
            BY <1>4, <2>1, <3>1 DEF Keeps
        <3>3. h.total + Len(w) = r.spoken + Len(v)
            BY <1>1, <3>1, <3>2
        <3>. QED BY <3>3
    <2>. QED BY <1>4, <2>1, <2>2, <2>3, <2>4 DEF Keeps
<1>5. \A n : Whole(n, r, h, x) => Whole(n, q, h, x)
    BY DEF Whole
<1>6. Continues(r, d, h, x) => Continues(q, d, h, x)
    BY <1>3 DEF Continues
<1>7. Flows(q, "open", w, d, h, x)
    BY <1>3, <1>4, <1>5, <1>6 DEF Flows
<1>. QED BY <1>7 DEF w

LEMMA SpeakFlow ==
    ASSUME PageInv, TypeOK', ServerTypeOK, NEW s \in Sessions, Flowing(s),
           rec[s].phase = "recording", ~rec[s].settled, ~rec[s].stopping,
           rec'[s].phase = "recording", rec'[s].heldSocket = rec[s].heldSocket,
           rec'[s].calls = rec[s].calls,
           rec'[s].finalizedParts = rec[s].finalizedParts,
           rec'[s].currentPartial = rec[s].currentPartial,
           NEW v \in Seq({"chunk", "end"}), v # <<>>,
           rec'[s].stopping => v[Len(v)] = "end",
           \A i \in 1..Len(v) : v[i] = "end" => i = Len(v) /\ rec'[s].stopping,
           rec[s].spoken + Len(v) = rec'[s].spoken + (IF rec'[s].stopping THEN 1 ELSE 0),
           Sent(s, v), conn' = conn, down' = down,
           handler'[s] = handler[s], stream'[s] = stream[s]
    PROVE  Flowing(s)'
<1>0. /\ TypeOK /\ rec[s] \in Closure /\ rec'[s] \in Closure /\ FlagsAgree(s)
      /\ up[s] \in Seq({"chunk", "end"}) /\ up \in [Sessions -> Seq({"chunk", "end"})]
      /\ handler[s] \in HandlerState /\ stream[s] \in StreamState
    BY DEF PageInv, TypeOK, ServerTypeOK, HandlerState, StreamState
<1>1. rec[s].heldSocket /\ rec[s].calls = <<>> /\ rec'[s].calls = <<>>
    BY <1>0 DEF FlagsAgree
<1>2. conn[s] \in {"open", "closed", "cut"}
    BY <1>0, <1>1 DEF Flowing, Connects, TypeOK, Connections
<1>3. CASE conn[s] = "open"
    <2>1. up'[s] = up[s] \o v
        BY <1>0, <1>3 DEF Sent
    <2>2. s \in Detailed => Flows(rec'[s], "open", up[s] \o v, down[s], handler[s], stream[s])
        BY <1>0, <1>1, <1>3, SpeakingFlows DEF Flowing
    <2>3. s \notin Detailed => Follows(rec'[s], down[s])
        BY DEF Flowing, Follows
    <2>4. HeardWell(rec'[s])
        BY DEF Flowing, HeardWell
    <2>5. Connects(rec'[s], "open", up'[s], down[s])
        BY DEF Connects
    <2>. QED BY <1>3, <2>1, <2>2, <2>3, <2>4, <2>5 DEF Flowing
<1>4. CASE conn[s] # "open"
    <2>1. conn'[s] \in {"closed", "cut"} /\ rec'[s].heldSocket /\ rec'[s].calls # <<"done">>
        BY <1>1, <1>2, <1>4
    <2>. QED BY <1>0, <2>1, LeavingKeeps
<1>. QED BY <1>3, <1>4

LEMMA StopFlow ==
    ASSUME PageInv, TypeOK', ServerTypeOK, NEW s \in Sessions, Flowing(s), Stop(s) \/ MaxTimer(s),
           handler'[s] = handler[s], stream'[s] = stream[s]
    PROVE  Flowing(s)'
<1>0. /\ TypeOK /\ rec[s] \in Closure /\ rec'[s] \in Closure /\ FlagsAgree(s)
      /\ rec \in [Sessions -> Closure]
    BY DEF PageInv, TypeOK
<1>1. rec[s].phase = "recording"
    BY <1>0 DEF Stop, MaxTimer, FlagsAgree
<1>2. PICK r \in Closure :
         /\ SameFlow(r, rec[s]) /\ r.phase = rec[s].phase /\ r.settled = rec[s].settled
         /\ StopWith(s, r)
    <2>1. CASE Stop(s)
        BY <1>0, <2>1 DEF Stop, SameFlow
    <2>2. CASE MaxTimer(s)
        <3>. DEFINE r == [rec[s] EXCEPT !.timers = @ \ {"max"}]
        <3>1. r \in Closure /\ SameFlow(r, rec[s]) /\ r.phase = rec[s].phase
              /\ r.settled = rec[s].settled
            BY <1>0 DEF Closure, SameFlow
        <3>2. StopWith(s, r)
            BY <2>2 DEF MaxTimer
        <3>. HIDE DEF r
        <3>. QED BY <3>1, <3>2
    <2>. QED BY <2>1, <2>2
<1>3. conn' = conn /\ down' = down
    BY <1>2 DEF StopWith
<1>4. CASE rec' = [rec EXCEPT ![s] = r] /\ up' = up
    <2>1. rec'[s] = r
        BY <1>0, <1>4
    <2>. QED BY <1>1, <1>2, <1>3, <1>4, <2>1, CalmKeeps
<1>5. CASE /\ ~r.settled /\ ~r.stopping
           /\ \E flushed \in {<<>>, <<"chunk">>} :
                /\ Sent(s, flushed \o <<"end">>)
                /\ rec' = [rec EXCEPT ![s] = [r EXCEPT
                       !.stopping = TRUE, !.timers = @ \cup {"final"},
                       !.mic = "stopped", !.spoken = @ + Len(flushed)]]
    <2>1. PICK flushed \in {<<>>, <<"chunk">>} :
                /\ Sent(s, flushed \o <<"end">>)
                /\ rec' = [rec EXCEPT ![s] = [r EXCEPT
                       !.stopping = TRUE, !.timers = @ \cup {"final"},
                       !.mic = "stopped", !.spoken = @ + Len(flushed)]]
        BY <1>5
    <2>. DEFINE v == flushed \o <<"end">>
                k == Len(flushed)
    <2>2. /\ v \in Seq({"chunk", "end"}) /\ v # <<>> /\ v[Len(v)] = "end"
          /\ \A i \in 1..Len(v) : v[i] = "end" => i = Len(v)
          /\ Len(v) = k + 1 /\ k \in Nat
        <3>1. CASE flushed = <<>>
            <4>1. v = <<"end">> /\ Len(v) = 1 /\ k = 0
                BY <3>1
            <4>. QED BY <4>1
        <3>2. CASE flushed = <<"chunk">>
            <4>. DEFINE a == <<"chunk">>
                        b == <<"end">>
            <4>1. /\ a \in Seq({"chunk", "end"}) /\ b \in Seq({"chunk", "end"})
                  /\ Len(a) = 1 /\ Len(b) = 1 /\ a[1] = "chunk" /\ b[1] = "end"
                OBVIOUS
            <4>2. v = a \o b /\ k = 1
                BY <3>2
            <4>. HIDE DEF a, b, v, k
            <4>3. /\ a \o b \in Seq({"chunk", "end"}) /\ Len(a \o b) = 2
                  /\ \A i \in 1..2 : (a \o b)[i] = IF i <= 1 THEN a[i] ELSE b[i - 1]
                BY <4>1, ConcatProperties
            <4>4. (a \o b)[1] = "chunk" /\ (a \o b)[2] = "end"
                BY <4>1, <4>3
            <4>5. v # <<>> /\ v[Len(v)] = "end" /\ Len(v) = k + 1
                BY <4>2, <4>3, <4>4, EmptySeq
            <4>. QED BY <4>2, <4>3, <4>4, <4>5
        <3>. QED BY <3>1, <3>2
    <2>3. rec'[s] = [r EXCEPT !.stopping = TRUE, !.timers = @ \cup {"final"},
                              !.mic = "stopped", !.spoken = @ + k]
        BY <1>0, <2>1
    <2>. HIDE DEF v, k
    <2>4. /\ rec'[s].phase = r.phase /\ rec'[s].heldSocket = r.heldSocket
          /\ rec'[s].calls = r.calls /\ rec'[s].finalizedParts = r.finalizedParts
          /\ rec'[s].currentPartial = r.currentPartial /\ rec'[s].stopping
          /\ rec'[s].spoken = r.spoken + k
        BY <2>3 DEF Closure
    <2>5. rec[s].spoken + Len(v) = rec'[s].spoken + (IF rec'[s].stopping THEN 1 ELSE 0)
        <3>1. rec[s].spoken \in Nat /\ r.spoken = rec[s].spoken
            BY <1>0, <1>2 DEF Closure, SameFlow
        <3>. QED BY <2>2, <2>4, <3>1
    <2>6. Sent(s, v)
        BY <2>1 DEF v
    <2>7. ~rec[s].settled /\ ~rec[s].stopping
        BY <1>2, <1>5 DEF SameFlow
    <2>8. /\ rec'[s].phase = "recording" /\ rec'[s].heldSocket = rec[s].heldSocket
          /\ rec'[s].calls = rec[s].calls /\ rec'[s].finalizedParts = rec[s].finalizedParts
          /\ rec'[s].currentPartial = rec[s].currentPartial
        BY <1>1, <1>2, <2>4 DEF SameFlow
    <2>. QED BY <1>1, <1>3, <2>2, <2>4, <2>5, <2>6, <2>7, <2>8, SpeakFlow
<1>. QED BY <1>2, <1>4, <1>5 DEF StopWith

(* The callbacks, and a window that is spoken.                             *)
LEMMA CallbackFlow ==
    ASSUME PageInv, TypeOK', ServerTypeOK, NEW s \in Sessions, Flowing(s),
           \/ HearError(s) \/ SocketCloses(s) \/ NoticeLoss(s) \/ FinalTimer(s) \/ Cancel(s)
           \/ CutConnection(s) \/ SendWindow(s),
           handler'[s] = handler[s], stream'[s] = stream[s]
    PROVE  Flowing(s)'
<1>. DEFINE r == rec[s]
<1>0. /\ TypeOK /\ r \in Closure /\ rec'[s] \in Closure /\ FlagsAgree(s)
      /\ rec \in [Sessions -> Closure] /\ conn \in [Sessions -> Connections]
      /\ down \in [Sessions -> Seq(Message)] /\ down[s] \in Seq(Message)
    BY DEF PageInv, TypeOK, Message
<1>1. r.phase = "recording" => r.heldSocket
    BY <1>0 DEF FlagsAgree
<1>2. r.heldSocket => conn[s] \in {"open", "closed", "cut"} /\ r.phase \in {"recording", "thrown"}
    BY <1>0 DEF Flowing, Connects, Connections, FlagsAgree
<1>3. ~r.settled => r.calls = <<>>
    BY <1>0 DEF FlagsAgree
<1>4. ASSUME NEW kind, Arrives(s, kind)
      PROVE  /\ conn[s] = "open" /\ r.heldSocket /\ down[s] # <<>>
             /\ down[s][1].kind = kind /\ down'[s] = Tail(down[s])
             /\ 1 \in 1..Len(down[s])
    <2>1. Len(down[s]) \in Nat /\ (down[s] # <<>> => Len(down[s]) # 0)
        BY <1>0, EmptySeq
    <2>. QED BY <1>0, <1>4, <2>1 DEF Arrives, FlagsAgree
<1>5. CASE HearError(s)
    <2>1. Arrives(s, "error") /\ SettleWith(s, r, "error") /\ ~r.settled
        BY <1>5 DEF HearError, Fail, SettleWith
    <2>. QED BY <1>0, <1>2, <1>3, <1>4, <2>1, SettleFlow
<1>6. CASE SocketCloses(s)
    <2>1. Arrives(s, "close") /\ ~r.settled
        BY <1>6 DEF SocketCloses, Fail, Finish, SettleWith
    <2>2. \/ SettleWith(s, r, "error")
          \/ r.stopping /\ SettleWith(s, r, "done")
        BY <1>6 DEF SocketCloses, Fail, Finish
    <2>3. ASSUME s \in Detailed PROVE Whole(HeardCount(r), r, handler[s], stream[s])
        <3>1. Flows(r, "open", up[s], down[s], handler[s], stream[s])
            BY <1>4, <2>1, <2>3 DEF Flowing
        <3>2. Whole(HeardCount(r) + 1 - 1, r, handler[s], stream[s])
            <4>1. ~(1 > 1)
                OBVIOUS
            <4>. QED BY <1>4, <2>1, <3>1, <4>1 DEF Flows
        <3>3. HeardCount(r) + 1 - 1 = HeardCount(r)
            BY <1>0, Counts DEF Flowing
        <3>. QED BY <3>2, <3>3
    <2>4. CASE SettleWith(s, r, "error")
        BY <1>0, <1>2, <1>3, <1>4, <2>1, <2>4, SettleFlow
    <2>5. CASE SettleWith(s, r, "done")
        BY <1>0, <1>2, <1>3, <1>4, <2>1, <2>3, <2>5, SettleFlow
    <2>. QED BY <2>2, <2>4, <2>5
<1>7. CASE NoticeLoss(s)
    <2>1. conn[s] = "cut" /\ r.heldSocket /\ down'[s] = down[s] /\ ~r.settled
        BY <1>7 DEF NoticeLoss, Fail, Finish, SettleWith
    <2>2. SettleWith(s, r, "error") \/ SettleWith(s, r, "done")
        BY <1>7 DEF NoticeLoss, Fail, Finish
    <2>3. CASE SettleWith(s, r, "error")
        BY <1>0, <1>2, <1>3, <2>1, <2>3, SettleFlow
    <2>4. CASE SettleWith(s, r, "done")
        BY <1>0, <1>2, <1>3, <2>1, <2>4, SettleFlow
    <2>. QED BY <2>2, <2>3, <2>4
<1>8. CASE FinalTimer(s)
    <2>. DEFINE q == [r EXCEPT !.timers = @ \ {"final"}, !.late = TRUE]
    <2>1. /\ q \in Closure /\ q.late /\ q.phase = r.phase /\ q.heldSocket = r.heldSocket
          /\ q.finalizedParts = r.finalizedParts /\ q.currentPartial = r.currentPartial
          /\ q.calls = r.calls /\ q.settled = r.settled
        BY <1>0 DEF Closure
    <2>2. SettleWith(s, q, "done") /\ down'[s] = down[s]
        BY <1>8 DEF FinalTimer, Finish
    <2>3. r.phase = "recording"
        BY <1>0, <1>8 DEF FinalTimer, FlagsAgree
    <2>. HIDE DEF q
    <2>4. ~r.settled
        BY <2>1, <2>2 DEF SettleWith
    <2>. QED BY <1>0, <1>1, <1>2, <1>3, <2>1, <2>2, <2>3, <2>4, SettleFlow
<1>9. CASE Cancel(s)
    <2>1. /\ rec'[s] = Cancelled(r) /\ conn'[s] = HungUp(s) /\ down'[s] = down[s]
          /\ r.phase = "recording" /\ ~r.settled
        BY <1>0, <1>9 DEF Cancel
    <2>2. SameFlow(rec'[s], r) /\ rec'[s].phase = "recording"
        BY <1>0, <2>1, CancelledSame, CancelledFacts
    <2>3. conn'[s] \in {"closed", "cut"}
        BY <1>1, <1>2, <2>1 DEF HungUp
    <2>4. rec'[s].heldSocket /\ rec'[s].calls # <<"done">>
        <3>1. rec'[s].calls = <<>>
            BY <1>3, <2>1, <2>2 DEF SameFlow
        <3>. QED BY <1>1, <2>1, <2>2, <3>1 DEF SameFlow
    <2>. QED BY <1>0, <2>1, <2>2, <2>3, <2>4, LeavingKeeps DEF SameFlow
<1>10. CASE CutConnection(s)
    <2>1. conn[s] = "open" /\ rec' = rec /\ conn'[s] = "cut" /\ down'[s] = <<>>
        BY <1>0, <1>10 DEF CutConnection
    <2>2. r.heldSocket
        BY <1>0, <2>1 DEF FlagsAgree
    <2>. QED BY <1>0, <1>2, <2>1, <2>2, LeavingKeeps
<1>11. CASE SendWindow(s)
    <2>1. /\ r.phase = "recording" /\ ~r.settled /\ ~r.stopping
          /\ rec' = [rec EXCEPT ![s].spoken = @ + 1] /\ Sent(s, <<"chunk">>)
          /\ conn' = conn /\ down' = down
        BY <1>11 DEF SendWindow
    <2>2. rec'[s] = [r EXCEPT !.spoken = r.spoken + 1]
        BY <1>0, <2>1
    <2>3. /\ rec'[s].phase = "recording" /\ rec'[s].heldSocket = r.heldSocket
          /\ rec'[s].calls = r.calls /\ rec'[s].finalizedParts = r.finalizedParts
          /\ rec'[s].currentPartial = r.currentPartial /\ ~rec'[s].stopping
          /\ rec'[s].spoken = r.spoken + 1 /\ r.spoken \in Nat
        BY <1>0, <2>1, <2>2 DEF Closure
    <2>. DEFINE v == <<"chunk">>
    <2>4. /\ v \in Seq({"chunk", "end"}) /\ v # <<>> /\ Len(v) = 1
          /\ \A i \in 1..Len(v) : v[i] = "chunk"
        OBVIOUS
    <2>5. Sent(s, v)
        BY <2>1
    <2>. HIDE DEF v
    <2>6. r.spoken + Len(v) = rec'[s].spoken + (IF rec'[s].stopping THEN 1 ELSE 0)
        BY <2>3, <2>4
    <2>7. \A i \in 1..Len(v) : v[i] = "end" => i = Len(v) /\ rec'[s].stopping
        BY <2>4
    <2>. QED BY <2>1, <2>3, <2>4, <2>5, <2>6, <2>7, SpeakFlow
<1>. QED BY <1>5, <1>6, <1>7, <1>8, <1>9, <1>10, <1>11

(* A new recording ends the flow of the one it supersedes.                 *)
LEMMA StartFlow ==
    ASSUME PageInv, FlowInv, NEW s \in Sessions, Start(s), handler' = handler, stream' = stream
    PROVE  FlowInv'
<1>0. /\ TypeOK /\ rec \in [Sessions -> Closure] /\ conn \in [Sessions -> Connections]
      /\ \A t \in Sessions : FlagsAgree(t) /\ Flowing(t)
    BY DEF PageInv, TypeOK, FlowInv
<1>. DEFINE asked == [Unused EXCEPT !.phase = "microphone", !.mic = "asked"]
<1>1. /\ rec' = [t \in Sessions |-> CASE t = s -> asked
                                       [] t = active -> Cancelled(rec[t])
                                       [] OTHER -> rec[t]]
      /\ conn' = [t \in Sessions |->
                     IF t = active /\ ~rec[t].settled THEN HungUp(t) ELSE conn[t]]
      /\ up' = up /\ down' = down /\ rec[s].phase = "unused"
    BY DEF Start
<1>2. /\ rec[s] = Unused /\ active # s /\ conn[s] = "none"
    BY <1>0, <1>1 DEF FlagsAgree, Flowing, Connects
<1>3. asked.phase = "microphone" /\ SameFlow(asked, Unused)
    BY DEF Unused, SameFlow
<1>. HIDE DEF asked
<1>4. /\ rec'[s] = asked /\ conn'[s] = conn[s]
      /\ \A t \in Sessions \ {s} : rec'[t] = IF t = active THEN Cancelled(rec[t]) ELSE rec[t]
      /\ \A t \in Sessions \ {s} :
            conn'[t] = IF t = active /\ ~rec[t].settled THEN HungUp(t) ELSE conn[t]
    BY <1>1, <1>2
<1>5. Flowing(s)'
    BY <1>0, <1>1, <1>2, <1>3, <1>4, CalmKeeps
<1>6. ASSUME NEW t \in Sessions \ {s} PROVE Flowing(t)'
    <2>0. /\ rec[t] \in Closure /\ FlagsAgree(t) /\ Flowing(t)
          /\ up'[t] = up[t] /\ down'[t] = down[t]
          /\ handler'[t] = handler[t] /\ stream'[t] = stream[t]
        BY <1>0, <1>1
    <2>1. CASE t # active
        <3>1. rec'[t] = rec[t] /\ conn'[t] = conn[t]
            BY <1>4, <2>1
        <3>. QED BY <2>0, <3>1, CalmKeeps DEF SameFlow
    <2>2. CASE t = active
        <3>1. ~rec[t].settled /\ rec[t].calls = <<>>
            BY <2>0, <2>2 DEF FlagsAgree
        <3>2. rec'[t] = Cancelled(rec[t]) /\ conn'[t] = HungUp(t)
            BY <1>4, <2>2, <3>1
        <3>3. SameFlow(rec'[t], rec[t]) /\ rec'[t].phase = rec[t].phase
            BY <2>0, <3>2, CancelledFacts, CancelledSame
        <3>4. CASE HungUp(t) = conn[t]
            BY <2>0, <3>2, <3>3, <3>4, CalmKeeps
        <3>5. CASE HungUp(t) # conn[t]
            <4>1. HungUp(t) = "closed" /\ rec[t].heldSocket
                BY <3>5 DEF HungUp
            <4>2. rec'[t].phase \in {"recording", "thrown"}
                BY <2>0, <3>3, <4>1 DEF FlagsAgree
            <4>3. rec'[t].calls # <<"done">>
                <5>1. rec'[t].calls = <<>>
                    BY <3>1, <3>3 DEF SameFlow
                <5>. QED BY <5>1
            <4>. QED BY <1>0, <2>0, <3>2, <3>3, <4>1, <4>2, <4>3, LeavingKeeps DEF SameFlow
        <3>. QED BY <3>4, <3>5
    <2>. QED BY <2>1, <2>2
<1>. QED BY <1>5, <1>6 DEF FlowInv

(* No step of one recording moves the messages of another.                 *)
LEMMA ClientLeavesOthers ==
    ASSUME TypeOK, NEW s \in Sessions, ClientStep(s), NEW t \in Sessions \ {s}
    PROVE  up'[t] = up[t] /\ down'[t] = down[t]
<1>0. /\ up \in [Sessions -> Seq({"chunk", "end"})]
      /\ down \in [Sessions -> Seq(Transcript \cup [kind: {"error", "close"}])]
    BY DEF TypeOK
<1>2. \A v : Sent(s, v) => up'[t] = up[t]
    BY <1>0 DEF Sent
<1>3. \A kind : Arrives(s, kind) => up'[t] = up[t] /\ down'[t] = down[t]
    BY <1>0 DEF Arrives
<1>4. CASE CutConnection(s)
    BY <1>0, <1>4 DEF CutConnection
<1>5. CASE SendWindow(s)
    BY <1>2, <1>5 DEF SendWindow
<1>6. CASE Stop(s) \/ MaxTimer(s)
    BY <1>2, <1>6 DEF Stop, MaxTimer, StopWith
<1>8. CASE HearTranscript(s) \/ HearError(s) \/ SocketCloses(s)
    BY <1>3, <1>8 DEF HearTranscript, HearError, SocketCloses
<1>9. CASE Start(s) \/ SetUp(s) \/ GrantLate(s) \/ OpenLate(s)
           \/ NoticeLoss(s) \/ FinalTimer(s) \/ Cancel(s)
    BY <1>9 DEF Start, SetUp, GrantMicrophone, LoadWorklet, OpenSocket, SetUpFails,
        GrantLate, OpenLate, NoticeLoss, FinalTimer, Cancel
<1>. QED BY <1>4, <1>5, <1>6, <1>8, <1>9 DEF ClientStep

(* Nor does anything change for a recording that a step leaves alone.      *)
LEMMA OthersFlow ==
    ASSUME NEW t \in Sessions, Flowing(t), rec'[t] = rec[t], conn'[t] = conn[t], up'[t] = up[t],
           down'[t] = down[t], handler'[t] = handler[t], stream'[t] = stream[t]
    PROVE  Flowing(t)'
BY DEF Flowing

LEMMA ClientFlow ==
    ASSUME Inv, Inv', FlowInv, NEW s \in Sessions, ClientStep(s), UNCHANGED serverVars
    PROVE  FlowInv'
<1>0. /\ PageInv /\ TypeOK /\ ServerTypeOK /\ TypeOK' /\ handler' = handler /\ stream' = stream
      /\ \A t \in Sessions : Flowing(t)
    BY DEF Inv, PageInv, serverVars, FlowInv
<1>1. CASE Start(s)
    BY <1>0, <1>1, StartFlow
<1>2. CASE ~Start(s)
    <2>1. Flowing(s)'
        <3>1. CASE SetUp(s) \/ GrantLate(s) \/ OpenLate(s)
            BY <1>0, <3>1, SetUpFlow
        <3>2. CASE HearTranscript(s)
            BY <1>0, <3>2, HearTranscriptFlow
        <3>3. CASE Stop(s) \/ MaxTimer(s)
            BY <1>0, <3>3, StopFlow
        <3>4. CASE \/ HearError(s) \/ SocketCloses(s) \/ NoticeLoss(s) \/ FinalTimer(s)
                   \/ Cancel(s) \/ CutConnection(s) \/ SendWindow(s)
            BY <1>0, <3>4, CallbackFlow
        <3>. QED BY <1>2, <3>1, <3>2, <3>3, <3>4 DEF ClientStep
    <2>2. ASSUME NEW t \in Sessions \ {s} PROVE Flowing(t)'
        <3>1. rec'[t] = rec[t] /\ conn'[t] = conn[t]
            BY <1>0, <1>2, ClientPage DEF PageStep, Steps
        <3>. QED BY <1>0, <3>1, ClientLeavesOthers, OthersFlow
    <2>. QED BY <2>1, <2>2 DEF FlowInv
<1>. QED BY <1>1, <1>2

-------------------------------------------------------------------------------
(* What the ends of the receiver and of the handler leave.                 *)
LEMMA OverFacts ==
    ASSUME NEW h \in HandlerState, NEW how \in {"done", "escaped"}
    PROVE  /\ Over(h, how) \in HandlerState
           /\ Over(h, how).main = how /\ Over(h, how).receiver = "done"
           /\ Over(h, how).reader = h.reader /\ Over(h, how).closed = h.closed
<1>. DEFINE g == ReceiverOver(h)
<1>1. /\ g \in HandlerState /\ g.receiver = "done" /\ g.reader = h.reader
      /\ g.closed = h.closed
    BY HandlerHelpers DEF ReceiverOver, HandlerState
<1>2. Over(h, how) = [g EXCEPT !.main = how]
    BY DEF Over
<1>. HIDE DEF g
<1>. QED BY <1>1, <1>2 DEF HandlerState

LEMMA ClosedSocket ==
    ASSUME NEW h \in HandlerState
    PROVE  /\ [h EXCEPT !.closed = TRUE] \in HandlerState
           /\ [h EXCEPT !.closed = TRUE].closed
           /\ [h EXCEPT !.closed = TRUE].receiver = h.receiver
           /\ [h EXCEPT !.closed = TRUE].main = h.main
           /\ [h EXCEPT !.closed = TRUE].reader = h.reader
BY DEF HandlerState

(* The handler's steps.  Once the socket is closed, by either side, they   *)
(* change nothing that a visitor may still be told.                        *)
LEMMA ClosedStays ==
    ASSUME ServerTypeOK, NEW s \in Sessions, Task(s) \/ Remote(s), conn[s] # "requested",
           handler[s].receiver = "done"
    PROVE  /\ handler'[s].receiver = "done"
           /\ handler[s].closed => handler'[s].closed /\ down'[s] = down[s]
<1>. DEFINE h == handler[s]
<1>0. /\ handler \in [Sessions -> HandlerState] /\ stream \in [Sessions -> StreamState]
      /\ h \in HandlerState
    BY DEF ServerTypeOK, HandlerState, StreamState
<1>1. ~(Accept(s) \/ ReceiveChunk(s) \/ Refuse(s) \/ ReceiveEnd(s) \/ ReceiveDisconnect(s))
    BY DEF Accept, ReceiveChunk, Refuse, ReceiveEnd, ReceiveDisconnect, Received
<1>2. ASSUME NEW g \in HandlerState, ReportFailure(s, g), g.closed = h.closed
      PROVE  /\ handler'[s].receiver = "done"
             /\ h.closed => handler'[s].closed /\ down'[s] = down[s]
    <2>1. \A how \in {"done", "escaped"} :
             /\ Over(g, how) \in HandlerState
             /\ Over(g, how).receiver = "done" /\ Over(g, how).closed = g.closed
        BY OverFacts
    <2>2. \/ handler'[s] = Over(g, "done") /\ down'[s] = down[s]
          \/ handler'[s] = [Over(g, "done") EXCEPT !.closed = TRUE] /\ ~h.closed
          \/ handler'[s] = [Over(g, "escaped") EXCEPT !.closed = TRUE] /\ down'[s] = down[s]
        BY <1>0, <1>2 DEF ReportFailure
    <2>. QED BY <1>2, <2>1, <2>2, ClosedSocket
<1>3. CASE StartStream(s)
    <2>1. CASE ReportFailure(s, h)
        BY <1>0, <1>2, <2>1
    <2>2. CASE /\ handler' = [handler EXCEPT ![s].main = "sending", ![s].writer = "running",
                                        ![s].reader = "running", ![s].generator = "open"]
               /\ down' = down
        <3>1. handler'[s] = [h EXCEPT !.main = "sending", !.writer = "running",
                                      !.reader = "running", !.generator = "open"]
            BY <1>0, <2>2
        <3>. QED BY <1>0, <2>2, <3>1 DEF HandlerState
    <2>. QED BY <1>3, <2>1, <2>2 DEF StartStream
<1>4. CASE SendTranscript(s)
    <2>. DEFINE rest == [h EXCEPT !.transcripts = Tail(@)]
                left == [rest EXCEPT !.generator = "abandoned"]
    <2>1. /\ rest \in HandlerState /\ rest.receiver = "done" /\ rest.closed = h.closed
        <3>0. h.transcripts \in Seq(Transcript \cup {None}) /\ h.transcripts # <<>>
            BY <1>0, <1>4, HandlerFields DEF SendTranscript
        <3>1. Tail(h.transcripts) \in Seq(Transcript \cup {None})
            BY <3>0
        <3>. QED BY <1>0, <3>1 DEF HandlerState
    <2>2. /\ left \in HandlerState /\ left.receiver = "done" /\ left.closed = h.closed
        BY <2>1 DEF HandlerState
    <2>3. \/ handler' = [handler EXCEPT ![s] = rest] /\ ~h.closed
          \/ /\ handler' = [handler EXCEPT ![s] = [Over(left, "done") EXCEPT !.closed = TRUE]]
             /\ down' = down
          \/ ReportFailure(s, left)
        BY <1>4 DEF SendTranscript, CanSend
    <2>. HIDE DEF rest, left
    <2>4. [Over(left, "done") EXCEPT !.closed = TRUE].receiver = "done"
          /\ [Over(left, "done") EXCEPT !.closed = TRUE].closed
        BY <2>2, OverFacts, ClosedSocket
    <2>. QED BY <1>0, <1>2, <2>1, <2>2, <2>3, <2>4
<1>5. CASE CloseNormally(s)
    <2>1. \E how \in {"done", "escaped"} :
             handler'[s] = [Over(h, how) EXCEPT !.closed = TRUE]
        BY <1>0, <1>5 DEF CloseNormally
    <2>2. h.closed => down'[s] = down[s]
        BY <1>5 DEF CloseNormally
    <2>3. \A how \in {"done", "escaped"} :
             /\ [Over(h, how) EXCEPT !.closed = TRUE].receiver = "done"
             /\ [Over(h, how) EXCEPT !.closed = TRUE].closed
        BY <1>0, OverFacts, ClosedSocket
    <2>. QED BY <2>1, <2>2, <2>3
<1>6. CASE EndTranscripts(s)
    <2>1. /\ down' = down
          /\ handler'[s] = [h EXCEPT !.main = "closing", !.transcripts = <<>>,
                !.generator = "closed", !.writer = "done", !.reader = "done"]
        BY <1>0, <1>6 DEF EndTranscripts, GeneratorEnds
    <2>. QED BY <1>0, <2>1 DEF HandlerState
<1>7. CASE CloseAbandoned(s)
    <2>1. /\ down' = down
          /\ handler'[s] = [h EXCEPT !.generator = "closed", !.writer = "done", !.reader = "done"]
        BY <1>0, <1>7 DEF CloseAbandoned, GeneratorEnds
    <2>. QED BY <1>0, <2>1 DEF HandlerState
<1>8. CASE WriteChunk(s)
    <2>1. /\ down' = down
          /\ \/ handler'[s] = [h EXCEPT !.queued = h.queued - 1]
             \/ handler'[s] = [h EXCEPT !.queued = h.queued - 1, !.writer = "done"]
        BY <1>0, <1>8 DEF WriteChunk
    <2>. QED BY <1>0, <2>1 DEF HandlerState
<1>9. CASE EndAudio(s)
    <2>1. down' = down /\ handler'[s] = [h EXCEPT !.writer = "done"]
        BY <1>0, <1>9 DEF EndAudio
    <2>. QED BY <1>0, <2>1 DEF HandlerState
<1>10. CASE Transcribe(s)
    <2>1. /\ down' = down
          /\ \E m : handler'[s] = [h EXCEPT !.transcripts = Append(h.transcripts, m)]
        BY <1>0, <1>10 DEF Transcribe, Put
    <2>. QED BY <1>0, <2>1 DEF HandlerState
<1>11. CASE StreamEnds(s)
    <2>1. /\ down' = down
          /\ handler'[s] = [h EXCEPT !.reader = "done",
                                     !.transcripts = Append(h.transcripts, None)]
        BY <1>0, <1>11 DEF StreamEnds
    <2>. QED BY <1>0, <2>1 DEF HandlerState
<1>. QED BY <1>1, <1>3, <1>4, <1>5, <1>6, <1>7, <1>8, <1>9, <1>10, <1>11 DEF Task, Remote

LEMMA WholeStays ==
    ASSUME ServerTypeOK, NEW s \in Sessions, Task(s) \/ Remote(s), Agree(handler[s], stream[s]),
           NEW n, NEW r, Whole(n, r, handler[s], stream[s])
    PROVE  Whole(n, r, handler'[s], stream'[s])
<1>. DEFINE h == handler[s]
            x == stream[s]
<1>0. /\ handler \in [Sessions -> HandlerState] /\ stream \in [Sessions -> StreamState]
      /\ h \in HandlerState /\ x \in StreamState
    BY DEF ServerTypeOK, HandlerState, StreamState
<1>1. /\ h.main \in {"done", "escaped"} /\ h.reader = "done" /\ x.state = "over"
      /\ h.receiver = "done"
    BY DEF Whole, Agree
<1>2. Task(s) /\ (CloseAbandoned(s) \/ WriteChunk(s) \/ EndAudio(s))
    BY <1>1 DEF Task, Remote, StartStream, Transcribe, StreamEnds, Accept, ReceiveChunk, Refuse,
        ReceiveEnd, ReceiveDisconnect, Received, SendTranscript, EndTranscripts, CloseNormally
<1>3. handler'[s].main = h.main /\ handler'[s].reader = "done" /\ stream'[s] = x
    <2>1. CASE CloseAbandoned(s)
        <3>1. /\ handler'[s] = [h EXCEPT !.generator = "closed", !.writer = "done", !.reader = "done"]
              /\ stream'[s] = [x EXCEPT !.state = "over"]
            BY <1>0, <1>1, <2>1 DEF CloseAbandoned, GeneratorEnds
        <3>. QED BY <1>0, <1>1, <3>1 DEF HandlerState, StreamState
    <2>2. CASE WriteChunk(s)
        <3>1. /\ handler'[s] = [h EXCEPT !.queued = h.queued - 1, !.writer = "done"]
              /\ stream' = stream
            BY <1>0, <1>1, <2>2 DEF WriteChunk
        <3>. QED BY <1>0, <1>1, <3>1 DEF HandlerState
    <2>3. CASE EndAudio(s)
        <3>1. /\ handler'[s] = [h EXCEPT !.writer = "done"]
              /\ stream'[s] = [x EXCEPT !.state = "over"]
            BY <1>0, <1>1, <2>3 DEF EndAudio
        <3>. QED BY <1>0, <1>1, <3>1 DEF HandlerState, StreamState
    <2>. QED BY <1>2, <2>1, <2>2, <2>3
<1>. QED BY <1>1, <1>3 DEF Whole

(* How far a step of a handler reaches.                                    *)
LEMMA ServerChannels ==
    ASSUME TypeOK, NEW s \in Sessions, Task(s) \/ Remote(s)
    PROVE  /\ \A t \in Sessions \ {s} : up'[t] = up[t] /\ down'[t] = down[t] /\ conn'[t] = conn[t]
           /\ up'[s] = up[s] \/ up[s] # <<>>
           /\ down'[s] = down[s] \/ conn[s] \in {"accepted", "open"}
           /\ \/ conn'[s] = conn[s]
              \/ Accept(s) /\ conn[s] = "requested" /\ conn'[s] = "accepted"
<1>0. /\ up \in [Sessions -> Seq({"chunk", "end"})] /\ conn \in [Sessions -> Connections]
      /\ down \in [Sessions -> Seq(Transcript \cup [kind: {"error", "close"}])]
    BY DEF TypeOK
<1>. DEFINE Own == /\ \A t \in Sessions \ {s} : down'[t] = down[t]
                   /\ down'[s] = down[s] \/ conn[s] \in {"accepted", "open"}
<1>1. /\ \A v : Delivered(s, v) => Own
      /\ down' = down => Own
    BY <1>0 DEF Delivered
<1>2. Received(s) => up[s] # <<>> /\ \A t \in Sessions \ {s} : up'[t] = up[t]
    BY <1>0 DEF Received
<1>. HIDE DEF Own
<1>3. \A h : ReportFailure(s, h) => Own
    BY <1>1 DEF ReportFailure
<1>4. CASE Accept(s)
    BY <1>0, <1>4 DEF Accept
<1>5. CASE ReceiveChunk(s) \/ Refuse(s) \/ ReceiveEnd(s) \/ ReceiveDisconnect(s)
    <2>1. Own /\ conn' = conn
        BY <1>1, <1>5 DEF ReceiveChunk, Refuse, ReceiveEnd, ReceiveDisconnect
    <2>2. up' = up \/ Received(s)
        BY <1>5 DEF ReceiveChunk, Refuse, ReceiveEnd, ReceiveDisconnect
    <2>. QED BY <1>2, <2>1, <2>2 DEF Own
<1>6. CASE StartStream(s) \/ SendTranscript(s) \/ CloseNormally(s)
    <2>1. Own
        BY <1>1, <1>3, <1>6 DEF StartStream, SendTranscript, CloseNormally
    <2>2. conn' = conn /\ up' = up
        BY <1>6 DEF StartStream, SendTranscript, CloseNormally
    <2>. QED BY <2>1, <2>2 DEF Own
<1>9. CASE EndTranscripts(s) \/ CloseAbandoned(s) \/ WriteChunk(s) \/ EndAudio(s)
           \/ Transcribe(s) \/ StreamEnds(s)
    BY <1>9 DEF EndTranscripts, CloseAbandoned, WriteChunk, EndAudio, Transcribe, StreamEnds
<1>. QED BY <1>4, <1>5, <1>6, <1>9 DEF Task, Remote

(* A socket that is still served: what is under way, all of it in order.   *)
Ordered(r, d) ==
    \A i \in 1..Len(d) : d[i].kind = "transcript" /\ IsNth(d[i], HeardCount(r) + i)

Untold(r) == ~(r.calls = <<"done">> /\ ~r.late)

LEMMA ServedFlow ==
    ASSUME NEW r, NEW c \in {"accepted", "open"}, NEW u, NEW d, NEW h, NEW x, ~h.closed
    PROVE  Flows(r, c, u, d, h, x) <=>
              /\ Untold(r) /\ Ordered(r, d)
              /\ Serving(h, x) /\ Continues(r, d, h, x) /\ Keeps(r, u, h, x)
<1>1. \A i \in 1..Len(d) : d[i].kind = "transcript" => d[i].kind # "close"
    OBVIOUS
<1>. QED BY <1>1 DEF Flows, Ordered, Untold, Continues

(* The messages that close it.                                             *)
LEMMA ClosingFlows ==
    ASSUME NEW r \in Closure, HeardWell(r), NEW c \in {"accepted", "open"},
           NEW d \in Seq(Message), NEW v, NEW h, NEW x,
           Untold(r), Ordered(r, d), h.closed, h.receiver = "done", NEW e,
           \/ e = d \o <<Signal("error"), Signal("close")>>
           \/ e = d \o <<Signal("close")>> /\ Whole(HeardCount(r) + Len(d), r, h, x)
    PROVE  Flows(r, c, v, e, h, x)
<1>. DEFINE n == Len(d)
            k == HeardCount(r)
<1>1. n \in Nat /\ k \in Nat
    BY Counts
<1>2. /\ Signal("error").kind = "error" /\ Signal("close").kind = "close"
      /\ Signal("error") \in Message /\ Signal("close") \in Message
    BY DEF Signal, Message
<1>3. CASE e = d \o <<Signal("error"), Signal("close")>>
    <2>. DEFINE b == <<Signal("error"), Signal("close")>>
    <2>1. b \in Seq(Message) /\ Len(b) = 2 /\ b[1] = Signal("error") /\ b[2] = Signal("close")
        BY <1>2
    <2>. HIDE DEF b
    <2>2. /\ Len(e) = n + 2
          /\ \A i \in 1..(n + 2) : e[i] = IF i <= n THEN d[i] ELSE b[i - n]
        BY <1>3, <2>1, ConcatProperties DEF b
    <2>. HIDE DEF n
    <2>3. /\ \A i \in 1..n : e[i] = d[i]
          /\ e[n + 1] = Signal("error") /\ e[n + 2] = Signal("close")
        <3>1. /\ n + 1 \in 1..(n + 2) /\ ~(n + 1 <= n) /\ (n + 1) - n = 1
              /\ n + 2 \in 1..(n + 2) /\ ~(n + 2 <= n) /\ (n + 2) - n = 2
              /\ \A i \in 1..n : i \in 1..(n + 2) /\ i <= n
            BY <1>1
        <3>. QED BY <2>1, <2>2, <3>1
    <2>4. \A i \in 1..Len(e) : i \in 1..n \/ i = n + 1 \/ i = n + 2
        BY <1>1, <2>2
    <2>5. \A i \in 1..n : e[i].kind = "transcript" /\ IsNth(e[i], k + i)
        BY <2>3 DEF Ordered, n
    <2>6. \A i \in 1..Len(e) : e[i].kind = "transcript" => IsNth(e[i], k + i)
        BY <1>2, <2>3, <2>4, <2>5
    <2>7. ASSUME NEW i \in 1..Len(e), e[i].kind = "close" PROVE i > 1 /\ e[i - 1].kind = "error"
        <3>1. i = n + 2
            BY <1>2, <2>3, <2>4, <2>5, <2>7
        <3>2. i - 1 = n + 1 /\ i > 1
            BY <1>1, <3>1
        <3>. QED BY <1>2, <2>3, <3>2
    <2>. QED BY <2>6, <2>7 DEF Flows, Untold
<1>4. CASE e = d \o <<Signal("close")>> /\ Whole(HeardCount(r) + Len(d), r, h, x)
    <2>. DEFINE b == <<Signal("close")>>
    <2>1. b \in Seq(Message) /\ Len(b) = 1 /\ b[1] = Signal("close")
        BY <1>2
    <2>. HIDE DEF b
    <2>2. /\ Len(e) = n + 1
          /\ \A i \in 1..(n + 1) : e[i] = IF i <= n THEN d[i] ELSE b[i - n]
        BY <1>4, <2>1, ConcatProperties DEF b
    <2>0. Whole(k + n, r, h, x)
        BY <1>4
    <2>. HIDE DEF n
    <2>3. (\A i \in 1..n : e[i] = d[i]) /\ e[n + 1] = Signal("close")
        <3>1. /\ n + 1 \in 1..(n + 1) /\ ~(n + 1 <= n) /\ (n + 1) - n = 1
              /\ \A i \in 1..n : i \in 1..(n + 1) /\ i <= n
            BY <1>1
        <3>. QED BY <2>1, <2>2, <3>1
    <2>4. \A i \in 1..Len(e) : i \in 1..n \/ i = n + 1
        BY <1>1, <2>2
    <2>5. \A i \in 1..n : e[i].kind = "transcript" /\ IsNth(e[i], k + i)
        BY <2>3 DEF Ordered, n
    <2>6. \A i \in 1..Len(e) : e[i].kind = "transcript" => IsNth(e[i], k + i)
        BY <1>2, <2>3, <2>4, <2>5
    <2>. HIDE DEF k
    <2>7. ASSUME NEW i \in 1..Len(e), e[i].kind = "close" PROVE Whole(k + i - 1, r, h, x)
        <3>1. i = n + 1
            BY <1>2, <2>3, <2>4, <2>5, <2>7
        <3>2. k + i - 1 = k + n
            BY <1>1, <3>1
        <3>. QED BY <2>0, <3>2
    <2>. QED BY <2>6, <2>7 DEF Flows, Untold, k
<1>. QED BY <1>3, <1>4

(* The adapter's queue, apart from its None.                               *)
LEMMA WaitingFacts ==
    ASSUME NEW h \in HandlerState
    PROVE  /\ Len(h.transcripts) \in Nat /\ Waiting(h) \in Nat
           /\ h.transcripts \in Seq(Transcript \cup {None})
           /\ h.transcripts = <<>> => Waiting(h) = 0 /\ Len(h.transcripts) = 0
           /\ h.transcripts # <<>> => Len(h.transcripts) > 0
           /\ h.reader # "done" => Waiting(h) = Len(h.transcripts)
           /\ h.reader = "done" /\ h.transcripts # <<>> =>
                 Waiting(h) = Len(h.transcripts) - 1
<1>1. h.transcripts \in Seq(Transcript \cup {None})
    BY HandlerFields
<1>2. Len(h.transcripts) \in Nat
    BY <1>1
<1>3. /\ h.transcripts = <<>> => Len(h.transcripts) = 0
      /\ h.transcripts # <<>> => Len(h.transcripts) # 0
    BY <1>1, EmptySeq
<1>4. /\ h.reader = "done" /\ h.transcripts # <<>> => Waiting(h) = Len(h.transcripts) - 1
      /\ ~(h.reader = "done" /\ h.transcripts # <<>>) => Waiting(h) = Len(h.transcripts)
    <2>. DEFINE n == Len(h.transcripts)
                b == h.reader = "done" /\ h.transcripts # <<>>
    <2>1. Waiting(h) = n - (IF b THEN 1 ELSE 0)
        BY DEF Waiting
    <2>. HIDE DEF n, b
    <2>2. (b => Waiting(h) = n - 1) /\ (~b => Waiting(h) = n - 0)
        BY <2>1
    <2>3. n \in Nat
        BY <1>2 DEF n
    <2>4. ~b => Waiting(h) = n
        BY <2>2, <2>3
    <2>. QED BY <2>2, <2>4 DEF n, b
<1>5. Waiting(h) \in Nat
    BY <1>2, <1>3, <1>4
<1>6. h.transcripts # <<>> => Len(h.transcripts) > 0
    BY <1>2, <1>3
<1>. QED BY <1>1, <1>2, <1>3, <1>4, <1>5, <1>6

(* The page's side of a step, and what the handler's steps need of it.     *)
Served(s) ==
    /\ conn[s] \in {"accepted", "open"} /\ ~handler[s].closed
    /\ Untold(rec[s]) /\ Ordered(rec[s], down[s])
    /\ Serving(handler[s], stream[s])
    /\ Continues(rec[s], down[s], handler[s], stream[s])
    /\ Keeps(rec[s], up[s], handler[s], stream[s])

FlowsOn(s) == Flows(rec[s], conn[s], up'[s], down'[s], handler'[s], stream'[s])

LEMMA AcceptFlow ==
    ASSUME TypeOK, ServerTypeOK, NEW s \in Sessions, Flowing(s), s \in Detailed, Accept(s)
    PROVE  Flows(rec[s], "accepted", up'[s], down'[s], handler'[s], stream'[s])
<1>. DEFINE h == [Idle EXCEPT !.main = "starting", !.receiver = "running"]
            r == rec[s]
<1>0. handler \in [Sessions -> HandlerState]
    BY DEF ServerTypeOK, HandlerState
<1>1. /\ conn[s] = "requested" /\ handler'[s] = h /\ up'[s] = up[s] /\ down'[s] = down[s]
      /\ stream'[s] = stream[s]
    BY <1>0 DEF Accept
<1>2. /\ ~r.stopping /\ r.spoken = 0 /\ r.finalizedParts = <<>> /\ r.currentPartial = 0
      /\ up[s] = <<>> /\ down[s] = <<>> /\ stream[s] = NoStream /\ Untold(r)
    BY <1>1 DEF Flowing, Connects, Flows, Untold
<1>3. /\ h.main = "starting" /\ h.receiver = "running" /\ h.reader = "off" /\ ~h.disconnected
      /\ h.transcripts = <<>> /\ ~h.closed /\ ~h.audioEnded /\ h.total = 0 /\ h.queued = 0
    BY DEF Idle
<1>4. Len(<<>>) = 0 /\ Waiting(h) = 0
    BY <1>3 DEF Waiting
<1>5. HeardCount(r) = 0 /\ SaidCount(stream[s]) = 0
    <2>1. HeardCount(r) = 2 * 0 + 0
        BY <1>2, <1>4 DEF HeardCount
    <2>2. NoStream.segment = 0 /\ ~NoStream.partial
        BY DEF NoStream
    <2>3. SaidCount(stream[s]) = 2 * 0 - 0
        BY <1>2, <2>2 DEF SaidCount
    <2>. QED BY <2>1, <2>3
<1>. HIDE DEF h
<1>6. Serving(h, stream[s])
    BY <1>2, <1>3 DEF Serving, NoStream
<1>7. Continues(r, down[s], h, stream[s])
    BY <1>2, <1>4, <1>5 DEF Continues
<1>8. Keeps(r, up[s], h, stream[s])
    BY <1>2, <1>3, <1>4 DEF Keeps, NoStream
<1>9. Ordered(r, down[s])
    BY <1>2, <1>4 DEF Ordered
<1>. QED BY <1>1, <1>2, <1>3, <1>6, <1>7, <1>8, <1>9, ServedFlow

(* Taking a message off the socket.                                        *)
LEMMA ReceiveFlow ==
    ASSUME TypeOK, ServerTypeOK, NEW s \in Sessions, Served(s), HeardWell(rec[s]),
           ReceiveChunk(s) \/ Refuse(s) \/ ReceiveEnd(s) \/ ReceiveDisconnect(s)
    PROVE  FlowsOn(s)
<1>. DEFINE h == handler[s]
            x == stream[s]
            r == rec[s]
            u == up[s]
            d == down[s]
            v == Tail(up[s])
<1>0. /\ handler \in [Sessions -> HandlerState] /\ h \in HandlerState
      /\ up \in [Sessions -> Seq({"chunk", "end"})] /\ u \in Seq({"chunk", "end"})
      /\ down \in [Sessions -> Seq(Message)] /\ d \in Seq(Message) /\ r \in Closure
      /\ x \in StreamState
    BY DEF ServerTypeOK, HandlerState, TypeOK, Message, StreamState
<1>1. /\ Untold(r) /\ Ordered(r, d) /\ Serving(h, x) /\ Continues(r, d, h, x) /\ Keeps(r, u, h, x)
      /\ ~h.closed /\ conn[s] \in {"accepted", "open"}
    BY DEF Served
<1>2. CASE ReceiveDisconnect(s)
    BY <1>1, <1>2 DEF ReceiveDisconnect, Gone
<1>3. ASSUME Received(s)
      PROVE  /\ h.receiver = "running" /\ up'[s] = v /\ u # <<>> /\ Head(u) = u[1]
             /\ Len(u) \in Nat /\ Len(u) > 0 /\ Len(v) = Len(u) - 1
             /\ \A i \in 1..Len(v) : i + 1 \in 1..Len(u) /\ v[i] = u[i + 1]
             /\ v \in Seq({"chunk", "end"})
    <2>1. h.receiver = "running" /\ up'[s] = v /\ u # <<>>
        BY <1>0, <1>3 DEF Received
    <2>2. Len(u) \in Nat /\ Len(u) # 0
        BY <1>0, <2>1, EmptySeq
    <2>. QED BY <1>0, <2>1, <2>2
<1>4. /\ h.total \in Nat /\ h.queued \in Nat /\ r.spoken \in Nat /\ x.fed \in Nat
    BY <1>0, HandlerCounts, StreamFields DEF Closure
<1>5. CASE ReceiveChunk(s)
    <2>. DEFINE g == [h EXCEPT !.total = h.total + 1, !.queued = h.queued + 1]
    <2>1. /\ Received(s) /\ Head(u) = "chunk" /\ down'[s] = d /\ stream'[s] = x
          /\ handler'[s] = g
        BY <1>0, <1>5 DEF ReceiveChunk
    <2>2. /\ g.main = h.main /\ g.receiver = h.receiver /\ g.reader = h.reader
          /\ g.transcripts = h.transcripts /\ g.disconnected = h.disconnected
          /\ g.closed = h.closed /\ g.audioEnded = h.audioEnded
          /\ g.total = h.total + 1 /\ g.queued = h.queued + 1
        BY <1>0 DEF HandlerState
    <2>. HIDE DEF g, v
    <2>3. Serving(g, x) /\ Continues(r, d, g, x)
        BY <1>1, <2>2 DEF Serving, Continues, Waiting
    <2>4. ASSUME NEW i \in 1..Len(v), v[i] = "end" PROVE i = Len(v) /\ r.stopping
        <3>1. i + 1 \in 1..Len(u) /\ u[i + 1] = "end" /\ Len(v) = Len(u) - 1 /\ Len(u) \in Nat
            BY <1>3, <2>1, <2>4
        <3>2. i + 1 = Len(u) /\ r.stopping
            BY <1>1, <3>1 DEF Keeps
        <3>. QED BY <3>1, <3>2
    <2>5. r.stopping => v # <<>> /\ v[Len(v)] = "end"
        <3>1. CASE r.stopping
            <4>1. u[Len(u)] = "end" /\ u[1] = "chunk" /\ Len(u) \in Nat /\ Len(u) > 0
                BY <1>1, <1>3, <2>1, <3>1 DEF Keeps
            <4>2. Len(u) # 1
                BY <4>1
            <4>3. Len(v) = Len(u) - 1 /\ Len(v) \in 1..Len(v) /\ Len(v) + 1 = Len(u)
                BY <1>3, <2>1, <4>1, <4>2
            <4>4. v[Len(v)] = u[Len(v) + 1]
                BY <1>3, <2>1, <4>3
            <4>5. Len(v) # 0
                BY <4>1, <4>2, <4>3
            <4>. QED BY <4>1, <4>3, <4>4, <4>5, EmptySeq
        <3>. QED BY <3>1
    <2>6. g.total + Len(v) = r.spoken + (IF r.stopping THEN 1 ELSE 0)
        <3>1. h.total + Len(u) = r.spoken + (IF r.stopping THEN 1 ELSE 0)
            BY <1>1, <1>3, <2>1 DEF Keeps
        <3>2. Len(v) = Len(u) - 1 /\ Len(u) \in Nat
            BY <1>3, <2>1
        <3>3. \A a, b \in Nat : (a + 1) + (b - 1) = a + b
            OBVIOUS
        <3>4. g.total + Len(v) = h.total + Len(u)
            BY <1>4, <2>2, <3>2, <3>3
        <3>. QED BY <3>1, <3>4
    <2>7. x.failed \/ g.total = g.queued + x.fed
        <3>1. x.failed \/ h.total = h.queued + x.fed
            BY <1>1 DEF Keeps
        <3>. QED BY <1>4, <2>2, <3>1
    <2>8. h.receiver = "running" /\ ~h.audioEnded /\ (x.state \in {"ended", "over"} => x.failed)
        BY <1>1, <1>3, <2>1 DEF Keeps
    <2>9. Keeps(r, v, g, x)
        BY <2>2, <2>4, <2>5, <2>6, <2>7, <2>8 DEF Keeps
    <2>. QED BY <1>1, <1>3, <2>1, <2>2, <2>3, <2>9, ServedFlow DEF FlowsOn
<1>6. CASE ReceiveEnd(s)
    <2>. DEFINE g == ReceiverOver(h)
    <2>1. /\ Received(s) /\ Head(u) = "end" /\ down'[s] = d /\ stream'[s] = x
          /\ handler'[s] = g
        BY <1>0, <1>6 DEF ReceiveEnd
    <2>2. /\ g.main = h.main /\ g.receiver = "done" /\ g.reader = h.reader
          /\ g.transcripts = h.transcripts /\ g.disconnected = h.disconnected
          /\ g.closed = h.closed /\ g.total = h.total /\ g.queued = h.queued
        BY <1>0 DEF HandlerState, ReceiverOver
    <2>. HIDE DEF g, v
    <2>3. Serving(g, x) /\ Continues(r, d, g, x)
        BY <1>1, <2>2 DEF Serving, Continues, Waiting
    <2>4. 1 \in 1..Len(u) /\ u[1] = "end" /\ h.receiver = "running"
        BY <1>3, <2>1
    <2>5. 1 = Len(u) /\ r.stopping
        BY <1>1, <2>4 DEF Keeps
    <2>6. v = <<>>
        <3>1. Len(v) = 0 /\ v \in Seq({"chunk", "end"})
            BY <1>3, <2>1, <2>5
        <3>. QED BY <3>1, EmptySeq
    <2>7. h.total = r.spoken
        <3>1. h.total + 1 = r.spoken + 1
            BY <1>1, <2>4, <2>5 DEF Keeps
        <3>. QED BY <1>4, <3>1
    <2>8. /\ x.failed \/ h.total = h.queued + x.fed
          /\ x.state \in {"ended", "over"} => x.failed
        BY <1>1, <2>4 DEF Keeps
    <2>9. Keeps(r, v, g, x)
        <3>1. Len(v) = 0
            BY <2>6
        <3>. QED BY <2>2, <2>5, <2>6, <2>7, <2>8, <3>1 DEF Keeps
    <2>. QED BY <1>1, <1>3, <2>1, <2>2, <2>3, <2>9, ServedFlow DEF FlowsOn
<1>7. CASE Refuse(s)
    <2>. DEFINE g == [ReceiverOver(h) EXCEPT !.total = h.total + 1, !.closed = TRUE]
    <2>1. /\ down'[s] = d \o <<Signal("error"), Signal("close")>> /\ stream'[s] = x
          /\ handler'[s] = g
        BY <1>0, <1>1, <1>7 DEF Refuse, Delivered
    <2>2. g.closed /\ g.receiver = "done"
        BY <1>0 DEF HandlerState, ReceiverOver
    <2>. HIDE DEF g
    <2>. QED BY <1>0, <1>1, <2>1, <2>2, ClosingFlows DEF FlowsOn
<1>. QED BY <1>2, <1>5, <1>6, <1>7

(* What a step that leaves the page alone needs to keep.                   *)
LEMMA StaysServed ==
    ASSUME NEW s \in Sessions, Served(s), up'[s] = up[s], down'[s] = down[s],
           ~handler'[s].closed, Serving(handler'[s], stream'[s]),
           Continues(rec[s], down[s], handler'[s], stream'[s]),
           Keeps(rec[s], up[s], handler'[s], stream'[s])
    PROVE  FlowsOn(s)
BY ServedFlow DEF Served, FlowsOn

(* A failure that is reported while the browser is there.                  *)
LEMMA ReportFlow ==
    ASSUME TypeOK, ServerTypeOK, NEW s \in Sessions, Served(s), HeardWell(rec[s]),
           NEW g \in HandlerState, ~g.closed, ~g.disconnected, ReportFailure(s, g)
    PROVE  FlowsOn(s)
<1>0. /\ handler \in [Sessions -> HandlerState] /\ down \in [Sessions -> Seq(Message)]
      /\ down[s] \in Seq(Message) /\ rec[s] \in Closure
    BY DEF ServerTypeOK, HandlerState, TypeOK, Message
<1>1. ~CanRaise(s) /\ conn[s] \in {"accepted", "open"}
    BY DEF Served, CanRaise, Gone
<1>. DEFINE k == [Over(g, "done") EXCEPT !.closed = TRUE]
<1>2. /\ handler'[s] = k
      /\ down'[s] = down[s] \o <<Signal("error"), Signal("close")>>
    BY <1>0, <1>1 DEF ReportFailure, Delivered
<1>3. k.closed /\ k.receiver = "done"
    BY OverFacts, ClosedSocket
<1>. HIDE DEF k
<1>. QED BY <1>0, <1>1, <1>2, <1>3, ClosingFlows DEF FlowsOn, Served

LEMMA StartStreamFlow ==
    ASSUME TypeOK, ServerTypeOK, NEW s \in Sessions, Served(s), HeardWell(rec[s]), StartStream(s)
    PROVE  FlowsOn(s)
<1>. DEFINE h == handler[s]
            x == stream[s]
            r == rec[s]
<1>0. /\ handler \in [Sessions -> HandlerState] /\ h \in HandlerState
      /\ stream \in [Sessions -> StreamState] /\ x \in StreamState
    BY DEF ServerTypeOK, HandlerState, StreamState
<1>1. /\ h.main = "starting" /\ up' = up /\ ~h.closed /\ ~h.disconnected
      /\ x = NoStream /\ h.transcripts = <<>> /\ h.reader = "off"
    BY DEF StartStream, Served, Serving
<1>2. CASE ReportFailure(s, h)
    BY <1>0, <1>1, <1>2, ReportFlow
<1>3. CASE /\ stream' = [stream EXCEPT ![s].state = "open"]
           /\ handler' = [handler EXCEPT ![s].main = "sending", ![s].writer = "running",
                                         ![s].reader = "running", ![s].generator = "open"]
           /\ down' = down
    <2>. DEFINE g == [h EXCEPT !.main = "sending", !.writer = "running",
                               !.reader = "running", !.generator = "open"]
                y == [x EXCEPT !.state = "open"]
    <2>1. handler'[s] = g /\ stream'[s] = y
        BY <1>0, <1>3
    <2>2. /\ g.main = "sending" /\ g.receiver = h.receiver /\ g.reader = "running"
          /\ g.transcripts = h.transcripts /\ g.disconnected = h.disconnected
          /\ g.closed = h.closed /\ g.audioEnded = h.audioEnded
          /\ g.total = h.total /\ g.queued = h.queued
        BY <1>0 DEF HandlerState
    <2>3. /\ y.state = "open" /\ y.failed = x.failed /\ y.fed = x.fed
          /\ y.segment = x.segment /\ y.partial = x.partial
        BY <1>0 DEF StreamState
    <2>. HIDE DEF g, y
    <2>4. Serving(g, y)
        BY <1>1, <2>2, <2>3 DEF Serving, Served
    <2>5. Continues(r, down[s], g, y)
        <3>1. Waiting(g) = Waiting(h) /\ SaidCount(y) = SaidCount(x)
            BY <1>1, <2>2, <2>3 DEF Waiting, SaidCount
        <3>. QED BY <2>2, <3>1 DEF Continues, Served
    <2>6. Keeps(r, up[s], g, y)
        BY <2>2, <2>3 DEF Keeps, Served
    <2>. QED BY <1>1, <1>3, <2>1, <2>2, <2>4, <2>5, <2>6, StaysServed
<1>. QED BY <1>1, <1>2, <1>3 DEF StartStream

LEMMA NotEmpty ==
    ASSUME NEW q, Len(q) > 0
    PROVE  q # <<>>
<1>1. CASE q = <<>>
    <2>1. Len(q) = 0
        BY <1>1
    <2>. QED BY <2>1
<1>. QED BY <1>1

LEMMA SendTranscriptFlow ==
    ASSUME TypeOK, ServerTypeOK, NEW s \in Sessions, Served(s), HeardWell(rec[s]),
           Agree(handler[s], stream[s]), SendTranscript(s)
    PROVE  FlowsOn(s)
<1>. DEFINE h == handler[s]
            x == stream[s]
            r == rec[s]
            d == down[s]
            ts == h.transcripts
            g == [h EXCEPT !.transcripts = Tail(ts)]
<1>0. /\ handler \in [Sessions -> HandlerState] /\ h \in HandlerState
      /\ down \in [Sessions -> Seq(Message)] /\ d \in Seq(Message) /\ r \in Closure
      /\ stream \in [Sessions -> StreamState] /\ x \in StreamState
    BY DEF ServerTypeOK, HandlerState, StreamState, TypeOK, Message
<1>1. /\ ts # <<>> /\ Head(ts) # None /\ up' = up /\ stream' = stream
      /\ handler'[s] = g /\ down'[s] = d \o <<Head(ts)>>
    <2>1. ~h.closed /\ ~CanRaise(s) /\ conn[s] \in {"accepted", "open"}
        BY DEF Served, CanRaise, Gone
    <2>2. /\ ts # <<>> /\ Head(ts) # None /\ up' = up /\ stream' = stream
          /\ Delivered(s, <<Head(ts)>>) /\ handler' = [handler EXCEPT ![s] = g]
        BY <2>1 DEF SendTranscript
    <2>. QED BY <1>0, <2>1, <2>2 DEF Delivered
<1>2. /\ ts \in Seq(Transcript \cup {None}) /\ Len(ts) \in Nat /\ Len(ts) > 0
      /\ Waiting(h) \in Nat /\ (h.reader # "done" => Waiting(h) = Len(ts))
      /\ (h.reader = "done" => Waiting(h) = Len(ts) - 1)
    BY <1>0, <1>1, WaitingFacts
<1>3. Tail(ts) \in Seq(Transcript \cup {None}) /\ Head(ts) = ts[1] /\ Len(Tail(ts)) = Len(ts) - 1
      /\ \A i \in 1..Len(Tail(ts)) : Tail(ts)[i] = ts[i + 1]
    BY <1>1, <1>2
<1>4. /\ g \in HandlerState /\ g.transcripts = Tail(ts) /\ g.main = h.main
      /\ g.receiver = h.receiver /\ g.reader = h.reader /\ g.disconnected = h.disconnected
      /\ g.closed = h.closed /\ g.audioEnded = h.audioEnded
      /\ g.total = h.total /\ g.queued = h.queued
    BY <1>0, <1>3 DEF HandlerState
<1>5. ts[1] \in Transcript
    <2>1. 1 \in 1..Len(ts)
        BY <1>2
    <2>2. ts[1] \in Transcript \cup {None}
        BY <1>2, <2>1
    <2>. QED BY <1>1, <1>3, <2>2
<1>6. /\ Serving(h, x) /\ Continues(r, d, h, x) /\ Keeps(r, up[s], h, x) /\ Ordered(r, d)
      /\ Untold(r) /\ conn[s] \in {"accepted", "open"} /\ ~h.closed
    BY DEF Served
<1>. HIDE DEF g
<1>7. Waiting(h) > 0
    (* Otherwise the queue would hold its None alone. *)
    <2>1. CASE h.reader # "done"
        BY <1>2, <2>1
    <2>2. CASE h.reader = "done"
        <3>1. h.main = "sending"
            BY DEF SendTranscript
        <3>2. Len(ts) # 1
            <4>1. Ended(ts)
                BY <2>2, <3>1 DEF Agree
            <4>2. ts[Len(ts)] = None
                BY <4>1 DEF Ended
            <4>. QED BY <1>1, <1>3, <4>2
        <3>3. \A a \in Nat : a > 0 /\ a # 1 => a - 1 > 0
            OBVIOUS
        <3>. QED BY <1>2, <2>2, <3>2, <3>3
    <2>. QED BY <2>1, <2>2
<1>8. Waiting(g) = Waiting(h) - 1 /\ Waiting(h) <= Len(ts)
    <2>1. CASE h.reader # "done"
        <3>1. Waiting(g) = Len(Tail(ts))
            BY <1>4, <2>1, WaitingFacts
        <3>. QED BY <1>2, <1>3, <2>1, <3>1
    <2>2. CASE h.reader = "done"
        <3>1. Len(Tail(ts)) > 0
            BY <1>2, <1>3, <1>7, <2>2
        <3>2. Tail(ts) # <<>>
            BY <3>1, NotEmpty
        <3>3. Waiting(g) = Len(Tail(ts)) - 1
            BY <1>4, <2>2, <3>2, WaitingFacts
        <3>. QED BY <1>2, <1>3, <2>2, <3>3
    <2>. QED BY <2>1, <2>2
<1>. DEFINE e == d \o <<ts[1]>>
            n == Len(d)
            b == HeardCount(r)
            w == Waiting(h)
<1>9. n \in Nat /\ b \in Nat /\ w \in Nat
    BY <1>0, <1>2, Counts
<1>10. /\ Len(e) = n + 1 /\ e[n + 1] = ts[1]
       /\ \A i \in 1..n : e[i] = d[i]
    <2>1. ts[1] \in Message
        BY <1>5 DEF Message
    <2>2. d \in Seq(Message)
        BY <1>0
    <2>. QED BY <2>1, <2>2
<1>11. /\ \A i \in 1..n : d[i].kind = "transcript" /\ IsNth(d[i], b + i)
       /\ \A i \in 1..w : IsNth(ts[i], (b + n) + i)
       /\ b + n + w = SaidCount(x)
    BY <1>6 DEF Ordered, Continues
<1>12. ts[1].kind = "transcript"
    BY <1>5 DEF Transcript
<1>. HIDE DEF e, n, b, w
<1>13. ASSUME NEW i \in 1..Len(e) PROVE e[i].kind = "transcript" /\ IsNth(e[i], b + i)
    <2>1. CASE i \in 1..n
        BY <1>10, <1>11, <2>1
    <2>2. CASE i = n + 1
        <3>1. 1 \in 1..w /\ (b + n) + 1 = b + i
            BY <1>7, <1>9, <2>2 DEF w
        <3>. QED BY <1>10, <1>11, <1>12, <2>2, <3>1
    <2>. QED BY <1>9, <1>10, <2>1, <2>2
<1>14. ASSUME NEW i \in 1..(w - 1) PROVE IsNth(Tail(ts)[i], (b + (n + 1)) + i)
    <2>1. i + 1 \in 1..w /\ (b + n) + (i + 1) = (b + (n + 1)) + i
        BY <1>9
    <2>2. i \in 1..Len(Tail(ts))
        BY <1>2, <1>3, <1>8 DEF w
    <2>. QED BY <1>3, <1>11, <2>1, <2>2
<1>15. (b + (n + 1)) + (w - 1) = SaidCount(x)
    BY <1>9, <1>11
<1>16. Ordered(r, e)
    BY <1>13 DEF Ordered, b
<1>17. Continues(r, e, g, x)
    BY <1>4, <1>8, <1>10, <1>13, <1>14, <1>15 DEF Continues, b, w
<1>18. Serving(g, x) /\ Keeps(r, up[s], g, x)
    <2>1. ~(h.main = "starting") /\ ~(h.main = "closing")
        BY DEF SendTranscript
    <2>. QED BY <1>4, <1>6, <2>1 DEF Serving, Keeps
<1>19. Flows(r, conn[s], up[s], e, g, x)
    BY <1>4, <1>6, <1>16, <1>17, <1>18, ServedFlow
<1>. QED BY <1>1, <1>3, <1>19 DEF FlowsOn, e

LEMMA EndTranscriptsFlow ==
    ASSUME TypeOK, ServerTypeOK, NEW s \in Sessions, Served(s), HeardWell(rec[s]), EndTranscripts(s)
    PROVE  FlowsOn(s)
<1>. DEFINE h == handler[s]
            x == stream[s]
            r == rec[s]
            ts == h.transcripts
            g == [h EXCEPT !.main = "closing", !.transcripts = <<>>,
                     !.generator = "closed", !.writer = "done", !.reader = "done"]
<1>0. /\ handler \in [Sessions -> HandlerState] /\ h \in HandlerState
      /\ stream \in [Sessions -> StreamState] /\ x \in StreamState
    BY DEF ServerTypeOK, HandlerState, StreamState
<1>1. /\ ts # <<>> /\ Head(ts) = None /\ up' = up /\ down' = down /\ h.main = "sending"
    BY DEF EndTranscripts
<1>2. /\ ts \in Seq(Transcript \cup {None}) /\ Len(ts) \in Nat /\ Len(ts) > 0
      /\ Waiting(h) \in Nat /\ (h.reader # "done" => Waiting(h) = Len(ts))
      /\ (h.reader = "done" => Waiting(h) = Len(ts) - 1)
    BY <1>0, <1>1, WaitingFacts
<1>3. Waiting(h) = 0
    <2>1. CASE Waiting(h) > 0
        <3>1. 1 \in 1..Waiting(h) /\ ts[1] = None
            BY <1>1, <1>2, <2>1
        <3>2. ts[1].kind = "transcript"
            BY <3>1 DEF Served, Continues, IsNth
        <3>3. None.kind = "none"
            BY DEF None, Signal
        <3>. QED BY <3>1, <3>2, <3>3
    <2>. QED BY <1>2, <2>1
<1>4. h.reader = "done" /\ x.state = "over"
    BY <1>2, <1>3 DEF Served, Serving
<1>5. handler'[s] = g /\ stream'[s] = [x EXCEPT !.state = "over"]
    BY <1>0, <1>4 DEF EndTranscripts, GeneratorEnds
<1>6. stream'[s] = x
    BY <1>0, <1>4, <1>5 DEF StreamState
<1>7. /\ g.main = "closing" /\ g.receiver = h.receiver /\ g.reader = "done"
      /\ g.transcripts = <<>> /\ g.disconnected = h.disconnected
      /\ g.closed = h.closed /\ g.audioEnded = h.audioEnded
      /\ g.total = h.total /\ g.queued = h.queued
    BY <1>0 DEF HandlerState
<1>. HIDE DEF g
<1>8. Waiting(g) = 0
    <2>1. Len(<<>>) = 0
        OBVIOUS
    <2>. QED BY <1>7, <2>1 DEF Waiting
<1>9. Serving(g, x) /\ Keeps(r, up[s], g, x) /\ Continues(r, down[s], g, x)
    BY <1>3, <1>4, <1>7, <1>8 DEF Served, Serving, Keeps, Continues
<1>. QED BY <1>1, <1>5, <1>6, <1>7, <1>9, StaysServed DEF Served

(* The close that tells the browser that everything was said.              *)
LEMMA CloseNormallyFlow ==
    ASSUME TypeOK, ServerTypeOK, NEW s \in Sessions, Served(s), HeardWell(rec[s]), CloseNormally(s)
    PROVE  FlowsOn(s)
<1>. DEFINE h == handler[s]
            x == stream[s]
            r == rec[s]
            d == down[s]
            k == [Over(h, "done") EXCEPT !.closed = TRUE]
<1>0. /\ handler \in [Sessions -> HandlerState] /\ h \in HandlerState
      /\ down \in [Sessions -> Seq(Message)] /\ d \in Seq(Message) /\ r \in Closure
      /\ x \in StreamState
    BY DEF ServerTypeOK, HandlerState, StreamState, TypeOK, Message
<1>1. /\ h.main = "closing" /\ stream' = stream
      /\ h.reader = "done" /\ h.transcripts = <<>> /\ x.state = "over"
      /\ conn[s] \in {"accepted", "open"} /\ ~h.closed /\ ~CanRaise(s)
    BY DEF CloseNormally, Served, Serving, CanRaise, Gone
<1>2. handler'[s] = k /\ down'[s] = d \o <<Signal("close")>>
    BY <1>0, <1>1 DEF CloseNormally, Delivered
<1>3. k.closed /\ k.receiver = "done" /\ k.main = "done" /\ k.reader = "done"
    BY <1>0, <1>1, OverFacts, ClosedSocket
<1>. HIDE DEF k
<1>4. HeardCount(r) + Len(d) = SaidCount(x)
    <2>1. Waiting(h) = 0
        BY <1>0, <1>1, WaitingFacts
    <2>2. HeardCount(r) \in Nat /\ Len(d) \in Nat
        BY <1>0, Counts
    <2>3. HeardCount(r) + Len(d) + 0 = SaidCount(x)
        BY <2>1 DEF Served, Continues
    <2>. QED BY <2>2, <2>3
<1>5. x.failed \/ (r.stopping /\ x.fed = r.spoken)
    <2>1. x.failed \/ (h.queued = 0 /\ h.receiver = "done" /\ h.total = h.queued + x.fed)
        BY <1>1 DEF Served, Keeps
    <2>2. h.receiver = "done" => r.stopping /\ h.total = r.spoken
        BY DEF Served, Keeps
    <2>3. x.fed \in Nat
        BY <1>0, StreamFields
    <2>. QED BY <2>1, <2>2, <2>3
<1>6. Whole(HeardCount(r) + Len(d), r, k, x)
    BY <1>1, <1>3, <1>4, <1>5 DEF Whole
<1>. QED BY <1>0, <1>1, <1>2, <1>3, <1>6, ClosingFlows DEF FlowsOn, Served

LEMMA WriterFlow ==
    ASSUME TypeOK, ServerTypeOK, NEW s \in Sessions, Served(s), Agree(handler[s], stream[s]),
           WriteChunk(s) \/ EndAudio(s)
    PROVE  FlowsOn(s)
<1>. DEFINE h == handler[s]
            x == stream[s]
            r == rec[s]
<1>0. /\ handler \in [Sessions -> HandlerState] /\ h \in HandlerState
      /\ stream \in [Sessions -> StreamState] /\ x \in StreamState
    BY DEF ServerTypeOK, HandlerState, StreamState
<1>7. h.queued \in Nat /\ x.fed \in Nat /\ h.total \in Nat
    BY <1>0, HandlerCounts, StreamFields
<1>1. /\ h.writer = "running" /\ up' = up /\ down' = down
    BY DEF WriteChunk, EndAudio
<1>2. h.main # "starting"
    BY <1>1 DEF Agree, Served, Serving, NoStream
<1>3. /\ ~h.closed /\ Serving(h, x) /\ Continues(r, down[s], h, x) /\ Keeps(r, up[s], h, x)
    BY DEF Served
<1>4. CASE WriteChunk(s) /\ x.state = "open"
    <2>. DEFINE g == [h EXCEPT !.queued = h.queued - 1]
                y == [x EXCEPT !.fed = x.fed + 1]
    <2>1. handler'[s] = g /\ stream'[s] = y /\ h.queued > 0
        BY <1>0, <1>4 DEF WriteChunk
    <2>2. /\ g.main = h.main /\ g.receiver = h.receiver /\ g.reader = h.reader
          /\ g.transcripts = h.transcripts /\ g.disconnected = h.disconnected
          /\ g.closed = h.closed /\ g.audioEnded = h.audioEnded
          /\ g.total = h.total /\ g.queued = h.queued - 1
        BY <1>0 DEF HandlerState
    <2>3. /\ y.state = "open" /\ y.failed = x.failed /\ y.fed = x.fed + 1
          /\ y.segment = x.segment /\ y.partial = x.partial
        BY <1>0, <1>4 DEF StreamState
    <2>. HIDE DEF g, y
    <2>4. Serving(g, y)
        BY <1>2, <1>3, <1>4, <2>2, <2>3 DEF Serving
    <2>5. Continues(r, down[s], g, y)
        <3>1. Waiting(g) = Waiting(h) /\ SaidCount(y) = SaidCount(x)
            BY <2>2, <2>3 DEF Waiting, SaidCount
        <3>. QED BY <1>3, <2>2, <3>1 DEF Continues
    <2>6. x.failed \/ g.total = g.queued + y.fed
        <3>1. x.failed \/ h.total = h.queued + x.fed
            BY <1>3 DEF Keeps
        <3>2. \A a, b \in Nat : (a - 1) + (b + 1) = a + b
            OBVIOUS
        <3>. QED BY <1>7, <2>2, <2>3, <3>1, <3>2
    <2>7. Keeps(r, up[s], g, y)
        BY <1>3, <2>2, <2>3, <2>6 DEF Keeps
    <2>. QED BY <1>1, <1>3, <2>1, <2>2, <2>4, <2>5, <2>7, StaysServed
<1>5. CASE WriteChunk(s) /\ x.state # "open"
    <2>. DEFINE g == [h EXCEPT !.queued = h.queued - 1, !.writer = "done"]
    <2>1. handler'[s] = g /\ stream'[s] = x /\ h.queued > 0 /\ x.state = "over"
        BY <1>0, <1>5 DEF WriteChunk
    <2>2. /\ g.main = h.main /\ g.receiver = h.receiver /\ g.reader = h.reader
          /\ g.transcripts = h.transcripts /\ g.disconnected = h.disconnected
          /\ g.closed = h.closed /\ g.audioEnded = h.audioEnded
          /\ g.total = h.total
        BY <1>0 DEF HandlerState
    <2>. HIDE DEF g
    <2>4. Serving(g, x) /\ Continues(r, down[s], g, x)
        BY <1>3, <2>2 DEF Serving, Continues, Waiting
    <2>5. x.failed
        <3>1. h.queued # 0
            BY <1>7, <2>1
        <3>. QED BY <1>3, <2>1, <3>1 DEF Keeps
    <2>6. Keeps(r, up[s], g, x)
        BY <1>3, <2>2, <2>5 DEF Keeps
    <2>. QED BY <1>1, <1>3, <2>1, <2>2, <2>4, <2>6, StaysServed
<1>6. CASE EndAudio(s)
    <2>. DEFINE g == [h EXCEPT !.writer = "done"]
                y == [x EXCEPT !.state = IF @ = "open" THEN "ended" ELSE @]
    <2>1. handler'[s] = g /\ stream'[s] = y /\ h.queued = 0 /\ h.audioEnded
        BY <1>0, <1>6 DEF EndAudio
    <2>2. /\ g.main = h.main /\ g.receiver = h.receiver /\ g.reader = h.reader
          /\ g.transcripts = h.transcripts /\ g.disconnected = h.disconnected
          /\ g.closed = h.closed /\ g.audioEnded = h.audioEnded
          /\ g.total = h.total /\ g.queued = h.queued
        BY <1>0 DEF HandlerState
    <2>3. /\ y.failed = x.failed /\ y.fed = x.fed
          /\ y.segment = x.segment /\ y.partial = x.partial
          /\ x.state = "over" => y.state = "over"
        BY <1>0 DEF StreamState
    <2>. HIDE DEF g, y
    <2>4. Serving(g, y)
        BY <1>2, <1>3, <2>2, <2>3 DEF Serving
    <2>5. Continues(r, down[s], g, y)
        <3>1. Waiting(g) = Waiting(h) /\ SaidCount(y) = SaidCount(x)
            BY <2>2, <2>3 DEF Waiting, SaidCount
        <3>. QED BY <1>3, <2>2, <3>1 DEF Continues
    <2>6. h.receiver = "done"
        BY <1>3, <2>1 DEF Keeps, Serving
    <2>7. Keeps(r, up[s], g, y)
        BY <1>3, <2>1, <2>2, <2>3, <2>6 DEF Keeps
    <2>. QED BY <1>1, <1>3, <2>1, <2>2, <2>4, <2>5, <2>7, StaysServed
<1>. QED BY <1>4, <1>5, <1>6

(* The reader puts the next message, or the end.                           *)
LEMMA ReaderFlow ==
    ASSUME TypeOK, ServerTypeOK, NEW s \in Sessions, Served(s), HeardWell(rec[s]),
           Transcribe(s) \/ StreamEnds(s)
    PROVE  FlowsOn(s)
<1>. DEFINE h == handler[s]
            x == stream[s]
            r == rec[s]
            d == down[s]
            ts == h.transcripts
            n == Len(ts)
            b == HeardCount(r) + Len(d)
<1>0. /\ handler \in [Sessions -> HandlerState] /\ h \in HandlerState
      /\ stream \in [Sessions -> StreamState] /\ x \in StreamState
      /\ d \in Seq(Message) /\ r \in Closure
    BY DEF ServerTypeOK, HandlerState, StreamState, TypeOK, Message
<1>1. /\ h.reader = "running" /\ x.state \in {"open", "ended"} /\ up' = up /\ down' = down
    BY DEF Transcribe, StreamEnds
<1>2. /\ ~h.closed /\ Serving(h, x) /\ Continues(r, d, h, x) /\ Keeps(r, up[s], h, x)
    BY DEF Served
<1>3. h.main = "sending"
    BY <1>1, <1>2 DEF Serving
<1>4. /\ ts \in Seq(Transcript \cup {None}) /\ n \in Nat /\ Waiting(h) = n
    BY <1>0, <1>1, WaitingFacts
<1>5. b \in Nat /\ x.segment \in Nat
    <2>1. HeardCount(r) \in Nat
        BY <1>0, Counts
    <2>2. Len(d) \in Nat
        BY <1>0
    <2>3. x.segment \in Nat
        BY <1>0, StreamFields
    <2>. QED BY <2>1, <2>2, <2>3
<1>6. /\ \A i \in 1..n : IsNth(ts[i], b + i)
      /\ b + n = SaidCount(x)
    BY <1>2, <1>4 DEF Continues
<1>7. ASSUME NEW m \in Transcript \cup {None}
      PROVE  /\ Append(ts, m) \in Seq(Transcript \cup {None}) /\ Len(Append(ts, m)) = n + 1
             /\ Append(ts, m)[n + 1] = m
             /\ \A i \in 1..n : Append(ts, m)[i] = ts[i]
    BY <1>4
<1>. HIDE DEF n, b
<1>8. ASSUME NEW m \in Transcript, handler' = [handler EXCEPT ![s].transcripts = Append(ts, m)],
             NEW y, stream'[s] = y, y.state = x.state, y.failed = x.failed, y.fed = x.fed,
             IsNth(m, SaidCount(x) + 1), SaidCount(y) = SaidCount(x) + 1
      PROVE  FlowsOn(s)
    <2>. DEFINE g == [h EXCEPT !.transcripts = Append(ts, m)]
                us == Append(ts, m)
    <2>0. m \in Transcript \cup {None}
        OBVIOUS
    <2>1. handler'[s] = g
        BY <1>0, <1>8
    <2>2. /\ us \in Seq(Transcript \cup {None}) /\ Len(us) = n + 1 /\ us[n + 1] = m
          /\ \A i \in 1..n : us[i] = ts[i]
        BY <1>7, <2>0
    <2>. HIDE DEF us
    <2>3. /\ g \in HandlerState /\ g.main = h.main /\ g.receiver = h.receiver
          /\ g.reader = h.reader /\ g.transcripts = us /\ g.disconnected = h.disconnected
          /\ g.closed = h.closed /\ g.audioEnded = h.audioEnded
          /\ g.total = h.total /\ g.queued = h.queued
        BY <1>0, <2>2 DEF HandlerState, us
    <2>. HIDE DEF g
    <2>4. Waiting(g) = n + 1
        BY <1>1, <2>2, <2>3, WaitingFacts
    <2>5. Serving(g, y)
        BY <1>1, <1>2, <1>3, <1>8, <2>3 DEF Serving
    <2>6. ASSUME NEW i \in 1..(n + 1) PROVE IsNth(us[i], b + i)
        <3>1. CASE i \in 1..n
            BY <1>6, <2>2, <3>1
        <3>2. CASE i = n + 1
            <4>1. SaidCount(x) + 1 = b + i
                BY <1>4, <1>5, <1>6, <3>2 DEF n
            <4>. QED BY <1>8, <2>2, <3>2, <4>1
        <3>. QED BY <1>4, <3>1, <3>2 DEF n
    <2>7. b + (n + 1) = SaidCount(y)
        <3>1. n \in Nat
            BY <1>4 DEF n
        <3>. QED BY <1>5, <1>6, <1>8, <3>1
    <2>8. Continues(r, d, g, y)
        BY <1>2, <2>3, <2>4, <2>6, <2>7 DEF Continues, b
    <2>9. Keeps(r, up[s], g, y)
        BY <1>2, <1>8, <2>3 DEF Keeps
    <2>. QED BY <1>1, <1>2, <1>8, <2>1, <2>3, <2>5, <2>8, <2>9, StaysServed
<1>9. CASE Transcribe(s)
    <2>1. CASE /\ ~x.partial
               /\ stream' = [stream EXCEPT ![s].segment = @ + 1, ![s].partial = TRUE]
               /\ Put(s, Transcribed(x.segment + 1, FALSE))
        <3>. DEFINE y == [x EXCEPT !.segment = x.segment + 1, !.partial = TRUE]
                    m == Transcribed(x.segment + 1, FALSE)
                    k == x.segment
        <3>1. stream'[s] = y
            BY <1>0, <2>1
        <3>2. /\ y.state = x.state /\ y.failed = x.failed /\ y.fed = x.fed
              /\ y.segment = k + 1 /\ y.partial
            BY <1>0 DEF StreamState
        <3>3. k \in Nat /\ k + 1 \in Nat \ {0}
            BY <1>5
        <3>4. m \in Transcript /\ m.kind = "transcript" /\ m.segment = k + 1 /\ ~m.final
            BY <3>3 DEF Transcribed, Transcript
        <3>5. handler' = [handler EXCEPT ![s].transcripts = Append(ts, m)]
            BY <1>0, <2>1 DEF Put
        <3>. HIDE DEF y, m, k
        <3>6. SaidCount(x) = 2 * k
            <4>1. SaidCount(x) = 2 * k - 0
                BY <2>1 DEF SaidCount, k
            <4>. QED BY <3>3, <4>1
        <3>7. SaidCount(y) = 2 * (k + 1) - 1
            BY <3>2 DEF SaidCount
        <3>8. IsNth(m, 2 * (k + 1) - 1)
            BY <3>4 DEF IsNth
        <3>9. 2 * (k + 1) - 1 = 2 * k + 1
            BY <3>3
        <3>. QED BY <1>8, <3>1, <3>2, <3>4, <3>5, <3>6, <3>7, <3>8, <3>9
    <2>2. CASE /\ x.partial
               /\ stream' = [stream EXCEPT ![s].partial = FALSE]
               /\ Put(s, Transcribed(x.segment, TRUE))
        <3>. DEFINE y == [x EXCEPT !.partial = FALSE]
                    m == Transcribed(x.segment, TRUE)
                    k == x.segment
        <3>1. stream'[s] = y
            BY <1>0, <2>2
        <3>2. /\ y.state = x.state /\ y.failed = x.failed /\ y.fed = x.fed
              /\ y.segment = k /\ ~y.partial
            BY <1>0 DEF StreamState
        <3>3. k \in Nat
            BY <1>5
        <3>6. SaidCount(x) = 2 * k - 1
            BY <2>2 DEF SaidCount
        <3>7. SaidCount(y) = 2 * k - 0
            BY <3>2 DEF SaidCount
        <3>9. 2 * k - 0 = (2 * k - 1) + 1
            BY <3>3
        <3>10. k # 0
            (* A segment is open only once it was begun. *)
            <4>1. CASE k = 0
                <5>1. b + n = 2 * 0 - 1
                    BY <1>6, <3>6, <4>1
                <5>2. n \in Nat
                    BY <1>4 DEF n
                <5>. QED BY <1>5, <5>1, <5>2
            <4>. QED BY <4>1
        <3>4. m \in Transcript /\ m.kind = "transcript" /\ m.segment = k /\ m.final
            BY <3>3, <3>10 DEF Transcribed, Transcript
        <3>5. handler' = [handler EXCEPT ![s].transcripts = Append(ts, m)]
            BY <1>0, <2>2 DEF Put
        <3>. HIDE DEF y, m, k
        <3>8. IsNth(m, 2 * k - 0)
            BY <3>4 DEF IsNth
        <3>. QED BY <1>8, <3>1, <3>2, <3>4, <3>5, <3>6, <3>7, <3>8, <3>9
    <2>. QED BY <1>9, <2>1, <2>2 DEF Transcribe
<1>10. CASE StreamEnds(s)
    <2>. DEFINE us == Append(ts, None)
                g == [h EXCEPT !.reader = "done", !.transcripts = us]
                y == [x EXCEPT !.state = "over"]
                z == [x EXCEPT !.state = "over", !.failed = TRUE]
    <2>0. None \in Transcript \cup {None}
        OBVIOUS
    <2>1. /\ handler'[s] = g
          /\ \/ stream'[s] = y /\ x.state = "ended"
             \/ stream'[s] = z
        BY <1>0, <1>10 DEF StreamEnds
    <2>2. /\ us \in Seq(Transcript \cup {None}) /\ Len(us) = n + 1
          /\ \A i \in 1..n : us[i] = ts[i]
        BY <1>7, <2>0
    <2>. HIDE DEF us
    <2>3. /\ g \in HandlerState /\ g.main = h.main /\ g.receiver = h.receiver
          /\ g.reader = "done" /\ g.transcripts = us /\ g.disconnected = h.disconnected
          /\ g.closed = h.closed /\ g.audioEnded = h.audioEnded
          /\ g.total = h.total /\ g.queued = h.queued
        BY <1>0, <2>2 DEF HandlerState
    <2>4. /\ stream'[s].state = "over" /\ stream'[s].fed = x.fed
          /\ stream'[s].segment = x.segment /\ stream'[s].partial = x.partial
          /\ stream'[s].failed \/ (x.state = "ended" /\ stream'[s].failed = x.failed)
        BY <1>0, <2>1 DEF StreamState
    <2>. HIDE DEF g, y, z
    <2>5. Waiting(g) = n
        <3>1. n \in Nat
            BY <1>4 DEF n
        <3>2. us # <<>>
            BY <2>2, <3>1, NotEmpty
        <3>. QED BY <2>2, <2>3, <3>1, <3>2, WaitingFacts
    <2>6. Serving(g, stream'[s])
        BY <1>1, <1>2, <1>3, <2>3, <2>4 DEF Serving
    <2>7. SaidCount(stream'[s]) = SaidCount(x)
        BY <2>4 DEF SaidCount
    <2>8. Continues(r, d, g, stream'[s])
        BY <1>2, <1>6, <2>2, <2>3, <2>5, <2>7 DEF Continues, b
    <2>9. Keeps(r, up[s], g, stream'[s])
        BY <1>2, <2>3, <2>4 DEF Keeps
    <2>. QED BY <1>1, <1>2, <2>1, <2>3, <2>6, <2>8, <2>9, StaysServed
<1>. QED BY <1>9, <1>10

-------------------------------------------------------------------------------
(* Every step of a handler or of Transcribe keeps what flows.              *)
LEMMA ServedSteps ==
    ASSUME TypeOK, ServerTypeOK, NEW s \in Sessions, Served(s), HeardWell(rec[s]),
           Agree(handler[s], stream[s]), Task(s) \/ Remote(s)
    PROVE  FlowsOn(s)
<1>1. conn[s] # "requested" /\ handler[s].main \notin {"done", "escaped"}
    BY DEF Served, Serving
<1>2. ~Accept(s) /\ ~CloseAbandoned(s)
    BY <1>1 DEF Accept, CloseAbandoned, Agree
<1>3. CASE ReceiveChunk(s) \/ Refuse(s) \/ ReceiveEnd(s) \/ ReceiveDisconnect(s)
    BY <1>3, ReceiveFlow
<1>4. CASE StartStream(s)
    BY <1>4, StartStreamFlow
<1>5. CASE SendTranscript(s)
    BY <1>5, SendTranscriptFlow
<1>6. CASE EndTranscripts(s)
    BY <1>6, EndTranscriptsFlow
<1>7. CASE CloseNormally(s)
    BY <1>7, CloseNormallyFlow
<1>8. CASE WriteChunk(s) \/ EndAudio(s)
    BY <1>8, WriterFlow
<1>9. CASE Transcribe(s) \/ StreamEnds(s)
    BY <1>9, ReaderFlow
<1>. QED BY <1>2, <1>3, <1>4, <1>5, <1>6, <1>7, <1>8, <1>9 DEF Task, Remote

(* The handler of a socket that is closed, by either side.                 *)
LEMMA ClosedFlow ==
    ASSUME ServerTypeOK, NEW s \in Sessions, Task(s) \/ Remote(s), s \in Detailed, Flowing(s),
           Agree(handler[s], stream[s]), conn[s] \in {"accepted", "open", "closed", "cut"},
           conn[s] \in {"accepted", "open"} => handler[s].closed
    PROVE  FlowsOn(s)
<1>. DEFINE r == rec[s]
            h == handler[s]
            x == stream[s]
            c == conn[s]
<1>0. Flows(r, c, up[s], down[s], h, x)
    BY DEF Flowing
<1>1. \A n : Whole(n, r, h, x) => Whole(n, r, handler'[s], stream'[s])
    BY WholeStays
<1>2. r.calls = <<"done">> /\ ~r.late /\ c # "cut" =>
          c = "closed" /\ Whole(HeardCount(r), r, handler'[s], stream'[s])
    BY <1>0, <1>1 DEF Flows
<1>3. CASE c \in {"closed", "cut"}
    BY <1>2, <1>3, LeftFlows DEF FlowsOn
<1>4. CASE c \in {"accepted", "open"}
    <2>1. h.closed /\ h.receiver = "done"
        BY <1>0, <1>4 DEF Flows
    <2>2. handler'[s].receiver = "done" /\ handler'[s].closed /\ down'[s] = down[s]
        BY <1>4, <2>1, ClosedStays
    <2>. QED BY <1>0, <1>1, <1>2, <1>4, <2>2 DEF Flows, FlowsOn
<1>. QED BY <1>3, <1>4

LEMMA TaskFlow ==
    ASSUME TypeOK, ServerTypeOK, FlowInv, \A t \in Sessions : Agree(handler[t], stream[t]),
           NEW s \in Sessions, s \in Detailed, Task(s) \/ Remote(s)
    PROVE  FlowInv'
<1>0. /\ conn \in [Sessions -> Connections] /\ rec' = rec
      /\ Agree(handler[s], stream[s]) /\ \A t \in Sessions : Flowing(t)
    BY TasksServe DEF TypeOK, FlowInv, Serves
<1>1. ASSUME NEW t \in Sessions \ {s} PROVE Flowing(t)'
    <2>1. handler'[t] = handler[t] /\ stream'[t] = stream[t]
        BY TasksLeaveOthers
    <2>2. up'[t] = up[t] /\ down'[t] = down[t] /\ conn'[t] = conn[t]
        BY ServerChannels
    <2>. QED BY <1>0, <2>1, <2>2, OthersFlow
<1>2. /\ up'[s] = up[s] \/ up[s] # <<>>
      /\ down'[s] = down[s] \/ conn[s] \in {"accepted", "open"}
      /\ \/ conn'[s] = conn[s]
         \/ Accept(s) /\ conn[s] = "requested" /\ conn'[s] = "accepted"
    BY ServerChannels
<1>3. Connects(rec[s], conn'[s], up'[s], down'[s])
    <2>1. Connects(rec[s], conn[s], up[s], down[s])
        BY <1>0 DEF Flowing
    <2>. QED BY <1>2, <2>1 DEF Connects
<1>4. HeardWell(rec[s])
    BY <1>0 DEF Flowing
<1>5. Flows(rec[s], conn'[s], up'[s], down'[s], handler'[s], stream'[s])
    <2>1. CASE conn[s] \in {"none", "requested"}
        <3>1. handler[s] = Idle /\ stream[s] = NoStream
            BY <1>0, <2>1 DEF Flowing, Flows
        <3>2. Accept(s)
            BY <3>1 DEF Task, Remote, Idle, ReceiveChunk, Refuse, ReceiveEnd, ReceiveDisconnect,
                Received, StartStream, SendTranscript, EndTranscripts, CloseNormally,
                CloseAbandoned, WriteChunk, EndAudio, Transcribe, StreamEnds
        <3>3. conn'[s] = "accepted"
            BY <1>0, <3>2 DEF Accept
        <3>. QED BY <1>0, <3>2, <3>3, AcceptFlow
    <2>2. CASE conn[s] \in {"accepted", "open"} /\ ~handler[s].closed
        <3>1. Served(s)
            BY <1>0, <2>2, ServedFlow DEF Flowing, Served
        <3>2. FlowsOn(s)
            BY <1>0, <1>4, <3>1, ServedSteps
        <3>3. conn'[s] = conn[s]
            BY <1>2, <2>2
        <3>. QED BY <3>2, <3>3 DEF FlowsOn
    <2>3. CASE \/ conn[s] \in {"closed", "cut"}
               \/ conn[s] \in {"accepted", "open"} /\ handler[s].closed
        <3>1. FlowsOn(s)
            BY <1>0, <2>3, ClosedFlow
        <3>2. conn'[s] = conn[s]
            BY <1>2, <2>3
        <3>. QED BY <3>1, <3>2 DEF FlowsOn
    <2>. QED BY <1>0, <2>1, <2>2, <2>3 DEF Connections
<1>6. Flowing(s)'
    BY <1>0, <1>3, <1>4, <1>5 DEF Flowing
<1>. QED BY <1>1, <1>6 DEF FlowInv

(* A server that is not looked into says one thing at a time.              *)
LEMMA ServeFlow ==
    ASSUME TypeOK, FlowInv, NEW s \in Sessions, s \notin Detailed, Serve(s)
    PROVE  FlowInv'
<1>0. /\ conn \in [Sessions -> Connections]
      /\ up \in [Sessions -> Seq({"chunk", "end"})] /\ down \in [Sessions -> Seq(Message)]
      /\ rec' = rec /\ handler' = handler /\ stream' = stream
      /\ \A t \in Sessions : Flowing(t)
    BY DEF TypeOK, Message, FlowInv, Serve
<1>. DEFINE n == Len(rec[s].finalizedParts)
<1>1. /\ \A t \in Sessions \ {s} : conn'[t] = conn[t] /\ up'[t] = up[t] /\ down'[t] = down[t]
      /\ \/ conn[s] = "requested" /\ conn'[s] = "accepted" /\ up'[s] = up[s] /\ down'[s] = down[s]
         \/ /\ conn[s] = "open" /\ conn'[s] = conn[s] /\ up'[s] = up[s]
            /\ \/ \E k \in {"error", "close"} : down'[s] = <<Signal(k)>>
               \/ \E final \in BOOLEAN : down'[s] = <<Transcribed(n + 1, final)>>
         \/ up[s] # <<>> /\ conn'[s] = conn[s] /\ down'[s] = down[s]
    BY <1>0 DEF Serve
<1>2. ASSUME NEW t \in Sessions \ {s} PROVE Flowing(t)'
    BY <1>0, <1>1, <1>2, OthersFlow
<1>3. Connects(rec[s], conn'[s], up'[s], down'[s])
    <2>1. Connects(rec[s], conn[s], up[s], down[s])
        BY <1>0 DEF Flowing
    <2>. QED BY <1>1, <2>1 DEF Connects
<1>4. Follows(rec[s], down'[s])
    <2>1. CASE down'[s] = down[s]
        BY <1>0, <2>1 DEF Flowing
    <2>2. CASE \E k \in {"error", "close"} : down'[s] = <<Signal(k)>>
        BY <2>2 DEF Follows, Signal
    <2>3. CASE \E final \in BOOLEAN : down'[s] = <<Transcribed(n + 1, final)>>
        BY <2>3 DEF Follows, Transcribed
    <2>. QED BY <1>1, <2>1, <2>2, <2>3
<1>5. Flowing(s)'
    BY <1>0, <1>3, <1>4 DEF Flowing
<1>. QED BY <1>2, <1>5 DEF FlowInv

LEMMA InitFlow == Init => FlowInv
<1>. SUFFICES ASSUME Init, NEW s \in Sessions PROVE Flowing(s)
    BY DEF FlowInv
<1>1. /\ rec[s] = Unused /\ conn[s] = "none" /\ up[s] = <<>> /\ down[s] = <<>>
      /\ handler[s] = Idle /\ stream[s] = NoStream
    BY DEF Init, ClientInit, ServerInit
<1>2. Len(<<>>) = 0 /\ Unused.finalizedParts = <<>> /\ Unused.currentPartial = 0
      /\ Unused.phase = "unused" /\ Unused.calls = <<>>
    BY DEF Unused
<1>3. HeardWell(Unused)
    BY <1>2 DEF HeardWell
<1>4. Connects(Unused, "none", <<>>, <<>>)
    BY DEF Connects, Unused
<1>5. Flows(Unused, "none", <<>>, <<>>, Idle, NoStream)
    <2>1. <<>> # <<"done">>
        <3>1. Len(<<"done">>) = 1
            OBVIOUS
        <3>. QED BY <1>2, <3>1
    <2>. QED BY <1>2, <2>1 DEF Flows
<1>6. Follows(Unused, <<>>)
    BY <1>2 DEF Follows
<1>. QED BY <1>1, <1>3, <1>4, <1>5, <1>6 DEF Flowing

LEMMA FlowStep ==
    ASSUME Inv, Inv', FlowInv, [Next]_vars
    PROVE  FlowInv'
<1>1. CASE UNCHANGED vars
    <2>1. /\ rec' = rec /\ conn' = conn /\ up' = up /\ down' = down
          /\ handler' = handler /\ stream' = stream
        BY <1>1 DEF vars, clientVars, serverVars
    <2>. QED BY <2>1, OthersFlow DEF FlowInv
<1>2. ASSUME NEW s \in Sessions, ClientStep(s), UNCHANGED serverVars
      PROVE  FlowInv'
    BY <1>2, ClientFlow
<1>3. ASSUME NEW s \in Sessions, s \in Detailed, Task(s) \/ Remote(s)
      PROVE  FlowInv'
    BY <1>3, TaskFlow DEF Inv, PageInv
<1>4. ASSUME NEW s \in Sessions, s \notin Detailed, Serve(s)
      PROVE  FlowInv'
    BY <1>4, ServeFlow DEF Inv, PageInv
<1>. QED BY <1>1, <1>2, <1>3, <1>4 DEF Next, Step

LEMMA FlowInvariant == Spec => []FlowInv
BY Invariant, InitFlow, FlowStep, PTL DEF Spec

(* The visitor is shown every segment once and in the order spoken, of any *)
(* recording and whatever its server says (heardSoFar, onmessage in        *)
(* lib/voice.ts).                                                          *)
THEOREM SegmentsHeardInOrder == Spec => []HeardInOrder
<1>1. ASSUME Inv, FlowInv PROVE HeardInOrder
    <2>. SUFFICES ASSUME NEW s \in Sessions
                  PROVE  HeardSoFar(rec[s]) = [i \in 1..Len(HeardSoFar(rec[s])) |-> i]
        BY DEF HeardInOrder
    <2>. DEFINE r == rec[s]
                f == r.finalizedParts
                n == Len(f)
                p == IF r.currentPartial = 0 THEN <<>> ELSE <<r.currentPartial>>
    <2>1. /\ r \in Closure /\ HeardWell(r) /\ f \in Seq(Nat) /\ n \in Nat
          /\ r.currentPartial \in Nat
        BY <1>1, Counts DEF Inv, PageInv, TypeOK, FlowInv, Flowing, Closure
    <2>2. CASE r.currentPartial = 0
        <3>1. HeardSoFar(r) = f \o <<>>
            BY <2>2 DEF HeardSoFar
        <3>2. f \o <<>> = f
            BY <2>1
        <3>3. \A i \in 1..n : f[i] = i
            BY <2>1 DEF HeardWell
        <3>4. f = [i \in 1..n |-> f[i]]
            BY <2>1
        <3>. QED BY <3>1, <3>2, <3>3, <3>4
    <2>3. CASE r.currentPartial # 0
        <3>. DEFINE q == Append(f, n + 1)
        <3>1. r.currentPartial = n + 1
            BY <2>1, <2>3 DEF HeardWell
        <3>2. HeardSoFar(r) = f \o <<n + 1>>
            BY <2>3, <3>1 DEF HeardSoFar
        <3>3. f \o <<n + 1>> = q
            BY <2>1
        <3>4. q \in Seq(Nat) /\ Len(q) = n + 1 /\ q[n + 1] = n + 1
              /\ \A i \in 1..n : q[i] = f[i]
            BY <2>1
        <3>5. \A i \in 1..n : f[i] = i
            BY <2>1 DEF HeardWell
        <3>. HIDE DEF q, n
        <3>6. ASSUME NEW i \in 1..(n + 1) PROVE q[i] = i
            <4>1. n \in Nat
                BY <2>1 DEF n
            <4>2. i \in 1..n \/ i = n + 1
                BY <4>1
            <4>. QED BY <3>4, <3>5, <4>2
        <3>7. q = [i \in 1..(n + 1) |-> q[i]]
            BY <3>4
        <3>. QED BY <3>2, <3>3, <3>4, <3>6, <3>7
    <2>. QED BY <2>2, <2>3
<1>. QED BY <1>1, Invariant, FlowInvariant, PTL

(* A question that the server's close submits is whole: every segment that *)
(* Transcribe made out was heard before the close (main.py's loop over     *)
(* transcribe(), voice.py's queue and None, onclose in lib/voice.ts).      *)
THEOREM FinishedIsWhole == Spec => []DoneIsWhole
<1>1. ASSUME Inv, FlowInv PROVE DoneIsWhole
    <2>. SUFFICES ASSUME NEW s \in Detailed, DoneByClose(s)
                  PROVE  Len(HeardSoFar(rec[s])) = stream[s].segment
        BY DEF DoneIsWhole
    <2>. DEFINE r == rec[s]
                f == r.finalizedParts
                n == Len(f)
                x == stream[s]
                k == x.segment
    <2>0. s \in Sessions
        BY ServersAssumption
    <2>1. /\ r \in Closure /\ HeardWell(r) /\ f \in Seq(Nat) /\ x \in StreamState
        BY <1>1, <2>0 DEF Inv, PageInv, TypeOK, FlowInv, Flowing, Closure, ServerTypeOK, StreamState
    <2>2. n \in Nat /\ k \in Nat
        <3>1. n \in Nat
            BY <2>1
        <3>2. k \in Nat
            BY <2>1, StreamFields
        <3>. QED BY <3>1, <3>2
    <2>3. HeardCount(r) = SaidCount(x)
        BY <1>1, <2>0 DEF FlowInv, Flowing, Flows, DoneByClose, Whole
    <2>4. /\ x.partial => SaidCount(x) = 2 * k - 1
          /\ ~x.partial => SaidCount(x) = 2 * k - 0
        BY DEF SaidCount
    <2>5. /\ r.currentPartial = 0 => HeardCount(r) = 2 * n
          /\ r.currentPartial # 0 => HeardCount(r) = 2 * n + 1
        BY <2>1, Counts
    <2>6. /\ r.currentPartial = 0 => Len(HeardSoFar(r)) = n
          /\ r.currentPartial # 0 => Len(HeardSoFar(r)) = n + 1
        <3>1. /\ f \o <<>> = f
              /\ \A m \in Nat : f \o <<m>> = Append(f, m) /\ Len(Append(f, m)) = n + 1
            BY <2>1
        <3>2. r.currentPartial \in Nat
            BY <2>1, Counts
        <3>. QED BY <3>1, <3>2 DEF HeardSoFar
    <2>. HIDE DEF n, k
    <2>7. CASE r.currentPartial = 0
        <3>1. n = k
            BY <2>2, <2>3, <2>4, <2>5, <2>7
        <3>. QED BY <2>6, <2>7, <3>1 DEF k
    <2>8. CASE r.currentPartial # 0
        <3>1. n + 1 = k
            BY <2>2, <2>3, <2>4, <2>5, <2>8
        <3>. QED BY <2>6, <2>8, <3>1 DEF k
    <2>. QED BY <2>7, <2>8
<1>. QED BY <1>1, Invariant, FlowInvariant, PTL

(* And every window of sound that was sent was taken by Transcribe, unless *)
(* the stream broke off: no refused recording is submitted by its close    *)
(* (receive_audio in main.py, write_chunks in voice.py).                   *)
THEOREM FinishedIsAllSound == Spec => []AllSoundTranscribed
<1>1. ASSUME FlowInv PROVE AllSoundTranscribed
    BY <1>1, ServersAssumption DEF FlowInv, Flowing, Flows, AllSoundTranscribed, DoneByClose, Whole
<1>. QED BY <1>1, FlowInvariant, PTL

===============================================================================
