------------------------- MODULE NarratorTurns_proofs -------------------------
(***************************************************************************)
(* The narrator overlay, for any number of questions, recordings and       *)
(* narrators: its status is never a leftover, what sounds is waited for,   *)
(* no reply is passed over in silence, and the transcript keeps every      *)
(* exchange the overlay was told of, those of one session at a time.       *)
(***************************************************************************)
EXTENDS NarratorTurns, FiniteSetTheorems, SequenceTheorems, TLAPS

Recorded == [phase: {"unused", "setup", "live", "errored", "orphan", "over"},
             mount: 1..Len(Shown), seen: BOOLEAN, waited: 0..MaxWait]

-------------------------------------------------------------------------------
(* What the operators that the actions share make of a turn.               *)
LEMMA DisturbedFacts ==
    ASSUME NEW t, turn[t] \in Turn
    PROVE  /\ Disturbed(t) \in Turn
           /\ Disturbed(t).phase = turn[t].phase /\ Disturbed(t).mount = turn[t].mount
           /\ turn[t].interrupted => Disturbed(t).interrupted
           /\ turn[t].phase \in {"playing", "browser"} => Disturbed(t).interrupted
           /\ Disturbed(t).voiced = turn[t].voiced
BY DEF Disturbed, Turn, Answered

LEMMA AbortedFacts ==
    ASSUME NEW t, turn[t] \in Turn
    PROVE  /\ Aborted(t) \in Turn
           /\ Aborted(t).phase = IF Pending(t) THEN "rejected" ELSE turn[t].phase
           /\ Aborted(t).mount = turn[t].mount
           /\ turn[t].interrupted => Aborted(t).interrupted
           /\ turn[t].phase \in {"playing", "browser"} => Aborted(t).interrupted
           /\ Aborted(t).voiced = turn[t].voiced
<1>. HIDE DEF Pending
<1>1. CASE ~Pending(t)
    BY <1>1, DisturbedFacts DEF Aborted
<1>2. CASE Pending(t)
    <2>1. Aborted(t) = [Disturbed(t) EXCEPT !.phase = "rejected"]
        BY <1>2 DEF Aborted
    <2>. DEFINE d == Disturbed(t)
    <2>2. /\ d \in Turn
          /\ d.phase = turn[t].phase /\ d.mount = turn[t].mount
          /\ turn[t].interrupted => d.interrupted
          /\ turn[t].phase \in {"playing", "browser"} => d.interrupted
          /\ d.voiced = turn[t].voiced
        BY DisturbedFacts
    <2>. HIDE DEF d
    <2>3. Aborted(t) = [d EXCEPT !.phase = "rejected"]
        BY <2>1 DEF d
    <2>. QED BY <1>2, <2>2, <2>3 DEF Turn, Answered
<1>. QED BY <1>1, <1>2

LEMMA AskedFacts ==
    ASSUME TypeOK, NEW t \in Turns
    PROVE  /\ Asked(t) \in Turn
           /\ Asked(t).phase = "asked" /\ Asked(t).mount = mount
           /\ Asked(t).session \in Turns
<1>1. turn[t] \in Turn /\ narrator \in Narrators /\ mount \in 1..Len(Shown)
    BY NarratorAssumption DEF TypeOK, narrator, Narrators, ToSet
<1>2. stored[narrator].id \in Turns \cup {None}
    BY <1>1 DEF TypeOK
<1>3. Remembered \in BOOLEAN /\ (Remembered => stored[narrator].id # None)
    BY DEF Remembered
<1>. DEFINE new == IsNew
            session == IF Remembered THEN stored[narrator].id ELSE t
            behind == \E u \in Turns : turn[u].phase = "asked" /\ turn[u].isNew /\ Here(u)
<1>4. session \in Turns /\ new \in BOOLEAN /\ behind \in BOOLEAN
    BY <1>2, <1>3 DEF IsNew
<1>. HIDE DEF session, new, behind
<1>5. Asked(t) = [turn[t] EXCEPT !.phase = "asked", !.mount = mount, !.isNew = new,
                                 !.session = session, !.behind = behind]
    BY DEF Asked, session, new, behind
<1>. QED BY <1>1, <1>4, <1>5 DEF Turn

LEMMA EndedFacts ==
    ASSUME NEW r, rec[r] \in Recorded, MaxWait \in Nat, NEW phase \in {"errored", "orphan", "over"}
    PROVE  /\ Ended(r, phase) \in Recorded
           /\ Ended(r, phase).phase = phase /\ Ended(r, phase).mount = rec[r].mount
<1>1. 0 \in 0..MaxWait
    OBVIOUS
<1>2. Ended(r, phase) = [rec[r] EXCEPT !.phase = phase, !.seen = FALSE, !.waited = 0]
    BY DEF Ended
<1>. DEFINE q == rec[r]
<1>3. q \in Recorded /\ Ended(r, phase) = [q EXCEPT !.phase = phase, !.seen = FALSE, !.waited = 0]
    BY <1>2
<1>. HIDE DEF q
<1>4. [q EXCEPT !.phase = phase, !.seen = FALSE, !.waited = 0] \in Recorded
    BY <1>1, <1>3 DEF Recorded
<1>5. /\ [q EXCEPT !.phase = phase, !.seen = FALSE, !.waited = 0].phase = phase
      /\ [q EXCEPT !.phase = phase, !.seen = FALSE, !.waited = 0].mount = q.mount
    BY <1>3 DEF Recorded
<1>. QED BY <1>3, <1>4, <1>5 DEF q

LEMMA ReleasedFacts ==
    ASSUME NEW r, rec[r] \in Recorded, MaxWait \in Nat
    PROVE  /\ Released(r) \in Recorded /\ Released(r).mount = rec[r].mount
           /\ Released(r).phase = IF rec[r].phase \in {"live", "errored", "orphan"}
                                  THEN "over" ELSE rec[r].phase
BY EndedFacts DEF Released
-------------------------------------------------------------------------------
(* NarratorInv by what its parts are about: recordings, questions, voices. *)
ListeningInv ==
    /\ ui.listening <=> \E r \in Recordings : Capturing(r)
    /\ \A q, r \in Recordings :
          Capturing(q) /\ (Capturing(r) \/ rec[r].phase \in {"errored", "orphan"}) => q = r
    /\ \A r \in Recordings :
          /\ rec[r].mount <= mount
          /\ rec[r].phase \in {"live", "errored", "orphan"} => rec[r].mount = mount

ThinkingInv == ui.loading => \E t \in Turns : turn[t].phase = "asked" /\ Here(t)

Speaking(t) == turn[t].phase \in {"playing", "rejected", "browser"} /\ Here(t)

SpeakingInv == ui.speaking => \E t \in Turns : Speaking(t)

SoundInv ==
    /\ element.clip \in Turns => Here(element.clip) /\ turn[element.clip].phase \in Answered
    /\ utterance # None => turn[utterance].phase = "browser"

TurnInv(t) ==
    /\ Pending(t) => turn[t].phase = "playing"
    /\ turn[t].phase \in {"playing", "rejected"} => Here(t)
    /\ turn[t].phase = "playing" => turn[t].interrupted \/ element.clip = t
    /\ turn[t].phase = "browser" => turn[t].interrupted \/ utterance = t
    /\ turn[t].mount <= mount
    /\ turn[t].phase = "over" => turn[t].voiced \/ turn[t].interrupted

VoiceInv == SoundInv /\ \A t \in Turns : TurnInv(t)

Inv == TypeOK /\ ListeningInv /\ ThinkingInv /\ SpeakingInv /\ VoiceInv

LEMMA Parts == Inv <=> NarratorInv /\ NeverSilentlySkipped
BY DEF Inv, NarratorInv, StatusIsHonest, VoicesAreOwned, NeverSilentlySkipped,
       ListeningInv, ThinkingInv, SpeakingInv, VoiceInv, TurnInv, Speaking, SoundInv

(* Nothing about recordings is disturbed by a step that leaves them alone. *)
LEMMA ListeningKept ==
    ASSUME ListeningInv, UNCHANGED <<rec, mount>>, ui'.listening = ui.listening
    PROVE  ListeningInv'
BY DEF ListeningInv, Capturing

LEMMA TypesOfTurns ==
    ASSUME TypeOK, NEW t \in Turns
    PROVE  turn[t] \in Turn
BY DEF TypeOK

-------------------------------------------------------------------------------
LEMMA SubmitTextStep ==
    ASSUME Inv, NEW t \in Turns, SubmitText(t)
    PROVE  Inv'
<1>. USE DEF Inv
<1>1. turn' = [[u \in Turns |-> Aborted(u)] EXCEPT ![t] = Asked(t)] /\ turn[t].phase = "unasked"
    BY DEF SubmitText, Submit
<1>2. turn'[t] = Asked(t) /\ \A u \in Turns \ {t} : turn'[u] = Aborted(u)
    BY <1>1
<1>3. UNCHANGED <<mode, mount, rec>> /\ element' = [clip |-> Silence, sound |-> "pending"]
      /\ utterance' = None
    BY DEF SubmitText, Unlock
<1>4. PICK h \in Seq(Turns) : ui' = [ui EXCEPT !.loading = TRUE, !.history = h]
    <2>. DEFINE h == IF Clears(ui.history # <<>>) THEN <<>> ELSE ui.history
    <2>1. h \in Seq(Turns)
        BY DEF TypeOK
    <2>2. ui' = [ui EXCEPT !.loading = TRUE, !.history = h]
        BY DEF SubmitText, Submit
    <2>. QED BY <2>1, <2>2
<1>5. /\ ui'.listening = ui.listening /\ ui'.speaking = ui.speaking /\ ui'.loading
      /\ ui' \in [history: Seq(Turns), loading: BOOLEAN, speaking: BOOLEAN,
                  listening: BOOLEAN, micBlocked: BOOLEAN]
    BY <1>4 DEF TypeOK
<1>6. TypeOK'
    <2>1. turn' \in [Turns -> Turn]
        BY <1>1, AskedFacts, AbortedFacts, TypesOfTurns
    <2>2. stored' \in [Narrators -> [id: Turns \cup {None}, idle: (0 - MaxBack)..TTL]]
        <3>1. stored' = [stored EXCEPT ![narrator] = [id |-> Asked(t).session, idle |-> 0]]
            BY DEF SubmitText, Submit
        <3>2. Asked(t).session \in Turns /\ 0 \in (0 - MaxBack)..TTL
            BY AskedFacts, NarratorAssumption
        <3>. QED BY <3>1, <3>2 DEF TypeOK
    <2>. QED BY <1>3, <1>5, <2>1, <2>2 DEF TypeOK
<1>7. /\ turn'[t].phase = "asked" /\ turn'[t].mount = mount
      /\ \A u \in Turns \ {t} :
            /\ turn'[u].phase = IF Pending(u) THEN "rejected" ELSE turn[u].phase
            /\ turn'[u].mount = turn[u].mount /\ turn'[u].voiced = turn[u].voiced
            /\ turn[u].interrupted => turn'[u].interrupted
            /\ turn[u].phase \in {"playing", "browser"} => turn'[u].interrupted
    BY <1>2, AskedFacts, AbortedFacts, TypesOfTurns
<1>8. ListeningInv' /\ ThinkingInv'
    BY <1>3, <1>5, <1>7, ListeningKept DEF ThinkingInv, Here
<1>9. SpeakingInv'
    <2>1. \A u \in Turns : Speaking(u) => Speaking(u)'
        BY <1>1, <1>3, <1>7 DEF Speaking, Here
    <2>. QED BY <1>5, <2>1 DEF SpeakingInv
<1>10. VoiceInv'
    <2>1. element'.clip \notin Turns
        BY <1>3, NarratorAssumption
    <2>2. ASSUME NEW u \in Turns PROVE TurnInv(u)'
        <3>1. TurnInv(u) /\ mount \in Int /\ ~Pending(u)'
            BY <2>1 DEF VoiceInv, Pending, TypeOK
        <3>2. CASE u = t
            BY <1>3, <1>7, <3>1, <3>2 DEF TurnInv, Here
        <3>3. CASE u # t
            <4>. HIDE DEF Pending
            <4>. QED BY <1>3, <1>7, <3>1, <3>3 DEF TurnInv, Here
        <3>. QED BY <3>2, <3>3
    <2>3. SoundInv'
        BY <1>3, <2>1 DEF SoundInv
    <2>. QED BY <2>2, <2>3 DEF VoiceInv
<1>. QED BY <1>6, <1>8, <1>9, <1>10

-------------------------------------------------------------------------------
(* Recordings.  One that is over leaves nothing that captures, since there *)
(* was nothing beside it that did.                                         *)
LEMMA RecordingTypes ==
    ASSUME TypeOK, NEW r \in Recordings
    PROVE  rec[r] \in Recorded /\ rec[r].mount \in Int /\ mount \in Int /\ MaxWait \in Nat
<1>1. rec[r] \in Recorded /\ MaxWait \in Nat /\ mount \in Int
    BY NarratorAssumption DEF TypeOK, Recorded
<1>. QED BY <1>1 DEF Recorded

LEMMA RecordingEnds ==
    ASSUME TypeOK, ListeningInv, NEW r \in Recordings, NEW phase \in {"errored", "orphan", "over"},
           Capturing(r) \/ rec[r].phase \in {"errored", "orphan"},
           rec[r].mount = mount, mount' = mount,
           rec' = [rec EXCEPT ![r] = Ended(r, phase)], ui'.listening = FALSE
    PROVE  ListeningInv' /\ rec' \in [Recordings -> Recorded]
<1>1. rec[r] \in Recorded /\ MaxWait \in Nat /\ rec \in [Recordings -> Recorded]
    BY RecordingTypes DEF TypeOK, Recorded
<1>2. Ended(r, phase) \in Recorded /\ Ended(r, phase).phase = phase
      /\ Ended(r, phase).mount = rec[r].mount
    BY <1>1, EndedFacts
<1>3. \A q \in Recordings \ {r} : rec'[q] = rec[q]
    BY <1>1
<1>4. rec'[r].phase = phase /\ rec'[r].mount = rec[r].mount
    BY <1>1, <1>2
<1>5. \A q \in Recordings : ~Capturing(q)'
    <2>. SUFFICES ASSUME NEW q \in Recordings, Capturing(q)' PROVE FALSE
        OBVIOUS
    <2>1. q # r
        BY <1>4 DEF Capturing
    <2>2. Capturing(q)
        BY <1>3, <2>1 DEF Capturing
    <2>. QED BY <2>1, <2>2 DEF ListeningInv
<1>6. \A q \in Recordings :
         /\ rec'[q].mount <= mount'
         /\ rec'[q].phase \in {"live", "errored", "orphan"} => rec'[q].mount = mount'
    <2>1. rec[r].mount <= mount
        BY DEF ListeningInv
    <2>2. ASSUME NEW q \in Recordings \ {r}
          PROVE  /\ rec'[q].mount <= mount'
                 /\ rec'[q].phase \in {"live", "errored", "orphan"} => rec'[q].mount = mount'
        BY <1>3 DEF ListeningInv
    <2>. QED BY <1>4, <2>1, <2>2
<1>. QED BY <1>1, <1>2, <1>5, <1>6 DEF ListeningInv

(* Voices and questions do not notice a step that leaves them alone.       *)
LEMMA VoicesKept ==
    ASSUME ThinkingInv, SpeakingInv, VoiceInv, UNCHANGED <<turn, mount, element, utterance>>,
           ui'.loading = ui.loading, ui'.speaking = ui.speaking
    PROVE  ThinkingInv' /\ SpeakingInv' /\ VoiceInv'
<1>1. UNCHANGED turn /\ UNCHANGED mount /\ UNCHANGED element /\ UNCHANGED utterance
    OBVIOUS
<1>2. ThinkingInv' /\ SpeakingInv'
    BY <1>1 DEF ThinkingInv, SpeakingInv, Speaking, Here
<1>3. VoiceInv'
    BY <1>1 DEF VoiceInv, SoundInv, TurnInv, Pending, Here
<1>. QED BY <1>2, <1>3

Page == [history: Seq(Turns), loading: BOOLEAN, speaking: BOOLEAN,
         listening: BOOLEAN, micBlocked: BOOLEAN]

LEMMA MissedStep ==
    ASSUME Inv, NEW r \in Recordings, Missed(r) \/ EndAfterError(r)
    PROVE  Inv'
<1>. USE DEF Inv
<1>1. PICK phase \in {"errored", "over"}, blocked \in BOOLEAN :
         rec' = [rec EXCEPT ![r] = Ended(r, phase)]
         /\ ui' = [ui EXCEPT !.listening = FALSE, !.micBlocked = blocked]
    <2>1. CASE Missed(r)
        <3>1. PICK blocked \in BOOLEAN, next \in {"errored", "over"} :
                 /\ rec' = [rec EXCEPT ![r] = Ended(r, next)]
                 /\ ui' = [ui EXCEPT !.listening = FALSE, !.micBlocked = @ \/ blocked]
            BY <2>1 DEF Missed
        <3>2. (ui.micBlocked \/ blocked) \in BOOLEAN
            OBVIOUS
        <3>. QED BY <3>1, <3>2
    <2>2. CASE EndAfterError(r)
        <3>1. ui \in Page /\ rec' = [rec EXCEPT ![r] = Ended(r, "over")]
              /\ ui' = [ui EXCEPT !.listening = FALSE]
            BY <2>2 DEF EndAfterError, TypeOK, Page
        <3>2. ui' = [ui EXCEPT !.listening = FALSE, !.micBlocked = ui.micBlocked]
            BY <3>1 DEF Page
        <3>3. ui.micBlocked \in BOOLEAN
            BY <3>1 DEF Page
        <3>. QED BY <3>1, <3>2, <3>3
    <2>. QED BY <2>1, <2>2
<1>2. UNCHANGED <<mode, mount, turn, element, utterance, stored>>
    BY DEF Missed, EndAfterError
<1>3. ui' \in Page /\ ui'.listening = FALSE /\ ui'.loading = ui.loading
      /\ ui'.speaking = ui.speaking
    BY <1>1 DEF TypeOK, Page
<1>4. rec[r].mount = mount /\ (Capturing(r) \/ rec[r].phase \in {"errored", "orphan"})
    BY DEF Missed, EndAfterError, Capturing, ListeningInv
<1>5. ListeningInv' /\ rec' \in [Recordings -> Recorded]
    BY <1>1, <1>2, <1>3, <1>4, RecordingEnds
<1>6. TypeOK'
    BY <1>2, <1>3, <1>5 DEF TypeOK, Page, Recorded
<1>. QED BY <1>2, <1>3, <1>5, <1>6, VoicesKept

LEMMA SetUpStep ==
    ASSUME Inv, NEW r \in Recordings, SetUp(r)
    PROVE  Inv'
<1>. USE DEF Inv
<1>0. UNCHANGED <<mode, mount, turn, element, utterance, stored>> /\ rec[r].phase = "setup"
    BY DEF SetUp
<1>1. rec[r] \in Recorded /\ MaxWait \in Nat /\ rec \in [Recordings -> Recorded] /\ ui \in Page
    BY RecordingTypes DEF TypeOK, Recorded, Page
<1>2. CASE Capturing(r) /\ rec' = [rec EXCEPT ![r].phase = "live"] /\ UNCHANGED ui
    <2>1. rec'[r].phase = "live" /\ rec'[r].mount = rec[r].mount
          /\ rec' \in [Recordings -> Recorded] /\ \A q \in Recordings \ {r} : rec'[q] = rec[q]
        BY <1>1, <1>2 DEF Recorded
    <2>2. \A q \in Recordings : Capturing(q)' <=> Capturing(q)
        BY <1>0, <1>2, <2>1 DEF Capturing
    <2>3. \A q \in Recordings \ {r} : rec'[q].phase = rec[q].phase /\ rec'[q].mount = rec[q].mount
        BY <2>1
    <2>4. rec[r].mount = mount
        BY <1>2 DEF Capturing
    <2>5. ListeningInv'
        BY <1>0, <1>2, <2>1, <2>2, <2>3, <2>4 DEF ListeningInv
    <2>6. TypeOK'
        BY <1>0, <1>2, <2>1 DEF TypeOK, Recorded
    <2>. QED BY <1>0, <1>2, <2>5, <2>6, VoicesKept
<1>3. ASSUME NEW blocked \in BOOLEAN, NEW next \in {"over", "orphan"}, Capturing(r),
             rec' = [rec EXCEPT ![r] = Ended(r, next)],
             ui' = [ui EXCEPT !.listening = FALSE, !.micBlocked = @ \/ blocked]
      PROVE  Inv'
    <2>1. ui' \in Page /\ ui'.listening = FALSE /\ ui'.loading = ui.loading
          /\ ui'.speaking = ui.speaking
        BY <1>1, <1>3 DEF Page
    <2>2. rec[r].mount = mount
        BY <1>3 DEF Capturing
    <2>3. ListeningInv' /\ rec' \in [Recordings -> Recorded]
        BY <1>0, <1>3, <2>1, <2>2, RecordingEnds
    <2>4. TypeOK'
        BY <1>0, <2>1, <2>3 DEF TypeOK, Page, Recorded
    <2>. QED BY <1>0, <2>1, <2>3, <2>4, VoicesKept
<1>4. CASE ~Capturing(r) /\ rec' = [rec EXCEPT ![r] = Ended(r, "over")] /\ UNCHANGED ui
    <2>1. rec'[r].phase = "over" /\ rec'[r].mount = rec[r].mount
          /\ rec' \in [Recordings -> Recorded] /\ \A q \in Recordings \ {r} : rec'[q] = rec[q]
        BY <1>1, <1>4, EndedFacts
    <2>2. \A q \in Recordings : Capturing(q)' <=> Capturing(q)
        BY <1>0, <1>4, <2>1 DEF Capturing
    <2>3. \A q \in Recordings \ {r} : rec'[q].phase = rec[q].phase /\ rec'[q].mount = rec[q].mount
        BY <2>1
    <2>4. ListeningInv'
        BY <1>0, <1>4, <2>1, <2>2, <2>3 DEF ListeningInv
    <2>5. TypeOK'
        BY <1>0, <1>4, <2>1 DEF TypeOK, Recorded
    <2>. QED BY <1>0, <1>4, <2>4, <2>5, VoicesKept
<1>. QED BY <1>2, <1>3, <1>4 DEF SetUp

LEMMA TapMicrophoneStep ==
    ASSUME Inv, NEW r \in Recordings, TapMicrophone(r)
    PROVE  Inv'
<1>. USE DEF Inv
<1>1. rec \in [Recordings -> Recorded] /\ MaxWait \in Nat /\ mount \in Int
      /\ turn \in [Turns -> Turn] /\ ui \in Page
    BY NarratorAssumption DEF TypeOK, Recorded, Page
<1>2. PICK phase \in {"live", "setup"}, seen \in BOOLEAN :
         rec' = [q \in Recordings |->
                    IF q = r THEN [phase |-> phase, mount |-> mount, seen |-> seen, waited |-> 0]
                    ELSE Released(q)]
    BY DEF TapMicrophone
<1>3. rec'[r] = [phase |-> phase, mount |-> mount, seen |-> seen, waited |-> 0]
      /\ \A q \in Recordings \ {r} : rec'[q] = Released(q)
    BY <1>2
<1>4. \A q \in Recordings \ {r} :
         /\ rec'[q] \in Recorded /\ rec'[q].mount = rec[q].mount
         /\ rec'[q].phase = IF rec[q].phase \in {"live", "errored", "orphan"}
                            THEN "over" ELSE rec[q].phase
    BY <1>1, <1>3, ReleasedFacts
<1>5. rec'[r].phase \in {"live", "setup"} /\ rec'[r].mount = mount /\ rec'[r] \in Recorded
    <2>1. mount \in 1..Len(Shown) /\ 0 \in 0..MaxWait
        BY NarratorAssumption DEF TypeOK
    <2>. QED BY <1>3, <2>1 DEF Recorded
<1>6. /\ UNCHANGED <<mode, mount, stored>>
      /\ element' = [clip |-> Silence, sound |-> "pending"] /\ utterance' = None
      /\ turn' = [u \in Turns |-> Aborted(u)]
      /\ ui' = [ui EXCEPT !.listening = TRUE]
    BY DEF TapMicrophone, Unlock
<1>7. \A q \in Recordings : ~Capturing(q)
    BY DEF TapMicrophone, ListeningInv
<1>8. \A q \in Recordings : Capturing(q)' <=> q = r
    BY <1>1, <1>4, <1>5, <1>6, <1>7 DEF Capturing
<1>9. ui' \in Page /\ ui'.listening /\ ui'.loading = ui.loading /\ ui'.speaking = ui.speaking
    BY <1>1, <1>6 DEF Page
<1>10. ListeningInv'
    <2>1. \A q \in Recordings : rec'[q].phase \notin {"errored", "orphan"}
        BY <1>4, <1>5
    <2>2. \A q \in Recordings :
             rec'[q].mount <= mount' /\ (rec'[q].phase = "live" => rec'[q].mount = mount')
        BY <1>1, <1>4, <1>5, <1>6 DEF ListeningInv
    <2>. QED BY <1>8, <1>9, <2>1, <2>2 DEF ListeningInv
<1>11. \A u \in Turns :
          /\ turn'[u] \in Turn /\ turn'[u].mount = turn[u].mount
          /\ turn'[u].phase = IF Pending(u) THEN "rejected" ELSE turn[u].phase
          /\ turn'[u].voiced = turn[u].voiced
          /\ turn[u].interrupted => turn'[u].interrupted
          /\ turn[u].phase \in {"playing", "browser"} => turn'[u].interrupted
    BY <1>1, <1>6, AbortedFacts
<1>12. TypeOK'
    <2>1. rec' \in [Recordings -> Recorded] /\ turn' \in [Turns -> Turn]
        BY <1>2, <1>4, <1>5, <1>6, <1>11
    <2>. QED BY <1>6, <1>9, <2>1 DEF TypeOK, Page, Recorded
<1>13. ThinkingInv'
    <2>1. \A u \in Turns : turn[u].phase = "asked" => ~Pending(u)
        BY DEF VoiceInv, TurnInv
    <2>. QED BY <1>6, <1>9, <1>11, <2>1 DEF ThinkingInv, Here
<1>14. SpeakingInv'
    <2>1. \A u \in Turns : Speaking(u) => Speaking(u)'
        BY <1>6, <1>11 DEF Speaking, Here
    <2>. QED BY <1>9, <2>1 DEF SpeakingInv
<1>15. VoiceInv'
    <2>1. element'.clip \notin Turns
        BY <1>6, NarratorAssumption
    <2>2. ASSUME NEW u \in Turns PROVE TurnInv(u)'
        <3>1. TurnInv(u) /\ ~Pending(u)'
            BY <2>1 DEF VoiceInv, Pending
        <3>. HIDE DEF Pending
        <3>. QED BY <1>1, <1>6, <1>11, <3>1 DEF TurnInv, Here
    <2>3. SoundInv'
        BY <1>6, <2>1 DEF SoundInv
    <2>. QED BY <2>2, <2>3 DEF VoiceInv
<1>. QED BY <1>10, <1>12, <1>13, <1>14, <1>15

-------------------------------------------------------------------------------
(* A turn that does not sound, before and after, changes no sound.         *)
LEMMA SilentTurn ==
    ASSUME Inv, NEW t \in Turns, turn' \in [Turns -> Turn],
           \A u \in Turns \ {t} : turn'[u] = turn[u],
           turn[t].phase \in {"unasked", "asked", "voicing"},
           turn[t].phase \notin Answered \/ ~Here(t),
           turn'[t].phase \in {"asked", "failed", "left"}, turn'[t].mount <= mount,
           UNCHANGED <<mount, element, utterance>>
    PROVE  VoiceInv' /\ (ui'.speaking = ui.speaking => SpeakingInv')
<1>. USE DEF Inv
<1>1. UNCHANGED mount /\ UNCHANGED element /\ UNCHANGED utterance
    OBVIOUS
<1>2. element.clip # t
    BY DEF VoiceInv, SoundInv
<1>3. utterance # t
    BY NarratorAssumption DEF VoiceInv, SoundInv
<1>4. \A u \in Turns : Speaking(u) => Speaking(u)'
    BY <1>1 DEF Speaking, Here
<1>5. ASSUME NEW u \in Turns PROVE TurnInv(u)'
    <2>1. CASE u = t
        BY <1>1, <1>2, <2>1 DEF TurnInv, Pending
    <2>2. CASE u # t
        <3>1. turn'[u] = turn[u] /\ TurnInv(u)
            BY <2>2 DEF VoiceInv
        <3>. QED BY <1>1, <3>1 DEF TurnInv, Pending, Here
    <2>. QED BY <2>1, <2>2
<1>6. SoundInv'
    <2>1. utterance # None => utterance \in Turns
        BY DEF TypeOK
    <2>. QED BY <1>1, <1>2, <1>3, <2>1 DEF VoiceInv, SoundInv, Here
<1>. QED BY <1>4, <1>5, <1>6 DEF VoiceInv, SpeakingInv

LEMMA HeardStep ==
    ASSUME Inv, NEW r \in Recordings, NEW t \in Turns, Heard(r, t)
    PROVE  Inv'
<1>. USE DEF Inv
<1>1. turn' = [turn EXCEPT ![t] = Asked(t)] /\ turn[t].phase = "unasked"
    BY DEF Heard, Submit
<1>2. /\ UNCHANGED <<mode, mount, element, utterance>>
      /\ rec' = [rec EXCEPT ![r] = Ended(r, "over")] /\ Capturing(r)
    BY DEF Heard
<1>3. turn \in [Turns -> Turn] /\ mount \in Int /\ ui \in Page
    BY DEF TypeOK, Page
<1>4. /\ turn'[t].phase = "asked" /\ turn'[t].mount = mount /\ turn' \in [Turns -> Turn]
      /\ \A u \in Turns \ {t} : turn'[u] = turn[u]
    BY <1>1, <1>3, AskedFacts
<1>5. PICK h \in Seq(Turns) :
         ui' = [ui EXCEPT !.listening = FALSE, !.loading = TRUE, !.history = h]
    <2>. DEFINE page == [ui EXCEPT !.listening = FALSE]
                h == IF Clears(rec[r].seen) THEN <<>> ELSE page.history
    <2>1. page \in Page
        BY <1>3 DEF Page
    <2>2. ui' = [page EXCEPT !.loading = TRUE, !.history = h]
        BY DEF Heard, Submit
    <2>3. h \in Seq(Turns)
        <3>. HIDE DEF page
        <3>. QED BY <2>1 DEF Page
    <2>. HIDE DEF h
    <2>4. ui' = [ui EXCEPT !.listening = FALSE, !.loading = TRUE, !.history = h]
        BY <2>2
    <2>. QED BY <2>3, <2>4
<1>6. ui' \in Page /\ ui'.listening = FALSE /\ ui'.loading /\ ui'.speaking = ui.speaking
    BY <1>3, <1>5 DEF Page
<1>7. ListeningInv' /\ rec' \in [Recordings -> Recorded]
    <2>1. rec[r].mount = mount
        BY <1>2 DEF Capturing
    <2>. QED BY <1>2, <1>6, <2>1, RecordingEnds
<1>8. TypeOK'
    <2>1. stored' \in [Narrators -> [id: Turns \cup {None}, idle: (0 - MaxBack)..TTL]]
        <3>1. stored' = [stored EXCEPT ![narrator] = [id |-> Asked(t).session, idle |-> 0]]
            BY DEF Heard, Submit
        <3>2. Asked(t).session \in Turns /\ 0 \in (0 - MaxBack)..TTL
            BY AskedFacts, NarratorAssumption
        <3>. QED BY <3>1, <3>2 DEF TypeOK
    <2>. QED BY <1>2, <1>4, <1>6, <1>7, <2>1 DEF TypeOK, Page, Recorded
<1>9. ThinkingInv'
    BY <1>2, <1>4 DEF ThinkingInv, Here
<1>10. VoiceInv' /\ SpeakingInv'
    BY <1>1, <1>2, <1>3, <1>4, <1>6, SilentTurn DEF Answered
<1>. QED BY <1>7, <1>8, <1>9, <1>10

LEMMA SilentStep ==
    ASSUME Inv, NEW t \in Turns, ReplyFails(t) \/ VoiceTooLate(t)
    PROVE  Inv'
<1>. USE DEF Inv
<1>1. UNCHANGED <<mode, mount, rec, element, utterance, stored>>
    BY DEF ReplyFails, VoiceTooLate
<1>2. turn \in [Turns -> Turn] /\ mount \in Int /\ ui \in Page /\ MaxWait \in Nat
    BY NarratorAssumption DEF TypeOK, Page
<1>3. ui' \in Page /\ ui'.listening = ui.listening /\ ui'.speaking = ui.speaking
      /\ (ui'.loading => ui.loading /\ (turn[t].phase = "asked" => ~Here(t)))
    <2>1. CASE ReplyFails(t) /\ Here(t)
        <3>1. ui' = [ui EXCEPT !.loading = FALSE]
            BY <2>1 DEF ReplyFails
        <3>. QED BY <1>2, <3>1 DEF Page
    <2>2. CASE ReplyFails(t) /\ ~Here(t)
        BY <1>2, <2>2 DEF ReplyFails
    <2>3. CASE VoiceTooLate(t)
        BY <1>2, <2>3 DEF VoiceTooLate
    <2>. QED BY <2>1, <2>2, <2>3
<1>4. /\ turn' \in [Turns -> Turn] /\ \A u \in Turns \ {t} : turn'[u] = turn[u]
      /\ turn'[t].phase \in {"failed", "left"} /\ turn'[t].mount = turn[t].mount
      /\ turn[t].phase = "asked" \/ (turn[t].phase = "voicing" /\ ~Here(t))
    <2>0. turn[t] \in Turn /\ 0 \in 0..MaxWait
        BY <1>2
    <2>1. CASE ReplyFails(t)
        <3>1. turn' = [turn EXCEPT ![t] = [turn[t] EXCEPT !.phase = "failed", !.waited = 0]]
            BY <1>2, <2>1 DEF ReplyFails
        <3>2. [turn[t] EXCEPT !.phase = "failed", !.waited = 0] \in Turn
            BY <2>0 DEF Turn
        <3>. QED BY <1>2, <2>0, <2>1, <3>1, <3>2 DEF ReplyFails, Turn
    <2>2. CASE VoiceTooLate(t)
        <3>1. turn' = [turn EXCEPT ![t] = [turn[t] EXCEPT !.phase = "left"]]
            BY <1>2, <2>2 DEF VoiceTooLate
        <3>2. [turn[t] EXCEPT !.phase = "left"] \in Turn
            BY <2>0 DEF Turn, Answered
        <3>. QED BY <1>2, <2>0, <2>2, <3>1, <3>2 DEF VoiceTooLate, Turn
    <2>. QED BY <2>1, <2>2
<1>5. TypeOK' /\ ListeningInv'
    <2>1. ListeningInv'
        BY <1>1, <1>3, ListeningKept
    <2>. QED BY <1>1, <1>3, <1>4, <2>1 DEF TypeOK, Page
<1>6. ThinkingInv'
    <2>. SUFFICES ASSUME ui'.loading PROVE \E u \in Turns : turn'[u].phase = "asked" /\ Here(u)'
        BY DEF ThinkingInv
    <2>1. PICK u \in Turns : turn[u].phase = "asked" /\ Here(u)
        BY <1>3 DEF ThinkingInv
    <2>2. u # t
        BY <1>3, <1>4, <2>1
    <2>. QED BY <1>1, <1>4, <2>1, <2>2 DEF Here
<1>7. VoiceInv' /\ SpeakingInv'
    <2>1. turn'[t].mount <= mount
        BY <1>4 DEF VoiceInv, TurnInv
    <2>. QED BY <1>1, <1>3, <1>4, <2>1, SilentTurn DEF Answered
<1>. QED BY <1>5, <1>6, <1>7

-------------------------------------------------------------------------------
(* What is disturbed or aborted stays what it was, except that a pending   *)
(* clip is rejected; and only turns that are playing have one.             *)
LEMMA OthersFacts ==
    ASSUME Inv, NEW u \in Turns, turn'[u] = Aborted(u) \/ turn'[u] = Disturbed(u)
    PROVE  /\ turn'[u] \in Turn /\ turn'[u].mount = turn[u].mount
           /\ turn'[u].voiced = turn[u].voiced
           /\ turn'[u].phase = turn[u].phase
              \/ (turn[u].phase = "playing" /\ turn'[u].phase = "rejected" /\ Pending(u))
           /\ turn[u].interrupted => turn'[u].interrupted
           /\ turn[u].phase \in {"playing", "browser"} => turn'[u].interrupted
<1>1. turn[u] \in Turn /\ (Pending(u) => turn[u].phase = "playing")
    BY DEF Inv, TypeOK, VoiceInv, TurnInv
<1>. HIDE DEF Pending
<1>2. CASE turn'[u] = Aborted(u)
    BY <1>1, <1>2, AbortedFacts
<1>3. CASE turn'[u] = Disturbed(u)
    BY <1>1, <1>3, DisturbedFacts
<1>. QED BY <1>2, <1>3

LEMMA RepliedFacts ==
    ASSUME TypeOK, NEW t \in Turns
    PROVE  /\ Replied(t) \in Turn /\ Replied(t).phase = "voicing" /\ Replied(t).mount = turn[t].mount
<1>1. turn[t] \in Turn /\ 0 \in 0..MaxWait
    BY NarratorAssumption DEF TypeOK
<1>. QED BY <1>1 DEF Replied, Turn, Answered

LEMMA ReplyStep ==
    ASSUME Inv, NEW t \in Turns, Reply(t)
    PROVE  Inv'
<1>. USE DEF Inv
<1>1. /\ UNCHANGED <<mode, mount, rec, stored>> /\ utterance' = None /\ turn[t].phase = "asked"
      /\ element' = element \/ element' = [element EXCEPT !.sound = "idle"]
    BY DEF Reply
<1>2. turn \in [Turns -> Turn] /\ mount \in Int /\ ui \in Page
    BY DEF TypeOK, Page
<1>3. /\ turn'[t] = Replied(t) /\ DOMAIN turn' = Turns
      /\ \A u \in Turns \ {t} : turn'[u] = Aborted(u) \/ turn'[u] = Disturbed(u)
    <2>1. CASE Here(t)
        BY <2>1 DEF Reply
    <2>2. CASE ~Here(t)
        BY <2>2 DEF Reply
    <2>. QED BY <2>1, <2>2
<1>4. /\ turn'[t].phase = "voicing" /\ turn'[t].mount = turn[t].mount
      /\ turn' \in [Turns -> Turn]
    <2>1. \A u \in Turns : turn'[u] \in Turn
        BY <1>3, RepliedFacts, OthersFacts
    <2>2. turn' = [u \in Turns |-> turn'[u]]
        <3>1. CASE Here(t)
            BY <3>1 DEF Reply
        <3>2. CASE ~Here(t)
            BY <3>2 DEF Reply
        <3>. QED BY <3>1, <3>2
    <2>. QED BY <1>3, <2>1, <2>2, RepliedFacts
<1>5. /\ ui' \in Page /\ ui'.listening = ui.listening /\ ui'.speaking = ui.speaking
      /\ ui'.loading => ui.loading /\ ~Here(t)
    <2>1. CASE Here(t)
        <3>. DEFINE h == ShownAfter(t)
        <3>1. h \in Seq(Turns)
            <4>1. ui.history \in Seq(Turns)
                BY <1>2 DEF Page
            <4>. QED BY <4>1 DEF ShownAfter
        <3>2. ui' = [ui EXCEPT !.history = h, !.loading = FALSE]
            BY <2>1 DEF Reply
        <3>. HIDE DEF h
        <3>. QED BY <1>2, <3>1, <3>2 DEF Page
    <2>2. CASE ~Here(t)
        BY <1>2, <2>2 DEF Reply
    <2>. QED BY <2>1, <2>2
<1>6. /\ element'.clip = element.clip
      /\ element' \in [clip: Turns \cup {None, Silence}, sound: {"idle", "pending", "playing"}]
    BY <1>1 DEF TypeOK
<1>7. TypeOK' /\ ListeningInv'
    <2>1. ListeningInv'
        BY <1>1, <1>5, ListeningKept
    <2>. QED BY <1>1, <1>4, <1>5, <1>6, <2>1 DEF TypeOK, Page
<1>8. ThinkingInv'
    <2>. SUFFICES ASSUME ui'.loading PROVE \E u \in Turns : turn'[u].phase = "asked" /\ Here(u)'
        BY DEF ThinkingInv
    <2>1. PICK u \in Turns : turn[u].phase = "asked" /\ Here(u)
        BY <1>5 DEF ThinkingInv
    <2>2. u # t
        BY <1>5, <2>1
    <2>3. turn'[u].phase = "asked" /\ turn'[u].mount = turn[u].mount
        BY <1>3, <2>1, <2>2, OthersFacts
    <2>. QED BY <1>1, <2>1, <2>3 DEF Here
<1>9. SpeakingInv'
    <2>1. ASSUME NEW u \in Turns, Speaking(u) PROVE Speaking(u)'
        <3>1. u # t
            BY <1>1, <2>1 DEF Speaking
        <3>2. turn'[u].phase \in {"playing", "rejected", "browser"} /\ turn'[u].mount = turn[u].mount
            BY <1>3, <2>1, <3>1, OthersFacts DEF Speaking
        <3>. QED BY <1>1, <2>1, <3>2 DEF Speaking, Here
    <2>. QED BY <1>5, <2>1 DEF SpeakingInv
<1>10. VoiceInv'
    <2>1. ASSUME NEW u \in Turns \ {t} PROVE TurnInv(u)'
        <3>1. TurnInv(u)
            BY DEF VoiceInv
        <3>2. ~Pending(u)' \/ (Pending(u) /\ turn'[u].phase = turn[u].phase)
            <4>1. CASE Here(t)
                <5>1. element' = [element EXCEPT !.sound = "idle"]
                    BY <4>1 DEF Reply
                <5>2. element'.sound = "idle"
                    BY <5>1 DEF TypeOK
                <5>. QED BY <5>2 DEF Pending
            <4>2. CASE ~Here(t)
                <5>1. turn'[u] = Disturbed(u) /\ element' = element
                    BY <4>2 DEF Reply
                <5>2. turn[u] \in Turn
                    BY <1>2
                <5>. QED BY <5>1, <5>2, DisturbedFacts DEF Pending
            <4>. QED BY <4>1, <4>2
        <3>. HIDE DEF Pending
        <3>3. /\ turn'[u].mount = turn[u].mount /\ turn'[u].voiced = turn[u].voiced
              /\ turn'[u].phase = turn[u].phase
                 \/ (turn[u].phase = "playing" /\ turn'[u].phase = "rejected")
              /\ turn[u].interrupted => turn'[u].interrupted
              /\ turn[u].phase \in {"playing", "browser"} => turn'[u].interrupted
            BY <1>3, OthersFacts
        <3>. QED BY <1>1, <3>1, <3>2, <3>3 DEF TurnInv, Here
    <2>2. TurnInv(t)'
        <3>1. ~Pending(t)'
            <4>1. ~(element.clip = t)
                BY <1>1 DEF VoiceInv, SoundInv, Answered
            <4>. QED BY <1>6, <4>1 DEF Pending
        <3>2. turn[t].mount <= mount
            BY DEF VoiceInv, TurnInv
        <3>. QED BY <1>1, <1>4, <3>1, <3>2 DEF TurnInv
    <2>3. SoundInv'
        <3>. SUFFICES ASSUME NEW u \in Turns, element.clip = u
                      PROVE  Here(u)' /\ turn'[u].phase \in Answered
            BY <1>1, <1>6 DEF SoundInv
        <3>1. Here(u) /\ turn[u].phase \in Answered
            BY DEF VoiceInv, SoundInv
        <3>2. u # t
            BY <1>1, <3>1 DEF Answered
        <3>3. turn'[u].mount = turn[u].mount
              /\ (turn'[u].phase = turn[u].phase \/ turn'[u].phase = "rejected")
            BY <1>3, <3>2, OthersFacts
        <3>. QED BY <1>1, <3>1, <3>3 DEF Here, Answered
    <2>. QED BY <2>1, <2>2, <2>3 DEF VoiceInv
<1>. QED BY <1>7, <1>8, <1>9, <1>10

LEMMA VoiceArrivesStep ==
    ASSUME Inv, NEW t \in Turns, VoiceArrives(t)
    PROVE  Inv'
<1>. USE DEF Inv
<1>1. /\ UNCHANGED <<mode, mount, rec, utterance, stored>>
      /\ element' = [clip |-> t, sound |-> "pending"]
      /\ turn[t].phase = "voicing" /\ turn[t].mount = mount
      /\ ui' = [ui EXCEPT !.speaking = TRUE]
    BY DEF VoiceArrives, Here
<1>2. turn \in [Turns -> Turn] /\ mount \in Int /\ ui \in Page
    BY DEF TypeOK, Page
<1>3. ui' \in Page /\ ui'.listening = ui.listening /\ ui'.loading = ui.loading
    BY <1>1, <1>2 DEF Page
<1>4. turn' = [u \in Turns |-> IF u = t THEN [turn[t] EXCEPT !.phase = "playing"] ELSE Aborted(u)]
    BY DEF VoiceArrives
<1>5. turn'[t] \in Turn /\ turn'[t].phase = "playing" /\ turn'[t].mount = mount
    <2>1. turn'[t] = [turn[t] EXCEPT !.phase = "playing"] /\ turn[t] \in Turn
        BY <1>2, <1>4
    <2>. QED BY <1>1, <2>1 DEF Turn, Answered
<1>6. \A u \in Turns \ {t} :
         /\ turn'[u] \in Turn /\ turn'[u].mount = turn[u].mount
         /\ turn'[u].voiced = turn[u].voiced
         /\ turn'[u].phase = turn[u].phase
            \/ (turn[u].phase = "playing" /\ turn'[u].phase = "rejected")
         /\ turn[u].interrupted => turn'[u].interrupted
         /\ turn[u].phase \in {"playing", "browser"} => turn'[u].interrupted
    BY <1>4, OthersFacts
<1>7. TypeOK' /\ ListeningInv'
    <2>1. ListeningInv'
        BY <1>1, <1>3, ListeningKept
    <2>2. turn' \in [Turns -> Turn]
        BY <1>4, <1>5, <1>6
    <2>. QED BY <1>1, <1>3, <2>1, <2>2 DEF TypeOK, Page
<1>8. ThinkingInv' /\ SpeakingInv'
    <2>1. \A u \in Turns : turn[u].phase = "asked" /\ Here(u) => turn'[u].phase = "asked" /\ Here(u)'
        BY <1>1, <1>6 DEF Here
    <2>2. Speaking(t)'
        BY <1>1, <1>5 DEF Speaking, Here
    <2>. QED BY <1>3, <2>1, <2>2 DEF ThinkingInv, SpeakingInv
<1>9. VoiceInv'
    <2>1. ASSUME NEW u \in Turns PROVE TurnInv(u)'
        <3>1. TurnInv(u)
            BY DEF VoiceInv
        <3>2. CASE u = t
            BY <1>1, <1>2, <1>5, <3>2 DEF TurnInv, Here
        <3>3. CASE u # t
            <4>1. ~Pending(u)'
                BY <1>1, <3>3 DEF Pending
            <4>. HIDE DEF Pending
            <4>. QED BY <1>1, <1>6, <3>1, <3>3, <4>1 DEF TurnInv, Here
        <3>. QED BY <3>2, <3>3
    <2>2. SoundInv'
        <3>1. Here(t)' /\ turn'[t].phase \in Answered
            BY <1>1, <1>5 DEF Here, Answered
        <3>2. utterance # None => turn'[utterance].phase = "browser"
            <4>1. utterance # None => utterance \in Turns \ {t} /\ turn[utterance].phase = "browser"
                BY <1>1 DEF VoiceInv, SoundInv, TypeOK
            <4>. QED BY <1>6, <4>1
        <3>. QED BY <1>1, <3>1, <3>2 DEF SoundInv
    <2>. QED BY <2>1, <2>2 DEF VoiceInv
<1>. QED BY <1>7, <1>8, <1>9

LEMMA FallBackStep ==
    ASSUME Inv, NEW t \in Turns, FallBack(t)
    PROVE  Inv'
<1>. USE DEF Inv
<1>1. /\ UNCHANGED <<mode, mount, rec, element, stored>> /\ utterance' = t
      /\ turn[t].phase \in {"voicing", "rejected"} /\ turn[t].mount = mount
      /\ ui' = [ui EXCEPT !.speaking = TRUE]
    BY DEF FallBack, Here
<1>2. turn \in [Turns -> Turn] /\ mount \in Int /\ ui \in Page
    BY DEF TypeOK, Page
<1>3. ui' \in Page /\ ui'.listening = ui.listening /\ ui'.loading = ui.loading
    BY <1>1, <1>2 DEF Page
<1>4. turn' = [u \in Turns |-> IF u = t THEN [turn[t] EXCEPT !.phase = "browser"] ELSE Disturbed(u)]
    BY DEF FallBack
<1>5. turn'[t] \in Turn /\ turn'[t].phase = "browser" /\ turn'[t].mount = mount
    <2>1. turn'[t] = [turn[t] EXCEPT !.phase = "browser"] /\ turn[t] \in Turn
        BY <1>2, <1>4
    <2>. QED BY <1>1, <2>1 DEF Turn, Answered
<1>6. \A u \in Turns \ {t} :
         /\ turn'[u] \in Turn /\ turn'[u].mount = turn[u].mount
         /\ turn'[u].voiced = turn[u].voiced /\ turn'[u].phase = turn[u].phase
         /\ turn[u].interrupted => turn'[u].interrupted
         /\ turn[u].phase \in {"playing", "browser"} => turn'[u].interrupted
    BY <1>2, <1>4, DisturbedFacts
<1>7. TypeOK' /\ ListeningInv'
    <2>1. ListeningInv'
        BY <1>1, <1>3, ListeningKept
    <2>2. turn' \in [Turns -> Turn]
        BY <1>4, <1>5, <1>6
    <2>. QED BY <1>1, <1>3, <2>1, <2>2 DEF TypeOK, Page
<1>8. ThinkingInv' /\ SpeakingInv'
    <2>1. \A u \in Turns : turn[u].phase = "asked" /\ Here(u) => turn'[u].phase = "asked" /\ Here(u)'
        BY <1>1, <1>6 DEF Here
    <2>2. Speaking(t)'
        BY <1>1, <1>5 DEF Speaking, Here
    <2>. QED BY <1>3, <2>1, <2>2 DEF ThinkingInv, SpeakingInv
<1>9. VoiceInv'
    <2>1. ASSUME NEW u \in Turns PROVE TurnInv(u)'
        <3>1. TurnInv(u) /\ (Pending(u)' <=> Pending(u))
            BY <1>1 DEF VoiceInv, Pending
        <3>. HIDE DEF Pending
        <3>2. CASE u = t
            BY <1>1, <1>2, <1>5, <3>1, <3>2 DEF TurnInv, Here
        <3>3. CASE u # t
            BY <1>1, <1>6, <3>1, <3>3 DEF TurnInv, Here
        <3>. QED BY <3>2, <3>3
    <2>2. SoundInv'
        <3>1. Here(t)' /\ turn'[t].phase \in Answered
            BY <1>1, <1>5 DEF Here, Answered
        <3>2. \A u \in Turns \ {t} : (Here(u)' <=> Here(u)) /\ turn'[u].phase = turn[u].phase
            BY <1>1, <1>6 DEF Here
        <3>. QED BY <1>1, <1>5, <3>1, <3>2 DEF SoundInv, VoiceInv
    <2>. QED BY <2>1, <2>2 DEF VoiceInv
<1>. QED BY <1>7, <1>8, <1>9

LEMMA UtteranceEndsStep ==
    ASSUME Inv, NEW t \in Turns, UtteranceEnds(t)
    PROVE  Inv'
<1>. USE DEF Inv
<1>1. /\ UNCHANGED <<mode, mount, rec, element, stored>>
      /\ utterance' = IF utterance = t THEN None ELSE utterance
      /\ turn[t].phase = "browser"
    BY DEF UtteranceEnds
<1>2. turn \in [Turns -> Turn] /\ mount \in Int /\ ui \in Page /\ turn[t] \in Turn
    BY DEF TypeOK, Page
<1>3. ui' \in Page /\ ui'.listening = ui.listening /\ ui'.loading = ui.loading
      /\ (ui'.speaking => ui.speaking /\ ~Here(t))
    <2>1. CASE Here(t)
        <3>1. ui' = [ui EXCEPT !.speaking = FALSE]
            BY <2>1 DEF UtteranceEnds
        <3>. QED BY <1>2, <3>1 DEF Page
    <2>2. CASE ~Here(t)
        BY <1>2, <2>2 DEF UtteranceEnds
    <2>. QED BY <2>1, <2>2
<1>4. PICK done \in BOOLEAN :
         /\ done <=> utterance = t
         /\ turn' = [turn EXCEPT ![t] = [turn[t] EXCEPT !.phase = "over", !.voiced = done]]
    <2>. DEFINE done == (utterance = t)
    <2>1. turn' = [turn EXCEPT ![t] = [turn[t] EXCEPT !.phase = "over", !.voiced = done]]
        BY <1>2 DEF UtteranceEnds
    <2>. QED BY <2>1
<1>5. /\ turn'[t] \in Turn /\ turn'[t].phase = "over" /\ turn'[t].mount = turn[t].mount
      /\ turn'[t].interrupted = turn[t].interrupted /\ turn'[t].voiced = done
      /\ turn' \in [Turns -> Turn] /\ \A u \in Turns \ {t} : turn'[u] = turn[u]
    <2>1. turn'[t] = [turn[t] EXCEPT !.phase = "over", !.voiced = done]
        BY <1>2, <1>4
    <2>2. [turn[t] EXCEPT !.phase = "over", !.voiced = done] \in Turn
        BY <1>2, <1>4 DEF Turn, Answered
    <2>. QED BY <1>2, <1>4, <2>1, <2>2 DEF Turn
<1>6. TypeOK' /\ ListeningInv'
    <2>1. ListeningInv'
        BY <1>1, <1>3, ListeningKept
    <2>2. utterance' \in Turns \cup {None}
        BY <1>1 DEF TypeOK
    <2>. QED BY <1>1, <1>3, <1>5, <2>1, <2>2 DEF TypeOK, Page
<1>7. ThinkingInv' /\ SpeakingInv'
    <2>1. \A u \in Turns : turn[u].phase = "asked" /\ Here(u) => turn'[u].phase = "asked" /\ Here(u)'
        BY <1>1, <1>5 DEF Here
    <2>2. \A u \in Turns : Speaking(u) => Speaking(u)' \/ u = t
        BY <1>1, <1>5 DEF Speaking, Here
    <2>. QED BY <1>3, <2>1, <2>2 DEF ThinkingInv, SpeakingInv, Speaking
<1>8. VoiceInv'
    <2>1. ASSUME NEW u \in Turns PROVE TurnInv(u)'
        <3>1. TurnInv(u) /\ (Pending(u)' <=> Pending(u)) /\ u # None
            BY <1>1, NarratorAssumption DEF VoiceInv, Pending
        <3>. HIDE DEF Pending
        <3>2. CASE u = t
            BY <1>1, <1>4, <1>5, <3>1, <3>2 DEF TurnInv, Here
        <3>3. CASE u # t
            BY <1>1, <1>5, <3>1, <3>3 DEF TurnInv, Here
        <3>. QED BY <3>2, <3>3
    <2>2. SoundInv'
        <3>1. turn'[t].phase \in Answered
            BY <1>5 DEF Answered
        <3>2. \A u \in Turns : (Here(u)' <=> Here(u)) /\ (u # t => turn'[u].phase = turn[u].phase)
            BY <1>1, <1>5 DEF Here
        <3>3. utterance # None => utterance \in Turns
            BY DEF TypeOK
        <3>. QED BY <1>1, <3>1, <3>2, <3>3 DEF SoundInv, VoiceInv
    <2>. QED BY <2>1, <2>2 DEF VoiceInv
<1>. QED BY <1>6, <1>7, <1>8

(* The element: a clip that is played leaves all as it was; one that ends, *)
(* fails or is refused takes the turns that wait for it with it.           *)
LEMMA ElementTypes ==
    ASSUME TypeOK, NEW sound \in {"idle", "playing"}, element' = [element EXCEPT !.sound = sound]
    PROVE  /\ element'.clip = element.clip /\ element'.sound = sound
           /\ element' \in [clip: Turns \cup {None, Silence}, sound: {"idle", "pending", "playing"}]
BY DEF TypeOK

LEMMA PlaysStep ==
    ASSUME Inv, Plays
    PROVE  Inv'
<1>. USE DEF Inv
<1>1. UNCHANGED <<mode, mount, ui, rec, turn, utterance, stored>>
      /\ element' = [element EXCEPT !.sound = "playing"]
    BY DEF Plays
<1>2. /\ element'.clip = element.clip /\ element'.sound = "playing"
      /\ element' \in [clip: Turns \cup {None, Silence}, sound: {"idle", "pending", "playing"}]
    BY <1>1, ElementTypes
<1>3. UNCHANGED mode /\ UNCHANGED mount /\ UNCHANGED ui /\ UNCHANGED rec /\ UNCHANGED turn
      /\ UNCHANGED utterance /\ UNCHANGED stored
    BY <1>1
<1>4. TypeOK' /\ ListeningInv' /\ ThinkingInv' /\ SpeakingInv'
    BY <1>2, <1>3, ListeningKept DEF TypeOK, ThinkingInv, SpeakingInv, Speaking, Here
<1>5. VoiceInv'
    BY <1>2, <1>3 DEF VoiceInv, SoundInv, TurnInv, Pending, Here
<1>. QED BY <1>4, <1>5

LEMMA ClipOverStep ==
    ASSUME Inv, ClipEnds \/ ClipFails
    PROVE  Inv'
<1>. USE DEF Inv
<1>1. UNCHANGED <<mode, mount, rec, utterance, stored>>
      /\ element' = [element EXCEPT !.sound = "idle"]
    BY DEF ClipEnds, ClipFails
<1>2. /\ element'.clip = element.clip /\ element'.sound = "idle"
      /\ element' \in [clip: Turns \cup {None, Silence}, sound: {"idle", "pending", "playing"}]
    BY <1>1, ElementTypes
<1>3. turn \in [Turns -> Turn] /\ mount \in Int /\ ui \in Page
    BY DEF TypeOK, Page
<1>4. ui' \in Page /\ ui'.listening = ui.listening /\ ui'.loading = ui.loading
      /\ (ui'.speaking => ui.speaking)
      /\ (ClipEnds => ~ui'.speaking \/ Waiting = {})
    <2>1. CASE ClipEnds
        BY <1>3, <2>1 DEF ClipEnds, Page
    <2>2. CASE ClipFails /\ ~ClipEnds
        BY <1>3, <2>2 DEF ClipFails
    <2>. QED BY <2>1, <2>2
<1>5. /\ DOMAIN turn' = Turns /\ turn' = [u \in Turns |-> turn'[u]]
      /\ \A u \in Turns \ Waiting : turn'[u] = turn[u]
    BY <1>3 DEF ClipEnds, ClipFails
<1>6. ASSUME NEW u \in Waiting
      PROVE  /\ turn'[u] \in Turn /\ turn'[u].mount = turn[u].mount
             /\ turn'[u].interrupted = turn[u].interrupted
             /\ turn'[u].phase = "rejected" \/ (ClipEnds /\ turn'[u].phase = "over")
             /\ turn'[u].phase = "over" => (turn'[u].voiced <=> element.clip = u)
    <2>0. u \in Turns /\ turn[u] \in Turn
        BY <1>3 DEF Waiting
    <2>1. CASE ClipEnds
        <3>1. PICK done \in BOOLEAN :
                 (done <=> element.clip = u)
                 /\ turn'[u] = [turn[u] EXCEPT !.phase = "over", !.voiced = done]
            <4>. DEFINE done == (element.clip = u)
            <4>1. turn'[u] = [turn[u] EXCEPT !.phase = "over", !.voiced = done]
                BY <2>0, <2>1 DEF ClipEnds
            <4>. QED BY <4>1
        <3>. QED BY <2>0, <2>1, <3>1 DEF Turn, Answered
    <2>2. CASE ClipFails
        <3>1. turn'[u] = [turn[u] EXCEPT !.phase = "rejected"]
            BY <2>0, <2>2 DEF ClipFails
        <3>. QED BY <2>0, <3>1 DEF Turn, Answered
    <2>. QED BY <2>1, <2>2
<1>7. \A u \in Turns : u \in Waiting <=> turn[u].phase = "playing" /\ Here(u)
    BY DEF Waiting
<1>. HIDE DEF Waiting
<1>8. TypeOK' /\ ListeningInv'
    <2>1. ListeningInv'
        BY <1>1, <1>4, ListeningKept
    <2>2. turn' \in [Turns -> Turn]
        BY <1>3, <1>5, <1>6
    <2>. QED BY <1>1, <1>2, <1>4, <2>1, <2>2 DEF TypeOK, Page
<1>9. ThinkingInv' /\ SpeakingInv'
    <2>1. \A u \in Turns : turn[u].phase = "asked" /\ Here(u) => turn'[u].phase = "asked" /\ Here(u)'
        BY <1>1, <1>5, <1>7 DEF Here
    <2>2. ASSUME NEW u \in Turns, Speaking(u), ui'.speaking PROVE Speaking(u)'
        <3>1. CASE u \in Waiting
            <4>1. ~ClipEnds
                BY <1>4, <2>2, <3>1
            <4>. QED BY <1>1, <1>6, <2>2, <3>1, <4>1 DEF Speaking, Here
        <3>2. CASE u \notin Waiting
            BY <1>1, <1>5, <2>2, <3>2 DEF Speaking, Here
        <3>. QED BY <3>1, <3>2
    <2>. QED BY <1>4, <2>1, <2>2 DEF ThinkingInv, SpeakingInv
<1>10. VoiceInv'
    <2>1. ASSUME NEW u \in Turns PROVE TurnInv(u)'
        <3>1. TurnInv(u) /\ ~Pending(u)'
            BY <1>2 DEF VoiceInv, Pending
        <3>. HIDE DEF Pending
        <3>2. CASE u \in Waiting
            BY <1>1, <1>2, <1>6, <1>7, <3>1, <3>2 DEF TurnInv, Here
        <3>3. CASE u \notin Waiting
            BY <1>1, <1>2, <1>5, <3>1, <3>3 DEF TurnInv, Here
        <3>. QED BY <3>2, <3>3
    <2>2. SoundInv'
        <3>1. \A u \in Turns : turn[u].phase \in Answered => turn'[u].phase \in Answered
            BY <1>5, <1>6 DEF Answered
        <3>2. \A u \in Turns : Here(u)' <=> Here(u)
            BY <1>1, <1>5, <1>6 DEF Here
        <3>3. \A u \in Turns : turn[u].phase = "browser" => turn'[u].phase = "browser"
            BY <1>5, <1>7
        <3>4. utterance # None => utterance \in Turns
            BY DEF TypeOK
        <3>. QED BY <1>1, <1>2, <3>1, <3>2, <3>3, <3>4 DEF SoundInv, VoiceInv
    <2>. QED BY <2>1, <2>2 DEF VoiceInv
<1>. QED BY <1>8, <1>9, <1>10

LEMMA PlayRefusedStep ==
    ASSUME Inv, NEW t \in Turns, PlayRefused(t)
    PROVE  Inv'
<1>. USE DEF Inv
<1>1. /\ UNCHANGED <<mode, mount, ui, rec, utterance, stored>>
      /\ element' = [element EXCEPT !.sound = "idle"]
      /\ turn' = [turn EXCEPT ![t].phase = "rejected"]
    BY DEF PlayRefused
<1>2. /\ element'.clip = element.clip /\ element'.sound = "idle"
      /\ element' \in [clip: Turns \cup {None, Silence}, sound: {"idle", "pending", "playing"}]
    BY <1>1, ElementTypes
<1>3. turn \in [Turns -> Turn] /\ mount \in Int /\ turn[t] \in Turn
    BY DEF TypeOK
<1>4. turn[t].phase = "playing" /\ turn[t].mount = mount
    BY DEF PlayRefused, VoiceInv, TurnInv, Here
<1>5. /\ turn'[t] \in Turn /\ turn'[t].phase = "rejected" /\ turn'[t].mount = turn[t].mount
      /\ turn' \in [Turns -> Turn] /\ \A u \in Turns \ {t} : turn'[u] = turn[u]
    <2>1. turn' = [turn EXCEPT ![t] = [turn[t] EXCEPT !.phase = "rejected"]]
        BY <1>1, <1>3
    <2>2. [turn[t] EXCEPT !.phase = "rejected"] \in Turn
        BY <1>3 DEF Turn, Answered
    <2>. QED BY <1>3, <2>1, <2>2 DEF Turn
<1>6. ui' = ui /\ mount' = mount /\ utterance' = utterance
    BY <1>1
<1>7. TypeOK' /\ ListeningInv'
    <2>1. ListeningInv'
        BY <1>1, <1>6, ListeningKept
    <2>. QED BY <1>1, <1>2, <1>5, <2>1 DEF TypeOK
<1>8. ThinkingInv' /\ SpeakingInv'
    <2>1. \A u \in Turns : turn[u].phase = "asked" /\ Here(u) => turn'[u].phase = "asked" /\ Here(u)'
        BY <1>4, <1>5, <1>6 DEF Here
    <2>2. \A u \in Turns : Speaking(u) => Speaking(u)'
        BY <1>5, <1>6 DEF Speaking, Here
    <2>. QED BY <1>6, <2>1, <2>2 DEF ThinkingInv, SpeakingInv
<1>9. VoiceInv'
    <2>1. ASSUME NEW u \in Turns PROVE TurnInv(u)'
        <3>1. TurnInv(u) /\ ~Pending(u)'
            BY <1>2 DEF VoiceInv, Pending
        <3>. HIDE DEF Pending
        <3>2. CASE u = t
            BY <1>3, <1>4, <1>5, <1>6, <3>1, <3>2 DEF TurnInv, Here
        <3>3. CASE u # t
            BY <1>2, <1>5, <1>6, <3>1, <3>3 DEF TurnInv, Here
        <3>. QED BY <3>2, <3>3
    <2>2. SoundInv'
        <3>1. turn'[t].phase \in Answered
            BY <1>5 DEF Answered
        <3>2. \A u \in Turns : (Here(u)' <=> Here(u)) /\ (u # t => turn'[u].phase = turn[u].phase)
            BY <1>5, <1>6 DEF Here
        <3>3. utterance # None => utterance \in Turns \ {t}
            BY <1>4 DEF TypeOK, VoiceInv, SoundInv
        <3>. QED BY <1>2, <1>6, <3>1, <3>2, <3>3 DEF SoundInv, VoiceInv
    <2>. QED BY <2>1, <2>2 DEF VoiceInv
<1>. QED BY <1>7, <1>8, <1>9

-------------------------------------------------------------------------------
(* Another overlay: what was shown belongs to one that is gone.            *)
LEMMA SwitchStep ==
    ASSUME Inv, Switch
    PROVE  Inv'
<1>. USE DEF Inv
<1>1. /\ mount < Len(Shown) /\ mount' = mount + 1 /\ ui' = Fresh /\ element' = FreshElement
      /\ rec' = [r \in Recordings |-> Released(r)]
      /\ UNCHANGED <<mode, utterance, stored>>
    BY DEF Switch
<1>2. turn \in [Turns -> Turn] /\ mount \in 1..Len(Shown) /\ Len(Shown) \in Nat
      /\ rec \in [Recordings -> Recorded] /\ MaxWait \in Nat
    BY NarratorAssumption DEF TypeOK, Recorded
<1>3. mount' \in 1..Len(Shown) /\ mount' > mount
    BY <1>1, <1>2
<1>4. /\ ui'.loading = FALSE /\ ui'.speaking = FALSE /\ ui'.listening = FALSE /\ ui' \in Page
    <2>1. <<>> \in Seq(Turns)
        OBVIOUS
    <2>. QED BY <1>1, <2>1 DEF Fresh, Page
<1>5. /\ element'.clip = None /\ element'.sound = "idle"
      /\ element' \in [clip: Turns \cup {None, Silence}, sound: {"idle", "pending", "playing"}]
    BY <1>1 DEF FreshElement
<1>6. \A r \in Recordings :
         /\ rec'[r] \in Recorded /\ rec'[r].mount = rec[r].mount
         /\ rec'[r].phase \notin {"live", "errored", "orphan"}
    BY <1>1, <1>2, ReleasedFacts
<1>7. \A t \in Turns :
         /\ turn'[t] \in Turn /\ turn'[t].mount = turn[t].mount
         /\ turn'[t].phase \notin {"playing", "rejected"}
         /\ turn'[t].phase = turn[t].phase \/ turn'[t].phase = "left"
         /\ turn[t].phase = "browser" => turn'[t].phase = "browser"
         /\ turn'[t].voiced = turn[t].voiced /\ turn'[t].interrupted = turn[t].interrupted
    <2>. SUFFICES ASSUME NEW t \in Turns
         PROVE  /\ turn'[t] \in Turn /\ turn'[t].mount = turn[t].mount
                /\ turn'[t].phase \notin {"playing", "rejected"}
                /\ turn'[t].phase = turn[t].phase \/ turn'[t].phase = "left"
                /\ turn[t].phase = "browser" => turn'[t].phase = "browser"
                /\ turn'[t].voiced = turn[t].voiced /\ turn'[t].interrupted = turn[t].interrupted
        OBVIOUS
    <2>1. turn[t].phase \in {"playing", "rejected"} => Here(t)
        BY DEF VoiceInv, TurnInv
    <2>2. turn'[t] = IF Here(t) /\ turn[t].phase \in {"playing", "rejected"}
                     THEN [turn[t] EXCEPT !.phase = "left"] ELSE turn[t]
        BY DEF Switch
    <2>3. turn[t] \in Turn
        BY <1>2
    <2>. HIDE DEF Here
    <2>. QED BY <2>1, <2>2, <2>3 DEF Turn, Answered
<1>8. TypeOK'
    <2>1. turn' \in [Turns -> Turn]
        BY <1>7 DEF Switch
    <2>2. rec' \in [Recordings -> Recorded]
        BY <1>1, <1>6
    <2>. QED BY <1>1, <1>3, <1>4, <1>5, <2>1, <2>2 DEF TypeOK, Page, Recorded
<1>9. ListeningInv'
    <2>1. \A r \in Recordings : rec'[r].mount \in Int /\ rec'[r].mount < mount'
        BY <1>2, <1>3, <1>6 DEF ListeningInv, Recorded
    <2>2. \A r \in Recordings : rec'[r].mount <= mount' /\ rec'[r].mount # mount'
        BY <1>2, <1>3, <2>1
    <2>. QED BY <1>4, <1>6, <2>2 DEF ListeningInv, Capturing
<1>10. ThinkingInv' /\ SpeakingInv'
    BY <1>4 DEF ThinkingInv, SpeakingInv
<1>11. VoiceInv'
    <2>1. ASSUME NEW t \in Turns PROVE TurnInv(t)'
        <3>1. TurnInv(t) /\ turn[t].mount \in Int
            BY <1>2 DEF VoiceInv, Turn
        <3>2. turn'[t].mount <= mount'
            BY <1>2, <1>3, <1>7, <3>1 DEF TurnInv
        <3>. QED BY <1>1, <1>5, <1>7, <3>1, <3>2 DEF TurnInv, Pending
    <2>2. SoundInv'
        <3>1. utterance # None => utterance \in Turns
            BY DEF TypeOK
        <3>. QED BY <1>1, <1>5, <1>7, <3>1, NarratorAssumption DEF SoundInv, VoiceInv
    <2>. QED BY <2>1, <2>2 DEF VoiceInv
<1>. QED BY <1>8, <1>9, <1>10, <1>11

(* The clock changes ages only.                                            *)
LEMMA ClockStep ==
    ASSUME Inv, Tick \/ SetBack
    PROVE  Inv'
<1>. USE DEF Inv
<1>1. UNCHANGED <<mode, mount, ui, element, utterance>>
    BY DEF Tick, SetBack
<1>2. turn \in [Turns -> Turn] /\ rec \in [Recordings -> Recorded]
      /\ MaxWait \in Nat /\ TTL \in Nat /\ MaxBack \in Nat
    BY NarratorAssumption DEF TypeOK, Recorded
<1>3. /\ turn' \in [Turns -> Turn]
      /\ \A t \in Turns :
            /\ turn'[t].phase = turn[t].phase /\ turn'[t].mount = turn[t].mount
            /\ turn'[t].voiced = turn[t].voiced /\ turn'[t].interrupted = turn[t].interrupted
    <2>1. CASE SetBack
        BY <1>2, <2>1 DEF SetBack
    <2>2. CASE Tick
        <3>1. ASSUME NEW t \in Turns
              PROVE  /\ turn'[t] \in Turn
                     /\ turn'[t].phase = turn[t].phase /\ turn'[t].mount = turn[t].mount
                     /\ turn'[t].voiced = turn[t].voiced
                     /\ turn'[t].interrupted = turn[t].interrupted
            <4>1. turn[t] \in Turn
                BY <1>2
            <4>2. CASE t \in AskedTurns
                <5>1. turn'[t] = [turn[t] EXCEPT !.waited = turn[t].waited + 1]
                    BY <2>2, <4>2 DEF Tick
                <5>2. turn[t].waited + 1 \in 0..MaxWait
                    BY <1>2, <2>2, <4>1, <4>2 DEF Tick, Turn
                <5>. QED BY <4>1, <5>1, <5>2 DEF Turn
            <4>3. CASE t \notin AskedTurns
                BY <2>2, <4>1, <4>3 DEF Tick
            <4>. QED BY <4>2, <4>3
        <3>2. turn' = [t \in Turns |-> turn'[t]]
            BY <2>2 DEF Tick
        <3>. QED BY <3>1, <3>2
    <2>. QED BY <2>1, <2>2
<1>4. /\ rec' \in [Recordings -> Recorded]
      /\ \A r \in Recordings : rec'[r].phase = rec[r].phase /\ rec'[r].mount = rec[r].mount
    <2>1. CASE SetBack
        BY <1>2, <2>1 DEF SetBack
    <2>2. CASE Tick
        <3>1. ASSUME NEW r \in Recordings
              PROVE  /\ rec'[r] \in Recorded
                     /\ rec'[r].phase = rec[r].phase /\ rec'[r].mount = rec[r].mount
            <4>1. rec[r] \in Recorded
                BY <1>2
            <4>2. CASE r \in Captures
                <5>1. rec'[r] = [rec[r] EXCEPT !.waited = rec[r].waited + 1]
                    BY <2>2, <4>2 DEF Tick
                <5>2. rec[r].waited + 1 \in 0..MaxWait
                    BY <1>2, <2>2, <4>1, <4>2 DEF Tick, Recorded
                <5>. QED BY <4>1, <5>1, <5>2 DEF Recorded
            <4>3. CASE r \notin Captures
                BY <2>2, <4>1, <4>3 DEF Tick
            <4>. QED BY <4>2, <4>3
        <3>2. rec' = [r \in Recordings |-> rec'[r]]
            BY <2>2 DEF Tick
        <3>. QED BY <3>1, <3>2
    <2>. QED BY <2>1, <2>2
<1>5. stored' \in [Narrators -> [id: Turns \cup {None}, idle: (0 - MaxBack)..TTL]]
    <2>. DEFINE Session == [id: Turns \cup {None}, idle: (0 - MaxBack)..TTL]
    <2>1. ASSUME NEW n \in Narrators, NEW d \in {-1, 1}, stored[n].idle + d \in (0 - MaxBack)..TTL
          PROVE  [stored[n] EXCEPT !.idle = stored[n].idle + d] \in Session
        <3>1. stored[n] \in Session
            BY DEF TypeOK
        <3>. QED BY <2>1, <3>1
    <2>2. \A n \in Narrators : stored[n] \in Session /\ stored[n].idle \in (0 - MaxBack)..TTL
        BY DEF TypeOK
    <2>3. CASE Tick
        <3>1. ASSUME NEW n \in Narrators, stored[n].idle # TTL
              PROVE  [stored[n] EXCEPT !.idle = stored[n].idle + 1] \in Session
            <4>1. stored[n].idle + 1 \in (0 - MaxBack)..TTL
                BY <1>2, <2>2, <3>1
            <4>. QED BY <2>1, <4>1
        <3>. HIDE DEF Session
        <3>2. stored' = [n \in Narrators |->
                            IF stored[n].id = None \/ stored[n].idle = TTL THEN stored[n]
                            ELSE [stored[n] EXCEPT !.idle = stored[n].idle + 1]]
            BY <2>3 DEF Tick
        <3>. QED BY <2>2, <3>1, <3>2 DEF Session
    <2>4. CASE SetBack
        <3>1. ASSUME NEW n \in Narrators
              PROVE  [stored[n] EXCEPT !.idle = stored[n].idle - 1] \in Session
            <4>1. stored[n].idle + (-1) \in (0 - MaxBack)..TTL
                BY <1>2, <2>2, <2>4 DEF SetBack
            <4>2. stored[n].idle + (-1) = stored[n].idle - 1
                BY <1>2, <2>2
            <4>. QED BY <2>1, <4>1, <4>2
        <3>. HIDE DEF Session
        <3>2. stored' = [n \in Narrators |->
                            IF stored[n].id = None THEN stored[n]
                            ELSE [stored[n] EXCEPT !.idle = stored[n].idle - 1]]
            BY <2>4 DEF SetBack
        <3>. QED BY <2>2, <3>1, <3>2 DEF Session
    <2>. QED BY <2>3, <2>4
<1>6. mode' = mode /\ mount' = mount /\ ui' = ui /\ element' = element /\ utterance' = utterance
    BY <1>1
<1>7. TypeOK'
    BY <1>3, <1>4, <1>5, <1>6 DEF TypeOK, Recorded
<1>8. ListeningInv'
    <2>1. \A r \in Recordings : Capturing(r)' <=> Capturing(r)
        BY <1>4, <1>6 DEF Capturing
    <2>. QED BY <1>4, <1>6, <2>1 DEF ListeningInv
<1>9. \A t \in Turns : (Here(t)' <=> Here(t)) /\ (Pending(t)' <=> Pending(t))
    BY <1>3, <1>6 DEF Here, Pending
<1>10. ThinkingInv' /\ SpeakingInv'
    BY <1>3, <1>6, <1>9 DEF ThinkingInv, SpeakingInv, Speaking
<1>11. VoiceInv'
    <2>1. ASSUME NEW t \in Turns PROVE TurnInv(t)'
        <3>1. TurnInv(t)
            BY DEF VoiceInv
        <3>. HIDE DEF Pending
        <3>. QED BY <1>3, <1>6, <1>9, <3>1 DEF TurnInv
    <2>2. utterance # None => utterance \in Turns
        BY DEF TypeOK
    <2>3. SoundInv'
        BY <1>3, <1>6, <1>9, <2>2 DEF SoundInv, VoiceInv
    <2>. QED BY <2>1, <2>3 DEF VoiceInv
<1>. QED BY <1>7, <1>8, <1>10, <1>11

-------------------------------------------------------------------------------
LEMMA StartInv == Init => Inv
<1>. SUFFICES ASSUME Init PROVE Inv
    OBVIOUS
<1>1. 1 \in 1..Len(Shown) /\ 0 \in 0..MaxWait /\ 0 \in (0 - MaxBack)..TTL /\ <<>> \in Seq(Turns)
    BY NarratorAssumption
<1>2. TypeOK
    <2>1. turn \in [Turns -> Turn]
        BY <1>1 DEF Init, Turn
    <2>2. rec \in [Recordings -> Recorded]
        BY <1>1 DEF Init, Recorded
    <2>3. stored \in [Narrators -> [id: Turns \cup {None}, idle: (0 - MaxBack)..TTL]]
        BY <1>1 DEF Init
    <2>4. /\ mode \in {"native", "recorder"} /\ mount \in 1..Len(Shown) /\ utterance = None
          /\ ui = [history |-> <<>>, loading |-> FALSE, speaking |-> FALSE,
                   listening |-> FALSE, micBlocked |-> FALSE]
          /\ element = [clip |-> None, sound |-> "idle"]
        BY <1>1 DEF Init, Fresh, FreshElement
    <2>. QED BY <1>1, <2>1, <2>2, <2>3, <2>4 DEF TypeOK, Recorded
<1>3. /\ \A t \in Turns : turn[t].phase = "unasked" /\ turn[t].mount = 1
      /\ \A r \in Recordings : rec[r].phase = "unused" /\ rec[r].mount = 1
      /\ mount = 1 /\ utterance = None
      /\ ui.listening = FALSE /\ ui.loading = FALSE /\ ui.speaking = FALSE
      /\ element.clip = None /\ element.sound = "idle"
    BY DEF Init, Fresh, FreshElement
<1>. QED BY <1>2, <1>3, NarratorAssumption
         DEF Inv, ListeningInv, Capturing, ThinkingInv, SpeakingInv, VoiceInv, SoundInv, TurnInv,
             Pending

LEMMA StepInv ==
    ASSUME Inv, Next \/ UNCHANGED vars
    PROVE  Inv'
<1>1. CASE Visitor
    BY <1>1, SubmitTextStep, TapMicrophoneStep, SwitchStep DEF Visitor
<1>2. CASE Capture
    BY <1>2, SetUpStep, MissedStep, HeardStep DEF Capture
<1>3. CASE Voice
    BY <1>3, ReplyStep, SilentStep, VoiceArrivesStep, FallBackStep, UtteranceEndsStep,
       PlayRefusedStep, PlaysStep, ClipOverStep DEF Voice
<1>4. CASE Tick \/ SetBack
    BY <1>4, ClockStep
<1>5. CASE UNCHANGED vars
    <2>1. /\ mode' = mode /\ mount' = mount /\ ui' = ui /\ rec' = rec /\ turn' = turn
          /\ element' = element /\ utterance' = utterance /\ stored' = stored
        BY <1>5 DEF vars
    <2>2. TypeOK' /\ ListeningInv' /\ ThinkingInv' /\ SpeakingInv'
        BY <2>1 DEF Inv, TypeOK, ListeningInv, Capturing, ThinkingInv, SpeakingInv, Speaking, Here
    <2>3. VoiceInv'
        BY <2>1 DEF Inv, VoiceInv, SoundInv, TurnInv, Pending, Here
    <2>. QED BY <2>2, <2>3 DEF Inv
<1>. QED BY <1>1, <1>2, <1>3, <1>4, <1>5 DEF Next

LEMMA OverlayInvariant == Spec => []Inv
BY StartInv, StepInv, PTL DEF Spec

(* The overlay's status is never a leftover, and what sounds is waited for, *)
(* for any number of questions, recordings and narrators.                  *)
THEOREM NarratorInvariance == Spec => []NarratorInv
<1>1. Inv => NarratorInv
    BY Parts
<1>. QED BY <1>1, OverlayInvariant, PTL

(* A reply is voiced to its end unless something sounds over it, however   *)
(* many clips, utterances and overlays meet.                               *)
THEOREM RepliesAreVoiced == Spec => []NeverSilentlySkipped
<1>1. Inv => NeverSilentlySkipped
    BY Parts
<1>. QED BY <1>1, OverlayInvariant, PTL

-------------------------------------------------------------------------------
(* The transcript.  A turn that asks names its session, or takes over the  *)
(* one that the tab remembers; no id comes back once it is given up.       *)
SessionsNamed ==
    /\ \A t \in Turns :
          /\ turn[t].phase # "unasked" =>
                turn[t].session \in Turns /\ turn[turn[t].session].phase # "unasked"
          /\ turn[t].isNew => turn[t].phase # "unasked"
    /\ \A n \in Narrators : stored[n].id # None => turn[stored[n].id].phase # "unasked"

(* Whoever asked while the first question of the session was unanswered.   *)
LateFirst ==
    \A t, u \in Turns :
        /\ turn[t].phase = "asked" /\ turn[t].isNew /\ Here(t)
        /\ u # t /\ turn[u].phase # "unasked" /\ Here(u)
        /\ turn[u].session = turn[t].session
        => turn[u].behind

OnceIn(t, h) == \E i \in 1..Len(h) : \A j \in 1..Len(h) : h[j] = t <=> j = i

Accounted(t) ==
    \/ OnceIn(t, ui.history)
    \/ turn[t].behind
    \/ \E u \in Turns : Here(u) /\ turn[u].isNew /\ turn[u].session # turn[t].session

ExchangesInv ==
    /\ SessionsNamed /\ LateFirst
    /\ \A i \in 1..Len(ui.history) : turn[ui.history[i]].phase \in Answered
    /\ \A t \in Turns : Here(t) /\ turn[t].phase \in Answered => Accounted(t)

(* The tab's session cannot expire while a question of this overlay waits, *)
(* nor between a tap that saw an empty transcript and what is then heard.  *)
SessionInv ==
    /\ \A t \in Turns : turn[t].phase = "asked" /\ Here(t) =>
          turn[t].session = stored[narrator].id /\ stored[narrator].idle \in 0..turn[t].waited
    /\ \A i \in 1..Len(ui.history) : turn[ui.history[i]].session = stored[narrator].id
    /\ \A r \in Recordings : Capturing(r) /\ ~rec[r].seen /\ ui.history # <<>> =>
          stored[narrator].idle \in 0..(MaxWait + rec[r].waited)

(* What a step leaves of a turn when it neither asks nor answers it.       *)
Alike(n, o) ==
    /\ n.mount = o.mount /\ n.session = o.session
    /\ n.isNew = o.isNew /\ n.behind = o.behind
    /\ n.phase = "unasked" <=> o.phase = "unasked"
    /\ n.phase = "asked" => o.phase = "asked" /\ n.waited = o.waited
    /\ n.phase \in Answered <=> o.phase \in Answered

LEMMA DisturbedAlike ==
    ASSUME NEW t, turn[t] \in Turn
    PROVE  Alike(Disturbed(t), turn[t])
BY DEF Disturbed, Alike, Turn, Answered

LEMMA AbortedAlike ==
    ASSUME Inv, NEW t \in Turns
    PROVE  Alike(Aborted(t), turn[t]) /\ Alike(Disturbed(t), turn[t])
<1>1. turn[t] \in Turn /\ (Pending(t) => turn[t].phase = "playing")
    BY DEF Inv, TypeOK, VoiceInv, TurnInv
<1>2. Alike(Disturbed(t), turn[t]) /\ Disturbed(t) \in Turn
      /\ Disturbed(t).phase = turn[t].phase
    BY <1>1, DisturbedAlike, DisturbedFacts
<1>. DEFINE d == Disturbed(t)
<1>3. Aborted(t) = IF Pending(t) THEN [d EXCEPT !.phase = "rejected"] ELSE d
    BY DEF Aborted
<1>. HIDE DEF d, Pending
<1>4. CASE ~Pending(t)
    BY <1>2, <1>3, <1>4 DEF d
<1>5. CASE Pending(t)
    <2>1. d \in Turn /\ Alike(d, turn[t]) /\ turn[t].phase = "playing" /\ d.phase = "playing"
        BY <1>1, <1>2, <1>5 DEF d
    <2>2. Alike([d EXCEPT !.phase = "rejected"], turn[t])
        BY <2>1 DEF Alike, Turn, Answered
    <2>. QED BY <1>2, <1>3, <1>5, <2>2
<1>. QED BY <1>4, <1>5

(* Most steps change nothing of what is asked and answered: a capture that *)
(* begins has seen whether the transcript is empty.                        *)
AllAlike == \A u \in Turns : Alike(turn'[u], turn[u])

CapturesKept ==
    \A r \in Recordings :
        Capturing(r)' /\ ~rec'[r].seen /\ ui'.history # <<>> =>
            Capturing(r) /\ ~rec[r].seen /\ rec'[r].waited = rec[r].waited

Quiet ==
    /\ AllAlike /\ CapturesKept
    /\ ui'.history = ui.history /\ mount' = mount /\ stored' = stored

LEMMA SameTurns ==
    ASSUME turn' = turn
    PROVE  AllAlike
BY DEF AllAlike, Alike

LEMMA SameCaptures ==
    ASSUME rec' = rec, mount' = mount, ui'.history = ui.history
    PROVE  CapturesKept
BY DEF CapturesKept, Capturing

LEMMA TapQuiet ==
    ASSUME Inv, NEW r \in Recordings, TapMicrophone(r)
    PROVE  Quiet
<1>1. ui \in Page /\ rec \in [Recordings -> Recorded] /\ MaxWait \in Nat
    BY NarratorAssumption DEF Inv, TypeOK, Page, Recorded
<1>2. /\ mount' = mount /\ stored' = stored /\ turn' = [u \in Turns |-> Aborted(u)]
      /\ ui' = [ui EXCEPT !.listening = TRUE]
      /\ rec'[r].seen = (ui.history # <<>>)
      /\ \A q \in Recordings \ {r} : rec'[q] = Released(q)
    BY DEF TapMicrophone
<1>3. AllAlike
    BY <1>2, AbortedAlike DEF AllAlike
<1>4. ui'.history = ui.history
    BY <1>1, <1>2 DEF Page
<1>5. CapturesKept
    <2>. SUFFICES ASSUME NEW q \in Recordings, Capturing(q)', ~rec'[q].seen, ui'.history # <<>>
                  PROVE  Capturing(q) /\ ~rec[q].seen /\ rec'[q].waited = rec[q].waited
        BY DEF CapturesKept
    <2>1. q # r
        BY <1>2, <1>4
    <2>2. rec'[q] = Released(q) /\ rec[q] \in Recorded
        BY <1>1, <1>2, <2>1
    <2>3. Released(q).phase = "over" \/ Released(q) = rec[q]
        BY <1>1, <2>2, ReleasedFacts DEF Released
    <2>. QED BY <1>2, <2>2, <2>3 DEF Capturing
<1>. QED BY <1>2, <1>3, <1>4, <1>5 DEF Quiet

LEMMA CaptureQuiet ==
    ASSUME Inv, NEW r \in Recordings, SetUp(r) \/ Missed(r) \/ EndAfterError(r)
    PROVE  Quiet
<1>1. ui \in Page /\ rec \in [Recordings -> Recorded] /\ MaxWait \in Nat
    BY NarratorAssumption DEF Inv, TypeOK, Page, Recorded
<1>2. mount' = mount /\ stored' = stored /\ turn' = turn
    BY DEF SetUp, Missed, EndAfterError
<1>3. ui'.history = ui.history
    <2>1. \/ ui' = ui
          \/ ui' = [ui EXCEPT !.listening = FALSE]
          \/ \E b \in BOOLEAN : ui' = [ui EXCEPT !.listening = FALSE, !.micBlocked = @ \/ b]
        BY DEF SetUp, Missed, EndAfterError
    <2>. QED BY <1>1, <2>1 DEF Page
<1>4. \/ rec' = [rec EXCEPT ![r].phase = "live"] /\ Capturing(r)
      \/ \E p \in {"errored", "orphan", "over"} : rec' = [rec EXCEPT ![r] = Ended(r, p)]
    BY DEF SetUp, Missed, EndAfterError
<1>5. CapturesKept
    <2>1. CASE rec' = [rec EXCEPT ![r].phase = "live"] /\ Capturing(r)
        <3>1. /\ rec'[r].seen = rec[r].seen /\ rec'[r].waited = rec[r].waited
              /\ \A q \in Recordings \ {r} : rec'[q] = rec[q]
            BY <1>1, <2>1 DEF Recorded
        <3>. QED BY <1>2, <2>1, <3>1 DEF CapturesKept, Capturing
    <2>2. CASE \E p \in {"errored", "orphan", "over"} : rec' = [rec EXCEPT ![r] = Ended(r, p)]
        <3>1. /\ rec'[r].phase \in {"errored", "orphan", "over"}
              /\ \A q \in Recordings \ {r} : rec'[q] = rec[q]
            BY <1>1, <2>2, EndedFacts
        <3>. QED BY <1>2, <3>1 DEF CapturesKept, Capturing
    <2>. QED BY <1>4, <2>1, <2>2
<1>. QED BY <1>2, <1>3, <1>5, SameTurns DEF Quiet

(* One turn moves among the phases of an answer, or fails.                 *)
LEMMA MovedAlike ==
    ASSUME NEW o \in Turn, NEW p, NEW v,
           \/ o.phase \in Answered /\ p \in Answered
           \/ o.phase = "asked" /\ p = "failed"
    PROVE  /\ Alike([o EXCEPT !.phase = p], o)
           /\ Alike([o EXCEPT !.phase = p, !.voiced = v], o)
           /\ Alike([o EXCEPT !.phase = p, !.waited = v], o)
<1>1. p # "unasked" /\ p # "asked"
    BY DEF Answered
<1>2. o.phase # "unasked" /\ (o.phase \in Answered <=> p \in Answered)
    BY DEF Answered
<1>. QED BY <1>1, <1>2 DEF Alike, Turn
LEMMA VoiceQuiet ==
    ASSUME Inv, NEW t \in Turns,
           \/ ReplyFails(t) \/ VoiceArrives(t) \/ FallBack(t)
           \/ VoiceTooLate(t) \/ UtteranceEnds(t) \/ PlayRefused(t)
    PROVE  Quiet
<1>1. ui \in Page /\ turn \in [Turns -> Turn] /\ turn[t] \in Turn
    BY DEF Inv, TypeOK, Page
<1>2. mount' = mount /\ stored' = stored /\ rec' = rec
    BY DEF ReplyFails, VoiceArrives, FallBack, VoiceTooLate, UtteranceEnds, PlayRefused
<1>3. ui'.history = ui.history
    <2>1. \/ ui' = ui
          \/ \E b \in BOOLEAN : ui' = [ui EXCEPT !.speaking = b] \/ ui' = [ui EXCEPT !.loading = b]
        BY DEF ReplyFails, VoiceArrives, FallBack, VoiceTooLate, UtteranceEnds, PlayRefused
    <2>. QED BY <1>1, <2>1 DEF Page
<1>4. \A u \in Turns : Alike(turn[u], turn[u])
    BY DEF Alike
<1>5. ASSUME NEW n, Alike(n, turn[t]), turn' = [turn EXCEPT ![t] = n]
      PROVE  AllAlike
    <2>1. turn'[t] = n /\ \A u \in Turns \ {t} : turn'[u] = turn[u]
        BY <1>1, <1>5
    <2>. QED BY <1>4, <1>5, <2>1 DEF AllAlike
<1>6. CASE ReplyFails(t)
    <2>. DEFINE n == [turn[t] EXCEPT !.phase = "failed", !.waited = 0]
    <2>1. turn[t].phase = "asked" /\ turn' = [turn EXCEPT ![t] = n]
        BY <1>1, <1>6 DEF ReplyFails
    <2>2. Alike(n, turn[t])
        BY <1>1, <2>1, MovedAlike
    <2>. HIDE DEF n
    <2>3. AllAlike
        BY <1>5, <2>1, <2>2
    <2>. QED BY <1>2, <1>3, <2>3, SameCaptures DEF Quiet
<1>7. CASE VoiceTooLate(t) \/ PlayRefused(t)
    <2>1. PICK p \in Answered :
             turn[t].phase \in Answered /\ turn' = [turn EXCEPT ![t] = [turn[t] EXCEPT !.phase = p]]
        <3>1. CASE VoiceTooLate(t)
            BY <1>1, <3>1 DEF VoiceTooLate, Answered
        <3>2. CASE PlayRefused(t)
            <4>1. turn[t].phase = "playing"
                BY <3>2 DEF PlayRefused, Inv, VoiceInv, TurnInv
            <4>. QED BY <1>1, <3>2, <4>1 DEF PlayRefused, Answered
        <3>. QED BY <1>7, <3>1, <3>2
    <2>. DEFINE n == [turn[t] EXCEPT !.phase = p]
    <2>2. Alike(n, turn[t]) /\ turn' = [turn EXCEPT ![t] = n]
        BY <1>1, <2>1, MovedAlike
    <2>. HIDE DEF n
    <2>3. AllAlike
        BY <1>5, <2>2
    <2>. QED BY <1>2, <1>3, <2>3, SameCaptures DEF Quiet
<1>8. CASE UtteranceEnds(t)
    <2>. DEFINE n == [turn[t] EXCEPT !.phase = "over", !.voiced = (utterance = t)]
    <2>1. turn[t].phase = "browser" /\ turn' = [turn EXCEPT ![t] = n]
        BY <1>1, <1>8 DEF UtteranceEnds
    <2>2. Alike(n, turn[t])
        BY <1>1, <2>1, MovedAlike DEF Answered
    <2>. HIDE DEF n
    <2>3. AllAlike
        BY <1>5, <2>1, <2>2
    <2>. QED BY <1>2, <1>3, <2>3, SameCaptures DEF Quiet
<1>9. CASE VoiceArrives(t) \/ FallBack(t)
    <2>1. PICK p \in {"playing", "browser"} :
             /\ turn[t].phase \in {"voicing", "rejected"}
             /\ turn'[t] = [turn[t] EXCEPT !.phase = p]
             /\ \A u \in Turns \ {t} : turn'[u] = Aborted(u) \/ turn'[u] = Disturbed(u)
        BY <1>9 DEF VoiceArrives, FallBack
    <2>2. Alike([turn[t] EXCEPT !.phase = p], turn[t])
        BY <1>1, <2>1, MovedAlike DEF Answered
    <2>3. \A u \in Turns \ {t} : Alike(turn'[u], turn[u])
        BY <2>1, AbortedAlike
    <2>4. AllAlike
        BY <2>1, <2>2, <2>3 DEF AllAlike
    <2>. QED BY <1>2, <1>3, <2>4, SameCaptures DEF Quiet
<1>. QED BY <1>6, <1>7, <1>8, <1>9

LEMMA ClipQuiet ==
    ASSUME Inv, Plays \/ ClipEnds \/ ClipFails
    PROVE  Quiet
<1>1. ui \in Page /\ turn \in [Turns -> Turn]
    BY DEF Inv, TypeOK, Page
<1>2. mount' = mount /\ stored' = stored /\ rec' = rec
    BY DEF Plays, ClipEnds, ClipFails
<1>3. ui'.history = ui.history
    <2>1. ui' = ui \/ ui' = [ui EXCEPT !.speaking = FALSE]
        BY DEF Plays, ClipEnds, ClipFails
    <2>. QED BY <1>1, <2>1 DEF Page
<1>4. ASSUME NEW u \in Turns PROVE Alike(turn'[u], turn[u])
    <2>1. turn[u] \in Turn /\ Alike(turn[u], turn[u])
        BY <1>1 DEF Alike
    <2>2. \/ turn'[u] = turn[u]
          \/ /\ turn[u].phase = "playing"
             /\ \/ turn'[u] = [turn[u] EXCEPT !.phase = "over", !.voiced = (element.clip = u)]
                \/ turn'[u] = [turn[u] EXCEPT !.phase = "rejected"]
        BY DEF Plays, ClipEnds, ClipFails, Waiting
    <2>3. {"playing", "over", "rejected"} \subseteq Answered
        BY DEF Answered
    <2>4. CASE turn'[u] = turn[u]
        BY <2>1, <2>4
    <2>5. CASE /\ turn[u].phase = "playing"
               /\ turn'[u] = [turn[u] EXCEPT !.phase = "over", !.voiced = (element.clip = u)]
        <3>. DEFINE v == (element.clip = u)
        <3>1. turn'[u] = [turn[u] EXCEPT !.phase = "over", !.voiced = v]
            BY <2>5
        <3>. HIDE DEF v
        <3>2. turn[u].phase \in Answered /\ "over" \in Answered
            BY <2>3, <2>5
        <3>3. Alike([turn[u] EXCEPT !.phase = "over", !.voiced = v], turn[u])
            BY <2>1, <3>2, MovedAlike
        <3>. QED BY <3>1, <3>3
    <2>6. CASE turn[u].phase = "playing" /\ turn'[u] = [turn[u] EXCEPT !.phase = "rejected"]
        <3>1. Alike([turn[u] EXCEPT !.phase = "rejected"], turn[u])
            BY <2>1, <2>3, <2>6, MovedAlike
        <3>. QED BY <2>6, <3>1
    <2>. QED BY <2>2, <2>4, <2>5, <2>6
<1>5. AllAlike
    BY <1>4 DEF AllAlike
<1>. QED BY <1>2, <1>3, <1>5, SameCaptures DEF Quiet

-------------------------------------------------------------------------------
(* What is asked and answered, when nobody asks and nobody is answered.    *)
Kin(n, o) ==
    /\ n.mount = o.mount /\ n.session = o.session
    /\ n.isNew = o.isNew /\ n.behind = o.behind
    /\ n.phase = "unasked" <=> o.phase = "unasked"
    /\ n.phase = "asked" => o.phase = "asked"

LEMMA NamesKept ==
    ASSUME TypeOK, SessionsNamed, \A u \in Turns : Kin(turn'[u], turn[u]),
           \A n \in Narrators : stored'[n].id = stored[n].id
    PROVE  SessionsNamed'
<1>1. \A n \in Narrators : stored[n].id \in Turns \cup {None}
    BY DEF TypeOK
<1>2. ASSUME NEW n \in Narrators, stored'[n].id # None
      PROVE  turn'[stored'[n].id].phase # "unasked"
    BY <1>1, <1>2 DEF SessionsNamed, Kin
<1>. QED BY <1>2 DEF SessionsNamed, Kin

LEMMA LateKept ==
    ASSUME LateFirst, \A u \in Turns : Kin(turn'[u], turn[u]), mount' = mount
    PROVE  LateFirst'
<1>. SUFFICES ASSUME NEW t \in Turns, NEW u \in Turns,
                     turn'[t].phase = "asked", turn'[t].isNew, Here(t)', u # t,
                     turn'[u].phase # "unasked", Here(u)', turn'[u].session = turn'[t].session
              PROVE  turn'[u].behind
    BY DEF LateFirst
<1>1. Kin(turn'[t], turn[t]) /\ Kin(turn'[u], turn[u])
    OBVIOUS
<1>2. turn[t].phase = "asked" /\ turn[t].isNew /\ Here(t) /\ turn[u].phase # "unasked"
      /\ Here(u) /\ turn[u].session = turn[t].session
    BY <1>1 DEF Kin, Here
<1>3. turn[u].behind
    BY <1>2 DEF LateFirst
<1>. QED BY <1>1, <1>3 DEF Kin

LEMMA AccountKept ==
    ASSUME NEW t \in Turns, Accounted(t), \A u \in Turns : Kin(turn'[u], turn[u]), mount' = mount,
           OnceIn(t, ui.history) => Accounted(t)'
    PROVE  Accounted(t)'
<1>1. CASE turn[t].behind
    BY <1>1 DEF Accounted, Kin
<1>2. CASE \E u \in Turns : Here(u) /\ turn[u].isNew /\ turn[u].session # turn[t].session
    <2>1. PICK u \in Turns : Here(u) /\ turn[u].isNew /\ turn[u].session # turn[t].session
        BY <1>2
    <2>2. Kin(turn'[u], turn[u]) /\ Kin(turn'[t], turn[t])
        OBVIOUS
    <2>3. Here(u)' /\ turn'[u].isNew /\ turn'[u].session # turn'[t].session
        BY <2>1, <2>2 DEF Kin, Here
    <2>. QED BY <2>3 DEF Accounted
<1>. QED BY <1>1, <1>2 DEF Accounted

LEMMA ExchangesKept ==
    ASSUME TypeOK, ExchangesInv, AllAlike, ui'.history = ui.history, mount' = mount,
           \A n \in Narrators : stored'[n].id = stored[n].id
    PROVE  ExchangesInv'
<1>1. \A u \in Turns : Kin(turn'[u], turn[u]) /\ (turn'[u].phase \in Answered <=> turn[u].phase \in Answered)
    BY DEF AllAlike, Alike, Kin
<1>2. SessionsNamed' /\ LateFirst'
    BY <1>1, NamesKept, LateKept DEF ExchangesInv
<1>3. \A i \in 1..Len(ui.history) : ui.history[i] \in Turns
    BY DEF TypeOK
<1>4. \A i \in 1..Len(ui'.history) : turn'[ui'.history[i]].phase \in Answered
    BY <1>1, <1>3 DEF ExchangesInv
<1>5. ASSUME NEW t \in Turns, Here(t)', turn'[t].phase \in Answered PROVE Accounted(t)'
    <2>1. Here(t) /\ turn[t].phase \in Answered
        BY <1>1, <1>5 DEF Here, Kin
    <2>2. Accounted(t)
        BY <2>1 DEF ExchangesInv
    <2>3. OnceIn(t, ui.history) => Accounted(t)'
        BY DEF Accounted
    <2>. QED BY <1>1, <2>2, <2>3, AccountKept
<1>. QED BY <1>2, <1>4, <1>5 DEF ExchangesInv

LEMMA QuietExchanges ==
    ASSUME TypeOK, ExchangesInv, Quiet
    PROVE  ExchangesInv'
BY ExchangesKept DEF Quiet

(* The ages of the session and of the waits.                               *)
LEMMA QuietSession ==
    ASSUME TypeOK, SessionInv, Quiet
    PROVE  SessionInv'
<1>1. /\ mount' = mount /\ stored' = stored /\ ui'.history = ui.history
      /\ \A u \in Turns : Alike(turn'[u], turn[u])
    BY DEF Quiet, AllAlike
<1>2. narrator' = narrator
    BY <1>1 DEF narrator
<1>4. ASSUME NEW t \in Turns, turn'[t].phase = "asked", Here(t)'
      PROVE  turn'[t].session = stored'[narrator'].id /\ stored'[narrator'].idle \in 0..turn'[t].waited
    <2>1. turn[t].phase = "asked" /\ Here(t) /\ turn'[t].waited = turn[t].waited
          /\ turn'[t].session = turn[t].session
        BY <1>1, <1>4 DEF Alike, Here
    <2>2. turn[t].session = stored[narrator].id /\ stored[narrator].idle \in 0..turn[t].waited
        BY <2>1 DEF SessionInv
    <2>. QED BY <1>1, <1>2, <2>1, <2>2
<1>5. \A i \in 1..Len(ui.history) : ui.history[i] \in Turns
    BY DEF TypeOK
<1>6. \A i \in 1..Len(ui'.history) : turn'[ui'.history[i]].session = stored'[narrator'].id
    BY <1>1, <1>2, <1>5 DEF SessionInv, Alike
<1>7. ASSUME NEW r \in Recordings, Capturing(r)', ~rec'[r].seen, ui'.history # <<>>
      PROVE  stored'[narrator'].idle \in 0..(MaxWait + rec'[r].waited)
    <2>1. Capturing(r) /\ ~rec[r].seen /\ rec'[r].waited = rec[r].waited
        BY <1>7 DEF Quiet, CapturesKept
    <2>2. stored[narrator].idle \in 0..(MaxWait + rec[r].waited)
        BY <1>1, <1>7, <2>1 DEF SessionInv
    <2>. QED BY <1>1, <1>2, <2>1, <2>2
<1>. QED BY <1>4, <1>6, <1>7 DEF SessionInv
-------------------------------------------------------------------------------
(* A reply.  It appends its exchange, or opens the transcript anew.        *)
LEMMA OnceAppended ==
    ASSUME NEW h \in Seq(Turns), NEW t \in Turns, NEW u \in Turns
    PROVE  /\ \A i \in 1..Len(Append(h, t)) : Append(h, t)[i] = t \/ (i \in 1..Len(h) /\ Append(h, t)[i] = h[i])
           /\ u # t /\ OnceIn(u, h) => OnceIn(u, Append(h, t))
           /\ (\A i \in 1..Len(h) : h[i] # t) => OnceIn(t, Append(h, t))
<1>. DEFINE n == Len(h)
            q == Append(h, t)
<1>1. n \in Nat /\ Len(q) = n + 1 /\ q[n + 1] = t /\ \A i \in 1..n : q[i] = h[i]
    OBVIOUS
<1>. HIDE DEF n, q
<1>2. \A i \in 1..Len(q) : i \in 1..n \/ i = n + 1
    BY <1>1
<1>3. n + 1 \in 1..Len(q) /\ \A i \in 1..n : i \in 1..Len(q) /\ i # n + 1
    BY <1>1
<1>4. ASSUME u # t, OnceIn(u, h) PROVE OnceIn(u, q)
    <2>1. PICK i \in 1..n : \A j \in 1..n : h[j] = u <=> j = i
        BY <1>4 DEF OnceIn, n
    <2>2. \A j \in 1..Len(q) : q[j] = u <=> j = i
        BY <1>1, <1>2, <1>3, <1>4, <2>1
    <2>. QED BY <1>3, <2>1, <2>2 DEF OnceIn
<1>5. ASSUME \A i \in 1..n : h[i] # t PROVE OnceIn(t, q)
    <2>1. \A j \in 1..Len(q) : q[j] = t <=> j = n + 1
        BY <1>1, <1>2, <1>5
    <2>. QED BY <1>3, <2>1 DEF OnceIn
<1>. QED BY <1>1, <1>2, <1>4, <1>5 DEF n, q

LEMMA ReplyTurns ==
    ASSUME Inv, NEW t \in Turns, Reply(t)
    PROVE  /\ \A u \in Turns : Kin(turn'[u], turn[u])
           /\ \A u \in Turns \ {t} : Alike(turn'[u], turn[u])
           /\ turn[t].phase = "asked" /\ turn'[t].phase = "voicing"
           /\ mount' = mount /\ stored' = stored /\ rec' = rec
           /\ Here(t) => ui'.history = ShownAfter(t)
           /\ ~Here(t) => ui'.history = ui.history
<1>1. ui \in Page /\ turn[t] \in Turn
    BY DEF Inv, TypeOK, Page
<1>2. /\ turn[t].phase = "asked" /\ turn'[t] = Replied(t)
      /\ mount' = mount /\ stored' = stored /\ rec' = rec
      /\ \A u \in Turns \ {t} : turn'[u] = Aborted(u) \/ turn'[u] = Disturbed(u)
    BY DEF Reply
<1>3. \A u \in Turns \ {t} : Alike(turn'[u], turn[u])
    BY <1>2, AbortedAlike
<1>4. turn'[t].phase = "voicing" /\ Kin(turn'[t], turn[t])
    <2>1. turn'[t] = [turn[t] EXCEPT !.phase = "voicing", !.waited = 0]
        BY <1>2 DEF Replied
    <2>. QED BY <1>1, <1>2, <2>1 DEF Turn, Kin
<1>5. Here(t) => ui'.history = ShownAfter(t)
    <2>. SUFFICES ASSUME Here(t) PROVE ui'.history = ShownAfter(t)
        OBVIOUS
    <2>. DEFINE h == ShownAfter(t)
    <2>1. ui' = [ui EXCEPT !.history = h, !.loading = FALSE]
        BY DEF Reply
    <2>. HIDE DEF h
    <2>2. ui'.history = h
        BY <1>1, <2>1 DEF Page
    <2>. QED BY <2>2 DEF h
<1>6. ~Here(t) => ui'.history = ui.history
    BY DEF Reply
<1>7. \A u \in Turns \ {t} : Kin(turn'[u], turn[u])
    BY <1>3 DEF Kin, Alike
<1>. QED BY <1>2, <1>3, <1>4, <1>5, <1>6, <1>7

LEMMA ReplyExchanges ==
    ASSUME Inv, ExchangesInv, NEW t \in Turns, Reply(t)
    PROVE  ExchangesInv'
<1>. DEFINE h == ui.history
<1>1. /\ \A u \in Turns : Kin(turn'[u], turn[u])
      /\ \A u \in Turns \ {t} : Alike(turn'[u], turn[u])
      /\ turn[t].phase = "asked" /\ turn'[t].phase = "voicing" /\ mount' = mount /\ stored' = stored
    BY ReplyTurns
<1>2. TypeOK /\ h \in Seq(Turns) /\ "asked" \notin Answered /\ "voicing" \in Answered
    BY DEF Inv, TypeOK, Answered
<1>3. SessionsNamed' /\ LateFirst'
    BY <1>1, <1>2, NamesKept, LateKept DEF ExchangesInv
<1>4. \A i \in 1..Len(h) :
         h[i] \in Turns /\ turn[h[i]].phase \in Answered /\ h[i] # t /\ turn'[h[i]].phase \in Answered
    BY <1>1, <1>2 DEF ExchangesInv, Alike
<1>5. ASSUME NEW u \in Turns \ {t}, Here(u)', turn'[u].phase \in Answered
      PROVE  Accounted(u) /\ Here(u) /\ turn[u].phase # "unasked"
    <2>1. Here(u) /\ turn[u].phase \in Answered
        BY <1>1, <1>5 DEF Alike, Here
    <2>. QED BY <2>1 DEF ExchangesInv, Answered
<1>6. CASE ~Here(t)
    <2>1. ui'.history = h /\ ~Here(t)'
        BY <1>1, <1>6, ReplyTurns DEF Here, Kin
    <2>2. ASSUME NEW u \in Turns, Here(u)', turn'[u].phase \in Answered PROVE Accounted(u)'
        <3>1. u # t /\ Accounted(u)
            BY <1>5, <2>1, <2>2
        <3>2. OnceIn(u, h) => Accounted(u)'
            BY <2>1 DEF Accounted
        <3>. QED BY <1>1, <3>1, <3>2, AccountKept
    <2>. QED BY <1>3, <1>4, <2>1, <2>2 DEF ExchangesInv
<1>7. CASE Here(t) /\ ~turn[t].isNew
    <2>1. ui'.history = Append(h, t)
        BY <1>7, ReplyTurns DEF ShownAfter
    <2>2. OnceIn(t, Append(h, t)) /\ \A u \in Turns \ {t} : OnceIn(u, h) => OnceIn(u, Append(h, t))
        BY <1>2, <1>4, OnceAppended
    <2>3. ASSUME NEW u \in Turns, Here(u)', turn'[u].phase \in Answered PROVE Accounted(u)'
        <3>1. CASE u = t
            BY <2>1, <2>2, <3>1 DEF Accounted
        <3>2. CASE u # t
            <4>1. OnceIn(u, h) => Accounted(u)'
                BY <2>1, <2>2, <3>2 DEF Accounted
            <4>. QED BY <1>1, <1>5, <2>3, <3>2, <4>1, AccountKept
        <3>. QED BY <3>1, <3>2
    <2>4. \A i \in 1..Len(ui'.history) : turn'[ui'.history[i]].phase \in Answered
        <3>1. \A i \in 1..Len(Append(h, t)) :
                 Append(h, t)[i] = t \/ (i \in 1..Len(h) /\ Append(h, t)[i] = h[i])
            BY <1>2, OnceAppended
        <3>. QED BY <1>1, <1>2, <1>4, <2>1, <3>1
    <2>. QED BY <1>3, <2>3, <2>4 DEF ExchangesInv
<1>8. CASE Here(t) /\ turn[t].isNew
    <2>1. ui'.history = <<t>>
        BY <1>8, ReplyTurns DEF ShownAfter
    <2>2. ASSUME NEW u \in Turns, Here(u)', turn'[u].phase \in Answered PROVE Accounted(u)'
        <3>1. CASE u = t
            <4>1. OnceIn(t, <<t>>)
                BY DEF OnceIn
            <4>. QED BY <2>1, <3>1, <4>1 DEF Accounted
        <3>2. CASE u # t /\ turn[u].session = turn[t].session
            <4>1. turn[u].behind
                BY <1>1, <1>5, <1>8, <2>2, <3>2 DEF ExchangesInv, LateFirst
            <4>2. Kin(turn'[u], turn[u])
                BY <1>1
            <4>. QED BY <4>1, <4>2 DEF Accounted, Kin
        <3>3. CASE u # t /\ turn[u].session # turn[t].session
            <4>1. Kin(turn'[u], turn[u]) /\ Kin(turn'[t], turn[t])
                BY <1>1
            <4>2. Here(t)' /\ turn'[t].isNew /\ turn'[t].session # turn'[u].session
                BY <1>1, <1>8, <3>3, <4>1 DEF Kin, Here
            <4>. QED BY <4>2 DEF Accounted
        <3>. QED BY <3>1, <3>2, <3>3
    <2>3. \A i \in 1..Len(ui'.history) : turn'[ui'.history[i]].phase \in Answered
        <3>1. \A i \in 1..Len(<<t>>) : <<t>>[i] = t
            OBVIOUS
        <3>. QED BY <1>1, <1>2, <2>1, <3>1
    <2>. QED BY <1>3, <2>2, <2>3 DEF ExchangesInv
<1>. QED BY <1>6, <1>7, <1>8

LEMMA ReplySession ==
    ASSUME Inv, SessionInv, ExchangesInv, NEW t \in Turns, Reply(t)
    PROVE  SessionInv'
<1>. DEFINE h == ui.history
            id == stored[narrator].id
            idle == stored[narrator].idle
<1>1. /\ \A u \in Turns : Kin(turn'[u], turn[u])
      /\ \A u \in Turns \ {t} : Alike(turn'[u], turn[u])
      /\ turn[t].phase = "asked" /\ turn'[t].phase = "voicing"
      /\ mount' = mount /\ stored' = stored /\ rec' = rec
    BY ReplyTurns
<1>2. narrator' = narrator /\ stored'[narrator'].id = id /\ stored'[narrator'].idle = idle
    BY <1>1 DEF narrator
<1>3. h \in Seq(Turns)
    BY DEF Inv, TypeOK
<1>. HIDE DEF id, idle
<1>4. ASSUME NEW u \in Turns, turn'[u].phase = "asked", Here(u)'
      PROVE  turn'[u].session = id /\ idle \in 0..turn'[u].waited
    <2>1. u # t
        BY <1>1, <1>4
    <2>2. Alike(turn'[u], turn[u])
        BY <1>1, <2>1
    <2>3. turn[u].phase = "asked" /\ Here(u) /\ turn'[u].waited = turn[u].waited
          /\ turn'[u].session = turn[u].session
        BY <1>1, <1>4, <2>2 DEF Alike, Here
    <2>. QED BY <2>3 DEF SessionInv, id, idle
<1>5. Here(t) => turn[t].session = id /\ idle \in 0..turn[t].waited
    BY <1>1 DEF SessionInv, id, idle
<1>6. ASSUME NEW i \in 1..Len(ui'.history) PROVE turn'[ui'.history[i]].session = id
    <2>1. \A j \in 1..Len(h) : h[j] \in Turns /\ turn'[h[j]].session = id
        BY <1>1, <1>3 DEF SessionInv, Kin, id
    <2>2. Here(t) => turn'[t].session = id
        BY <1>1, <1>5 DEF Kin
    <2>3. CASE ~Here(t)
        BY <1>6, <2>1, <2>3, ReplyTurns
    <2>4. CASE Here(t) /\ turn[t].isNew
        <3>1. ui'.history = <<t>>
            BY <2>4, ReplyTurns DEF ShownAfter
        <3>2. Len(<<t>>) = 1 /\ <<t>>[1] = t
            OBVIOUS
        <3>. QED BY <1>6, <2>2, <2>4, <3>1, <3>2
    <2>5. CASE Here(t) /\ ~turn[t].isNew
        <3>1. ui'.history = Append(h, t)
            BY <2>5, ReplyTurns DEF ShownAfter
        <3>2. \A j \in 1..Len(Append(h, t)) :
                 Append(h, t)[j] = t \/ (j \in 1..Len(h) /\ Append(h, t)[j] = h[j])
            BY <1>3, OnceAppended
        <3>. QED BY <1>6, <2>1, <2>2, <2>5, <3>1, <3>2
    <2>. QED BY <2>3, <2>4, <2>5
<1>7. ASSUME NEW r \in Recordings, Capturing(r)', ~rec'[r].seen, ui'.history # <<>>
      PROVE  idle \in 0..(MaxWait + rec'[r].waited)
    <2>1. rec[r] \in Recorded /\ MaxWait \in Nat /\ turn[t] \in Turn
        BY NarratorAssumption DEF Inv, TypeOK, Recorded
    <2>2. rec[r].waited \in Nat /\ turn[t].waited \in 0..MaxWait
        BY <2>1 DEF Recorded, Turn
    <2>3. Capturing(r) /\ rec'[r] = rec[r]
        BY <1>1, <1>7 DEF Capturing
    <2>4. CASE Here(t)
        BY <1>5, <2>1, <2>2, <2>3, <2>4
    <2>5. CASE ~Here(t)
        <3>1. h # <<>> /\ ~rec[r].seen
            BY <1>7, <2>3, <2>5, ReplyTurns
        <3>. QED BY <2>3, <3>1 DEF SessionInv, idle
    <2>. QED BY <2>4, <2>5
<1>. QED BY <1>2, <1>4, <1>6, <1>7 DEF SessionInv
-------------------------------------------------------------------------------
(* A question, typed or heard.                                             *)
Submitted(t, seen) ==
    /\ turn[t].phase = "unasked" /\ turn'[t] = Asked(t)
    /\ \A u \in Turns \ {t} : Alike(turn'[u], turn[u])
    /\ mount' = mount
    /\ stored' = [stored EXCEPT ![narrator] = [id |-> Asked(t).session, idle |-> 0]]
    /\ ui'.history = IF Clears(seen) THEN <<>> ELSE ui.history

LEMMA TextSubmitted ==
    ASSUME Inv, NEW t \in Turns, SubmitText(t)
    PROVE  Submitted(t, ui.history # <<>>) /\ rec' = rec
<1>1. ui \in Page
    BY DEF Inv, TypeOK, Page
<1>2. /\ turn' = [[u \in Turns |-> Aborted(u)] EXCEPT ![t] = Asked(t)]
      /\ turn[t].phase = "unasked" /\ mount' = mount /\ rec' = rec
      /\ stored' = [stored EXCEPT ![narrator] = [id |-> Asked(t).session, idle |-> 0]]
    BY DEF SubmitText, Submit
<1>3. turn'[t] = Asked(t) /\ \A u \in Turns \ {t} : turn'[u] = Aborted(u)
    BY <1>2
<1>4. \A u \in Turns \ {t} : Alike(turn'[u], turn[u])
    BY <1>3, AbortedAlike
<1>. DEFINE h == IF Clears(ui.history # <<>>) THEN <<>> ELSE ui.history
<1>5. ui' = [ui EXCEPT !.loading = TRUE, !.history = h]
    BY DEF SubmitText, Submit
<1>. HIDE DEF h
<1>6. ui'.history = h
    BY <1>1, <1>5 DEF Page
<1>. QED BY <1>2, <1>3, <1>4, <1>6 DEF Submitted, h

LEMMA HeardSubmitted ==
    ASSUME Inv, NEW r \in Recordings, NEW t \in Turns, Heard(r, t)
    PROVE  Submitted(t, rec[r].seen)
<1>1. ui \in Page /\ turn \in [Turns -> Turn]
    BY DEF Inv, TypeOK, Page
<1>2. /\ turn' = [turn EXCEPT ![t] = Asked(t)]
      /\ turn[t].phase = "unasked" /\ mount' = mount
      /\ stored' = [stored EXCEPT ![narrator] = [id |-> Asked(t).session, idle |-> 0]]
    BY DEF Heard, Submit
<1>3. turn'[t] = Asked(t) /\ \A u \in Turns \ {t} : turn'[u] = turn[u]
    BY <1>1, <1>2
<1>4. \A u \in Turns \ {t} : Alike(turn'[u], turn[u])
    BY <1>3 DEF Alike
<1>. DEFINE page == [ui EXCEPT !.listening = FALSE]
            h == IF Clears(rec[r].seen) THEN <<>> ELSE page.history
<1>5. ui' = [page EXCEPT !.loading = TRUE, !.history = h]
    BY DEF Heard, Submit
<1>6. page \in Page /\ page.history = ui.history
    BY <1>1 DEF Page
<1>. HIDE DEF h, page
<1>7. ui'.history = h
    BY <1>5, <1>6 DEF Page
<1>. QED BY <1>2, <1>3, <1>4, <1>6, <1>7 DEF Submitted, h

LEMMA SubmittedFacts ==
    ASSUME TypeOK, NEW t \in Turns, NEW seen, Submitted(t, seen)
    PROVE  /\ turn'[t].phase = "asked" /\ turn'[t].mount = mount /\ Here(t)'
           /\ turn'[t].isNew = IsNew
           /\ turn'[t].session = IF Remembered THEN stored[narrator].id ELSE t
           /\ turn'[t].behind = \E u \in Turns : turn[u].phase = "asked" /\ turn[u].isNew /\ Here(u)
           /\ narrator' = narrator /\ narrator \in Narrators
           /\ stored'[narrator].id = turn'[t].session /\ stored'[narrator].idle = 0
           /\ \A n \in Narrators \ {narrator} : stored'[n] = stored[n]
           /\ turn'[t].session \in Turns /\ turn'[t].waited \in 0..MaxWait
<1>1. turn[t] \in Turn /\ narrator \in Narrators /\ mount \in 1..Len(Shown)
    BY NarratorAssumption DEF TypeOK, narrator, Narrators, ToSet
<1>2. Asked(t) \in Turn /\ Asked(t).phase = "asked" /\ Asked(t).mount = mount
      /\ Asked(t).session \in Turns
    BY AskedFacts
<1>. DEFINE new == IsNew
            session == IF Remembered THEN stored[narrator].id ELSE t
            behind == \E u \in Turns : turn[u].phase = "asked" /\ turn[u].isNew /\ Here(u)
<1>3. Asked(t) = [turn[t] EXCEPT !.phase = "asked", !.mount = mount, !.isNew = new,
                                 !.session = session, !.behind = behind]
    BY DEF Asked
<1>. HIDE DEF new, session, behind
<1>4. Asked(t).isNew = new /\ Asked(t).session = session /\ Asked(t).behind = behind
    BY <1>1, <1>3 DEF Turn
<1>5. turn'[t] = Asked(t) /\ mount' = mount
      /\ stored' = [stored EXCEPT ![narrator] = [id |-> Asked(t).session, idle |-> 0]]
    BY DEF Submitted
<1>6. narrator' = narrator /\ Here(t)'
    BY <1>2, <1>5 DEF narrator, Here
<1>7. /\ stored'[narrator] = [id |-> Asked(t).session, idle |-> 0]
      /\ \A n \in Narrators \ {narrator} : stored'[n] = stored[n]
    BY <1>1, <1>5 DEF TypeOK
<1>8. turn'[t].waited \in 0..MaxWait
    BY <1>2, <1>5 DEF Turn
<1>9. stored'[narrator].id = turn'[t].session /\ stored'[narrator].idle = 0
    BY <1>5, <1>7
<1>10. /\ turn'[t].phase = "asked" /\ turn'[t].mount = mount /\ turn'[t].session \in Turns
       /\ turn'[t].isNew = new /\ turn'[t].session = session /\ turn'[t].behind = behind
    BY <1>2, <1>4, <1>5
<1>11. /\ turn'[t].isNew = IsNew
       /\ turn'[t].session = IF Remembered THEN stored[narrator].id ELSE t
       /\ turn'[t].behind = \E u \in Turns : turn[u].phase = "asked" /\ turn[u].isNew /\ Here(u)
    BY <1>10, Zenon DEF new, session, behind
<1>. QED BY <1>1, <1>6, <1>7, <1>8, <1>9, <1>10, <1>11

LEMMA SubmitExchanges ==
    ASSUME Inv, ExchangesInv, NEW t \in Turns, NEW seen, Submitted(t, seen)
    PROVE  ExchangesInv'
<1>. DEFINE h == ui.history
<1>0. TypeOK /\ SessionsNamed /\ LateFirst /\ h \in Seq(Turns)
      /\ stored[narrator].id \in Turns \cup {None} /\ "asked" \notin Answered
    <2>1. TypeOK /\ narrator \in Narrators
        BY SubmittedFacts DEF Inv
    <2>. QED BY <2>1 DEF TypeOK, ExchangesInv, Answered
<1>1. /\ turn[t].phase = "unasked" /\ turn'[t].phase = "asked" /\ mount' = mount /\ Here(t)'
      /\ turn'[t].isNew = IsNew /\ turn'[t].session \in Turns
      /\ turn'[t].behind = \E u \in Turns : turn[u].phase = "asked" /\ turn[u].isNew /\ Here(u)
      /\ turn'[t].session = IF Remembered THEN stored[narrator].id ELSE t
      /\ \A u \in Turns \ {t} : Alike(turn'[u], turn[u])
      /\ ui'.history = IF Clears(seen) THEN <<>> ELSE h
    BY <1>0, SubmittedFacts DEF Submitted
<1>2. \A u \in Turns : turn[u].phase # "unasked" =>
         /\ u # t /\ turn[u].session # t /\ turn[u].session \in Turns
         /\ turn[turn[u].session].phase # "unasked"
    BY <1>0, <1>1 DEF SessionsNamed
<1>3. \A u \in Turns : turn[u].phase # "unasked" => turn'[u].phase # "unasked"
    BY <1>1 DEF Alike
<1>4. turn'[turn'[t].session].phase # "unasked"
    <2>1. CASE Remembered
        <3>1. turn[stored[narrator].id].phase # "unasked"
            <4>1. narrator \in Narrators /\ stored[narrator].id # None
                BY <1>0, <2>1, SubmittedFacts DEF Remembered
            <4>. QED BY <1>0, <4>1 DEF SessionsNamed
        <3>. QED BY <1>1, <1>3, <2>1, <3>1
    <2>2. CASE ~Remembered
        BY <1>1, <2>2
    <2>. QED BY <2>1, <2>2
<1>5. SessionsNamed'
    <2>1. ASSUME NEW u \in Turns, turn'[u].phase # "unasked"
          PROVE  turn'[u].session \in Turns /\ turn'[turn'[u].session].phase # "unasked"
        <3>1. CASE u = t
            BY <1>1, <1>4, <3>1
        <3>2. CASE u # t
            <4>1. Alike(turn'[u], turn[u])
                BY <1>1, <3>2
            <4>2. turn[u].phase # "unasked" /\ turn'[u].session = turn[u].session
                BY <2>1, <4>1 DEF Alike
            <4>. QED BY <1>2, <1>3, <4>2
        <3>. QED BY <3>1, <3>2
    <2>2. ASSUME NEW u \in Turns, turn'[u].isNew PROVE turn'[u].phase # "unasked"
        <3>1. CASE u = t
            BY <1>1, <3>1
        <3>2. CASE u # t
            <4>1. Alike(turn'[u], turn[u])
                BY <1>1, <3>2
            <4>. QED BY <1>0, <2>2, <4>1 DEF Alike, SessionsNamed
        <3>. QED BY <3>1, <3>2
    <2>3. ASSUME NEW n \in Narrators, stored'[n].id # None
          PROVE  turn'[stored'[n].id].phase # "unasked"
        <3>1. CASE n = narrator
            BY <1>0, <1>4, <3>1, SubmittedFacts
        <3>2. CASE n # narrator
            <4>1. stored'[n] = stored[n]
                BY <1>0, <3>2, SubmittedFacts
            <4>2. stored[n].id \in Turns
                BY <1>0, <2>3, <4>1 DEF TypeOK
            <4>. QED BY <1>0, <1>3, <2>3, <4>1, <4>2 DEF SessionsNamed
        <3>. QED BY <3>1, <3>2
    <2>. QED BY <2>1, <2>2, <2>3 DEF SessionsNamed
<1>6. LateFirst'
    <2>. SUFFICES ASSUME NEW a \in Turns, NEW u \in Turns,
                         turn'[a].phase = "asked", turn'[a].isNew, Here(a)', u # a,
                         turn'[u].phase # "unasked", Here(u)', turn'[u].session = turn'[a].session
                  PROVE  turn'[u].behind
        BY DEF LateFirst
    <2>1. CASE a = t
        <3>1. Alike(turn'[u], turn[u])
            BY <1>1, <2>1
        <3>2. turn'[a].session = t
            BY <1>1, <2>1 DEF IsNew
        <3>3. turn[u].phase # "unasked" /\ turn'[u].session = turn[u].session
            BY <3>1 DEF Alike
        <3>. QED BY <1>2, <3>2, <3>3
    <2>2. CASE a # t
        <3>1. Alike(turn'[a], turn[a])
            BY <1>1, <2>2
        <3>2. turn[a].phase = "asked" /\ turn[a].isNew /\ Here(a)
              /\ turn[a].session = turn'[a].session
            BY <1>1, <3>1 DEF Alike, Here
        <3>3. CASE u = t
            BY <1>1, <3>2, <3>3
        <3>4. CASE u # t
            <4>1. Alike(turn'[u], turn[u])
                BY <1>1, <3>4
            <4>2. turn[u].phase # "unasked" /\ Here(u) /\ turn[u].session = turn[a].session
                BY <1>1, <3>2, <4>1 DEF Alike, Here
            <4>3. turn[u].behind
                BY <1>0, <3>2, <4>2 DEF LateFirst
            <4>. QED BY <4>1, <4>3 DEF Alike
        <3>. QED BY <3>3, <3>4
    <2>. QED BY <2>1, <2>2
<1>7. ASSUME NEW i \in 1..Len(ui'.history) PROVE turn'[ui'.history[i]].phase \in Answered
    <2>1. ui'.history = h
        <3>1. Len(<<>>) = 0 /\ ~ (i \in 1..0)
            OBVIOUS
        <3>. QED BY <1>1, <1>7, <3>1
    <2>2. h[i] \in Turns /\ turn[h[i]].phase \in Answered
        BY <1>0, <1>7, <2>1 DEF ExchangesInv
    <2>3. h[i] # t
        BY <1>1, <2>2 DEF Answered
    <2>. QED BY <1>1, <2>1, <2>2, <2>3 DEF Alike
<1>8. ASSUME NEW u \in Turns, Here(u)', turn'[u].phase \in Answered PROVE Accounted(u)'
    <2>1. u # t
        BY <1>0, <1>1, <1>8
    <2>2. Alike(turn'[u], turn[u])
        BY <1>1, <2>1
    <2>3. Here(u) /\ turn[u].phase \in Answered /\ turn[u].phase # "unasked"
        BY <1>1, <1>8, <2>2 DEF Alike, Here, Answered
    <2>4. Accounted(u)
        BY <2>3 DEF ExchangesInv
    <2>5. CASE turn[u].behind
        BY <2>2, <2>5 DEF Alike, Accounted
    <2>6. CASE \E w \in Turns : Here(w) /\ turn[w].isNew /\ turn[w].session # turn[u].session
        <3>1. PICK w \in Turns : Here(w) /\ turn[w].isNew /\ turn[w].session # turn[u].session
            BY <2>6
        <3>2. w # t
            BY <1>0, <1>1, <3>1 DEF SessionsNamed
        <3>3. Alike(turn'[w], turn[w])
            BY <1>1, <3>2
        <3>4. Here(w)' /\ turn'[w].isNew /\ turn'[w].session # turn'[u].session
            BY <1>1, <2>2, <3>1, <3>3 DEF Alike, Here
        <3>. QED BY <3>4 DEF Accounted
    <2>7. CASE OnceIn(u, h)
        <3>1. CASE ui'.history = h
            BY <2>7, <3>1 DEF Accounted
        <3>2. CASE ui'.history # h
            <4>1. Clears(seen)
                BY <1>1, <3>2
            <4>2. IsNew /\ turn'[t].session = t
                BY <1>1, <4>1 DEF Clears, IsNew
            <4>3. turn'[u].session = turn[u].session /\ turn[u].session # t
                BY <1>2, <2>2, <2>3 DEF Alike
            <4>. QED BY <1>1, <4>2, <4>3 DEF Accounted
        <3>. QED BY <3>1, <3>2
    <2>. QED BY <2>4, <2>5, <2>6, <2>7 DEF Accounted
<1>. QED BY <1>5, <1>6, <1>7, <1>8 DEF ExchangesInv

(* A turn is not over before its session is; one MaxWait is for the call   *)
(* of a question that was asked before a tap, the other for what the tap   *)
(* then captures.                                                          *)
ShortCalls == 2 * MaxWait < TTL

LEMMA SubmitSession ==
    ASSUME Inv, ShortCalls, SessionInv, ExchangesInv, NEW t \in Turns, NEW seen \in BOOLEAN,
           Submitted(t, seen), rec' \in [Recordings -> Recorded],
           seen \/ ui.history = <<>> \/ stored[narrator].idle \in 0..(2 * MaxWait)
    PROVE  SessionInv'
<1>. DEFINE h == ui.history
            id == stored[narrator].id
            idle == stored[narrator].idle
            now == turn'[t].session
<1>0. TypeOK /\ h \in Seq(Turns) /\ MaxWait \in Nat /\ TTL \in Nat
    BY NarratorAssumption DEF Inv, TypeOK
<1>1. /\ turn'[t].session = IF Remembered THEN id ELSE t
      /\ narrator' = narrator /\ stored'[narrator].id = now /\ stored'[narrator].idle = 0
      /\ turn'[t].waited \in 0..MaxWait /\ mount' = mount
      /\ \A u \in Turns \ {t} : Alike(turn'[u], turn[u])
      /\ ui'.history = IF Clears(seen) THEN <<>> ELSE h
      /\ turn[t].phase = "unasked"
    BY <1>0, SubmittedFacts DEF Submitted
<1>2. Remembered <=> id # None /\ idle \in 0..(TTL - 1)
    BY DEF Remembered
<1>3. \A u \in Turns : turn[u].phase # "unasked" => turn[u].session \in Turns
    BY DEF ExchangesInv, SessionsNamed
<1>4. None \notin Turns
    BY NarratorAssumption
<1>. HIDE DEF id, idle, now
<1>5. ASSUME NEW u \in Turns \ {t}, turn'[u].phase = "asked", Here(u)'
      PROVE  Remembered /\ turn'[u].session = id /\ 0 \in 0..turn'[u].waited
    <2>1. Alike(turn'[u], turn[u])
        BY <1>1
    <2>2. turn[u].phase = "asked" /\ Here(u) /\ turn'[u].waited = turn[u].waited
          /\ turn'[u].session = turn[u].session
        BY <1>1, <1>5, <2>1 DEF Alike, Here
    <2>3. turn[u].session = id /\ idle \in 0..turn[u].waited
        BY <2>2 DEF SessionInv, id, idle
    <2>4. turn[u].waited \in 0..MaxWait
        <3>1. turn[u] \in Turn
            BY <1>0 DEF TypeOK
        <3>. QED BY <3>1 DEF Turn
    <2>5. idle \in 0..(TTL - 1)
        BY <1>0, <2>3, <2>4 DEF ShortCalls
    <2>6. id # None
        BY <1>3, <1>4, <2>2, <2>3
    <2>7. 0 \in 0..turn'[u].waited
        BY <1>0, <2>2, <2>4
    <2>. QED BY <1>2, <2>2, <2>3, <2>5, <2>6, <2>7
<1>6. ~Remembered => ui'.history = <<>>
    <2>. SUFFICES ASSUME ~Remembered, ~Clears(seen) PROVE h = <<>>
        BY <1>1
    <2>1. ~seen
        BY DEF Clears, IsNew
    <2>2. CASE idle \in 0..(2 * MaxWait) /\ h # <<>>
        <3>1. id = None
            BY <1>0, <1>2, <2>2 DEF ShortCalls
        <3>2. Len(h) \in Nat /\ Len(h) # 0
            BY <1>0, <2>2, EmptySeq
        <3>3. 1 \in 1..Len(h)
            BY <3>2
        <3>4. h[1] \in Turns /\ turn[h[1]].session = id /\ turn[h[1]].phase \in Answered
            BY <1>0, <3>3 DEF SessionInv, ExchangesInv, id
        <3>. QED BY <1>3, <1>4, <3>1, <3>4 DEF Answered
    <2>. QED BY <2>1, <2>2 DEF idle
<1>7. ASSUME NEW u \in Turns, turn'[u].phase = "asked", Here(u)'
      PROVE  turn'[u].session = now /\ 0 \in 0..turn'[u].waited
    <2>1. CASE u = t
        BY <1>0, <1>1, <2>1 DEF now
    <2>2. CASE u # t
        BY <1>1, <1>5, <1>7, <2>2 DEF now
    <2>. QED BY <2>1, <2>2
<1>8. ASSUME NEW i \in 1..Len(ui'.history) PROVE turn'[ui'.history[i]].session = now
    <2>1. ui'.history # <<>>
        <3>1. Len(<<>>) = 0 /\ ~ (i \in 1..0)
            OBVIOUS
        <3>. QED BY <1>8, <3>1
    <2>2. Remembered /\ ui'.history = h
        BY <1>1, <1>6, <2>1
    <2>3. h[i] \in Turns /\ turn[h[i]].session = id /\ turn[h[i]].phase # "unasked"
        BY <1>0, <1>8, <2>2 DEF SessionInv, ExchangesInv, Answered, id
    <2>4. Alike(turn'[h[i]], turn[h[i]])
        BY <1>1, <2>3
    <2>. QED BY <1>1, <2>2, <2>3, <2>4 DEF Alike, now
<1>9. ASSUME NEW r \in Recordings PROVE 0 \in 0..(MaxWait + rec'[r].waited)
    <2>1. rec'[r].waited \in 0..MaxWait
        BY DEF Recorded
    <2>. QED BY <1>0, <2>1
<1>. QED BY <1>1, <1>7, <1>8, <1>9 DEF SessionInv
-------------------------------------------------------------------------------
(* Another overlay shows nothing, and has asked nothing.                   *)
LEMMA SwitchTalk ==
    ASSUME Inv, ExchangesInv, Switch
    PROVE  ExchangesInv' /\ SessionInv'
<1>1. /\ mount' = mount + 1 /\ ui'.history = <<>> /\ stored' = stored
      /\ rec' = [r \in Recordings |-> Released(r)]
    BY DEF Switch, Fresh
<1>2. TypeOK /\ mount \in Int /\ turn \in [Turns -> Turn] /\ Len(<<>>) = 0
    BY DEF Inv, TypeOK
<1>3. ASSUME NEW t \in Turns
      PROVE  Kin(turn'[t], turn[t]) /\ ~Here(t)'
    <2>1. turn'[t] = turn[t]
          \/ (turn[t].phase \in {"playing", "rejected"} /\ turn'[t] = [turn[t] EXCEPT !.phase = "left"])
        BY DEF Switch
    <2>2. turn[t] \in Turn
        BY <1>2
    <2>3. Kin(turn'[t], turn[t])
        BY <2>1, <2>2 DEF Kin, Turn
    <2>4. turn[t].mount <= mount /\ turn[t].mount \in Int
        BY <2>2 DEF Inv, VoiceInv, TurnInv, Turn
    <2>. QED BY <1>1, <1>2, <2>3, <2>4 DEF Kin, Here
<1>4. SessionsNamed'
    BY <1>1, <1>2, <1>3, NamesKept DEF ExchangesInv
<1>5. LateFirst'
    BY <1>3 DEF LateFirst
<1>6. ~ (\E i \in 1..Len(ui'.history) : TRUE)
    BY <1>1, <1>2
<1>7. ExchangesInv'
    BY <1>3, <1>4, <1>5, <1>6 DEF ExchangesInv
<1>. QED BY <1>1, <1>3, <1>6, <1>7 DEF SessionInv

(* The clock.                                                              *)
LEMMA ClockTurns ==
    ASSUME Inv, Tick \/ SetBack
    PROVE  /\ \A u \in Turns : Kin(turn'[u], turn[u])
           /\ \A u \in Turns : turn'[u].phase = turn[u].phase
           /\ \A n \in Narrators : stored'[n].id = stored[n].id
           /\ mount' = mount /\ ui' = ui /\ narrator' = narrator /\ narrator \in Narrators
<1>1. /\ mount' = mount /\ ui' = ui /\ narrator' = narrator
      /\ turn \in [Turns -> Turn] /\ narrator \in Narrators
      /\ \A n \in Narrators : stored[n] \in [id: Turns \cup {None}, idle: (0 - MaxBack)..TTL]
    BY NarratorAssumption DEF Tick, SetBack, narrator, Inv, TypeOK, Narrators, ToSet
<1>2. ASSUME NEW u \in Turns
      PROVE  Kin(turn'[u], turn[u]) /\ turn'[u].phase = turn[u].phase
    <2>1. turn'[u] = turn[u] \/ \E k : turn'[u] = [turn[u] EXCEPT !.waited = k]
        BY DEF Tick, SetBack
    <2>2. turn[u] \in Turn
        BY <1>1
    <2>. QED BY <2>1, <2>2 DEF Kin, Turn
<1>3. ASSUME NEW n \in Narrators PROVE stored'[n].id = stored[n].id
    <2>1. stored'[n] = stored[n] \/ \E k : stored'[n] = [stored[n] EXCEPT !.idle = k]
        BY DEF Tick, SetBack
    <2>. QED BY <1>1, <2>1
<1>. QED BY <1>1, <1>2, <1>3

LEMMA ClockExchanges ==
    ASSUME Inv, ExchangesInv, Tick \/ SetBack
    PROVE  ExchangesInv'
<1>1. /\ \A u \in Turns : Kin(turn'[u], turn[u]) /\ turn'[u].phase = turn[u].phase
      /\ \A n \in Narrators : stored'[n].id = stored[n].id
      /\ mount' = mount /\ ui' = ui /\ TypeOK
    BY ClockTurns DEF Inv
<1>2. SessionsNamed' /\ LateFirst'
    BY <1>1, NamesKept, LateKept DEF ExchangesInv
<1>3. \A i \in 1..Len(ui.history) : ui.history[i] \in Turns
    BY <1>1 DEF TypeOK
<1>4. ASSUME NEW t \in Turns, Here(t)', turn'[t].phase \in Answered PROVE Accounted(t)'
    <2>1. Here(t) /\ turn[t].phase \in Answered
        BY <1>1, <1>4 DEF Here, Kin
    <2>2. Accounted(t) /\ (OnceIn(t, ui.history) => Accounted(t)')
        BY <1>1, <2>1 DEF ExchangesInv, Accounted
    <2>. QED BY <1>1, <2>2, AccountKept
<1>5. \A i \in 1..Len(ui'.history) : turn'[ui'.history[i]].phase \in Answered
    BY <1>1, <1>3 DEF ExchangesInv
<1>. QED BY <1>2, <1>4, <1>5 DEF ExchangesInv

LEMMA ClockSession ==
    ASSUME Inv, ShortCalls, ExchangesInv, SessionInv, Tick \/ SetBack
    PROVE  SessionInv'
<1>. DEFINE id == stored[narrator].id
            idle == stored[narrator].idle
<1>1. /\ \A u \in Turns : Kin(turn'[u], turn[u]) /\ turn'[u].phase = turn[u].phase
      /\ stored'[narrator].id = id /\ narrator' = narrator /\ narrator \in Narrators
      /\ mount' = mount /\ ui' = ui /\ TypeOK
    BY ClockTurns DEF Inv
<1>2. MaxWait \in Nat /\ TTL \in Nat /\ None \notin Turns
    BY NarratorAssumption
<1>3. ui.history \in Seq(Turns) /\ \A i \in 1..Len(ui.history) : ui.history[i] \in Turns
    BY <1>1 DEF TypeOK
<1>. HIDE DEF id, idle
<1>4. \A i \in 1..Len(ui'.history) : turn'[ui'.history[i]].session = stored'[narrator'].id
    BY <1>1, <1>3 DEF SessionInv, Kin, id
<1>5. \A u \in Turns : turn[u].phase # "unasked" => turn[u].session \in Turns
    BY DEF ExchangesInv, SessionsNamed
<1>6. ASSUME Tick, id # None, idle \in 0..(2 * MaxWait)
      PROVE  stored'[narrator].idle = idle + 1
    <2>1. idle # TTL
        BY <1>2, <1>6 DEF ShortCalls
    <2>2. stored'[narrator] = [stored[narrator] EXCEPT !.idle = idle + 1]
        BY <1>1, <1>6, <2>1 DEF Tick, id, idle
    <2>3. stored[narrator] \in [id: Turns \cup {None}, idle: (0 - MaxBack)..TTL]
        BY <1>1 DEF TypeOK
    <2>. QED BY <2>2, <2>3
<1>7. ASSUME NEW t \in Turns, turn'[t].phase = "asked", Here(t)'
      PROVE  turn'[t].session = id /\ stored'[narrator].idle \in 0..turn'[t].waited
    <2>1. turn[t].phase = "asked" /\ Here(t) /\ turn'[t].session = turn[t].session /\ t \in AskedTurns
        BY <1>1, <1>7 DEF Kin, Here, AskedTurns
    <2>2. Tick
        BY <2>1 DEF SetBack
    <2>3. turn[t].session = id /\ idle \in 0..turn[t].waited
        BY <2>1 DEF SessionInv, id, idle
    <2>4. turn[t] \in Turn
        BY <1>1 DEF TypeOK
    <2>5. turn[t].waited \in Nat /\ turn[t].waited < MaxWait
        BY <1>2, <2>1, <2>2, <2>4 DEF Tick, Turn
    <2>6. turn'[t].waited = turn[t].waited + 1
        BY <2>1, <2>2, <2>4 DEF Tick, Turn
    <2>7. id # None
        BY <1>2, <1>5, <2>1, <2>3
    <2>8. idle \in 0..(2 * MaxWait)
        BY <1>2, <2>3, <2>5
    <2>9. stored'[narrator].idle = idle + 1
        BY <1>6, <2>2, <2>7, <2>8
    <2>. QED BY <2>1, <2>3, <2>5, <2>6, <2>9
<1>8. ASSUME NEW r \in Recordings, Capturing(r)', ~rec'[r].seen, ui'.history # <<>>
      PROVE  stored'[narrator].idle \in 0..(MaxWait + rec'[r].waited)
    <2>0. rec[r] \in Recorded
        BY <1>1 DEF TypeOK, Recorded
    <2>1. /\ rec'[r].phase = rec[r].phase /\ rec'[r].mount = rec[r].mount
          /\ rec'[r].seen = rec[r].seen
        <3>1. rec'[r] = rec[r] \/ \E k : rec'[r] = [rec[r] EXCEPT !.waited = k]
            BY DEF Tick, SetBack
        <3>. QED BY <2>0, <3>1 DEF Recorded
    <2>2. Capturing(r) /\ ~rec[r].seen /\ ui.history # <<>> /\ r \in Captures
        BY <1>1, <1>8, <2>1 DEF Capturing, Captures
    <2>3. Tick
        BY <2>2 DEF SetBack
    <2>4. rec[r].waited \in Nat /\ rec[r].waited < MaxWait
        BY <1>2, <2>0, <2>2, <2>3 DEF Tick, Recorded
    <2>5. rec'[r].waited = rec[r].waited + 1
        BY <2>0, <2>2, <2>3 DEF Tick, Recorded
    <2>6. idle \in 0..(MaxWait + rec[r].waited)
        BY <2>2 DEF SessionInv, idle
    <2>7. id # None
        <3>1. Len(ui.history) \in Nat /\ Len(ui.history) # 0
            BY <1>3, <2>2, EmptySeq
        <3>2. 1 \in 1..Len(ui.history)
            BY <3>1
        <3>3. turn[ui.history[1]].session = id /\ turn[ui.history[1]].phase \in Answered
            BY <3>2 DEF SessionInv, ExchangesInv, id
        <3>. QED BY <1>2, <1>3, <1>5, <3>2, <3>3 DEF Answered
    <2>8. idle \in 0..(2 * MaxWait)
        BY <1>2, <2>4, <2>6
    <2>9. stored'[narrator].idle = idle + 1
        BY <1>6, <2>3, <2>7, <2>8
    <2>. QED BY <1>2, <2>4, <2>5, <2>6, <2>9
<1>. QED BY <1>1, <1>4, <1>7, <1>8 DEF SessionInv
-------------------------------------------------------------------------------
LEMMA QuietSteps ==
    ASSUME Inv, Next \/ UNCHANGED vars,
           ~ (\E t \in Turns : Reply(t) \/ SubmitText(t) \/ \E r \in Recordings : Heard(r, t)),
           ~Switch, ~Tick, ~SetBack
    PROVE  Quiet
<1>1. CASE UNCHANGED vars
    <2>1. mount' = mount /\ ui' = ui /\ rec' = rec /\ turn' = turn /\ stored' = stored
        BY <1>1 DEF vars
    <2>. QED BY <2>1, SameTurns, SameCaptures DEF Quiet
<1>2. CASE Visitor
    BY <1>2, TapQuiet DEF Visitor
<1>3. CASE Capture
    BY <1>3, CaptureQuiet DEF Capture
<1>4. CASE Voice
    BY <1>4, VoiceQuiet, ClipQuiet DEF Voice
<1>. QED BY <1>1, <1>2, <1>3, <1>4 DEF Next

LEMMA ExchangesStep ==
    ASSUME Inv, ExchangesInv, Next \/ UNCHANGED vars
    PROVE  ExchangesInv'
<1>1. CASE \E t \in Turns : Reply(t)
    BY <1>1, ReplyExchanges
<1>2. CASE \E t \in Turns : SubmitText(t)
    BY <1>2, TextSubmitted, SubmitExchanges
<1>3. CASE \E r \in Recordings, t \in Turns : Heard(r, t)
    BY <1>3, HeardSubmitted, SubmitExchanges
<1>4. CASE Switch
    BY <1>4, SwitchTalk
<1>5. CASE Tick \/ SetBack
    BY <1>5, ClockExchanges
<1>6. CASE Quiet
    BY <1>6, QuietExchanges DEF Inv
<1>. QED BY <1>1, <1>2, <1>3, <1>4, <1>5, <1>6, QuietSteps

LEMMA SessionStep ==
    ASSUME Inv, Inv', ShortCalls, ExchangesInv, SessionInv, Next \/ UNCHANGED vars
    PROVE  SessionInv'
<1>1. CASE \E t \in Turns : Reply(t)
    BY <1>1, ReplySession
<1>0. rec' \in [Recordings -> Recorded]
    BY DEF Inv, TypeOK, Recorded
<1>2. ASSUME NEW t \in Turns, SubmitText(t) PROVE SessionInv'
    <2>1. Submitted(t, ui.history # <<>>) /\ (ui.history # <<>>) \in BOOLEAN
        BY <1>2, TextSubmitted
    <2>. QED BY <1>0, <2>1, SubmitSession
<1>3. ASSUME NEW r \in Recordings, NEW t \in Turns, Heard(r, t) PROVE SessionInv'
    <2>1. Submitted(t, rec[r].seen) /\ Capturing(r)
        BY <1>3, HeardSubmitted DEF Heard
    <2>2. rec[r] \in Recorded /\ MaxWait \in Nat
        BY NarratorAssumption DEF Inv, TypeOK, Recorded
    <2>3. rec[r].seen \in BOOLEAN /\ rec[r].waited \in 0..MaxWait
        BY <2>2 DEF Recorded
    <2>4. rec[r].seen \/ ui.history = <<>> \/ stored[narrator].idle \in 0..(MaxWait + rec[r].waited)
        BY <2>1 DEF SessionInv
    <2>5. rec[r].seen \/ ui.history = <<>> \/ stored[narrator].idle \in 0..(2 * MaxWait)
        <3>1. \A k \in 0..(MaxWait + rec[r].waited) : k \in 0..(2 * MaxWait)
            BY <2>2, <2>3
        <3>. QED BY <2>4, <3>1
    <2>. QED BY <1>0, <2>1, <2>3, <2>5, SubmitSession
<1>4. CASE Switch
    BY <1>4, SwitchTalk
<1>5. CASE Tick \/ SetBack
    BY <1>5, ClockSession
<1>6. CASE Quiet
    BY <1>6, QuietSession DEF Inv
<1>. QED BY <1>1, <1>2, <1>3, <1>4, <1>5, <1>6, QuietSteps

LEMMA TalkStart == Init => ExchangesInv /\ SessionInv
<1>. SUFFICES ASSUME Init PROVE ExchangesInv /\ SessionInv
    OBVIOUS
<1>1. /\ \A t \in Turns : turn[t].phase = "unasked" /\ turn[t].isNew = FALSE
      /\ \A n \in Narrators : stored[n].id = None
      /\ ui.history = <<>> /\ Len(<<>>) = 0
    BY DEF Init, Fresh
<1>2. ~ (\E i \in 1..Len(ui.history) : TRUE) /\ "unasked" \notin Answered
    BY <1>1 DEF Answered
<1>. QED BY <1>1, <1>2 DEF ExchangesInv, SessionsNamed, LateFirst, SessionInv

LEMMA ExchangesInvariant == Spec => []ExchangesInv
BY OverlayInvariant, TalkStart, ExchangesStep, PTL DEF Spec

(* Every exchange that was answered in an overlay is in its transcript,    *)
(* once, unless a new conversation took it away or it was asked behind the *)
(* first question of one, for any number of overlapping questions          *)
(* (setHistory's updates in NarratorOverlay.tsx).                          *)
THEOREM ExchangesStayShown == Spec => []ExchangesShown
<1>1. ASSUME Inv, ExchangesInv PROVE ExchangesShown
    <2>. SUFFICES ASSUME NEW t \in Turns, OnceIn(t, ui.history)
                  PROVE  Cardinality({i \in DOMAIN ui.history : ui.history[i] = t}) = 1
        BY <1>1 DEF ExchangesShown, ExchangesInv, Accounted
    <2>1. DOMAIN ui.history = 1..Len(ui.history)
        BY <1>1 DEF Inv, TypeOK
    <2>2. PICK i \in 1..Len(ui.history) :
             \A j \in 1..Len(ui.history) : ui.history[j] = t <=> j = i
        BY DEF OnceIn
    <2>3. {j \in DOMAIN ui.history : ui.history[j] = t} = {i}
        BY <2>1, <2>2
    <2>. QED BY <2>3, FS_Singleton
<1>. QED BY <1>1, OverlayInvariant, ExchangesInvariant, PTL

(* The transcript is of one session, however typed and spoken questions,   *)
(* late replies and the session's expiry meet (getOrCreateTabChatSession   *)
(* in lib/chat.ts, submitMessage in NarratorOverlay.tsx), as long as a     *)
(* session outlasts two waits.                                             *)
THEOREM OneConversationShown ==
    ASSUME ShortCalls
    PROVE  Spec => []TranscriptOfOneSession
<1>1. ASSUME Inv, SessionInv PROVE TranscriptOfOneSession
    <2>1. DOMAIN ui.history = 1..Len(ui.history)
        BY <1>1 DEF Inv, TypeOK
    <2>. QED BY <1>1, <2>1 DEF SessionInv, TranscriptOfOneSession
<1>2. Inv /\ Inv' /\ ExchangesInv /\ SessionInv /\ (Next \/ UNCHANGED vars) => SessionInv'
    BY SessionStep
<1>. QED BY <1>1, <1>2, OverlayInvariant, ExchangesInvariant, TalkStart, PTL DEF Spec

===============================================================================
