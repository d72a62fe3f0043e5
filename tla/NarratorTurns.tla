---------------------------- MODULE NarratorTurns ----------------------------
(***************************************************************************)
(* The narrator overlay of one browser tab, NarratorOverlay.tsx, with the  *)
(* tab's chat sessions of lib/chat.ts.  A visitor asks by voice or by      *)
(* typing; the reply is shown and then voiced, by a clip on the overlay's  *)
(* one audio element or, when that fails, by the browser's own speech,     *)
(* which belongs to the page.  The overlay is mounted anew for every       *)
(* narrator; calls that were under way go on without it.                   *)
(*                                                                         *)
(* Between two awaits JavaScript runs to completion: an action is one      *)
(* event handler or one continuation.  A turn is one submitMessage and the *)
(* speak it starts.  A recording stands for a call of the live             *)
(* transcription, which keeps the contract of module Microphone, or for a  *)
(* recogniser of the browser.  A browser without speechSynthesis is left   *)
(* out, and so are notices, citations and the panel's visibility.          *)
(***************************************************************************)
EXTENDS Integers, Sequences, FiniteSets, SequencesExt

CONSTANTS
    Turns,          \* questions
    Recordings,     \* attempts to ask by voice
    None,           \* neither a turn nor a session
    Silence,        \* the clip that unlocks the audio element
    Shown,          \* the narrators that the visitor turns to, one by one
    TTL,            \* CHAT_SESSION_IDLE_TTL_MS, in ticks
    MaxWait,        \* bound: ticks that a chat call, or a capture, lasts
    MaxBack         \* bound: ticks that the clock may be set back

ASSUME NarratorAssumption ==
    /\ None \notin Turns /\ Silence \notin Turns /\ None # Silence
    /\ Shown \in Seq(STRING) /\ Shown # <<>>
    /\ TTL \in Nat /\ MaxWait \in Nat /\ MaxWait < TTL
    /\ MaxBack \in Nat

VARIABLES
    mode,           \* detectedVoiceMode: "native" or "recorder"
    mount,          \* the overlay on the page: an index of Shown
    ui,             \* its React state
    rec,            \* recordings
    turn,           \* submitMessage and speak, one record for each question
    element,        \* the mounted overlay's audio element
    utterance,      \* the turn that speechSynthesis is speaking, or None
    stored          \* each narrator's session in the tab's storage

vars == <<mode, mount, ui, rec, turn, element, utterance, stored>>

Narrators == ToSet(Shown)
narrator == Shown[mount]

Fresh == [history |-> <<>>, loading |-> FALSE, speaking |-> FALSE,
          listening |-> FALSE, micBlocked |-> FALSE]
FreshElement == [clip |-> None, sound |-> "idle"]

Answered == {"voicing", "playing", "rejected", "browser", "over", "left"}

(* behind, interrupted and voiced are history: the turn was asked while the *)
(* first question of its session was unanswered; another sound was started *)
(* over its own; its own was played, or tried as a last resort, to the end. *)
Turn == [phase: {"unasked", "asked", "failed"} \cup Answered,
         mount: 1..Len(Shown), session: Turns \cup {None}, isNew: BOOLEAN,
         waited: 0..MaxWait,
         behind: BOOLEAN, interrupted: BOOLEAN, voiced: BOOLEAN]

TypeOK ==
    /\ mode \in {"native", "recorder"}
    /\ mount \in 1..Len(Shown)
    /\ ui \in [history: Seq(Turns), loading: BOOLEAN, speaking: BOOLEAN,
               listening: BOOLEAN, micBlocked: BOOLEAN]
    /\ rec \in [Recordings -> [phase: {"unused", "setup", "live", "errored", "orphan", "over"},
                               mount: 1..Len(Shown), seen: BOOLEAN, waited: 0..MaxWait]]
    /\ turn \in [Turns -> Turn]
    /\ element \in [clip: Turns \cup {None, Silence}, sound: {"idle", "pending", "playing"}]
    /\ utterance \in Turns \cup {None}
    /\ stored \in [Narrators -> [id: Turns \cup {None}, idle: (0 - MaxBack)..TTL]]

Init ==
    /\ mode \in {"native", "recorder"}
    /\ mount = 1
    /\ ui = Fresh
    /\ rec = [r \in Recordings |-> [phase |-> "unused", mount |-> 1, seen |-> FALSE, waited |-> 0]]
    /\ turn = [t \in Turns |-> [phase |-> "unasked", mount |-> 1, session |-> None,
                                isNew |-> FALSE, waited |-> 0, behind |-> FALSE,
                                interrupted |-> FALSE, voiced |-> FALSE]]
    /\ element = FreshElement
    /\ utterance = None
    /\ stored = [n \in Narrators |-> [id |-> None, idle |-> 0]]

-----------------------------------------------------------------------------
(* The audio element.  A pending play() is rejected by pause() and by a    *)
(* new source; a turn whose clip has started just waits for an "ended".    *)
Here(t) == turn[t].mount = mount
Waiting == {t \in Turns : turn[t].phase = "playing" /\ Here(t)}
Pending(t) == element.clip = t /\ element.sound = "pending"

Disturbed(t) ==
    IF turn[t].phase \in {"voicing", "playing", "rejected", "browser"}
    THEN [turn[t] EXCEPT !.interrupted = TRUE] ELSE turn[t]

Aborted(t) == IF Pending(t) THEN [Disturbed(t) EXCEPT !.phase = "rejected"] ELSE Disturbed(t)

(* unlockAudioOutput: a silent clip, and an empty utterance.               *)
Unlock ==
    /\ element' = [clip |-> Silence, sound |-> "pending"]
    /\ utterance' = None

(* getOrCreateTabChatSession.  A new session is named by its first turn,   *)
(* and idle is the clock's distance from lastActivityAt.                   *)
Remembered == stored[narrator].id # None /\ stored[narrator].idle \in 0..(TTL - 1)

(* Faulty variant: only the tab's first session counts as new. *)
IsNew_First == stored[narrator].id = None

IsNew == ~Remembered

Asked(t) ==
    [turn[t] EXCEPT
        !.phase = "asked", !.mount = mount, !.isNew = IsNew,
        !.session = IF Remembered THEN stored[narrator].id ELSE t,
        !.behind = \E u \in Turns : turn[u].phase = "asked" /\ turn[u].isNew /\ Here(u)]

(* Faulty variant: every question starts an empty transcript. *)
Clears_Always(seen) == seen

Clears(seen) == IsNew /\ seen

(* submitMessage up to its await, called by a closure that has seen some   *)
(* history or none, on a page that looks like page.                        *)
Submit(t, before, page, seen) ==
    /\ turn[t].phase = "unasked"
    /\ turn' = [before EXCEPT ![t] = Asked(t)]
    /\ stored' = [stored EXCEPT ![narrator] = [id |-> Asked(t).session, idle |-> 0]]
    /\ ui' = [page EXCEPT !.loading = TRUE,
                          !.history = IF Clears(seen) THEN <<>> ELSE @]

-----------------------------------------------------------------------------
(* handleTextSubmit.  Typing leaves a recording running.                   *)
SubmitText(t) ==
    /\ ~ui.loading
    /\ Unlock
    /\ Submit(t, [u \in Turns |-> Aborted(u)], ui, ui.history # <<>>)
    /\ UNCHANGED <<mode, mount, rec>>

(* The microphone button: startListening and startRecording.  Either       *)
(* cancels what an earlier tap or overlay left holding the microphone; the *)
(* set-up of an earlier overlay finds that out by itself.                  *)
Capturing(r) == rec[r].phase \in {"setup", "live"} /\ rec[r].mount = mount

Ended(r, phase) == [rec[r] EXCEPT !.phase = phase, !.seen = FALSE, !.waited = 0]

Released(r) ==
    IF rec[r].phase \in {"live", "errored", "orphan"} THEN Ended(r, "over") ELSE rec[r]

TapMicrophone(r) ==
    /\ rec[r].phase = "unused"
    /\ ~ui.micBlocked /\ ~ui.loading
    /\ IF mode = "native" THEN ~ui.listening ELSE \A q \in Recordings : ~Capturing(q)
    /\ Unlock
    /\ turn' = [u \in Turns |-> Aborted(u)]
    /\ rec' = [q \in Recordings |->
                  IF q = r THEN [phase |-> IF mode = "native" THEN "live" ELSE "setup",
                                 mount |-> mount, seen |-> ui.history # <<>>, waited |-> 0]
                  ELSE Released(q)]
    /\ ui' = [ui EXCEPT !.listening = TRUE]
    /\ UNCHANGED <<mode, mount, stored>>

(* recognition.onresult and the onDone of a recording: something was said. *)
Heard(r, t) ==
    /\ Capturing(r) /\ rec[r].phase = "live"
    /\ rec' = [rec EXCEPT ![r] = Ended(r, "over")]
    /\ Submit(t, turn, [ui EXCEPT !.listening = FALSE], rec[r].seen)
    /\ UNCHANGED <<mode, mount, element, utterance>>

(* The capture ends with nothing: an empty result, an error, or the end of *)
(* a recogniser (which is over after its error only by its end).  A        *)
(* recogniser that misses is given up; a recorder only when it is denied   *)
(* or dead.  A recording whose set-up threw half way may still fail.       *)
Missed(r) ==
    /\ rec[r].phase \in {"live", "orphan"} /\ rec[r].mount = mount
    /\ \E blocked \in IF mode = "native" THEN {TRUE} ELSE BOOLEAN,
          next \in IF mode = "native" THEN {"errored", "over"} ELSE {"over"} :
          /\ rec' = [rec EXCEPT ![r] = Ended(r, next)]
          /\ ui' = [ui EXCEPT !.listening = FALSE, !.micBlocked = @ \/ blocked]
    /\ UNCHANGED <<mode, mount, turn, element, utterance, stored>>

EndAfterError(r) ==
    /\ rec[r].phase = "errored"
    /\ rec' = [rec EXCEPT ![r] = Ended(r, "over")]
    /\ ui' = [ui EXCEPT !.listening = FALSE]
    /\ UNCHANGED <<mode, mount, turn, element, utterance, stored>>

(* Faulty variant: a failed set-up leaves the status as it was. *)
SetUp_KeepsListening(r) ==
    /\ rec[r].phase = "setup"
    /\ \E next \in {"live", "over"} : rec' = [rec EXCEPT ![r].phase = next]
    /\ UNCHANGED <<mode, mount, ui, turn, element, utterance, stored>>

(* The continuation of startRecording: the handle, or failRecording; an    *)
(* overlay that is gone cancels the handle.                                *)
SetUp(r) ==
    /\ rec[r].phase = "setup"
    /\ \/ /\ Capturing(r)
          /\ rec' = [rec EXCEPT ![r].phase = "live"]
          /\ UNCHANGED ui
       \/ /\ Capturing(r)
          /\ \E blocked \in BOOLEAN, next \in {"over", "orphan"} :
                /\ rec' = [rec EXCEPT ![r] = Ended(r, next)]
                /\ ui' = [ui EXCEPT !.listening = FALSE, !.micBlocked = @ \/ blocked]
       \/ /\ ~Capturing(r)
          /\ rec' = [rec EXCEPT ![r] = Ended(r, "over")]
          /\ UNCHANGED ui
    /\ UNCHANGED <<mode, mount, turn, element, utterance, stored>>

-----------------------------------------------------------------------------
Replied(t) == [turn[t] EXCEPT !.phase = "voicing", !.waited = 0]

(* The functional update of setHistory.                                    *)
ShownAfter(t) == IF turn[t].isNew THEN <<t>> ELSE Append(ui.history, t)

(* /chat answers: the rest of submitMessage, and speak up to its await,    *)
(* which stops whatever sounds.  An overlay that is gone stops the speech  *)
(* of the one on the page; its own element is silent already.              *)
Reply(t) ==
    /\ turn[t].phase = "asked"
    /\ utterance' = None
    /\ IF Here(t)
       THEN /\ ui' = [ui EXCEPT !.history = ShownAfter(t), !.loading = FALSE]
            /\ element' = [element EXCEPT !.sound = "idle"]
            /\ turn' = [u \in Turns |-> IF u = t THEN Replied(t)
                                        ELSE Aborted(u)]
       ELSE /\ turn' = [u \in Turns |-> IF u = t THEN Replied(t)
                                        ELSE Disturbed(u)]
            /\ UNCHANGED <<ui, element>>
    /\ UNCHANGED <<mode, mount, rec, stored>>

(* Faulty variant: loading is only ended by a reply. *)
ReplyFails_KeepsLoading(t) ==
    /\ turn[t].phase = "asked"
    /\ turn' = [turn EXCEPT ![t].phase = "failed", ![t].waited = 0]
    /\ UNCHANGED <<mode, mount, ui, rec, element, utterance, stored>>

ReplyFails(t) ==
    /\ turn[t].phase = "asked"
    /\ turn' = [turn EXCEPT ![t].phase = "failed", ![t].waited = 0]
    /\ ui' = IF Here(t) THEN [ui EXCEPT !.loading = FALSE] ELSE ui
    /\ UNCHANGED <<mode, mount, rec, element, utterance, stored>>

(* synthesizeNarratorVoice answers: load the clip and play it.             *)
VoiceArrives(t) ==
    /\ turn[t].phase = "voicing" /\ Here(t)
    /\ turn' = [u \in Turns |-> IF u = t THEN [turn[t] EXCEPT !.phase = "playing"]
                                ELSE Aborted(u)]
    /\ element' = [clip |-> t, sound |-> "pending"]
    /\ ui' = [ui EXCEPT !.speaking = TRUE]
    /\ UNCHANGED <<mode, mount, rec, utterance, stored>>

(* Faulty variant: a clip that fails to play is let go. *)
FallBack_Silently(t) ==
    /\ turn[t].phase \in {"voicing", "rejected"} /\ Here(t)
    /\ turn' = [turn EXCEPT ![t].phase = "over"]
    /\ ui' = [ui EXCEPT !.speaking = FALSE]
    /\ UNCHANGED <<mode, mount, rec, element, utterance, stored>>

(* The catch of speak: no clip, or one that did not play; the browser      *)
(* speaks instead of what it was speaking.                                 *)
FallBack(t) ==
    /\ turn[t].phase \in {"voicing", "rejected"} /\ Here(t)
    /\ turn' = [u \in Turns |-> IF u = t THEN [turn[t] EXCEPT !.phase = "browser"]
                                ELSE Disturbed(u)]
    /\ utterance' = t
    /\ ui' = [ui EXCEPT !.speaking = TRUE]
    /\ UNCHANGED <<mode, mount, rec, element, stored>>

(* Synthesis ends, either way, for an overlay that is gone.                *)
VoiceTooLate(t) ==
    /\ turn[t].phase = "voicing" /\ ~Here(t)
    /\ turn' = [turn EXCEPT ![t].phase = "left"]
    /\ UNCHANGED <<mode, mount, ui, rec, element, utterance, stored>>

(* The utterance's onend or onerror, also after speechSynthesis.cancel().  *)
UtteranceEnds(t) ==
    /\ turn[t].phase = "browser"
    /\ turn' = [turn EXCEPT ![t].phase = "over", ![t].voiced = (utterance = t)]
    /\ utterance' = IF utterance = t THEN None ELSE utterance
    /\ ui' = IF Here(t) THEN [ui EXCEPT !.speaking = FALSE] ELSE ui
    /\ UNCHANGED <<mode, mount, rec, element, stored>>

-----------------------------------------------------------------------------
(* The element itself.  "ended" and "error" reach the listeners of every   *)
(* turn that waits on it.                                                  *)
Plays ==
    /\ element.sound = "pending"
    /\ element' = [element EXCEPT !.sound = "playing"]
    /\ UNCHANGED <<mode, mount, ui, rec, turn, utterance, stored>>

ClipEnds ==
    /\ element.sound = "playing"
    /\ element' = [element EXCEPT !.sound = "idle"]
    /\ turn' = [t \in Turns |->
                   IF t \in Waiting
                   THEN [turn[t] EXCEPT !.phase = "over", !.voiced = (element.clip = t)]
                   ELSE turn[t]]
    /\ ui' = IF Waiting = {} THEN ui ELSE [ui EXCEPT !.speaking = FALSE]
    /\ UNCHANGED <<mode, mount, rec, utterance, stored>>

ClipFails ==
    /\ element.sound # "idle"
    /\ element' = [element EXCEPT !.sound = "idle"]
    /\ turn' = [t \in Turns |-> IF t \in Waiting THEN [turn[t] EXCEPT !.phase = "rejected"]
                                ELSE turn[t]]
    /\ UNCHANGED <<mode, mount, ui, rec, utterance, stored>>

(* The browser refuses to play a clip outside of a tap.                    *)
PlayRefused(t) ==
    /\ Pending(t)
    /\ element' = [element EXCEPT !.sound = "idle"]
    /\ turn' = [turn EXCEPT ![t].phase = "rejected"]
    /\ UNCHANGED <<mode, mount, ui, rec, utterance, stored>>

-----------------------------------------------------------------------------
(* The visitor turns to the next narrator: the overlay unmounts, and       *)
(* another one is mounted.  speechSynthesis is not stopped.                *)
Switch ==
    /\ mount < Len(Shown)
    /\ mount' = mount + 1
    /\ ui' = Fresh
    /\ element' = FreshElement
    /\ rec' = [r \in Recordings |-> Released(r)]
    /\ turn' = [t \in Turns |->
                   IF Here(t) /\ turn[t].phase \in {"playing", "rejected"}
                   THEN [turn[t] EXCEPT !.phase = "left"] ELSE turn[t]]
    /\ UNCHANGED <<mode, utterance, stored>>

(* The clock.  A chat call is answered, or fails, within MaxWait, and so   *)
(* ends a capture; the clock may be set back while there is neither.       *)
AskedTurns ==
    {t \in Turns : turn[t].phase = "asked"}
Captures ==
    {r \in Recordings : rec[r].phase \in {"setup", "live"}}

Tick ==
    /\ \A t \in AskedTurns : turn[t].waited < MaxWait
    /\ \A r \in Captures : rec[r].waited < MaxWait
    /\ turn' = [t \in Turns |->
                   IF t \in AskedTurns THEN [turn[t] EXCEPT !.waited = @ + 1] ELSE turn[t]]
    /\ rec' = [r \in Recordings |->
                  IF r \in Captures THEN [rec[r] EXCEPT !.waited = @ + 1] ELSE rec[r]]
    /\ stored' = [n \in Narrators |->
                     IF stored[n].id = None \/ stored[n].idle = TTL THEN stored[n]
                     ELSE [stored[n] EXCEPT !.idle = @ + 1]]
    /\ UNCHANGED <<mode, mount, ui, element, utterance>>

SetBack ==
    /\ AskedTurns = {} /\ Captures = {}
    /\ \A n \in Narrators : stored[n].idle > 0 - MaxBack
    /\ stored' = [n \in Narrators |->
                     IF stored[n].id = None THEN stored[n] ELSE [stored[n] EXCEPT !.idle = @ - 1]]
    /\ UNCHANGED <<mode, mount, ui, rec, turn, element, utterance>>

Visitor ==
    \/ \E t \in Turns : SubmitText(t)
    \/ \E r \in Recordings : TapMicrophone(r)
    \/ Switch
Capture ==
    \E r \in Recordings :
       \/ SetUp(r) \/ Missed(r) \/ EndAfterError(r)
       \/ \E t \in Turns : Heard(r, t)
Voice ==
    \/ \E t \in Turns :
          \/ Reply(t) \/ ReplyFails(t)
          \/ VoiceArrives(t) \/ FallBack(t) \/ VoiceTooLate(t)
          \/ UtteranceEnds(t) \/ PlayRefused(t)
    \/ Plays \/ ClipEnds \/ ClipFails

Next == Visitor \/ Capture \/ Voice \/ Tick \/ SetBack

Spec == Init /\ [][Next]_vars

-----------------------------------------------------------------------------
(* Fairness: calls of the server are answered or fail, captures come to    *)
(* their end (module Microphone shows it of recordings), and what plays    *)
(* ends.  Nothing is asked of the visitor or of the clock.                 *)
Fairness ==
    /\ \A r \in Recordings :
          /\ WF_vars(SetUp(r))
          /\ WF_vars(Missed(r) \/ \E t \in Turns : Heard(r, t))
    /\ \A t \in Turns :
          /\ WF_vars(Reply(t) \/ ReplyFails(t))
          /\ WF_vars(VoiceArrives(t) \/ FallBack(t) \/ VoiceTooLate(t))
          /\ WF_vars(UtteranceEnds(t))
    /\ WF_vars(Plays \/ ClipFails) /\ WF_vars(ClipEnds \/ ClipFails)

FairSpec == Spec /\ Fairness

-----------------------------------------------------------------------------
(* PROPERTIES                                                              *)

(* The status that the overlay reports is never a leftover: it says        *)
(* "listening" exactly while something of this overlay captures, which is  *)
(* never two at once, nor beside one that failed and may still report; and *)
(* "thinking" or "speaking" only while one of this overlay's turns is: one *)
(* that set the status and was cut, superseded or rejected has cleared it, *)
(* and one of an earlier overlay never set it.                             *)
StatusIsHonest ==
    /\ ui.listening <=> \E r \in Recordings : Capturing(r)
    /\ \A q, r \in Recordings :
          Capturing(q) /\ (Capturing(r) \/ rec[r].phase \in {"errored", "orphan"}) => q = r
    /\ ui.loading => \E t \in Turns : turn[t].phase = "asked" /\ Here(t)
    /\ ui.speaking =>
          \E t \in Turns : turn[t].phase \in {"playing", "rejected", "browser"} /\ Here(t)

(* What sounds belongs to a turn that waits for it, what waits without its *)
(* sound was interrupted, and what waits or is captured belongs to an      *)
(* overlay that was shown.                                                 *)
VoicesAreOwned ==
    /\ \A t \in Turns : Pending(t) => turn[t].phase = "playing"
    /\ element.clip \in Turns => Here(element.clip) /\ turn[element.clip].phase \in Answered
    /\ utterance # None => turn[utterance].phase = "browser"
    /\ \A t \in Turns : turn[t].phase \in {"playing", "rejected"} => Here(t)
    /\ \A t \in Turns :
          /\ turn[t].phase = "playing" => turn[t].interrupted \/ element.clip = t
          /\ turn[t].phase = "browser" => turn[t].interrupted \/ utterance = t
    /\ \A t \in Turns : turn[t].mount <= mount
    /\ \A r \in Recordings :
          /\ rec[r].mount <= mount
          /\ rec[r].phase \in {"live", "errored", "orphan"} => rec[r].mount = mount

NarratorInv == TypeOK /\ StatusIsHonest /\ VoicesAreOwned

(* The transcript on the page is of one conversation: when the tab's       *)
(* session has expired, by age or because the clock was set back, nothing  *)
(* said in it stands beside what is said in the next, whichever of a typed *)
(* and a spoken question renewed the session.                              *)
TranscriptOfOneSession ==
    \A i, j \in DOMAIN ui.history :
        turn[ui.history[i]].session = turn[ui.history[j]].session

(* Every exchange that was answered in this overlay is in its transcript,  *)
(* once: overlapping questions do not undo each other's update of it.  Two *)
(* things take it away: a later question that opened a new conversation,   *)
(* and, for an exchange that was asked behind it, the late reply to the    *)
(* first question of the conversation.                                     *)
ExchangesShown ==
    \A t \in Turns :
        Here(t) /\ turn[t].phase \in Answered =>
            \/ Cardinality({i \in DOMAIN ui.history : ui.history[i] = t}) = 1
            \/ turn[t].behind
            \/ \E u \in Turns : Here(u) /\ turn[u].isNew /\ turn[u].session # turn[t].session

(* No reply is silently skipped: a turn that is over was played to its     *)
(* end, by its clip or as a last resort by the browser's speech, unless    *)
(* the visitor, another reply or another clip sounded over it.  It is so   *)
(* although the clip may fail, be refused or be pushed off the element, and *)
(* although an "ended" may be another clip's.                              *)
NeverSilentlySkipped ==
    \A t \in Turns :
        turn[t].phase = "over" => turn[t].voiced \/ turn[t].interrupted

(* Each status ends by itself: the visitor is never left with a disabled   *)
(* input, a microphone that does not stop or a narrator that is said to    *)
(* speak, whichever calls fail and however turns, captures and sounds      *)
(* interrupt each other.                                                   *)
StatusSettles ==
    /\ ui.loading ~> ~ui.loading
    /\ ui.speaking ~> ~ui.speaking
    /\ ui.listening ~> ~ui.listening
=============================================================================
