---------------------------- MODULE Transcription ----------------------------
(***************************************************************************)
(* The recordings of a page together with the server's handlers for their  *)
(* sockets: what the visitor is told, what is left behind, and who waits   *)
(* for whom.                                                               *)
(***************************************************************************)
EXTENDS TranscribeServer

CONSTANTS
    Detailed,       \* the recordings whose server is modelled task by task
    MaxSegments     \* bound on what the others' servers make of a recording

ASSUME ServersAssumption ==
    /\ Detailed \subseteq Sessions
    /\ MaxSegments \in Nat

vars == <<clientVars, serverVars>>

Init == ClientInit /\ ServerInit

(* Any server, for the recordings of a page that are not looked into: it   *)
(* accepts a socket or leaves it waiting, says what it likes in any order, *)
(* closes, or stays silent for ever.                                       *)
Serve(s) ==
    /\ \/ /\ conn[s] = "requested"
          /\ conn' = [conn EXCEPT ![s] = "accepted"]
          /\ UNCHANGED <<up, down>>
       \/ /\ conn[s] = "open" /\ down[s] = <<>>
          /\ \/ \E k \in {"error", "close"} : down' = [down EXCEPT ![s] = <<Signal(k)>>]
             \/ /\ Len(rec[s].finalizedParts) < MaxSegments
                /\ \E final \in BOOLEAN : down' = [down EXCEPT
                       ![s] = <<Transcribed(Len(rec[s].finalizedParts) + 1, final)>>]
          /\ UNCHANGED <<conn, up>>
       \/ /\ up[s] # <<>>
          /\ up' = [up EXCEPT ![s] = Tail(@)]
          /\ UNCHANGED <<conn, down>>
    /\ UNCHANGED <<active, rec, handler, stream>>

Step(s) ==
    \/ ClientStep(s) /\ UNCHANGED serverVars
    \/ s \in Detailed /\ (Task(s) \/ Remote(s))
    \/ s \notin Detailed /\ Serve(s)

Next == \E s \in Sessions : Step(s)

Spec == Init /\ [][Next]_vars

(* Timers fire and the browser runs the set-up on; the event loop runs the *)
(* tasks; Transcribe answers a request for a stream, and finishes one      *)
(* whose audio has ended.  Nothing is assumed of the visitor, nor that a   *)
(* browser notices a lost connection.                                      *)
Fairness ==
    \A s \in Sessions :
        /\ WF_vars(SetUp(s) /\ UNCHANGED serverVars)
        /\ WF_vars((MaxTimer(s) \/ FinalTimer(s)) /\ UNCHANGED serverVars)
        /\ WF_vars(OpenLate(s) /\ UNCHANGED serverVars)
        /\ WF_vars(s \in Detailed /\ Task(s))
        /\ WF_vars(s \in Detailed /\ StartStream(s))
        /\ WF_vars(s \in Detailed /\ stream[s].state = "ended" /\ (Transcribe(s) \/ StreamEnds(s)))

FairSpec == Spec /\ Fairness

(* The tasks of a handler agree: one that is over leaves no receiver, and  *)
(* no queue without its end; the adapter's tasks outlive it only in a      *)
(* generator that the event loop will still close.                         *)
TasksAgree ==
    \A s \in Sessions :
        /\ handler[s].main \in {"done", "escaped"} =>
              /\ handler[s].receiver = "done"
              /\ handler[s].generator \in {"none", "abandoned", "closed"}
        /\ handler[s].receiver = "done" => handler[s].audioEnded
        /\ handler[s].reader = "running" => stream[s].state \in {"open", "ended"}
        /\ handler[s].writer = "done" => stream[s].state \in {"ended", "over"}
        /\ handler[s].main = "sending" /\ handler[s].reader = "done" =>
              LET ts == handler[s].transcripts IN ts # <<>> /\ ts[Len(ts)] = None

HandlerInv == ServerTypeOK /\ TasksAgree

-----------------------------------------------------------------------------
Live(s) == rec[s].mic = "live"

(* Whatever holds the microphone, an open socket or a running timer is the *)
(* recording that cancelActiveSession would end: nothing is held that the  *)
(* next recording could not take away, also after a set-up that was        *)
(* cancelled, timed out or refused half way.                               *)
Holds(s) == Live(s) \/ conn[s] = "open" \/ rec[s].timers # {}

HeldByActive == \A s \in Sessions : Holds(s) => active = s

(* The flags of a recording agree with who holds the microphone.           *)
FlagsAgree(s) ==
    /\ rec[s].phase = "unused" => rec[s] = Unused
    /\ active = s => rec[s].phase # "unused" /\ ~rec[s].settled
    /\ rec[s].phase \in SetUpSteps \cup {"recording"} \/ rec[s].heldSocket =>
          rec[s].settled \/ active = s
    /\ rec[s].cancelled => rec[s].settled
    /\ rec[s].phase \in SetUpSteps /\ rec[s].settled => rec[s].cancelled
    /\ conn[s] = "open" => rec[s].heldSocket
    /\ rec[s].heldSocket => rec[s].phase \in {"recording", "thrown"}
    /\ rec[s].phase = "recording" => rec[s].heldSocket
    /\ rec[s].timers # {} => rec[s].phase = "recording"
    /\ ~rec[s].settled => rec[s].calls = <<>>

(* The inductive invariant behind both.                                    *)
PageInv == TypeOK /\ HeldByActive /\ \A s \in Sessions : FlagsAgree(s)

Page == INSTANCE Microphone WITH
    holder <- active,
    begun <- {s \in Sessions : rec[s].phase # "unused"},
    capturing <- {s \in Sessions : Live(s)},
    told <- [s \in Sessions |-> rec[s].calls]

(* The recordings together are what lib/voice.ts promises of them: one     *)
(* holder, silence for everybody else, one outcome at most and only for    *)
(* the holder, none for the superseded.                                    *)
ImplementsMicrophone == Page!Spec

(* Every recording ends: its set-up throws, or it is settled.              *)
EveryRecordingEnds ==
    \A s \in Sessions :
        rec[s].phase # "unused" ~> rec[s].settled \/ rec[s].phase = "thrown"

(* heardSoFar: every segment the browser knows of once, in the order they  *)
(* were spoken, a last one perhaps still moving.                           *)
HeardSoFar(r) ==
    r.finalizedParts \o (IF r.currentPartial = 0 THEN <<>> ELSE <<r.currentPartial>>)

HeardInOrder ==
    \A s \in Sessions :
        HeardSoFar(rec[s]) = [i \in 1..Len(HeardSoFar(rec[s])) |-> i]

(* A visitor whose question is submitted because the server closed the     *)
(* socket has every segment in it that Transcribe made out: the close      *)
(* overtakes none.                                                         *)
DoneByClose(s) == rec[s].calls = <<"done">> /\ ~rec[s].late /\ conn[s] # "cut"

DoneIsWhole ==
    \A s \in Detailed :
        DoneByClose(s) => Len(HeardSoFar(rec[s])) = stream[s].segment

(* And every window that was sent was taken by Transcribe, unless it broke *)
(* the stream off: a recording that was refused, overtaken by the end of   *)
(* its audio, or had no stream is never reported as finished.              *)
AllSoundTranscribed ==
    \A s \in Detailed :
        DoneByClose(s) /\ ~stream[s].failed => stream[s].fed = rec[s].spoken

(* Once the browser has left, the handler ends and the stream at           *)
(* Transcribe gets the end of its audio, whatever the tasks were at.       *)
LeavingFreesServer ==
    \A s \in Detailed :
        Gone(s) /\ handler[s].main # "off" ~>
            /\ handler[s].main \in {"done", "escaped"}
            /\ stream[s].state # "open"
=============================================================================
