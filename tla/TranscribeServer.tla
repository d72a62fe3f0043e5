-------------------------- MODULE TranscribeServer --------------------------
(***************************************************************************)
(* The /voice/transcribe socket of the API (main.py) with the adapter to   *)
(* Amazon Transcribe (voice.py): for every connection a receiver task, the *)
(* handler itself, and the writer and reader tasks of the adapter's async  *)
(* generator.  Tasks of one event loop take turns only where an await      *)
(* really suspends: a put on an unbounded queue, or a send that fits the   *)
(* write buffer, does not, so it belongs to the action around it.          *)
(***************************************************************************)
EXTENDS MicSession

CONSTANT Limit      \* windows after which a recording is too long

ASSUME ServerAssumption == Limit \in Nat \ {0}

VARIABLES
    handler,        \* the state of each connection's tasks and of its socket
    stream          \* each connection's stream at Amazon Transcribe

serverVars == <<handler, stream>>

(* The parts of a handler: what each task is at, queued and audioEnded for *)
(* the chunk queue and its None, transcripts for the adapter's queue with  *)
(* its None, and the two states that Starlette keeps of a socket.          *)
Idle ==
    [main |-> "off", receiver |-> "off", writer |-> "off", reader |-> "off",
     generator |-> "none", queued |-> 0, audioEnded |-> FALSE, total |-> 0,
     transcripts |-> <<>>, disconnected |-> FALSE, closed |-> FALSE]

(* At Transcribe: what it was fed, and the segment it is at, open or not.  *)
NoStream == [state |-> "none", fed |-> 0, segment |-> 0, partial |-> FALSE, failed |-> FALSE]

None == Signal("none")

ServerInit ==
    /\ handler = [s \in Sessions |-> Idle]
    /\ stream = [s \in Sessions |-> NoStream]

ServerTypeOK ==
    /\ handler \in [Sessions ->
          [main: {"off", "starting", "sending", "closing", "done", "escaped"},
           receiver: {"off", "running", "done"}, writer: {"off", "running", "done"},
           reader: {"off", "running", "done"}, generator: {"none", "open", "abandoned", "closed"},
           queued: Nat, audioEnded: BOOLEAN, total: Nat,
           transcripts: Seq(Transcript \cup {None}), disconnected: BOOLEAN, closed: BOOLEAN]]
    /\ stream \in [Sessions ->
          [state: {"none", "open", "ended", "over"}, fed: Nat, segment: Nat,
           partial: BOOLEAN, failed: BOOLEAN]]

-----------------------------------------------------------------------------
(* What Starlette's send does: nothing after a close (RuntimeError), and   *)
(* to a browser that left it may still succeed or raise WebSocketDisconnect.*)
Gone(s) == conn[s] \in {"closed", "cut"}
CanSend(s) == ~handler[s].closed
CanRaise(s) == Gone(s) /\ ~handler[s].closed

Delivered(s, messages) ==
    down' = IF conn[s] \in {"accepted", "open"} THEN [down EXCEPT ![s] = @ \o messages] ELSE down

(* asyncio cancels the receiver; its finally block still ends the audio.   *)
ReceiverOver(h) == [h EXCEPT !.receiver = "done", !.audioEnded = TRUE]

(* Faulty variant: the receiver is not cancelled. *)
Over_KeepsReceiver(h, how) == [h EXCEPT !.main = how]

(* The handler's own finally block.                                        *)
Over(h, how) == [ReceiverOver(h) EXCEPT !.main = how]

-----------------------------------------------------------------------------
(* accept, and the receiver task.                                          *)
Accept(s) ==
    /\ conn[s] = "requested" /\ handler[s].main = "off"
    /\ conn' = [conn EXCEPT ![s] = "accepted"]
    /\ handler' = [handler EXCEPT ![s] = [Idle EXCEPT !.main = "starting", !.receiver = "running"]]
    /\ UNCHANGED <<active, rec, up, down, stream>>

Received(s) ==
    /\ handler[s].receiver = "running"
    /\ up[s] # <<>>
    /\ up' = [up EXCEPT ![s] = Tail(@)]

ReceiveChunk(s) ==
    /\ Received(s) /\ Head(up[s]) = "chunk"
    /\ handler[s].total < Limit
    /\ handler' = [handler EXCEPT ![s].total = @ + 1, ![s].queued = @ + 1]
    /\ UNCHANGED <<active, rec, conn, down, stream>>

(* A recording that is too long (or a message this client never sends: an  *)
(* empty chunk, another text): an error and a close, then the end of the   *)
(* audio.  Should the browser have left, the exception changes nothing.    *)
Refuse(s) ==
    /\ Received(s) /\ Head(up[s]) = "chunk"
    /\ handler[s].total >= Limit
    /\ Delivered(s, <<Signal("error"), Signal("close")>>)
    /\ handler' = [handler EXCEPT ![s] = [ReceiverOver(@) EXCEPT
           !.total = handler[s].total + 1, !.closed = TRUE]]
    /\ UNCHANGED <<active, rec, conn, stream>>

ReceiveEnd(s) ==
    /\ Received(s) /\ Head(up[s]) = "end"
    /\ handler' = [handler EXCEPT ![s] = ReceiverOver(@)]
    /\ UNCHANGED <<active, rec, conn, down, stream>>

(* Faulty variant: no None for the writer when the browser leaves. *)
ReceiveDisconnect_Silent(s) ==
    /\ handler[s].receiver = "running"
    /\ Gone(s) /\ up[s] = <<>>
    /\ handler' = [handler EXCEPT ![s].receiver = "done", ![s].disconnected = TRUE]
    /\ UNCHANGED <<active, rec, conn, up, down, stream>>

ReceiveDisconnect(s) ==
    /\ handler[s].receiver = "running"
    /\ Gone(s) /\ up[s] = <<>>
    /\ handler' = [handler EXCEPT ![s] = [ReceiverOver(@) EXCEPT !.disconnected = TRUE]]
    /\ UNCHANGED <<active, rec, conn, up, down, stream>>

-----------------------------------------------------------------------------
(* The handler.  `except Exception` tells the browser unless it has left;  *)
(* the socket may be closed already, and then this send raises as well.    *)
ReportFailure(s, h) ==
    \/ /\ h.disconnected
       /\ handler' = [handler EXCEPT ![s] = Over(h, "done")]
       /\ UNCHANGED down
    \/ /\ ~h.disconnected /\ ~h.closed
       /\ handler' = [handler EXCEPT ![s] = [Over(h, "done") EXCEPT !.closed = TRUE]]
       /\ Delivered(s, <<Signal("error"), Signal("close")>>)
    \/ /\ ~h.disconnected /\ (h.closed \/ CanRaise(s))
       /\ handler' = [handler EXCEPT ![s] = [Over(h, "escaped") EXCEPT !.closed = TRUE]]
       /\ UNCHANGED down

StartStream(s) ==
    /\ handler[s].main = "starting"
    /\ \/ /\ stream' = [stream EXCEPT ![s].state = "open"]
          /\ handler' = [handler EXCEPT ![s].main = "sending", ![s].writer = "running",
                                        ![s].reader = "running", ![s].generator = "open"]
          /\ UNCHANGED down
       \/ /\ ReportFailure(s, handler[s])
          /\ UNCHANGED stream
    /\ UNCHANGED <<active, rec, conn, up>>

(* A transcript is sent.  If that raises, the loop is left and the async   *)
(* generator stays suspended, for the event loop to close later.           *)
SendTranscript(s) ==
    /\ handler[s].main = "sending"
    /\ handler[s].transcripts # <<>> /\ Head(handler[s].transcripts) # None
    /\ LET rest == [handler[s] EXCEPT !.transcripts = Tail(@)]
           left == [rest EXCEPT !.generator = "abandoned"]
       IN \/ /\ CanSend(s)
             /\ Delivered(s, <<Head(handler[s].transcripts)>>)
             /\ handler' = [handler EXCEPT ![s] = rest]
          \/ /\ CanRaise(s)
             /\ handler' = [handler EXCEPT ![s] = [Over(left, "done") EXCEPT !.closed = TRUE]]
             /\ UNCHANGED down
          \/ /\ handler[s].closed
             /\ ReportFailure(s, left)
    /\ UNCHANGED <<active, rec, conn, up, stream>>

(* The finally block of transcribe(): tasks that still run are cancelled,  *)
(* and cancelling the writer still ends the stream's audio.                *)
GeneratorEnds(s, h) ==
    /\ handler' = [handler EXCEPT ![s] = [h EXCEPT
           !.generator = "closed", !.writer = "done", !.reader = "done"]]
    /\ stream' = [stream EXCEPT ![s].state = IF @ = "open" THEN "ended" ELSE @]

(* Faulty variant: the generator ends with the reader, not with its None. *)
EndTranscripts_Early(s) ==
    /\ handler[s].main = "sending" /\ handler[s].reader = "done"
    /\ GeneratorEnds(s, [handler[s] EXCEPT !.main = "closing", !.transcripts = <<>>])
    /\ UNCHANGED <<active, rec, conn, up, down>>

EndTranscripts(s) ==
    /\ handler[s].main = "sending"
    /\ handler[s].transcripts # <<>> /\ Head(handler[s].transcripts) = None
    /\ GeneratorEnds(s, [handler[s] EXCEPT !.main = "closing", !.transcripts = <<>>])
    /\ UNCHANGED <<active, rec, conn, up, down>>

(* The else branch: a normal close, unless the socket is closed already.   *)
CloseNormally(s) ==
    /\ handler[s].main = "closing"
    /\ IF handler[s].closed
       THEN UNCHANGED down
       ELSE Delivered(s, <<Signal("close")>>)
    /\ \E how \in {"done"} \cup (IF CanRaise(s) THEN {"escaped"} ELSE {}) :
          handler' = [handler EXCEPT ![s] = [Over(@, how) EXCEPT !.closed = TRUE]]
    /\ UNCHANGED <<active, rec, conn, up, stream>>

CloseAbandoned(s) ==
    /\ handler[s].generator = "abandoned"
    /\ GeneratorEnds(s, handler[s])
    /\ UNCHANGED <<active, rec, conn, up, down>>

-----------------------------------------------------------------------------
(* The writer.  A chunk that Transcribe no longer takes makes it stop.     *)
WriteChunk(s) ==
    /\ handler[s].writer = "running" /\ handler[s].queued > 0
    /\ \/ /\ stream[s].state = "open"
          /\ stream' = [stream EXCEPT ![s].fed = @ + 1]
          /\ handler' = [handler EXCEPT ![s].queued = @ - 1]
       \/ /\ stream[s].state = "over"
          /\ handler' = [handler EXCEPT ![s].queued = @ - 1, ![s].writer = "done"]
          /\ UNCHANGED stream
    /\ UNCHANGED <<active, rec, conn, up, down>>

(* Faulty variant: the end of the audio overtakes queued chunks. *)
EndAudio_Early(s) ==
    /\ handler[s].writer = "running" /\ handler[s].audioEnded
    /\ handler' = [handler EXCEPT ![s].writer = "done"]
    /\ stream' = [stream EXCEPT ![s].state = IF @ = "open" THEN "ended" ELSE @]
    /\ UNCHANGED <<active, rec, conn, up, down>>

EndAudio(s) ==
    /\ handler[s].writer = "running"
    /\ handler[s].queued = 0 /\ handler[s].audioEnded
    /\ handler' = [handler EXCEPT ![s].writer = "done"]
    /\ stream' = [stream EXCEPT ![s].state = IF @ = "open" THEN "ended" ELSE @]
    /\ UNCHANGED <<active, rec, conn, up, down>>

(* Transcribe answers and the reader passes on what it says.               *)
Put(s, message) ==
    handler' = [handler EXCEPT ![s].transcripts = Append(@, message)]

Transcribe(s) ==
    /\ handler[s].reader = "running"
    /\ stream[s].state \in {"open", "ended"}
    /\ \/ /\ ~stream[s].partial /\ stream[s].segment < stream[s].fed
          /\ stream' = [stream EXCEPT ![s].segment = @ + 1, ![s].partial = TRUE]
          /\ Put(s, Transcribed(stream[s].segment + 1, FALSE))
       \/ /\ stream[s].partial
          /\ stream' = [stream EXCEPT ![s].partial = FALSE]
          /\ Put(s, Transcribed(stream[s].segment, TRUE))
    /\ UNCHANGED <<active, rec, conn, up, down>>

(* The stream is over: everything is final, or Transcribe failed.  Either  *)
(* way the reader puts None; what it raises is kept by the gather.         *)
StreamEnds(s) ==
    /\ handler[s].reader = "running"
    /\ \/ /\ stream[s].state = "ended" /\ ~stream[s].partial
          /\ stream' = [stream EXCEPT ![s].state = "over"]
       \/ /\ stream[s].state \in {"open", "ended"}
          /\ stream' = [stream EXCEPT ![s].state = "over", ![s].failed = TRUE]
    /\ handler' = [handler EXCEPT ![s].reader = "done", ![s].transcripts = Append(@, None)]
    /\ UNCHANGED <<active, rec, conn, up, down>>

(* What the event loop and the network will do.                            *)
Task(s) ==
    \/ Accept(s) \/ ReceiveChunk(s) \/ Refuse(s) \/ ReceiveEnd(s) \/ ReceiveDisconnect(s)
    \/ SendTranscript(s) \/ EndTranscripts(s) \/ CloseNormally(s) \/ CloseAbandoned(s)
    \/ WriteChunk(s) \/ EndAudio(s)

(* What Amazon Transcribe does.                                            *)
Remote(s) == StartStream(s) \/ Transcribe(s) \/ StreamEnds(s)
=============================================================================
