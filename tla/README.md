# Empress of Japan: a verification project

TLA+ models, TLC runs and TLAPS proofs for the *Empress of Japan* museum guide:
a FastAPI backend (`backend/app`), a Next.js front end (`frontend/src`) and an
ingest worker, around one Postgres database and a few AWS services. The paths
below are relative to the repository.

Contents: [inventory](#inventory) · [modules](#modules) ·
[session memory](#session-memory) · [database credentials](#database-credentials) ·
[ingest jobs](#ingest-jobs) · [live transcription](#live-transcription) ·
[narrator overlay](#narrator-overlay) · [answers](#answers) ·
[runs](#runs) · [proofs](#proofs) · [findings](#findings) ·
[not modelled](#not-modelled) · [plan](#plan)

## Inventory

| Component | Source | State | Operations | Hard behaviour | What makes it correct |
|---|---|---|---|---|---|
| Session memory | `session_memory.py`, `main.py` (`/chat`, lifespan), `schema.sql` | `agent_sessions` rows; LangGraph checkpoints | refresh, cleanup batch, graph turn | two stores with separate commits, row locks, several instances, overlapping turns, faults | nothing outlives its expiry; a live conversation is never erased; replies follow questions |
| Database credentials | `db_credentials.py`, `db.py` | cached password, expiry, last attempt, lock; each thread's connect | current, force_refresh, connect with one retry | threads, rotation at any moment, outages, throttling | few calls to Secrets Manager; rejections and stale passwords only for a bounded time; no connect hangs |
| Chat graph and grounding | `agents/graph.py`, `agents/llm.py`, `retrieval.py` | the question under way | persona resolution, two posts, persona node, two model attempts, validation, truncation, retrieval | retries, fallbacks, invalid model output, a corpus that changes | only public documents are cited; the reply fits the voice limit; every question ends |
| Ingest jobs | `jobs/*`, `main.py` `/ingest/jobs`, `infra/terraform/sqs.tf` | queue, receipts, DLQ | enqueue, receive, process, delete | redelivery, crashes, poison messages | every job ends done or in the DLQ; redelivery is harmless |
| Ingest pipeline | `ingest/*` | documents, chunks | normalize, redact, gate, chunk, upsert | concurrent upserts, change detection, partial failure | idempotent; redacted; gates closed by default |
| Live transcription, server | `main.py` `/voice/transcribe`, `voice.py` | chunk queue, transcript queue, tasks, socket | receive, forward, read, send, close | four tasks on one socket, cancellation | one clean end for every stream |
| Live transcription, client | `lib/voice.ts` | microphone, socket, timers, callbacks | start, stop, cancel | time limits in set-up, supersession, races after stop | one callback; the microphone is released |
| Voice synthesis cache | `voice.py` | S3 objects | head, synthesize, put, presign | concurrent misses, expiry | a URL plays the reply it was asked for |
| Narrator overlay, tab session | `NarratorOverlay.tsx`, `lib/chat.ts` | transcript, status flags, audio element, stored sessions | submit, speak, record, change narrator | overlapping turns and narrations, unmounting, an expiring session | one conversation on the page; status flags that settle; no reply passed over in silence |
| Credential remediation | `infra/terraform/lambda`, `monitoring.tf` | deployments | alarm, redeploy | cool-down | no redeploy storm |
| Telemetry, configuration, capture of evaluation runs, migrations, voyage pages, infrastructure | — | — | — | — | see [not modelled](#not-modelled) |

How they interact. A `/chat` request refreshes its session through the
SQLAlchemy engine, then runs the graph, which reads and writes checkpoints
through a pool of its own. Both pools open connections through the credential
provider. The cleanup loop of every API instance works on the same two stores.
The worker writes the corpus that retrieval reads. The browser talks to the
backend by `/chat`, `/voice/synthesize` and the `/voice/transcribe` socket, and
one tab may have more than one of these under way.

## Modules

| Module | What it is |
|---|---|
| `Conversation` | abstract: one transcript per session with a sliding deadline |
| `SessionMemory` | the two stores, `/chat` turns, cleanup loops |
| `SessionMemory_proofs` | inductive invariant and safety theorems; `SessionMemory` implements `Conversation` |
| `MCSessionMemory` | TLC instance of the above |
| `DbCredentials` | the credential provider, connecting threads, their environment |
| `DbCredentials_proofs` | inductive invariant and safety theorems |
| `MCDbCredentials` | TLC instance |
| `Corpus` | abstract: the edition of each document that retrieval sees |
| `IngestJobs` | the job queue, its workers, the row loop and the statements of an upsert |
| `IngestJobs_proofs` | types, unique catalogue, whole rows under overlap |
| `IngestRefinement_proofs` | one worker at a time: unique documents, whole rows, `IngestJobs` implements `Corpus` |
| `MCIngestJobs` | TLC instance |
| `Microphone` | abstract: the microphone of a page, and what each recording is told |
| `MicSession` | the browser's side of a recording |
| `TranscribeServer` | the handler of a `/voice/transcribe` socket, its tasks, Amazon Transcribe |
| `Transcription` | the recordings of a page with their servers; properties |
| `Transcription_proofs` | inductive invariants; `Transcription` implements `Microphone` |
| `MCTranscription` | TLC instance |
| `NarratorTurns` | the narrator overlay of one tab: turns, recordings, narrations, tab sessions |
| `NarratorTurns_proofs` | the overlay's inductive invariant; no reply is passed over |
| `MCNarrator` | TLC instance |
| `Landing` | what a record becomes in the corpus: mapping, hash, redaction, gates, chunks, upsert |
| `Retrieval` | what a search returns: deduplication, quota, limit |
| `Answers` | a question from `/chat` to its clip, over `Landing`'s corpus; the offline evaluation's rules |
| `Landing_proofs` | a job keeps the corpus current and free of the names it redacts; what redacting and chunking do to any text |
| `Answers_proofs` | whatever the source does, only public documents are found and cited; replies fit, and their clips play them |
| `MCAnswers` | TLC instance |

Definitions named `X_Something` beside `X` are faulty variants, each a plausible
bug of the code `X` models. Substituting one for `X` makes a property fail,
which shows that the property depends on that code.

## Session memory

### State and actions

`agent_sessions` is `live` (which rows are committed) and `expiresAt`; the
checkpointer is `checkpoints`, the message list of each thread's latest
checkpoint. A row's `expiresAt` is kept after the row is deleted: the model only
reads it where the code would (under `s \in live`) or as history. `epoch` counts the conversations an id has had
and exists only for the properties: it goes up when a request begins after the
previous deadline.

A turn is one `/chat` request with a `session_id`:

| Action | Code |
|---|---|
| `Chat` | the request arrives; the refresh transaction begins and fixes `now()` |
| `RefreshSelect` | `SELECT expires_at <= now() ... FOR UPDATE`: waits for the row, then holds it if there is one |
| `RefreshClear` | `delete_thread` on the checkpointer's autocommit pool: visible at once |
| `RefreshCommit` | `INSERT ... ON CONFLICT DO UPDATE`, commit, row released |
| `LoadCheckpoint`, `WriteInput` | `session_graph.invoke`: load the latest checkpoint, store it with the question |
| `Generate` | retrieval and at most two model attempts: a reply, or an error that ends the turn |
| `WriteReply` | a checkpoint with the reply appended to what the turn itself loaded |
| `FallBack`, `AnswerStateless` | a database error on the memory path: roll back, answer from the client's history; after `WriteReply` was sent the write may have landed |
| `TurnLost` | the process stops; Postgres rolls its transaction back |

A cleaner is one instance's loop: `SweepSelect` (`ORDER BY expires_at FOR UPDATE
SKIP LOCKED LIMIT n`), `SweepClear` once per row, `SweepCommit`, and `SweepFail`
for an exception or a stop at any point: the rows come back, the threads do not.

`Locked` and `LockedByOther` are the row locks. They are the only mutual exclusion
in the code, and they end with `refresh`: nothing is held while the graph runs.

Abstractions: a message is its turn and role; a checkpoint is the message list
(the other channels are overwritten by each turn); the wait for a row includes
the wait for a connection. LangGraph is external: that an invocation loads the
latest checkpoint once and stores `base + delta` after the input and after each
node is how `graph.py` and `main.py` use it.

### Properties

* `NoStaleContext`: reusing an expired id starts a new conversation. `ReuseStartsAnew` is the
  part of it that `backend/README.md:82` promises; without a bound on a turn it fails (see
  [findings](#findings)).
* `NoOrphanedThread`: a thread with messages always has a row, so a sweep finds it.
* `OnlyIdleThreadsErased`: erasure hits expired threads that no turn works on.
* `RowHeldOnce`: `FOR UPDATE` and `SKIP LOCKED` are enough to keep transactions apart
  (proved; a part of `IInv` in the run).
* `RepliesFollowQuestions`: however turns overlap, a thread is never garbled.
* `ImplementsConversation`: with serial visitors the whole is one transcript.
* `ExpiredIsSwept`, `EveryTurnEnds`: liveness.
* `ExchangesKept`: what overlapping turns break (a finding).

### Bounds and fairness

`MaxTurn` bounds the time from the start of a turn's refresh to its end. The
code has no such bound, so it is an assumption, and it matters: the safety
properties need `2 * MaxTurn < TTL`. One `MaxTurn` is the turn itself. The other is
there because `expires_at` is computed from the *start* of the refresh
transaction, so a refresh that waited for the row can move the deadline back
by up to `MaxTurn` under a turn that is already running. TLC finds a
counterexample at `TTL = 2`, `MaxTurn = 1`, so the bound is tight. The code
itself asks only for a TTL above zero (`config.py:72`), and `SessionLongTurn.cfg`, with
`TTL = 2` and `MaxTurn = 3`, shows what follows: the first turn is still running when its
session expires, the second's refresh erases the thread, and the first then
stores its old conversation under the new deadline.

`TTL = 3`, `MaxTurn = 1`, `MaxTime = 5` (4 in the concurrent run) lets a conversation expire, be erased by a
sweep or by a refresh, and a second one begin and run to its end. Two cleaners
and three turns of one session are enough for every pair of transactions that
can meet on a row with a third to observe the result; two sessions with
`BatchSize = 1` make the sweep choose. `MaxFaults = 1` puts one error or stop
anywhere. Symmetry of turns and cleaners is used only in the run without
liveness.

Fairness: each turn's next step (the request's thread keeps running) and each
cleaner's next step (`run_cleanup_loop` never ends and catches every exception).
Nothing is assumed about errors, stops, arrivals or the clock. Postgres row
waits are served in the order they were queued, so a turn waits for finitely
many holders; weak fairness suffices since arrivals are finite in the model.

## Database credentials

### State and actions

Passwords are generations: `password` is what the database accepts, `secret`
what Secrets Manager holds, `cached` what the provider has. `holder` is the
thread that keeps the provider's lock across a fetch; the short critical
sections are single actions.

| Action | Code |
|---|---|
| `Connect` | a pool opens a physical connection, with fresh parameters |
| `CurrentCached` | `current()` before `_expires_at`, with or without a credential |
| `CurrentFetch`, `BeginFetch` | `_fetch_locked` up to the request: lock kept, attempt dated |
| `SecretRead` | Secrets Manager reads the secret's current version |
| `FetchSucceeds` | the answer is cached for a jittered TTL |
| `FetchFails` | any exception: negative caching for the minimum interval, last good value used |
| `Attempt` | the login; `looks_like_auth_failure` separates rejected from unreachable |
| `ForceThrottled`, `ForceFetch` | `force_refresh()` |
| `Retry` | the second and last login, only with another password |
| `SetPassword`, `PromoteSecret`, `StopOrStart` | environment: rotation in two steps (or one), nightly stop |

`LogInWith` falls back to the password of the container's start (generation 0)
when there is no credential. The engine's hook and the pool's connection class
share `_connect_retrying_on_rotation` and differ only in how they compare
passwords, so one model stands for both.

### Properties

* `FetchesSpaced`: two fetches are at least `min(MinRefresh, TTL - Jitter)` apart.
* `RejectedOnlyInRecovery`: a connect ends rejected only while a rotation is under
  way, or less than `Recovery` after it or after a failed fetch. `Recovery` is the
  throttle, or one more exchange than a fetch may last, plus one login. The
  bound is tight in the run with two rotations.
* `StaleOnlyForALifetime`: a password that is no longer the secret's is handed out
  for one lifetime (and one exchange) at most, or within a failure's back-off.
* `EveryConnectEnds`: nobody waits for ever.
* `RotationAbsorbed`: what the doc claims (a finding).

### Bounds and fairness

`MaxStep` bounds a network exchange, as `connect_timeout` and the client's time
limits do; waiting for the lock is not bounded. `TTL = 3`, `Jitter = 0`,
`MinRefresh = 2` keep the order of the defaults (300 s with 20 % jitter, 30 s)
and let a lifetime end within `MaxTime = 5`, with two rotations, each in two
steps, and one failure of Secrets Manager; the proofs cover jitter and every other
value. `credentials_absorbed` has a secret that is promoted at once. Two threads are
all that can matter to each other: one fetches while the other waits, reads the
result or is throttled by it. There is no symmetry, as the run checks liveness.
Fairness is that a thread that is connecting keeps running.

## Ingest jobs

### State and actions

A document's *edition* is what the source says of it. The model keeps three
things of an edition: its content hash (`Digest`), whether it is in scope
(`InScope`) and whether any text is left to embed (`Wordless`). `source` is the
current edition in the bucket, `message` the queue's record of each job, `table` the
committed documents, and `worker` what each process is doing, with the copy of
the source it downloaded (`seen`) and what it read of the row it found. A row's
`content` is the hash its chunks were made from and `serial` stands for the ids of
the chunks, so that two sets of chunks of one row can be told apart.

| Action | Code |
|---|---|
| `Publish` | a new export or manifest (environment) |
| `Enqueue` | `POST /ingest/jobs` |
| `Receive`, `VisibilityEnds`, `DeadLetter` | `receive_message`; the visibility timeout; `maxReceiveCount` |
| `Reject` | the allow-list or the S3 URI is refused: logged, message left |
| `Prepare` | `process_envelope` downloads the sources |
| `Lookup` | `_find_existing(...).first()`: any matching row, as there is no order |
| `ReadChunks` | the lazy load of `existing.chunks`, then skip or replace |
| `ClearChunks` | `chunks.clear()` and `flush()`: row locks on the chunks, held through the embedding |
| `InsertDocument` | insert and commit; the unique index covers catalogue rows only |
| `UpdateDocument` | update, insert chunks, commit; `UNIQUE (document_id, chunk_index)` refuses leftovers |
| `RowFails` | any other exception of a row: rolled back, counted, next row |
| `JobFails` | the datastore is unavailable, or preparation raises: job ends, message left |
| `DeleteMessage` | the receipt may be an old one, which may or may not still work |
| `ProcessReplaced` | deployment, lost task, an exception out of `poll_once` |

Each statement of an upsert is a step, because at READ COMMITTED each sees what
was committed before it. The UPDATE, the chunk INSERTs and the COMMIT follow
each other without a pause and are one step. SQLAlchemy writes only attributes
that differ from what it read: `Updated` keeps the other's value in that case.

Abstractions: the other columns of a document behave as `scope` does; Wikipedia text
is fetched per row and counted as part of the downloaded copy; redriving from
the dead-letter queue is a new job; a deadlock that Postgres breaks is a
`JobFails` (an `OperationalError`); one message is received at a time
(`sqs_max_messages`); messages do not expire. A run of `python -m app.ingest`
beside the service is one more worker.

### Properties

* `ImplementsCorpus`: with one worker at a time, what retrieval can see moves only
  from an edition, or nothing, to a complete later edition the source has had.
  A retry of an old delivery never takes it back.
* `RowsAreWhole`: hash, scope and chunks of a row come from one edition.
* `CatalogueUnique`, `DocumentsUnique`: no second row; the latter only without
  overlap (a finding; proved for one worker).
* `CleanRunsLand`: a job that saw no error left what it downloaded, embedded with
  its model. It speaks of clean runs only: a failed row is counted, and the
  message is deleted all the same.
* `JobsSettle`: every queued job is deleted or dead-lettered.

`RowsAreWhole` does not survive overlap in general. Two overlapping workers may
leave a mixed row if the scope changes (an attribute equal to the stale read is
not written), if two models are in use (the hash of the faster worker stays beside
the chunks of the slower), or if an edition has no text (leftover chunks meet no
conflict). `IngestModelSwap.cfg` makes TLC show the second (see [findings](#findings)). Under
`Steady`, which excludes all three, the property is checked and proved.

### Bounds and fairness

One catalogue and one manifest document are the two cases of `_find_existing` that
matter; a job visits both, so one worker can be at either while the other
commits (`IngestModelSwap.cfg` does with the first). The serial run has two editions, the second out of scope and, for the
catalogue's document, without text, and two models; a good job that may be
delivered twice and a poison job. The overlap run has one job delivered up to
three times to two workers and three editions: the stale row, and a different
one for each worker, which the race on leftover chunks needs.

Fairness: a worker keeps polling and keeps working (`run_forever`), and SQS ends
visibility timeouts and applies the redrive policy. Failures are never fair.

## Live transcription

### State and actions

A recording is one call of `startLiveTranscription`. `MicSession` keeps its closure
in `rec[s]`; `active` is whose `cancelThisSession` the page-wide
`cancelActiveSession` holds; `conn[s]` is the socket, with `up[s]` and `down[s]` the
messages under way. `phase` is the `await` that the set-up is at. Between two
awaits JavaScript runs to completion, so each action is one continuation,
callback or timer, with every call it makes.

| Action | Code (`lib/voice.ts`) |
|---|---|
| `Start` | up to the first await: `cancelActiveSession?.()`, claim, `getUserMedia` |
| `GrantMicrophone`, `LoadWorklet`, `OpenSocket` | the three awaits and the checks of `cancelled` after them |
| `SetUpFails`, `GrantLate`, `OpenLate` | `withTimeout`: a refusal or a time limit; what still arrives later is disposed of by `onLate` |
| `HearTranscript`, `HearError`, `SocketCloses`, `NoticeLoss` | `onmessage`, `onclose`, `onerror` |
| `SendWindow` | the worklet's frames, once they fill a 100 ms window |
| `Stop`, `MaxTimer`, `FinalTimer`, `Cancel` | `stop()`, its two timers, `cancel()` |
| `CutConnection` | the network (environment) |

`TranscribeServer` has one record per connection for its tasks.

| Action | Code (`main.py` `transcribe_voice`, `voice.py` `transcribe`) |
|---|---|
| `Accept` | `accept()` and the receiver task |
| `ReceiveChunk`, `Refuse`, `ReceiveEnd`, `ReceiveDisconnect` | `receive_audio`, with its `finally` |
| `StartStream` | `start_stream_transcription`; if it raises, `except Exception` |
| `SendTranscript`, `EndTranscripts` | the `async for` over the adapter's queue, and its `None` |
| `CloseNormally`, `ReportFailure` | the `else` and `except` branches, then `finally` |
| `CloseAbandoned` | a generator left by an exception: the event loop runs its `finally` later |
| `WriteChunk`, `EndAudio` | `write_audio`, with its `finally` |
| `Transcribe`, `StreamEnds` | what Amazon Transcribe says, through `QueueingHandler` and `read_transcripts` |

Tasks of one event loop take turns only at an await that suspends. `put` on an
unbounded queue and a send that fits the write buffer do not, so they belong
to the action around them. Starlette refuses a send after a close
(`CanSend`), and a send to a browser that left may raise or not (`CanRaise`).

Abstractions: sound is counted in windows, and a transcript is the number of
the segment it is of, with whether it is final. Resampling, levels, the language of
error messages and browser detection are left out. Transcribe makes at most one segment
of a window it was fed; it may refuse the stream and break it off at any time.
An empty chunk or an unknown text message, which this client never sends, would
be refused as a recording that is too long is. `stop()` has a `catch` around
its `send`, which only throws while a socket is still connecting: it is never
reached after `onopen`.

### Properties

* `ImplementsMicrophone`: `lib/voice.ts` 138-141 and 170-176. One holder, only it
  captures, one outcome at most and at the moment the microphone is given back;
  a recording that was superseded or cancelled is told nothing.
* `HeldByActive`: whatever captures, has an open socket or a running timer is what the
  next recording would cancel. This is what a set-up that was cancelled, timed
  out or refused half way can get wrong.
* `EveryRecordingEnds`: even against a server that never answers.
* `HeardInOrder`: `heardSoFar` has each segment once, in the order spoken.
* `DoneIsWhole`, `AllSoundTranscribed`: a recording that is submitted because
  the server closed has everything Transcribe made out, and Transcribe got
  everything that was sent.
* `LeavingFreesServer`: once the browser is gone the handler ends and the stream
  gets the end of its audio.
* `HandlerInv`: how far the tasks of a connection can be apart.

What the two completeness properties leave out is what the code leaves out.
`DoneByClose` excludes the 8 s timer, after which a question may be incomplete on
purpose. `AllSoundTranscribed` excludes a stream that failed: the reader's
exception stays in `gather(..., return_exceptions=True)` (`voice.py:291`), the
handler takes its `else` branch and closes normally, and a visitor who has
pressed stop submits what was heard up to then. Two more such places are in the
model: `except Exception` looks at `client_state` (`main.py:539`), not at
`application_state`, so after the receiver's own close the report raises out of the
handler (`"escaped"`); and an audio graph that the browser refuses to build
(`voice.ts` 348-371) rejects the call with the microphone live and the socket
open, which only the next recording, the server's close or a loss of connection takes back (the second
disjunct of `OpenSocket`; `HeldByActive` is what still holds of it).

### Bounds and fairness

The recordings of a page share `active` and nothing else, and each socket has
a handler of its own. So one run has one recording against the real
handler, and the other two recordings against any server (`Serve`: it accepts or
not, says at most `MaxSegments` things in any order, closes, or is silent for ever). `Detailed` chooses. One
recording with `MaxWindows = 3` and `Limit = 2` reaches the duration limit with chunks still queued,
two segments, and a flush at stop. Two recordings are all that can meet on `active`:
the holder and the one that supersedes it.

Fairness: the browser runs the set-up on (each await has a time limit), timers
fire, the event loop runs its tasks, Transcribe answers a request for a stream and
finishes one whose audio has ended. Nothing is assumed of the visitor, of the
answer to the permission prompt, or that a browser notices a lost connection.

## Narrator overlay

### State and actions

`NarratorTurns` is one browser tab. `ui` is the React state of the overlay that is
mounted, `element` its `<audio>` element, `utterance` what the page's
`speechSynthesis` says, `stored` the tab's sessions with the clock's distance from
`lastActivityAt`, and `turn[t]` one `submitMessage` with the `speak` it starts.
Between two awaits JavaScript runs to completion, so an action is one event
handler or one continuation, with every call it makes.

| Action | Code (`NarratorOverlay.tsx`, `lib/chat.ts`) |
|---|---|
| `SubmitText`, `Heard` | `handleTextSubmit`; `recognition.onresult` or the recording's `onDone`: `submitMessage` up to its await, with `getOrCreateTabChatSession` |
| `TapMicrophone`, `SetUp`, `Missed`, `EndAfterError` | `startListening` / `startRecording`, its continuation, and the ends of a capture |
| `Reply`, `ReplyFails` | `/chat` answers or not: the rest of `submitMessage`, and `speak` up to its await |
| `VoiceArrives`, `VoiceTooLate` | `synthesizeNarratorVoice` answers, for this overlay or one that is gone |
| `FallBack` | the `catch` of `speak`: the browser speaks instead |
| `Plays`, `ClipEnds`, `ClipFails`, `PlayRefused`, `UtteranceEnds` | the element and the speech synthesiser (environment) |
| `Switch` | the overlay of another narrator is mounted |
| `Tick`, `SetBack` | the clock |

Abstractions: a recording stands for a call of the live transcription with the
contract of `Microphone`, or for one of the browser's own recognisers (`mode`); notices,
citations, focus and layout are left out. The server's side of a session is `SessionMemory`'s.

### Properties

* `NarratorInv`: the status is never a leftover. "Listening" is shown exactly while
  something of this overlay captures, never two at once; "thinking" and
  "speaking" only while one of its turns is; and what sounds belongs to a turn
  that waits for it.
* `TranscriptOfOneSession`: a session that expired leaves nothing on the page
  beside the next one, whichever of a typed and a spoken question renewed it.
* `ExchangesShown`: overlapping questions do not undo each other's update of the
  transcript, with one exception, named below.
* `NeverSilentlySkipped`: a reply is voiced to its end unless something else was
  made to sound over it.
* `StatusSettles`: each status ends by itself.

What the properties exempt, the code does. (1) A question asked by voice while
the first question of a session is unanswered may be answered first; the late
reply to the first then replaces the transcript, so that an exchange already
shown disappears (`NarratorOverlay.tsx:410`; history variable `behind`). (2) Two
voices may sound at once: a clip that is pushed off the element is rejected,
and its turn falls back to browser speech over the other clip (line 377), although the
comment at line 307 speaks of interrupting any narration. (3) The late reply of
a narrator the visitor has left cuts the current narrator's browser speech, and
speech is not stopped when the overlay unmounts. (4) A recording's closure has
the history of the moment it was started, so it may fail to clear a transcript
that only filled meanwhile. `TranscriptOfOneSession` still holds because a session
outlives a call and a capture in a row: the theorem assumes `2 * MaxWait < TTL`
(30 minutes, `chat.ts:42`, against recordings of 14 s, `voice.ts:78`, and a chat
call, which has no timeout of its own). `MaxWait < TTL` is not enough: with `TTL = 2`,
`MaxWait = 1`, four questions and two recordings TLC finds a tap that sees an
empty transcript between two overlapping questions of which the first failed. The
late reply then fills it, the session expires during the capture, what is heard opens
a new session without clearing the transcript, and fails; the next reply stands
below those of the old session. (5) In recorder mode the stop button is disabled
while a typed question loads.

### Bounds and fairness

Two questions, one recording and two narrators: every pair of turns, and a turn
with a capture or with a change of narrator, meets in every order. `TTL = 2`,
`MaxWait = 1`, `MaxBack = 1` let a tab session expire by age and by a clock set
back; the counterexample above needs more questions than the run has, and larger
instances are the theorem's subject. Fairness: calls of the server are answered or fail, captures end (shown
for recordings by `microphone`), what plays ends. Nothing is asked of the visitor.

## Answers

### State and actions

`Landing` keeps what the museum says (`version` of each record, `blocked` for the extra
block list) and what jobs made of it (`corpus`, a document with its chunks per
key that finds it). A job over the catalogue or the manifest is one step here: how jobs are
delivered, crash and overlap is `IngestJobs`' subject. `visited` is history: the version a
job saw last, and the names it redacted when the document was last written.

| Definition | Code (`ingest/*`, `schema.sql`) |
|---|---|
| `NormalizeRow`, `ShipOf`, `MaterialOf` | `normalize.py`, `mappings.py`, `classified.py`: columns, with the workbook's overrides |
| `RowHash`, `EntryHash`, `Changed` | `content_hash` and the comparison that skips a record |
| `Terms`, `Redact` | `privacy.py`: the block list from all rows' donors, whole words, longest first |
| `Compose`, `WindowChunks` | `chunk.py` |
| `LandRow`, `LandEntry`, `IngestCatalogue`, `IngestManifest` | the pipeline's stages for a record, and a job |
| `Retrievable` | the view `retrievable_chunks` |
| `Edit`, `Block` | the museum (environment) |

`Answers` follows one question.

| Action | Code (`main.py`, `agents/graph.py`, `lib/chat.ts`, `voice.py`) |
|---|---|
| `Ask` | the request, `ResolvePersona` or a refusal |
| `Remember`, `PostAgain`, `MemoryFails` | with the session's thread; 501 and the browser's second post; a database error that starts over from the browser's history |
| `Search`, `SearchFails` | retrieval: `Results` of module `Retrieval` under any distances |
| `ModelAnswers`, `ModelFails` | a try of the model, `Valid`, `TruncateResponse`; after two tries the question fails |
| `Show`, `CacheHit`, `CacheMiss`, `Synthesize`, `VoiceFails` | the reply, and `/voice/synthesize` |
| `VoiceOther`, `Expire` | other visitors' clips; the bucket's lifecycle |

Abstractions: a text is a sequence of words (a reply, of letters, stops, spaces
and whole markers); a hash is the values it is computed from. Of a record's columns,
`maker` stands for those that are redacted and stored (`made_by`, `place_made`, `exhibitions`),
`details` for those that are stored as they are (`object_type`, `category`, `materials`,
`measurements`, `previous_numbers`), `readable` for the workbook's readable title, which is
stored in the document's metadata as it is. The persona's prompt,
the embedding and the model are external: any distances, any draft.

### Properties

* `VisitedIsCurrent`: what the corpus holds of a record is what its last visit
  would land, also when that visit skipped it. Not so, and excepted: names learned
  after the document was written, and the licence and scope of manifest entries,
  which the hash does not cover.
* `RedactionIsComplete`: the texts that are scanned (title, maker's columns, chunks) show no name
  that was blocked when they were written; for every small text and block list nothing else
  is lost, unless two occurrences overlap. It does not speak of the details, which
  no document promises to scan (`schema.md:283` lists them as plain metadata), nor of:
* `DonorsAppearNowhere`: no blocked name in the metadata either, as the integration test
  demands; and `StrayNamesAreBlocked`: a name that only a free text holds is blocked, as the
  schema's documentation says. Both fail (see [findings](#findings)).
* `ChunksCoverBody`, `RetrievalIsFair`, `SpokenReplyFits`: windowing, search and truncation keep
  their promise in the states of the run, and against reference definitions over all small inputs
  (texts of up to 7 words with windows to 4 and overlaps to 5; 3 rows of 3 texts and
  2 distances; drafts of 6 characters with limits to 4).
* `CitationsArePublic`: whatever jobs did before and since, a search finds, and a reply
  cites, only documents whose record was public at its last visit. `PublicRecord`
  is written down independently of `Retrievable`.
* `AnswersPassEvaluation`: what the graph lets pass, the offline evaluation does
  not fault, except for "source 1", which only the evaluator knows as a marker
  (`graph.py:37`, `groundedness.py:24`).
* `UrlPlaysReply`: a signed URL plays the reply in the narrator's voice as long as
  the object lives, whoever put it there.
* `EveryQuestionEnds`.

Met on the way, and in the model: rows that disappear from a source are never deleted
from the corpus; an external document that is renamed becomes a second document; the 503 for an unavailable
session memory cannot happen on the chat path, which falls back, so that
the browser's handling of it is never used; a donor recorded with an honorific and short names
only is redacted only where the honorific stands too; a clip that expires between the head
request and the browser's GET sends the reply to browser speech.

### Bounds and fairness

A menu whose title names its donor and a passenger list whose row does not name
the ship, each with later versions that move them across a gate or add a donor,
and one article whose entry loses its licence and scope. `MaxEdits = 1` bounds
the changes of the source before or during a question (while no question is
asked, all versions are reached). The menu's description names two people: one whom a row gives
as a donor in a later version, and one whom only the extra block list can hold. `TopK = 2` and `MaxHoldings = 1` are exceeded by the rows there are.
Fairness: a handler that runs goes on. In each phase one simple step (a failure,
where there is one) stands for all in the fairness condition, since its
alternatives leave the phase as well: a run in which calls fail or succeed as they like satisfies it.

## Runs

| Run | Instance | Shows |
|---|---|---|
| `session_serial` | 2 sessions, 2 turns, 2 cleaners, serial visitors, fair | `ImplementsConversation`, `ExpiredIsSwept`, `EveryTurnEnds` |
| `session_concurrent` | 1 session, 3 overlapping turns, 2 cleaners | `IInv`, `NoStaleContext`, `NoOrphanedThread`, `RepliesFollowQuestions`, `OnlyIdleThreadsErased` |
| `session_lost_turn` | two overlapping turns | `ExchangesKept` fails |
| `credentials` | 2 threads, 2 rotations, 1 failure, fair | `CredentialInv`, `StaleOnlyForALifetime`, `FetchesSpaced`, `RejectedOnlyInRecovery`, `EveryConnectEnds` |
| `credentials_absorbed` | 1 thread, no failure, secret promoted at once | `RotationAbsorbed` fails |
| `ingest_serial` | 1 worker, 2 jobs (1 poison), 2 documents, 2 editions, 2 models, fair | `CleanRunsLand`, `ImplementsCorpus`, `JobsSettle` |
| `ingest_overlap` | 2 workers, 1 job delivered 3 times, 3 editions | `RowsAreWhole`, `CatalogueUnique` |
| `ingest_duplicates` | 2 workers, 1 job delivered 3 times | `DocumentsUnique` fails |
| `transcription` | 1 recording, 3 windows, limit 2, handler task by task, fair | `HandlerInv`, `HeardInOrder`, `DoneIsWhole`, `AllSoundTranscribed`, `LeavingFreesServer` |
| `microphone` | 2 recordings, any servers, fair | `HeldByActive`, `ImplementsMicrophone`, `EveryRecordingEnds` |
| `narrator` | 2 questions, 1 recording, 2 narrators, fair | `NarratorInv`, `TranscriptOfOneSession`, `ExchangesShown`, `NeverSilentlySkipped`, `StatusSettles` |
| `answers` | 1 question, 3 records with later versions, 2 personas, 4 drafts, fair | the nine other properties of [answers](#answers) |

Deadlock is not checked: visitors may stop coming, a pool may stop opening
connections, the clock is bounded, nobody need publish or enqueue, and the
recordings and questions of an instance are finitely many. `answers`, where
questions go on for ever, checks deadlock. The inductive invariants of the
refinements and of the overlap theorems (`SerialInv`, `OneWorkerInv`, `OverlapInv`, `PageInv`) were
checked in the runs of these names before they were proved and are not repeated there.

## Proofs

Everything below holds for every number of sessions, turns, cleaners,
threads, workers, jobs, documents, recordings, questions, narrators and records and all values of the
constants allowed by the modules' assumptions.

**Session memory** (`SessionMemory_proofs`). `IInv` strengthens the safety
properties to an inductive invariant. Its parts:

* `TurnsAreRecent` and `InvokingSessionsLive`: a turn in flight began at most
  `MaxTurn` ago, hence its session's deadline is still ahead while the graph runs.
  This is where `ShortTurns` (`2 * MaxTurn < TTL`) is used.
* `RefreshKnows`, `SweepKnows`, `TodoInBatch`, `RowHeldOnce`: what a transaction read
  under its lock is still true when it acts.
* `NoOrphanedThread`, `ThreadsAreCurrent`, `ContextsAreCurrent`, `NothingLoadedYet`:
  what is in a thread, or was loaded from it, belongs to the current conversation.

The theorems are `TypeCorrect`, `InvariantHolds`, `ContextIsNeverStale`,
`ThreadsAreNeverOrphaned`, `ErasuresAreIdle`, `RowsHeldOnce` and
`ThreadsStayOrderly`. `TypeCorrect` and the last two need no assumption about turns.

`ThreadsStayOrderly` (`RepliesFollowQuestions`) has an invariant of its own,
`HistoriesInv`. A thread is overwritten by what some turn had loaded, so the property is
about every list in flight as well: each is orderly, holds nothing its turns have not
written yet (`Asked` and `Answered`, which never turn back, since a turn's phases only
advance), and what a turn has loaded holds nothing of the turn itself. Losing another's
exchange, as `session_lost_turn` does, leaves a list orderly.

**Refinement** (`SessionMemory_proofs`, second part). Under `SerialClients` and `ShortTurns`,
`Spec => Memory!Spec`. `SerialInv` adds that at most one turn per session is in
flight and that what it loaded is still the whole thread; with it, `WriteInput`
and `WriteReply` are `Say`, `RefreshCommit` is `Renew`, the erasures are `Forget`, the
clock is `Pass`, and every other step stutters.

**Credentials** (`DbCredentials_proofs`). `CredentialInv` says what the cached
credential, the lock holder and a thread about to log in know about the last
rotation or failure (`FreshInv`, `RetryInv`) and that the next fetch is not due
(`SpacingInv`). `FetchesAreSpaced` and `RejectionsAreExcused` follow step by step.
`StaleForALifetime` needs one fact more, `LifetimeInv`: a cached credential that is not the
secret's was fetched before, or during the exchange that straddled, the last
change of the secret, so its lifetime is counted from there; only a failure
puts its end off, by the back-off.

**Ingest jobs** (`IngestJobs_proofs`). `TypeInv` adds to the types that a worker in
a row is at a document and holds a row of that document, which stays true
because rows are only appended or replaced in place. `CatalogueIsUnique` needs
nothing else. `OverlapInv` adds `ReadsChange`: an upsert that goes on after its reads
has another hash to write than the one it read. With `Steady` this makes every
update write the whole row.

**Refinement of the corpus** (`IngestRefinement_proofs`), under `OneWorker`.
`OneWorkerInv` follows the worker: `ReadsHold` (what it read is still in the table),
`SnapshotsAreOld` and `RowsUpToDate` (every row shows an edition no newer than any
copy being worked on, and no newer than the source). A commit is then a
`Refresh`, or a stutter when it repeats the edition; `Publish` is itself; every
other step stutters. The refinement also assumes `DistinctEditions`, that the hash
tells editions apart. For manifest documents this is not so when only scope or
licence change: see the hazards.

`CleanJobsLand` (`CleanRunsLand`) does not need that. `LandingInv` says of a job that
met no error that the documents behind it are in the table as it downloaded them, in its
model; nobody overwrites them, and a row it skips as unchanged was its own edition
already. The last is where `HashDecides` is used: editions with one hash agree on the
scope and on whether there is text to embed. In the catalogue they do. The `in_scope`
flag of a manifest entry is not in its hash (`sources.py:109`), so for the manifest the
assumption is that the flag stays as it is.

**Live transcription** (`Transcription_proofs`). `Inv` has two parts that need
nothing of each other but types. `PageInv` is about the browser: `HeldByActive` with
`FlagsAgree`, which ties the flags of a closure (`cancelled`, `settled`, the set-up step, the
socket variable) to whether the recording is the active one. Its step lemma
sorts every step of a recording into three kinds: it changes nothing the page
can see (`Quiet`), begins to capture (`Captures`) or gives the microphone back
(`Ends`). `Agree` is about one handler and its stream, and strengthens
`TasksAgree` by what each stage of the handler says of the generator. A step of a
server leaves the page alone but for accepting a socket (`Serves`), so
`PageInvariance` and `OneHolder` hold for the handler as modelled and for any
other server alike. In `PageImplementsMicrophone`, `Start` is `Claim`, `Captures` is
`Capture`, `Ends` is `Release` for the holder, and the rest stutters or is `Quieten`.

`FlowInv` is about what travels between the browser, the socket, the handler's queue
and the stream. While the socket is open it counts: the windows that were sent are those in
the socket, in the queue and in the stream, and the messages the stream has yielded are those
heard, those in the socket and the one about to be sent, in one order. Once it
is closed nothing that is still on its way changes what the visitor is told. From it follow
`SegmentsHeardInOrder`, `FinishedIsWhole` and `FinishedIsAllSound`: the close overtakes
no segment, and the handler closes only after the stream has ended.

**Narrator overlay** (`NarratorTurns_proofs`). `Inv` is `NarratorInv` and
`NeverSilentlySkipped`, cut into what it says of recordings, questions, the
page's status and voices. It is inductive because `NarratorInv` says two things
more than the page shows: a recording that failed and may still report has no other
beside it (so that its report may clear "listening"), and a turn that waits for a sound
which is no longer its own was interrupted. Each action has a lemma; what they share
(`Aborted`, `Disturbed`, `Asked`, `Released`) is described once by the lemmas at the top.

The transcript has two more invariants. `ExchangesInv` accounts for every answered
question of the overlay: it is shown once, or was asked while a session's first question
was unanswered (`behind`), or a later session cleared it. To say so of a reply that
is still to come it needs `LateFirst`: who else has asked in a session whose first
question is unanswered is `behind` already. `ExchangesStayShown` needs no assumption about time.
`SessionInv` is about the clock: the tab's session cannot expire while a question of this
overlay waits, nor between a tap that saw an empty transcript and what is then
heard, which takes a call and a capture. `OneConversationShown` follows with `ShortCalls`.

**Answers** (`Landing_proofs`, `Answers_proofs`). `LandingInv` is about the corpus. `VisitedIsCurrent` is
inductive with `VersionsExist` and `DocumentsSound` (keys of two kinds, finitely many
chunks), once it is shown that what lands is a function of the hash (`HashCovers`,
`EntryHashCovers`): a record that is skipped as unchanged would land as it did.
`CitationsStayPublic` goes on from there: a chunk that the view shows belongs to a
document whose record is public (`RetrievableIsPublic`), deduplication, quota and limit only leave
rows out (`ResultsAreRows`), and a valid output cites what was found. For the replies,
`StripTrims`, `TruncateFits` and `CutsLate` say what stripping and cutting a text does to
every sequence of characters and every limit, from the least and the greatest member of a set of
positions; `RepliesFit` and `UrlsPlayReplies` follow with `ReplyInv` (what a handler
has) and `ClipsInv` (an object is what its key says).

Four promises that the run checks on small inputs are proved for all.

* A search. `Fair` is what `SearchIsFair` says, of any finite set of rows. A row is kept by
  how many came before it, so the lemmas count positions: `CountsEach` (some
  prefix has each count up to the last), `QuotaHolds` and `QuotaFull` (the quota lets the
  first `MaxHoldings` holdings pass, and those only), `ShownFirst` (what passed is shown, or
  `TopK` rows as near are). `SearchesAreFair` puts them together; `RetrievalStaysFair` adds
  `FoundInv`: what was found is in the corpus still, since no job deletes.
* An answer. `GradedInv` says that an answer is grounded just if it cites, and shows no
  marker that the graph knows; a cut adds none (`CutsAddNothing`). With `FoundInv` and
  `ReplyInv` this is all that the evaluation looks at (`AnswersPass`).
* A text in chunks. `AreWindows` gives the first and the last word of each chunk in closed
  form; `WindowsReachTheEnd` finds how many there are by division, for any window and overlap, the
  ones that would not advance included. `ChunksHoldAll` follows for all texts, and `ChunksStayWhole`
  for every article in the corpus.

* A redacted text. `RedactHides`: no term is left to read, since the words before a placeholder are
  those of the text (`PlainlyRead`), where a term that begins is never passed over.
  `RedactKeepsTheRest`: from every place that no occurrence straddles (`Seam`), what is kept of the
  redacted text is what stands outside the occurrences. Here it matters that the longest
  term goes first: the next place is a seam again, because no other occurrence reaches further
  (`LongestLeads`; `LongerIsGreater` relates the number of characters to the number of words).
  `NamesStayRedacted`, which speaks of the scanned texts, adds that no term arises when parts are joined (`ComposedIsFree`), and
  `NamesInv`: a document of the catalogue was redacted for names that some version or the block
  list holds, one of the manifest for none.

`NamesStayRedacted` assumes `PlainNames`, which TLC evaluates for the instance: no name contains the
placeholder, nor the blank line between parts. The code does not check it, but a block list is
read line by line and a donor cell is a line. Without it the property is wrong: a name
that contains the break can arise where two parts meet, after both were redacted.

Induction and recursion are stated there for sets and functions (`SetInduction`, `FoldExists`,
`FoldWalks`, `ReadsFromTheEnd`), since the library states them with an operator as
parameter. With these the folds `Size`, `Kept` and `Compose` and the recursive `Redact` are known place by
place. `Kept` is a fold of the module's own because the library's `SelectSeq` is defined by a
recursion that cannot be unfolded in a proof.

Only model-checked: the liveness properties (`ExpiredIsSwept`, `EveryTurnEnds`,
`EveryConnectEnds`, `JobsSettle`, `EveryRecordingEnds`, `LeavingFreesServer`, `StatusSettles`,
`EveryQuestionEnds`), which are beyond the proof system. Every other property of a passing run is
a theorem.

## Findings

* **Overlapping turns overwrite each other** (`session_lost_turn`).
  `agents/state.py:15` says messages are appended, not overwritten. The later of
  two overlapping turns stores what it loaded plus its own exchange. The browser
  disables its controls during a turn, but a recording that was started
  before a typed question still submits when it ends.
* **A rotation is not always absorbed** (`credentials_absorbed`).
  `db_credentials.py:344` says no error reaches the pool. Within the throttle
  interval of the last fetch it does.
* **Overlapping ingest runs duplicate manifest documents** (`ingest_duplicates`).
  `infra/README.md:700` says redriving cannot double-write because the pipeline is
  idempotent by `content_hash`. The lookup and the insert are apart by an embedding
  call, and only catalogue rows have a unique index. A run that outlasts the
  300 s visibility timeout is enough to overlap.

Four more configurations end in a counterexample to what a document says. They are kept beside the
runs, to be repeated by `tlc -config <file> <module>`:

* `SessionLongTurn.cfg` (`MCSessionMemory`, `ReuseStartsAnew`): **a turn may outlive its session**.
  `backend/README.md:82` says reusing an expired id starts a new conversation. A turn that lasts
  as long as the TTL (`config.py:72` accepts any) writes into the new one.
* `IngestModelSwap.cfg` (`MCIngestJobs`, `RowsAreWhole`): **overlapping runs with two models mix editions**.
  `data/ingest-pipeline.md:150` says an export is safe to re-run. While a deployment changes the model,
  the workers of both may run deliveries of a job. `upsert.py:107` reads the row and its chunks in
  two statements, and a hash that equals the one read first is not written. A row that
  ends with the current hash and another edition's text is skipped as unchanged from then on.
* `AnswersMetadata.cfg` (`MCAnswers`, `DonorsAppearNowhere`): **the workbook's title is not redacted**.
  `tests/test_ingest_integration.py:67` wants no donor anywhere, metadata included, and
  `data/ingest-pipeline.md:101` a scan of all free-text metadata. `normalize.py:113` puts the
  readable title there, and `privacy.py:80` does not look at it, even where the same name is
  redacted in the row's own title. The test does not see it: it ingests without the workbook,
  which a deployed job requires (`worker.py:44`).
* `AnswersStrayNames.cfg` (`MCAnswers`, `StrayNamesAreBlocked`): **the block list knows one column**.
  `data/schema.md:76` and `data/ingest-pipeline.md:102` say it is built from all free-text fields.
  `pipeline.py:101` builds it from `Donated by` and a local file (`config.py:74`).

## Not modelled

* The connection pools, whose limits show as waiting; `PostgresSaver.setup()` and its lock
  (`session_memory.py:138`); the pacing of cleanup loops, a batch per interval
  (`session_memory.py:207`). In `SessionMemory` a sweep may begin at any time.
* The remediation lambda with its cool-down (`handler.py:43`): Terraform-managed and outside the application.
* Parsing and wording: CSV, XLSX and markup, persona and scene files, prompts, resampling, notices.
  The models begin with what is parsed.
* Telemetry, which changes no decision; configuration and database models, which are declarations and
  appear as assumptions on constants; fixtures and reports of the evaluation.
* Migrations, CI and Terraform, which are not programs with state here. The settings that matter
  (queue, bucket lifecycle) are environment of the models.
* The voyage pages: layout and independent flags.

## Plan

1. `CleanupPacing`: a batch per interval against the rate of expirations.
2. `Remediation`, composed with `DbCredentials`: alarm, cool-down, forced deployment.
3. The set-up lock of a rolling deployment with its concurrent index build.
4. Proofs: weaker assumptions where the code leaves room (`ShortTurns` for each session by
   itself; `OneWorker` for each document by itself).
5. Whether a recording may be reported as finished after its stream failed:
   `main.py:543` against `main.py:540`.
