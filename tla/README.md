# Voice Light: verification of the streaming voice agent

Voice Light (`src/`) is a Python repository of two halves. One is a full-duplex
voice agent: a FastAPI service (`app/compute/voice`) that listens to one user
over a WebSocket, recognises speech as a stream, drafts answers with a language
model and a speech synthesizer in worker processes, and plays them through an
AudioWorklet in the browser (`app/local/web/pages/voice-agent`), with overlap,
interruption and speculative drafting. The other half is an offline pipeline
(corpora, alignment, synthetic data, training, review pages). The interleavings are
mostly in the voice agent; of the offline half, the alignment migration is the one
part that must survive being killed. The project is about both.

## Inventory

| component | state it keeps | operations | interacts with |
|---|---|---|---|
| **Voice session**, `session.py` (`VoiceSession`) | session state, `active_generation`, `pending_generation_teardown`, per generation: lifecycle, task, release gate, `accepts_playback`, `cancelled`; conversation; user turn and generation ids; `active_user_overlap`; session deadlines | recognition loop (speech onset, predictions, overlap evaluation, turn commit), generation tasks, release tasks, teardown task, receive loop, `run`/shutdown | everything below |
| **Playback controller**, `playback.py` | active generation, one playback estimate per generation, issued and acknowledged commands | issue duck / pause / resume / cancel, acknowledge, record started / progress / clock / complete, replace generation | session (issuer), worklet (over the WebSocket) |
| **Transport credit**, `playback.py` (`PlaybackFlowControl`) | active generation, credited and sent samples, waiters | activate, wait for credit, update, invalidate | speech streaming, receive loop |
| **Release gate**, `predictive.py` (`CandidateReleaseGate`) | HELD / RELEASED / DISCARDED, buffered sends | publish, release, discard | generation and release tasks |
| **Playback worklet**, `playback-worklet.js`, and voice page, `app.js` | buffered chunks, watermark, pending duck/pause/resume, retained acknowledgements | enqueue, apply command, process a quantum, report | controller |
| **Overlap policy**, `overlap.py`, and the holds of `session.py` | the active overlap, the `continuation_allowed` and `synthesis_budget_available` events of its generation | start, evaluate, resume, promote | controller, generation tasks |
| **Private context and tool journal**, `conversation.py`, `tools.py` | committed messages, tool execution records | snapshot, commit turn, journal a tool, invalidate | generation tasks |
| **Speech understanding**, `speech_understanding.py`, `nemotron_client.py` | the transcription of a turn, the optional predictor with its queue of one and its count of pending predictions, the lease of the ASR worker | add audio, settle predictions, finalize a turn in the loop or in a task, close | recognition loop, overlap finalization, `run`, ASR worker |
| **Speech synthesis**, `synthesis_sequence.py`, `subprocess_tts.py` | the sequence of sessions of an answer, per session its reader, watchdog and outstanding words, the lease of the worker | write, finish, listen, cancel, fail, replace | generation tasks, synthesis worker |
| **Worker programs**, `kyutai_tts_worker.py`, `voxtream_tts_worker.py`, `nemotron_worker.py` | the command loop and the thread that generates or recognises | serve one request after the other | the managers, over two pipes |
| **Admission**, `admission.py`, `router.py` | the one active lease | acquire, release, preload | sessions |
| **Session capture**, `session_capture.py` | recorded audio and events | record, save | session |
| **Alignment migration**, `app/local/alignment_migration` | WAV files, staged files, backups, pending and final sidecars, staged directories; database rows | preflight, transaction of a sample, reconciliation, deletion of invalid samples, derived rows, audit, recovery | disk, database |
| **Rest of the offline pipeline**, `app/local`, `app/training`, `synthetic-generation` | files and database rows | batch jobs | disk, database |

The hard behaviours: asyncio tasks switch at every `await`, and the session
reads state before awaits and acts on it after them; a cancelled generation
winds down while its successor is being prepared; the browser reports late, out
of order with respect to what the server decided meanwhile, or never; a
candidate answer runs through the whole pipeline before the user has finished;
failures arrive at any await. `PROJECT.json` lists each of these as a hazard at
its line. The properties that make the session correct are the barrier between
generations, privacy of speculation, history that contains only what was heard
and in turn order, legal lifecycles, progress of every committed turn; those of
the playback protocol are monotone heard positions, idempotent commands, and a
cancel that is final. A worker process must belong to one user at a time and be
silent when the next one takes it; the migration must neither lose a recording
nor shift one twice.

## Plan

Written, in this order, because the barrier between generations is what the
rest of the session relies on:

1. `SessionGenerations` and its proofs: the generations of one session.
2. `PlaybackProtocol`, an implementation of `AudibleAnswers`, and its proofs: the
   controller, the browser and the two channels between them.
3. `SessionLifecycle` and its proofs: admission, deadlines, disconnects and
   shutdown.
4. `OverlapHolds` and its proofs: what an overlap holds back.
5. `AlignmentTransaction`, composed with the database and the command line in
   `AlignmentMigration`, and its proofs.
6. `SynthesisSessions` and its proofs: the sequence of sessions of an answer and
   the lease and the pipes of the synthesis worker.
7. `SpeechUnderstanding` and its proofs: the transcription of a turn, the
   predictor and the lease of the ASR worker.

Two modules of an earlier plan are not worth their place. `ReleaseGate`: the
buffer of `CandidateReleaseGate` is appended to and flushed under one lock, and
its state, with release, discard and refusal, is in `SessionGenerations`.
`ToolJournal`: one task writes the journal of a generation, and which transition
of a record is legal is a dictionary in the code.

What is left:

8. The finalization of an overlap that outlives its session, together with the
   next session on the same models: `SpeechUnderstanding` for two sessions.
9. Interruption marks and tool rounds inside one answer, as an extension of the
   history of `SessionGenerations`.

## The modules

### SessionGenerations

The state is that of `VoiceSession`: `active` is `active_generation`, `teardown`
is `pending_generation_teardown`, `life`, `gate`, `task`, `rel`, `spec`,
`cancelled`, `accepts`, `played` and `turn` are the fields of each
`_ActiveGeneration`, `conversation` is the durable history. The recognition loop
is one sequential process; `rpc` is the await at which it is suspended, and the
few values it keeps over the await have their own variables. Each action is the
code between two awaits, so `RequestCancellation`, `WriteHistory` or
`CommitAssistantIfComplete` are operators used by the actions that call them.
Every other asyncio task (a generation's task, its release task, the teardown,
the receive loop) is a group of actions that may run at any of those awaits.

Abstracted: what is said and recognised, so that the outcome of an evaluation or
of a candidate's validation is a free choice; the sends, which succeed (what a
broken connection does is `SessionLifecycle`); the text offsets inside one
answer. `Recognition` stops when an assertion of the loop fails (`crashed`).

### PlaybackProtocol and AudibleAnswers

Three parties: the session with its `PlaybackController` (`ctl`), its transport
credit (`flow`) and its sender; the worklet (`w`) with its queue, gain ramps,
pending command and acknowledgements; and the two directions of the WebSocket,
`down` and `up`, which keep their order and lose nothing while the connection
stands. One `Render` is one quantum of the AudioWorklet; a word is two samples
followed by its boundary, so that a pause may be due inside a word and at its
end. `down` carries audio, the end of an answer and commands, `up` carries
started, progress, clock, complete and acknowledgements.

`AudibleAnswers` is what a listener is promised: answers sound one after the
other and in the order they were given, one that has been silenced or left never
sounds again, and a word counts as heard only when all its samples have sounded.
It is refined with the worklet's generation as `sounding` and the answers that
may not sound any more as `silent`.

Abstracted: duplicates and caches of commands (no sender repeats a command), the
interpolation of samples, `playback.stopped`, which the worklet never posts
because a cancel is settled by its acknowledgement first.

### SessionLifecycle

`s[c]` is the session of client `c`: `run` is the place in the route and in
`VoiceSession.run`, `receive`, `recognition` and `deadline` the three tasks,
`inbox` the received messages that uvicorn buffers, `queue` the bounded audio
queue, `work` the tasks that generations own. `lease` is that of `admission.py`.
A task that was cancelled learns of it in a step of its own (`ReceiveCancelled`,
`RecognitionCancelled`, `DeadlineTaskCancelled`), and until then holds had. Of a generation only its task is kept: its life is `SessionGenerations`.

`recognition = "stopping"` is the loop inside `finalize_turn`, waiting for the
predictor it has cancelled. A cancellation of the loop that arrives there, or in
an overlap's finalization that the loop awaits after its grace, is swallowed
(`speech_understanding.py:618-619`): `swallowed` records it, the loop goes on as
if it had not been cancelled (`"commit"` is the finalized turn's first send), and
the generation such a loop may begin after run has closed the others is `"late"`.
`Unawaited` is what nobody waits for: that generation, and the finalization of an
overlap that a failed resume leaves to itself. A loop that goes back to listening
is `Stranded`, since nobody receives for it any more, and `run` waits for it.
`SessionEnds` holds up to this case, and `AdmissionReleased` is the claim of the
documents, without the case, which a run shows violated.

A send succeeds while the client is there; on a socket the client has left it is
lost or raises until the receive loop has read the disconnect, and raises after.

Time is left out: a deadline may pass whenever its task watches. `asr` is what
the close of speech understanding can find: nothing, a stream, a worker that has
died, a stream that has been finished.

### OverlapHolds

One answer and the overlaps of it. `continuation` and `budget` are the two
asyncio events, `loop` the recognition loop's await while it resolves an
overlap, `text` the task that hands words to synthesis, `stream` the task that
sends chunks. Words are the unit of every position, and one word is one chunk;
`Ahead` and `Transport` are the two windows of the configuration in that unit.
A waiter of an event that is set goes on even when the event is cleared before
it runs: that is `woken`. A resume always succeeds here; those the controller or
the browser refuses are in `PlaybackProtocol`.

### AlignmentTransaction and AlignmentMigration

`AlignmentTransaction` is `filesystem_transaction.py` for one sample of two
tracks: a file is the content its hash identifies, and every open, write,
rename, link and unlink that another run could find half done is a step. `step`
is where the process stands and `track` where its loop over the two tracks is.
`AlignmentMigration` adds what `cli.py` and `service.py` do around it: the
preflight that every command starts with, the rows that describe the audio, the
review that holds the offset, the staged directories of the invalid samples, the
derived rows and the audit. `Crash` kills the process anywhere; `FailStaging` and
`DeletionFails` are operations that raise. Files and committed rows stay.

It is the process that is killed, not the machine: what was renamed or written
and closed is on disk. A database transaction is one step, except that the
process may not learn that the deletion of the invalid samples was committed.

`RerunsComplete` says that running the command again completes the migration
after every kill, outside four windows, each a definition of the module:

- `CanonicalGap`: between the two renames of a track
  (`filesystem_transaction.py:256-257`) its canonical file is missing and the
  preflight of the command line refuses to run; the recovery that would repair
  it is behind that preflight (`cli.py:33`);
- `UnrecordedStaging`: staged files without a readable pending sidecar
  (`:86-91`, `:406-411`) are refused, and have to be removed by hand;
- `StagedDirectories`: a set of invalid directories partly staged, or staged with
  their rows still there (`service.py:502-528`);
- `OrphanDirectories`: directories put back after a commit whose outcome the
  process did not learn (`service.py:485-498`).

### SynthesisSessions

A generation has two children: `text` gives words to the current session of the
sequence and finishes it, more than once when there are tool rounds; `audio`
listens to the sessions one after the other. `session[s]` is a
`SubprocessSpeechSynthesisSession` with its reader, its watchdog, what it has
sent and what is outstanding; `owner` and `worker` are the manager's lock and
process; `process` is the newest process with its command and its event pipe.
`WorkerProgram` is the command loop and the generating thread of either program.

`Immediate` is what follows without another await, `Progress` what a task does
when it is ready or its timeout has expired, `Demand` what begins an answer or a
teardown. Time is left out: a timeout may expire whenever its task waits. A
generation that is over may be followed by another with sessions of its own,
which has to find a worker in order.

### SpeechUnderstanding

`loop` is the recognition loop of the session, as far as it uses speech
understanding: it adds audio (and starts a worker for the first chunk of a turn
when there is none), settles predictions, and finalizes turns itself
(`fin.inline`) or in a task it waits for with a grace. `predictor` is the
optional predictor; `asr` is the transcription of the turn with its reader;
`leased` and `worker` are the manager's lock and process, `process` the process
and what it has said. `run` cancels the loop, closes what is left and joins it;
the loop closes as well when it leaves, and one of the two calls does the work.
`cancels` has the tasks that are cancelled and have not noticed.

`_stop_optional_predictor` awaits the predictor it cancelled and suppresses
`CancelledError` (`speech_understanding.py:618-619`); a cancellation of its
caller that arrives during this await is suppressed too. The model keeps that as
"lost" in `cancels`; `Stranded` is the session whose `run` waits for a loop that
goes on to listen. `ShutdownEnds` names it and says that nothing else keeps a
shutdown from its end. The documents exclude it:
`docs/streaming-voice-agent-prototype.md:11-13` has admission released on every
stop. That promise is `AdmissionReleased` of `SessionLifecycle`, and the run
`held_admission` shows it violated by the same lines.

The predictor's queue holds one observation, and a new one takes the place of the
queued one without a word (`speech_understanding.py:350`, `534-538`). The
documents have it otherwise (`docs/streaming-voice-agent-prototype.md:477-478`,
`525-527`: 64 observations, and an overflow disables the detector). `PendingIsCounted`
is about the queue of the code; `OverflowDegrades` is the document's sentence, which
the run `silent_supersession` shows violated.

There is one session. Predictions and partial transcripts that are only reported
change no control and are left out.

## The runs

| run | asks | result |
|---|---|---|
| `generations` | is there one answer at work, one teardown, one history in turn order, whatever the order of the tasks; does every cancellation end and every committed turn get its answer, from a silent browser too | holds |
| `candidate_failure` | does a candidate's failure leave the session alive | violated |
| `playback` | do the session's cursors trail the browser's, is transport bounded, do the three parties implement `AudibleAnswers`; does a cancel silence, and does an answer end | holds |
| `lifecycle` | is a session alone with the models, quiet once closed, and does it end (but for a swallowed cancellation) | holds |
| `held_admission` | is admission released after every stop | violated |
| `overlap_holds` | are synthesis and text bounded while an overlap is judged, and is text released | holds |
| `lost_resume` | does a resume let the answer be spoken to its end | violated |
| `alignment` | is no recording lost or shifted twice, is every record true, and do reruns complete the migration | holds |
| `synthesis` | are words spoken in order, is the worker leased soundly and returned clean, and does every answer end | holds |
| `lost_lease` | does the end of a session give its worker back | violated |
| `understanding` | are predictions counted, is the ASR worker leased soundly, and does every shutdown end (but for a swallowed cancellation) | holds |
| `silent_supersession` | does an overflow of the predictor's queue disable the detector | violated |

Deadlock is not checked: generation ids, answers, sessions, words, chunks and
overlaps run out by the bound and the system then rests; a migration that is
complete, or that a rerun refuses, rests as well. That nothing stops earlier is
what the liveness properties say.

### Bounds

- `generations` has three generations: a cancelled one in teardown, its
  successor, and a candidate; the properties relate at most two of them and the
  third meets what they left. About 1,928,000 states.
- `playback` has two answers of two words, one overlap and a window of two
  samples, so that the sender has to wait for credit in every answer, the pause
  can be due at either of two boundaries and the second answer meets every state
  that the first left in the worklet. `ClockInterval` is longer than the window:
  credit then depends on the boundary and the empty-queue reports as well. The
  liveness properties are checked on the same instance, so that a cancel meets a
  pending duck, pause and resume. About 1,500,000 states.
- `lifecycle` has a client with four messages and one that asks to be admitted.
  The queue has room for two: four messages fill it and leave one in the receive
  loop's hands and one behind it. `Backlog < QueueSize` keeps the order of
  uvicorn's buffer of 32 messages and `AUDIO_QUEUE_MAX_CHUNKS` of 100. Three
  messages start a session and bring a turn to its finalization, and the fourth
  can end it with an error. About 309,000 states; `held_admission` is the same
  instance.
- `overlap_holds` has an answer of five words, synthesis one ahead, transport
  three ahead and three overlaps, so that each hold can find a chunk past its
  check and a word already woken, and every overlap can begin with what the one
  before left.

- `alignment` has one retained sample, three invalid ones and three kills or
  failures: enough for a kill in the transaction, one in the recovery from it and
  one in the deletion, and for a set of directories of which the first, one in
  the middle or the last is the odd one. It has 1,704 states.
- `synthesis` has two sessions, of one answer or of two, two words and one fault:
  the second session meets a worker that the first returned, failed or lost, and
  a word can be outstanding while another is written. About 747,000 states.
- `understanding` has three chunks of audio and two faults: one observation in
  the predictor's hands, one queued and one that supersedes it; a worker that is
  lost, and another that is not to be had. About 102,000 states;
  `silent_supersession` is the same instance.

### Fairness

Liveness is checked under weak fairness, with one exception in the migration.
`CancellationCompletes`, `CommittedTurnIsAnswered`, `CancelSilences` and
`AnswerEnds` are stated as `[]<>`: again and again nothing is outstanding. With
requests that are bounded in number and none of which is taken back, that is that
each is met, and TLC checks it with far less effort than a leads-to. `AnswerEnds`
claims nothing once an overlap has begun, because a resume can be lost (below).

- `SessionGenerations`: asyncio runs every ready task; a synthesis or a language
  model call that was cancelled ends; the playback stop has a timeout. The
  browser is not fair, so no property may depend on its reports. The loop's
  waiting for audio is not fair either. The generations' tasks are fair together
  and not each for itself, which is weaker and enough.
- `PlaybackProtocol`: both directions of the socket deliver, the worklet is
  called for every quantum while it has samples to render, the synthesizer and
  the sender run, an overlap is resolved. Four of the conditions are written out
  as `[]<>~enabled \/ []<><<A>>_vars`, which is what weak fairness means, since
  their guards are state predicates and TLC need not search for successors. The
  user's other acts are not fair.
- `SessionLifecycle`: the event loop runs ready tasks, generation tasks end and
  the maximum duration passes. The client does nothing it need not.
- `OverlapHolds`: every task runs, the browser plays what it has, and an overlap
  is decided at the latest by the policy's deadline, which is why `Resolve` is
  fair and `Evaluate("unresolved")` is not.
- `AlignmentMigration`: a process that is not killed goes on (weak), and the
  operator runs the command again until it succeeds (`SF_vars(LaunchApply)`:
  strong, since a run that is killed takes the guard away for a while).
- `SynthesisSessions`: asyncio runs what is ready and timeouts expire. Neither
  the worker nor the generation that begins an answer is fair.
- `SpeechUnderstanding`: the predictor, a finalization, the loop's awaits other
  than for audio, and closing are ready tasks or have timeouts. The reader and
  the worker may hang, and the session need not shut down.

## What the violations show

- **`candidate_failure`.** `_commit_finalized_user_turn` reads
  `active_generation`, awaits two sends and asserts in `_promote_candidate` that
  it is unchanged. A candidate may fail during either send.
- **`lost_resume`.** The budget event is cleared once more by the speech stream
  after the resume, while the overlap is still recorded; nobody sets it again.
- **`lost_lease`.** After the text or the language model has failed, the
  generation cancels its synthesis session. If the teardown cancels the
  generation while that waits for the reader, the `CancelledError` passes
  `except TimeoutError` (`subprocess_tts.py:351`), the worker is not given back,
  and the watchdog, with nothing outstanding, never strikes. `StreamsEnd` and
  `LeaseEndsWithGeneration` name this one case and hold otherwise.
- **`held_admission`.** `run` cancels the recognition loop while that waits, in
  `_stop_optional_predictor`, for the predictor it has cancelled; the suppression
  of the predictor's `CancelledError` (`speech_understanding.py:618-619`) takes
  the loop's with it. The loop finalizes its turn and goes back to the audio
  queue, which nobody fills any more; `run` awaits it (`session.py:852-854`), and
  the route never releases the lease: no later visitor is admitted. The commit's
  sends must succeed, so the client must still be there, as after an error of the
  receive loop (a second `session.start`, a message that does not parse).
  `SessionEnds` and `ShutdownEnds` name this one case and hold otherwise.
- **`silent_supersession`.** Here the document rather than the code seems to be
  wrong: the queue of 64 observations whose overflow disables the detector has
  become a queue of one whose newest observation supersedes the older, and a test
  (`tests/voice_agent/test_speech_understanding.py:362`) expects that.

`PROJECT.json` has the lines and the sentences of the documents they contradict.

### Known limitations of the code without a run

The models contain these behaviours and no checked property forbids them:

- A candidate that fails after it has been promoted, in the same window as in
  `candidate_failure`, is still given to the playback controller and its gate is
  released (`session.py:2195-2197`); the documented lifecycle has FAILED as final
  (`docs/streaming-voice-agent-prototype.md:538-539`).
- `issue_resume` refuses a pause that has grown too old (`playback.py:487-488`,
  `605-610`). `_resume_provisional_overlap` ignores the refusal, the overlap is
  dismissed and the answer stays paused.
- The close of a transcription may raise inside the `finally` of `run`
  (`session.py:851`); what follows it, the session's capture included, is
  skipped, although `docs/modal-voice-deployment.md:97` has every session
  captured. `CloseEnds(TRUE)` of `SpeechUnderstanding` is that error.
- A duck and a pause that reach the worklet before it knows the answer are
  dropped (`playback-worklet.js:161-165`) and the resume that follows is
  rejected. The session takes the answer for cancelled without a cancel command
  (`session.py:4173`), and the browser plays what it has.
- A loop whose cancellation was swallowed may begin an answer to the turn it has
  committed after `run` has closed the generations' tasks (`session.py:3904-3915`).
  When a close that raises then lets `run` leave without the join, that answer
  uses the models although the lease is free: `ModelsAreFree` names it ("late").
- While an overlap is judged, one chunk that passed its check may be sent beyond
  the 500 ms of `docs/streaming-voice-agent-prototype.md:288-289`:
  `SynthesisBounded` has that chunk in its bound.

## The proofs

tlapm checks eight modules, for every value of the constants.

**`SessionGenerations_proofs`.** From `MaxGenerationsAssumption`, the invariant
`IInv` is inductive; `TypeOK`, `TeardownIsFree`, `SingleGenerationWork` and
`SuccessorFindsNoAnswer` follow. None of the last three is inductive alone:

- `SpeechEnded` and `IdLeft` say what the loop has made sure of at each of its
  awaits, and that an id is left for the generation it is about to create;
- `FreshUnused` says that ids not yet given out have no task and no state;
- `WorkIsOwned` says that whoever works is the active generation or the one in
  teardown: the barrier between generations in one line;
- `CancelSendHolds`, `SpeculatingIsFree`, `StartSendHolds` and
  `OverlapFinalizingHolds` carry to each await of the loop what it checked
  before, in particular that no teardown is pending between the mark on a
  cancelled generation and the start of its teardown;
- `CommitMeetsPrivate` says that the active generation a commit meets is private.

The proof has one step per action, and under it the conjuncts the action can
disturb; the operators that several actions call have lemmas of their own.

Six more properties, on what becomes of the answers, follow from `AnswersInv`,
which adds four invariants to `IInv`:

- `PrivacyInv`, for `SpeculativePrivate`, `ReleaseNeverRefused` and
  `AnswerStaysReachable`: a candidate's gate is not opened and the browser does
  not play it (`CandidateHidden`); who discards a gate has dropped the candidate
  (`DiscardedDropped`), so the gate that waits for its release, or for the
  promotion's two sends, is still held (`ReleaseHolds`, `PromotingHolds`); and
  what was played to its end had been let out (`PlayedEnds`);
- `OpenInv`: one answer at most is open, that is, committed and either active or
  still to be reported on (`OneOpen`); none is beside a candidate
  (`CandidateAlone`), since the loop waits for the reports before a candidate and
  before a commit (`SpeculatingSettles`, `SettlingSettles`);
- `HistoryInv`, for `HistoryAnswersItsTurn`: the open answer is in the history
  already, or the turn it answers is the last entry (`OpenIsLast`); turn numbers
  only grow (`TurnsBounded`) and a candidate has no entry (`CandidateUnheard`);
- `LifeInv`, for `LifecycleLegal`: the lifecycles in which each state of a
  generation's task, and the active generation, may be.

`CandidatePromptFrozen` is an action property: an answer whose report would write
to the history is open, and none is open beside a candidate.

**`PlaybackProtocol_proofs`.** From `PlaybackAssumption`, for any number of
answers, words and overlaps, any window and any clock interval: `TypeOK`,
`CursorTrails`, `CursorMonotone` and `TransportBounded`. The first half is about
the processor: each method keeps `Working`, and `Moves` says that none of them
but the rendering of a sample and a cancel touches the cursor, the queue of a
live answer or whether it is closed. The second half is the invariant `Inv`:

- `WorkInv`: the cursor of the worklet is what it rendered, and a closed answer
  that has not ended has its cancel pending, from a command the page has seen;
- `UpInv`: the reports on their way are in the order of the cursor, between the
  controller's position and the loudspeaker's; this gives both cursor properties;
- `SenderInv`: what was sent fits the credit, and one answer is sent at a time;
- `ChainInv`: a word finds the one before it arrived or ahead of it in the
  socket, and so does the end find the last word: this is why "complete" means
  that every sample was rendered;
- `QuietInv`: nothing of an answer follows its cancel, neither in the socket nor
  from the sender; without it a word could be refused and break the chain.

**`PlaybackRefinement_proofs`.** With `Inv`, `Spec => AudibleSpec`: `Silent` is
the set of the answers that have ended, a word of a newer answer is a `TakeUp`,
a quantum a `Sound` (or, when the cancel has faded out, a `Silence`), a report
at most a `Hear`, everything else a `Silence` or nothing.

**`OverlapHolds_proofs`.** From `HoldsAssumption`, `TypeOK`, `SynthesisBounded`
and `TextHeld`. The bounds are not inductive since a chunk that passed its check
and a word that was woken are yet to come: `LastChunk` and `LastWord` bound what
is done before them, and `ChunkHasWord` and `TextHasWord` say that there is one.

**`SessionLifecycle_proofs`.** From `LifecycleAssumption`, `TypeOK` and
`OneSession`, together inductive. Every action puts one new session record in
the place of the old one, so the proof is about that record: it is `Good` (it
has its type, and its queue is within the bound), and the step of any task but
`run` itself `Keeps` the place in `run`, on which the lease depends. There is
one lemma per task and, under it, one step per action. `ModelsAreFree` and
`ClosedIsQuiet` follow from a second inductive invariant, `PhaseInv`: what each
place in the finally block of `run` implies about the tasks and about speech
understanding (`Phase`). It is needed because a close of speech understanding
that raises leaves `run` without the join: that nothing of the recognition loop
is then still at work follows from who closes (`run` and the loop never both
do) and from the state a finalization leaves the worker in. A recognition loop
whose cancellation was swallowed goes on during all of this: `Phase` says that it
cannot be inside a cancellation of its own and that no active generation is left
for it, and `Loops` what any step of it may change: it opens nothing that `run`
has closed and brings back no task that `run` has waited for. `ReasonIsFinal`
uses that part of `Phase` which says that a session that is STOPPING has left
the places where its tasks can still write a reason.

**`AlignmentMigration_proofs`.** From `CountAssumption`, for any number of
invalid samples, kills and failures: `TypeOK`, `OriginalKept`, `RecordsAreTrue`,
`AlignedOnce` and `AuditSucceeds`. None but the types is inductive. `TracksInv`
says which copies of a track exist for each content of the canonical file,
`RecordsInv` what the sidecars and rows say, `StepsInv` what the place of the
process says of the files, that is, what the code has made sure of before it
goes there; with `TypeOK` and `RowsInv` they are inductive (`SafetyInv`).
`AuditSucceeds` needs in addition what is left of a transaction after its sidecar
was promoted (`RemainsInv`) and where the directories are (`DirectoriesInv`);
together they are `AuditInv`.

**`SpeechUnderstanding_proofs`.** From `UnderstandingAssumption`, for any number
of chunks and faults: `TypeOK`, `AsrLeaseIsSound` and `PendingIsCounted`. That
the lease is sound depends on where the tasks of the session can be together
(`PlacesInv`: who is inside whose call, and that `run` goes on only when the
session is closed), on what the pipe holds for each state of its reader
(`PipeInv`: nothing of an earlier turn before the first chunk and after the final
output, at most one end in between), and on who may hold the lease
(`HoldersInv`), which in turn says that a session that shuts down starts no
worker, also when the loop's cancellation was lost. `CountInv` is the count of
the predictor. One lemma per part goes through every action.

**`SynthesisSessions_proofs`.** From `SynthesisAssumption`, for any number of
sessions, words and worker faults: `LeaseIsSound` and `LeaseEndsWithGeneration`.
`LeaseInv` adds to the first that nobody finalizes a session without a worker and
that a child only speaks to or hears a session that has, or had, one (`Users`).
The second needs to know, at the end of every kind of generation, who still has
the worker: nobody when the answer was heard to its end, since the sessions
before the one that is heard are finalized and the audio task ends after the
last (`AnswerEnds`); nobody when the clean-up found nothing open (`Owned`,
`EndPlaces`); the one that replaces it when the clean-up failed or was stopped
(`Finalizers`, `Excuses`). What `Release`, `Fail` and `Proceed` do to a lease is
stated once; the steps of the actions cite it.

`TypeOK`, `ReturnsClean` and `SpokenInOrder` are about what is in the pipes and
the queues. `KindStep` sorts the actions into a few kinds, by what they do to the
sessions and to the process, and the lemmas after it go through these. Three
layers build on one another:

- `TypesInv`: the types of the commands, events and items, and that a session
  nobody has started has sent nothing and queued nothing;
- `PipeInv`: a start is in the command pipe once at most, of the session that
  holds the lease, whose reader waits for a process that has nothing else to say;
  an end is the last event; and whenever the lease is free, or its session has
  read its end, the process is quiet (`Quiet`). `ReturnsClean` follows: whoever
  gives a worker back has heard the end, waited for the reader, or replaced it;
- `OrderInv`: while the audio task listens, the words of a session continue one
  another through four places, what was heard, the output queue, the event pipe
  and the command pipe, and an end anywhere means that all words are before it.
  `InLine` says this of a queue and `Follows` of the commands; there is a lemma
  for what taking, appending and handing over does to each. `HeardInv` is the
  list of what was heard, where only the last entry and the session listened to
  can change, and `Worded` says that only the session that is written to may
  still have no words: without it an empty session would make a gap.

Only model-checked: liveness (`CancellationCompletes`,
`CommittedTurnIsAnswered`, `CancelSilences`, `AnswerEnds`, `TextContinues`,
`SessionEnds`, `RerunsComplete`, `StreamsEnd`, `ShutdownEnds`), which is out of
the prover's reach. Every safety and every action property of a passing run is a
theorem. Each property of a passing run has a mutated definition (named
`<Definition>_<change>` next to it) under which the run fails.

## Not modelled

`PROJECT.json` lists every component. Left out for good are model inference and
signal processing, text classification, the content of prompts and transcripts,
metrics and traces, the pages other than the voice page, the batch pipelines
other than the migration (single process, one user, the database's transactions)
and training: this is most of the repository's lines, and it has no protocol of
its own to state properties about. The language model worker is not a module of
its own: its lease and replacement are the synthesizer's with one request at a
time.

Inside the modelled components the following is left out: tool rounds and
interruption marks in the text of an answer; the rearm silence of the overlap
policy; the readiness checks of the route; the finalization of an overlap that a
failed resume orphans, beyond the fact that it may outlive its session
(`ModelsAreFree` and `AsrLeaseIsSound` name it), and what it does to the next
session of the same manager; a task cancelled while it starts a worker in a
thread, whose process nobody owns (`nemotron_client.py:205`,
`subprocess_tts.py:176`); the overlap of two processes while one replaces the
other; a loss of power during the migration, another process beside it, and the
regeneration of its quality records.
