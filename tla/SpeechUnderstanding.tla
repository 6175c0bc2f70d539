------------------------ MODULE SpeechUnderstanding ------------------------
(***************************************************************************)
(* Speech understanding of one voice session                               *)
(* (app/compute/voice/speech_understanding.py): the streaming transcription *)
(* of a turn and the optional predictions about it, which share one ASR    *)
(* worker process (nemotron_client.py, nemotron_worker.py), and the tasks  *)
(* of the session that use and close it (session.py).                      *)
(*                                                                         *)
(* The recognition loop adds audio and finalizes turns, in its own task or *)
(* in a task of the overlap's; the predictor task takes one observation at *)
(* a time; run cancels the loop and closes what is left, while the loop    *)
(* may be closing it too.  Every action is the code between two awaits.    *)
(*                                                                         *)
(* Left out: what is recognised and predicted and the events that report   *)
(* it, and time: a timeout may expire whenever its task waits.             *)
(***************************************************************************)
EXTENDS Naturals, Sequences, FiniteSets

CONSTANTS
  MaxChunks,  \* bound on the audio chunks of one behaviour
  MaxFaults   \* bound on what goes wrong in the worker process

ASSUME UnderstandingAssumption ==
  /\ MaxChunks \in Nat \ {0}
  /\ MaxFaults \in Nat

VARIABLES
  run,        \* where VoiceSession.run is
  loop,       \* where the recognition loop is
  cancels,    \* the tasks that are cancelled and have not noticed
  fin,        \* the finalization of a turn: its place, and whether the loop
              \* runs it itself or has made a task of it
  close,      \* the one call of close that does something: its place, caller
  closed,
  chunks,     \* audio chunks added, the name of the newest observation
  predictor,  \* the optional predictor, its queue of one and its count
  degraded,   \* optional_predictor_degraded
  asr,        \* the transcription of the turn
  leased,     \* the manager's lock
  worker,     \* whether the manager has a process
  process,    \* that process, with what it has said
  faults

sessionVars == <<run, loop, cancels, fin, close, closed>>
predictorVars == <<chunks, predictor, degraded>>
managerVars == <<leased, worker>>
asrVars == <<asr, managerVars, process>>
vars == <<sessionVars, predictorVars, asrVars, faults>>

RunPlace == {"up", "closing", "joining", "over"}
LoopPlace == {"listen", "starting", "replacing", "failed", "stopping", "settle",
              "inline", "task", "resumed", "unwind", "leaving", "closing", "done"}

(* Where a finalization or a close waits: for the predictor, for the final *)
(* output, or for the process that replace terminates.                     *)
Waiting == {"stop", "asr", "replace"}

FreshAsr == [reader |-> "none", finished |-> FALSE, expected |-> {}, error |-> FALSE]

FreshProcess == [state |-> "idle", finishing |-> FALSE, events |-> <<>>]
NoProcess == [FreshProcess EXCEPT !.state = "dead"]

(* The manager has a process, or an earlier session has replaced it.       *)
Init ==
  /\ run = "up" /\ loop = "listen" /\ cancels = {}
  /\ fin = [at |-> "none", inline |-> TRUE]
  /\ close = [at |-> "none", by |-> "loop"] /\ closed = FALSE
  /\ chunks = 0
  /\ predictor = [task |-> "none", queue |-> {}, hand |-> 0, pending |-> 0,
                  settled |-> TRUE]
  /\ degraded = FALSE
  /\ asr = FreshAsr
  /\ leased = FALSE /\ worker \in BOOLEAN
  /\ process = IF worker THEN FreshProcess ELSE NoProcess
  /\ faults = 0

(* Everything that follows without another await has been done.            *)
Settled == loop # "leaving"

-----------------------------------------------------------------------------
(* The transcription a and its worker process.                             *)

(* replace: the manager forgets the process and terminates it in a thread; *)
(* the reader, to which nobody listens any more, ends.                     *)
Terminate(a) ==
  /\ worker' = FALSE
  /\ process' = NoProcess
  /\ asr' = [a EXCEPT !.reader = "error", !.finished = TRUE]

(* FINISH: a recognition that has ended with an error is joined at once.   *)
Asked(p) ==
  IF p.state = "ended" THEN [p EXCEPT !.state = "idle"]
  ELSE [p EXCEPT !.finishing = TRUE]

(* The command is sent, or the pipe is broken and the worker is replaced.  *)
SendFinish(a) ==
  IF process.state = "dead"
  THEN Terminate(a)
  ELSE /\ asr' = [a EXCEPT !.finished = TRUE]
       /\ process' = Asked(process)
       /\ UNCHANGED worker

AfterSend == IF process.state = "dead" THEN "replace" ELSE "asr"

-----------------------------------------------------------------------------
(* The optional predictor.                                                 *)

(* What is left of p when n observations are no longer pending.            *)
Fewer(p, n) == [p EXCEPT !.pending = @ - n, !.settled = @ \/ p.pending = n]

(* _discard_pending_predictions: the queue of the predictor, and what the  *)
(* transcription expects.                                                  *)
Discarded(p) == [Fewer(p, Cardinality(p.queue)) EXCEPT !.queue = {}]
Forgotten(obs) == [asr EXCEPT !.expected = @ \ obs]

(* _stop_optional_predictor: a task that has ended is awaited at no cost,  *)
(* another one is cancelled and awaited.                                   *)
Idle == predictor.task \in {"none", "ended"}
Cancelling == [predictor EXCEPT !.task = "cancelling"]
Stopped == Discarded([predictor EXCEPT !.task = "none"])

(* Mutant: the superseded observation stays counted.                       *)
Enqueued_Uncounted(p, n) ==
  [p EXCEPT !.task = IF @ = "none" THEN "waiting" ELSE @,
            !.queue = {n}, !.pending = @ + 1, !.settled = FALSE]

(* _enqueue_prediction: the queue holds one observation, the newest.       *)
Enqueued(p, n) ==
  [p EXCEPT !.task = IF @ = "none" THEN "waiting" ELSE @,
            !.queue = {n},
            !.pending = @ + 1 - Cardinality(p.queue),
            !.settled = FALSE]

(* The predictor is done with the observation in its hands.                *)
Done(p, task) == [Fewer(p, 1) EXCEPT !.hand = 0, !.task = task]

TakeObservation ==
  /\ Settled
  /\ predictor.task = "waiting"
  /\ \E n \in predictor.queue :
       LET taken == [predictor EXCEPT !.queue = {}, !.hand = n]
       IN  predictor' = IF asr.error THEN Done(taken, "ended")
                        ELSE [taken EXCEPT !.task = "predicting"]
  /\ degraded' = (degraded \/ asr.error)
  /\ UNCHANGED <<sessionVars, chunks, asrVars, faults>>

(* take_prediction returns the prediction, or nothing once it has waited   *)
(* long enough.                                                            *)
ObservationIsPredicted ==
  /\ Settled
  /\ predictor.task = "predicting"
  /\ ~asr.error
  /\ predictor' = Done(predictor, "waiting")
  /\ asr' = Forgotten({predictor.hand})
  /\ UNCHANGED <<sessionVars, chunks, degraded, managerVars, process, faults>>

(* The turn adapter of the worker has failed: the predictor discards what  *)
(* is queued and ends; nothing starts it again.                            *)
PredictorDegrades ==
  /\ Settled
  /\ predictor.task = "predicting"
  /\ asr.error
  /\ predictor' = Done(Discarded(predictor), "ended")
  /\ degraded' = TRUE
  /\ asr' = Forgotten(predictor.queue \cup {predictor.hand})
  /\ UNCHANGED <<sessionVars, chunks, managerVars, process, faults>>

PredictorCancelled ==
  /\ Settled
  /\ predictor.task = "cancelling"
  /\ predictor' = IF predictor.hand = 0 THEN [predictor EXCEPT !.task = "ended"]
                  ELSE Done(predictor, "ended")
  /\ asr' = Forgotten({predictor.hand})
  /\ UNCHANGED <<sessionVars, chunks, degraded, managerVars, process, faults>>

-----------------------------------------------------------------------------
(* The recognition loop adds audio.                                        *)

Listening == Settled /\ loop = "listen" /\ "loop" \notin cancels

AcceptsAudio ==
  /\ Listening
  /\ ~closed /\ ~asr.finished
  /\ chunks < MaxChunks
  /\ chunks' = chunks + 1

(* Observation n has been written to the worker.  Whether a prediction is  *)
(* expected of it depends on the cadence of the worker's frames; the first *)
(* speech of a turn and a degraded predictor discard the expectation.      *)
Observed(n) ==
  \E work \in {FALSE, ~degraded} :
    /\ predictor' = IF work THEN Enqueued(predictor, n) ELSE predictor
    /\ asr' = [asr EXCEPT
                 !.reader = IF @ = "none" THEN "reading" ELSE @,
                 !.expected = IF work THEN (@ \ predictor.queue) \cup {n} ELSE @]

(* add_audio of a transcription that has its worker or gets it at once.    *)
AddAudio ==
  /\ AcceptsAudio
  /\ asr.reader = "none" => worker
  /\ process.state # "dead"
  /\ leased' = TRUE
  /\ Observed(chunks + 1)
  /\ process' = [process EXCEPT !.state = IF @ = "idle" THEN "serving" ELSE @]
  /\ UNCHANGED <<sessionVars, degraded, worker, faults>>

(* The manager has no worker: one is started in a thread, under the lock.  *)
AddAudioStartsWorker ==
  /\ AcceptsAudio
  /\ asr.reader = "none" /\ ~worker
  /\ leased' = TRUE
  /\ loop' = "starting"
  /\ UNCHANGED <<run, cancels, fin, close, closed, predictor, degraded, asr,
                 worker, process, faults>>

WorkerStarts ==
  /\ loop = "starting"
  /\ "loop" \notin cancels
  /\ worker' = TRUE
  /\ process' = [FreshProcess EXCEPT !.state = "serving"]
  /\ loop' = "listen"
  /\ Observed(chunks)
  /\ UNCHANGED <<run, cancels, fin, close, closed, chunks, degraded, leased,
                 faults>>

WorkerDoesNotStart ==
  /\ loop = "starting"
  /\ "loop" \notin cancels
  /\ faults < MaxFaults
  /\ faults' = faults + 1
  /\ leased' = FALSE
  /\ loop' = "failed"
  /\ UNCHANGED <<run, cancels, fin, close, closed, predictorVars, asr, worker,
                 process>>

(* A send fails: _fail_worker replaces the process and returns the lease.  *)
AddAudioFails ==
  /\ AcceptsAudio
  /\ asr.reader = "none" => worker
  /\ process.state = "dead"
  /\ leased' = TRUE
  /\ Terminate(asr)
  /\ loop' = "replacing"
  /\ UNCHANGED <<run, cancels, fin, close, closed, predictor, degraded, faults>>

FailedWorkerReplaced ==
  /\ loop = "replacing"
  /\ leased' = FALSE
  /\ loop' = IF "loop" \in cancels THEN "leaving" ELSE "failed"
  /\ cancels' = cancels \ {"loop"}
  /\ UNCHANGED <<run, fin, close, closed, predictorVars, asr, worker, process,
                 faults>>

(* The error reaches add_audio of the understanding session, which stops   *)
(* the predictor before it raises it again.                                *)
AddAudioRaises ==
  /\ loop \in {"failed", "stopping"}
  /\ IF Idle
     THEN /\ predictor' = Stopped
          /\ asr' = Forgotten(predictor.queue)
          /\ loop' = "leaving"
          /\ cancels' = cancels \ {"loop"}
     ELSE /\ loop = "failed"
          /\ predictor' = Cancelling
          /\ loop' = "stopping"
          /\ UNCHANGED <<asr, cancels>>
  /\ UNCHANGED <<run, fin, close, closed, chunks, degraded, managerVars, process,
                 faults>>

(* settle_predictions, before the endpoint of an overlap is judged.        *)
Settle ==
  /\ Listening
  /\ ~degraded /\ predictor.pending > 0
  /\ loop' = "settle"
  /\ UNCHANGED <<run, cancels, fin, close, closed, predictorVars, asrVars, faults>>

SettleEnds ==
  /\ loop = "settle"
  /\ "loop" \notin cancels
  /\ loop' = "listen"
  /\ UNCHANGED <<run, cancels, fin, close, closed, predictorVars, asrVars, faults>>

(* The end of the audio, an error elsewhere in the loop, audio after the   *)
(* session has been closed, or the loop's cancellation.                    *)
LoopLeaves ==
  /\ loop \in {"listen", "settle", "starting"}
  /\ loop = "listen" \/ "loop" \in cancels
  /\ loop' = "leaving"
  /\ cancels' = cancels \ {"loop"}
  /\ leased' = (leased /\ loop # "starting")
  /\ UNCHANGED <<run, fin, close, closed, predictorVars, asr, worker, process,
                 faults>>

-----------------------------------------------------------------------------
(* finalize_turn.  The loop runs it itself, or makes a task of it and      *)
(* waits for that with a grace.                                            *)

FinCancelled == (IF fin.inline THEN "loop" ELSE "fin") \in cancels
Noticed == cancels \ {IF fin.inline THEN "loop" ELSE "fin"}

FinSucceeds ==
  /\ fin' = [fin EXCEPT !.at = "done"]
  /\ loop' = IF fin.inline THEN "listen" ELSE loop

FinRaises ==
  /\ fin' = [fin EXCEPT !.at = "failed"]
  /\ loop' = IF fin.inline THEN "leaving" ELSE loop

(* transcription.finish, with the predictor stopped: a second call is      *)
(* refused.                                                                *)
FinishTranscription ==
  LET a == Forgotten(predictor.queue)
  IN  /\ predictor' = Stopped
      /\ IF asr.finished
         THEN FinRaises /\ asr' = a /\ UNCHANGED <<worker, process>>
         ELSE /\ SendFinish(a)
              /\ fin' = [fin EXCEPT !.at = AfterSend]
              /\ UNCHANGED loop

(* Finalization begins with the predictor.                                 *)
StopPredictor ==
  /\ predictor' = Cancelling
  /\ fin' = [fin EXCEPT !.at = "stop"]
  /\ UNCHANGED <<loop, asr, worker, process>>

Finalize ==
  /\ Listening
  /\ ~closed
  /\ fin.at \notin Waiting \cup {"new"}
  /\ asr.reader # "none"
  /\ \/ /\ loop' = "inline"
        /\ fin' = [at |-> "new", inline |-> TRUE]
     \/ /\ loop' = "task"
        /\ fin' = [at |-> "new", inline |-> FALSE]
  /\ UNCHANGED <<run, cancels, close, closed, predictorVars, asrVars, faults>>

(* The loop goes on at once; a task starts later, and may be cancelled or  *)
(* find the session closed by then.                                        *)
FinBegins ==
  /\ Settled
  /\ fin.at = "new"
  /\ IF ~fin.inline /\ (FinCancelled \/ closed)
     THEN /\ FinRaises
          /\ cancels' = Noticed
          /\ UNCHANGED <<predictor, asr, worker, process>>
     ELSE /\ IF Idle THEN FinishTranscription ELSE StopPredictor
          /\ UNCHANGED cancels
  /\ UNCHANGED <<run, close, closed, chunks, degraded, leased, faults>>

(* The predictor has ended.  Its CancelledError is suppressed, and with it *)
(* a cancellation of the finalization itself.                              *)
FinStopped ==
  /\ Settled
  /\ fin.at = "stop"
  /\ Idle
  /\ FinishTranscription
  /\ cancels' = IF FinCancelled /\ (fin.inline \/ loop = "resumed")
                THEN Noticed \cup {"lost"} ELSE Noticed
  /\ UNCHANGED <<run, close, closed, chunks, degraded, leased, faults>>

(* The next turn gets a transcription of its own.                          *)
FinHears ==
  /\ Settled
  /\ fin.at = "asr"
  /\ asr.reader = "final" /\ ~FinCancelled
  /\ asr' = FreshAsr
  /\ leased' = FALSE
  /\ FinSucceeds
  /\ UNCHANGED <<run, cancels, close, closed, predictorVars, worker, process,
                 faults>>

(* The reader has failed, the timeout has expired, or the finalization is  *)
(* cancelled.                                                              *)
FinGivesUp ==
  /\ Settled
  /\ fin.at = "asr"
  /\ asr.reader # "final" \/ FinCancelled
  /\ Terminate(asr)
  /\ fin' = [fin EXCEPT !.at = "replace"]
  /\ cancels' = Noticed
  /\ UNCHANGED <<run, loop, close, closed, predictorVars, leased, faults>>

(* Mutant: the lease of a replaced process is kept.                        *)
FinReplaced_Kept ==
  /\ Settled
  /\ fin.at = "replace"
  /\ FinRaises
  /\ cancels' = Noticed
  /\ UNCHANGED <<run, close, closed, predictorVars, asrVars, faults>>

FinReplaced ==
  /\ Settled
  /\ fin.at = "replace"
  /\ leased' = FALSE
  /\ FinRaises
  /\ cancels' = Noticed
  /\ UNCHANGED <<run, close, closed, predictorVars, asr, worker, process, faults>>

(* The grace has expired: the answer is resumed before the turn's text is  *)
(* known, or the resume cannot be sent and the finalization is left alone. *)
GraceEnds ==
  /\ loop = "task"
  /\ fin.at \in Waiting
  /\ "loop" \notin cancels
  /\ loop' \in {"resumed", "leaving"}
  /\ UNCHANGED <<run, cancels, fin, close, closed, predictorVars, asrVars, faults>>

(* The loop goes on with the result of its task, or is cancelled and       *)
(* cancels the task in turn.                                               *)
LoopHearsFin ==
  /\ loop \in {"task", "resumed", "unwind"}
  /\ fin.at \in {"done", "failed"}
  /\ loop' = IF fin.at = "failed" \/ loop = "unwind" \/ "loop" \in cancels
             THEN "leaving" ELSE "listen"
  /\ cancels' = cancels \ {"loop", "fin"}
  /\ UNCHANGED <<run, fin, close, closed, predictorVars, asrVars, faults>>

LoopUnwinds ==
  /\ loop \in {"task", "resumed"}
  /\ fin.at \in Waiting \cup {"new"}
  /\ "loop" \in cancels
  /\ loop' = "unwind"
  /\ cancels' = (cancels \ {"loop"}) \cup {"fin"}
  /\ UNCHANGED <<run, fin, close, closed, predictorVars, asrVars, faults>>

-----------------------------------------------------------------------------
(* The end of the session: the loop closes what it used when it leaves,    *)
(* and run closes it too.                                                  *)

(* An error of close ends run before it has joined its tasks.              *)
CloseEnds(raised) ==
  /\ close' = [close EXCEPT !.at = "over"]
  /\ IF close.by = "loop"
     THEN loop' = "done" /\ UNCHANGED run
     ELSE run' = (IF raised THEN "over" ELSE "joining") /\ UNCHANGED loop

(* Mutant: close does not see that the transcription is being finished.    *)
CloseTranscription_Twice ==
  IF asr.reader = "none"
  THEN /\ asr' = Forgotten(predictor.queue)
       /\ CloseEnds(FALSE)
       /\ UNCHANGED <<worker, process>>
  ELSE /\ SendFinish(Forgotten(predictor.queue))
       /\ close' = [close EXCEPT !.at = AfterSend]
       /\ UNCHANGED <<run, loop>>

CloseTranscription ==
  IF asr.reader = "none" \/ asr.finished
  THEN /\ asr' = Forgotten(predictor.queue)
       /\ CloseEnds(FALSE)
       /\ UNCHANGED <<worker, process>>
  ELSE /\ SendFinish(Forgotten(predictor.queue))
       /\ close' = [close EXCEPT !.at = AfterSend]
       /\ UNCHANGED <<run, loop>>

LoopCloses ==
  /\ loop = "leaving"
  /\ closed' = TRUE
  /\ IF closed
     THEN loop' = "done" /\ UNCHANGED close
     ELSE loop' = "closing" /\ close' = [at |-> "new", by |-> "loop"]
  /\ UNCHANGED <<run, cancels, fin, predictorVars, asrVars, faults>>

RunCloses ==
  /\ Settled
  /\ run = "closing"
  /\ close.by = "loop"
  /\ closed' = TRUE
  /\ IF closed
     THEN run' = "joining" /\ UNCHANGED close
     ELSE close' = [at |-> "new", by |-> "run"] /\ UNCHANGED run
  /\ UNCHANGED <<loop, cancels, fin, predictorVars, asrVars, faults>>

(* close itself: the predictor, then the transcription.                    *)
CloseStopsPredictor ==
  /\ close.at = "new"
  /\ ~Idle
  /\ predictor' = Cancelling
  /\ close' = [close EXCEPT !.at = "stop"]
  /\ UNCHANGED <<run, loop, cancels, fin, closed, chunks, degraded, asrVars, faults>>

CloseGoesOn ==
  /\ close.at \in {"new", "stop"}
  /\ Idle
  /\ predictor' = Stopped
  /\ CloseTranscription
  /\ UNCHANGED <<cancels, fin, closed, chunks, degraded, leased, faults>>

CloseHears ==
  /\ close.at = "asr"
  /\ asr.reader = "final"
  /\ leased' = FALSE
  /\ CloseEnds(FALSE)
  /\ UNCHANGED <<cancels, fin, closed, predictorVars, asr, worker, process, faults>>

CloseGivesUp ==
  /\ close.at = "asr"
  /\ asr.reader # "final" \/ (close.by = "loop" /\ "loop" \in cancels)
  /\ Terminate(asr)
  /\ close' = [close EXCEPT !.at = "replace"]
  /\ UNCHANGED <<run, loop, cancels, fin, closed, predictorVars, leased, faults>>

CloseReplaced ==
  /\ close.at = "replace"
  /\ leased' = FALSE
  /\ CloseEnds(TRUE)
  /\ UNCHANGED <<cancels, fin, closed, predictorVars, asr, worker, process, faults>>

(* The session stops, for any reason: the loop is cancelled, or the task   *)
(* it awaits.                                                              *)
Shutdown ==
  /\ Settled
  /\ run = "up"
  /\ run' = "closing"
  /\ cancels' = cancels \cup
       (IF loop = "done" THEN {}
        ELSE IF loop = "resumed" /\ fin.at \in Waiting THEN {"fin"} ELSE {"loop"})
  /\ UNCHANGED <<loop, fin, close, closed, predictorVars, asrVars, faults>>

RunJoins ==
  /\ run = "joining"
  /\ loop = "done"
  /\ run' = "over"
  /\ UNCHANGED <<loop, cancels, fin, close, closed, predictorVars, asrVars, faults>>

-----------------------------------------------------------------------------
(* The reader of the pipe (_read_output) and the worker program.           *)

ReaderHears ==
  /\ Settled
  /\ asr.reader = "reading"
  /\ process.events # <<>>
  /\ process' = [process EXCEPT !.events = Tail(@)]
  /\ LET event == Head(process.events)
     IN  asr' = IF event = "degraded" THEN [asr EXCEPT !.error = TRUE]
                ELSE [asr EXCEPT !.reader = event]
  /\ UNCHANGED <<sessionVars, predictorVars, managerVars, faults>>

ReaderMeetsEnd ==
  /\ Settled
  /\ asr.reader = "reading"
  /\ process.state = "dead" /\ process.events = <<>>
  /\ asr' = [asr EXCEPT !.reader = "error"]
  /\ UNCHANGED <<sessionVars, predictorVars, managerVars, process, faults>>

Says(p, event) == [p EXCEPT !.events = Append(@, event)]

(* The recognition ends once all audio is read, or with an error; after    *)
(* FINISH the program joins it and waits for the next START.               *)
RecognitionEnds ==
  /\ Settled
  /\ process.state = "serving"
  /\ process.finishing
  /\ process' = Says([process EXCEPT !.state = "idle", !.finishing = FALSE], "final")
  /\ UNCHANGED <<sessionVars, predictorVars, asr, managerVars, faults>>

RecognitionFails ==
  /\ Settled
  /\ process.state = "serving"
  /\ faults < MaxFaults
  /\ faults' = faults + 1
  /\ process' = Says([process EXCEPT !.state = IF process.finishing THEN "idle" ELSE "ended",
                                     !.finishing = FALSE], "error")
  /\ UNCHANGED <<sessionVars, predictorVars, asr, managerVars>>

(* The turn adapter gives up for the rest of the recognition.              *)
AdapterDegrades ==
  /\ Settled
  /\ process.state = "serving"
  /\ faults < MaxFaults
  /\ process.events = <<>> /\ ~asr.error
  /\ faults' = faults + 1
  /\ process' = Says(process, "degraded")
  /\ UNCHANGED <<sessionVars, predictorVars, asr, managerVars>>

WorkerDies ==
  /\ Settled
  /\ process.state # "dead"
  /\ faults < MaxFaults
  /\ faults' = faults + 1
  /\ process' = [process EXCEPT !.state = "dead", !.finishing = FALSE]
  /\ UNCHANGED <<sessionVars, predictorVars, asr, managerVars>>

-----------------------------------------------------------------------------
Predictor ==
  \/ TakeObservation \/ ObservationIsPredicted \/ PredictorDegrades
  \/ PredictorCancelled

(* What the loop does because of the audio it hears.                       *)
Hearing ==
  \/ AddAudio \/ AddAudioStartsWorker \/ AddAudioFails \/ Settle \/ Finalize

Finalization ==
  \/ FinBegins \/ FinStopped \/ FinHears \/ FinGivesUp \/ FinReplaced

LoopGoesOn ==
  \/ WorkerStarts \/ FailedWorkerReplaced \/ AddAudioRaises \/ SettleEnds
  \/ LoopHearsFin \/ LoopUnwinds \/ LoopCloses
  \/ ("loop" \in cancels /\ LoopLeaves)

Closing ==
  \/ CloseStopsPredictor \/ CloseGoesOn \/ CloseHears \/ CloseGivesUp
  \/ CloseReplaced \/ RunCloses \/ RunJoins

WorkerProgram ==
  \/ RecognitionEnds \/ RecognitionFails \/ AdapterDegrades \/ WorkerDies

Next ==
  \/ Hearing \/ Predictor \/ Finalization \/ LoopGoesOn \/ Closing
  \/ ReaderHears \/ ReaderMeetsEnd \/ WorkerProgram
  \/ WorkerDoesNotStart \/ GraceEnds \/ LoopLeaves \/ Shutdown

Spec == Init /\ [][Next]_vars

(* asyncio runs every ready task and timeouts expire, so that each of the  *)
(* tasks goes on; the reader and the worker may hang, and neither the user *)
(* nor the end of the session is obliged to come.                          *)
FairSpec ==
  /\ Spec
  /\ WF_vars(Predictor)
  /\ WF_vars(Finalization)
  /\ WF_vars(LoopGoesOn)
  /\ WF_vars(Closing)

-----------------------------------------------------------------------------
TypeOK ==
  /\ run \in RunPlace
  /\ loop \in LoopPlace
  /\ cancels \subseteq {"loop", "fin", "lost"}
  /\ fin \in [at : Waiting \cup {"none", "new", "done", "failed"}, inline : BOOLEAN]
  /\ close \in [at : Waiting \cup {"none", "new", "over"}, by : {"loop", "run"}]
  /\ closed \in BOOLEAN
  /\ chunks \in 0 .. MaxChunks
  /\ predictor \in [task : {"none", "waiting", "predicting", "cancelling", "ended"},
                    queue : SUBSET (1 .. MaxChunks), hand : 0 .. MaxChunks,
                    pending : Nat, settled : BOOLEAN]
  /\ degraded \in BOOLEAN
  /\ asr \in [reader : {"none", "reading", "final", "error"}, finished : BOOLEAN,
              expected : SUBSET (1 .. MaxChunks), error : BOOLEAN]
  /\ leased \in BOOLEAN /\ worker \in BOOLEAN
  /\ process \in [state : {"idle", "serving", "ended", "dead"}, finishing : BOOLEAN,
                  events : Seq({"degraded", "final", "error"})]
  /\ faults \in 0 .. MaxFaults

(* pending_prediction_count is the number of observations that are queued  *)
(* or in the predictor's hands, through supersession, discards, failures   *)
(* and cancellations, and predictions_settled tells when it is zero, so    *)
(* that settle_predictions neither waits for nothing nor misses one        *)
(* (speech_understanding.py:542-550).  As long as the predictor works, the *)
(* transcription expects exactly the predictions it is asked for.  That    *)
(* supersession is silent is what the code does (534-540) and its test     *)
(* pins; the prototype's document has it otherwise: OverflowDegrades.      *)
PendingIsCounted ==
  LET inHand == {predictor.hand} \ {0}
  IN  /\ Cardinality(predictor.queue) <= 1
      /\ predictor.pending = Cardinality(predictor.queue) + Cardinality(inHand)
      /\ predictor.settled = (predictor.pending = 0)
      /\ ~degraded /\ ~asr.finished => asr.expected = predictor.queue \cup inHand

(* Who holds the manager's lock while it waits for the process.            *)
LoopHolds == loop \in {"starting", "replacing"}
FinHolds == fin.at \in {"asr", "replace"}
CloseHolds == close.at \in {"asr", "replace"}

(* The loop, its finalization, a finalization that has outlived the loop   *)
(* and two callers of close share one transcription.  At most one of them  *)
(* waits for its worker; the lease is held by that one or by a turn whose  *)
(* audio is still coming in, and never otherwise; a process that the next  *)
(* turn can take has nothing to say about an earlier one; and a session    *)
(* that is over holds the lease only through a finalization that still     *)
(* runs.  The assertions of release and replace (nemotron_client.py:219 to *)
(* 228) then hold.                                                         *)
AsrLeaseIsSound ==
  /\ ~(LoopHolds /\ FinHolds) /\ ~(LoopHolds /\ CloseHolds)
  /\ ~(FinHolds /\ CloseHolds)
  /\ leased <=> \/ LoopHolds \/ FinHolds \/ CloseHolds
                \/ asr.reader # "none" /\ ~asr.finished
  /\ ~leased /\ worker /\ process.state # "dead" => process = FreshProcess
  /\ run = "over" /\ leased => FinHolds

(* docs/streaming-voice-agent-prototype.md: the queue "holds 64 encoder     *)
(* observations" and its "overflow is an acoustic continuity failure: it   *)
(* cancels and disables the standalone detector for the conversation       *)
(* rather than continuing recurrent state across a gap."  No observation   *)
(* that is queued gives way to another while the detector goes on.         *)
OverflowDegrades ==
  [][predictor'.queue \in {{}, predictor.queue} \/ predictor.queue = {} \/ degraded']_vars

(* A cancellation that was lost with the predictor's: the loop goes on to  *)
(* listen, to a client that no longer sends.                               *)
Stranded == run = "joining" /\ loop = "listen" /\ "lost" \in cancels

(* A session that shuts down ends and gives the worker back, however its   *)
(* loop, its finalization and its predictor were placed and whatever the   *)
(* worker does, unless the cancellation of its loop was swallowed while it *)
(* waited for the predictor (speech_understanding.py:618-619).  That such  *)
(* a session stays contradicts the prototype's document, which releases    *)
(* admission after every stop: AdmissionReleased of SessionLifecycle is    *)
(* the claim without the exception, and a run shows it violated.           *)
ShutdownEnds ==
  (run = "closing") ~> (~leased /\ (run = "over" \/ Stranded))

=============================================================================
