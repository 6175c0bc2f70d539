--------------------- MODULE SpeechUnderstanding_proofs ---------------------
(***************************************************************************)
(* Proofs about SpeechUnderstanding, for any number of audio chunks and of *)
(* faults of the worker: the type invariant, that the lease of the ASR     *)
(* worker is held by whoever waits for it and by nobody else, and that the *)
(* pending predictions are counted.                                        *)
(*                                                                         *)
(* The inductive invariant has four parts beside the types: where the      *)
(* tasks of the session can be together (PlacesInv), what the pipe of the  *)
(* worker can hold for each state of its reader (PipeInv), who may hold the*)
(* lease (HoldersInv), and the predictor's count (CountInv).  One lemma    *)
(* per part shows that a step keeps it, by cases on the actions.           *)
(***************************************************************************)
EXTENDS SpeechUnderstanding, FiniteSetTheorems, SequenceTheorems, TLAPS

(* A finalization or a close that has begun and not ended.                 *)
FinActive == fin.at \in Waiting \cup {"new"}
CloseActive == close.at \in Waiting \cup {"new"}

(* Where the loop, the finalization, close and run can be together: the    *)
(* loop is inside the finalization or the close that it runs itself, a     *)
(* finalization in a task of its own outlives the loop only once the loop  *)
(* leaves, and run goes on only when the session is closed.                *)
PlacesInv ==
  /\ loop = "inline" <=> fin.inline /\ FinActive
  /\ loop \in {"task", "resumed", "unwind"} => ~fin.inline /\ fin.at # "none"
  /\ ~fin.inline /\ FinActive =>
       loop \in {"task", "resumed", "unwind", "leaving", "closing", "done"}
  /\ closed <=> close.at # "none"
  /\ loop = "closing" <=> close.by = "loop" /\ CloseActive
  /\ closed /\ close.by = "loop" => loop \in {"closing", "done"}
  /\ close.by = "run" => closed
  /\ loop = "done" => closed
  /\ close.by = "run" => run # "up"
  /\ close.by = "run" /\ CloseActive => run = "closing"
  /\ run \in {"joining", "over"} => closed
  /\ run = "joining" => close.at = "over" \/ loop = "closing"
  /\ run = "over" => close.at = "over" /\ ~LoopHolds

(* The events of a recognition that goes on, and of one that ended with e. *)
Clear == {<<>>, <<"degraded">>}
Ends(e) == {<<e>>, <<"degraded", e>>}
Quiet == process.events = <<>> /\ ~process.finishing

(* What the pipe holds for each state of the reader: nothing of an earlier *)
(* turn before the first chunk and after the final output, at most one end *)
(* of the recognition in between, and FINISH only once the transcription   *)
(* is finished.                                                            *)
PipeInv ==
  /\ ~worker => process = NoProcess
  /\ process.state = "dead" => ~process.finishing
  /\ asr.reader = "none" =>
       Quiet /\ ~asr.finished /\ process.state \in {"idle", "dead"}
  /\ asr.reader = "final" =>
       worker /\ asr.finished /\ Quiet /\ process.state \in {"idle", "dead"}
  /\ asr.reader = "reading" /\ ~asr.finished =>
       /\ worker
       /\ ~process.finishing
       /\ \/ process.state = "serving" /\ process.events \in Clear
          \/ process.state = "ended" /\ process.events \in Ends("error")
          \/ process.state = "dead"
             /\ process.events \in Clear \cup Ends("error")
  /\ asr.reader = "reading" /\ asr.finished =>
       /\ worker
       /\ \/ process.state = "serving" /\ process.finishing /\ process.events \in Clear
          \/ /\ process.state = "idle" /\ ~process.finishing
             /\ process.events \in Ends("error") \cup Ends("final")
          \/ process.state = "dead"
             /\ process.events \in Clear \cup Ends("error") \cup Ends("final")
  /\ asr.reader = "error" /\ ~asr.finished =>
       worker /\ Quiet /\ process.state \in {"ended", "dead"}
  /\ asr.reader = "error" /\ asr.finished =>
       \/ ~worker
       \/ /\ fin.at = "asr" \/ close.at = "asr"
          /\ Quiet /\ process.state \in {"idle", "dead"}
  /\ asr.reader = "reading" /\ asr.finished => fin.at = "asr" \/ close.at = "asr"

(* Who holds the lease, and what the transcription is like while somebody  *)
(* does.  No worker is started in a session that shuts down: the loop is   *)
(* cancelled, or its cancellation was lost in a finalization that leaves   *)
(* it a worker.                                                            *)
HoldersInv ==
  /\ FinHolds \/ CloseHolds => asr.finished /\ asr.reader # "none"
  /\ fin.at = "replace" \/ close.at = "replace" => ~worker
  /\ ~(FinHolds /\ CloseHolds)
  /\ ~(LoopHolds /\ (FinHolds \/ CloseHolds))
  /\ loop = "starting" => asr.reader = "none" /\ ~worker
  /\ loop = "replacing" => asr.finished /\ ~worker
  /\ FinActive => asr.reader # "none"
  /\ close.at = "over" => asr.reader = "none" \/ asr.finished
  /\ loop = "starting" /\ run # "up" => "loop" \in cancels
  /\ run # "up" /\ ~closed /\ "loop" \notin cancels /\ loop \in {"listen", "settle"}
       => worker
  /\ fin.at = "done" /\ loop \in {"task", "resumed"} /\ ~closed => worker
  /\ leased <=> \/ LoopHolds \/ FinHolds \/ CloseHolds
                \/ asr.reader # "none" /\ ~asr.finished

Queued == IF predictor.queue = {} THEN 0 ELSE 1
InHand == IF predictor.hand = 0 THEN 0 ELSE 1

(* The queue holds at most the newest observation, which is not the one in *)
(* the predictor's hands, and both are counted.                            *)
CountInv ==
  /\ \A m, n \in predictor.queue : m = n
  /\ predictor.queue \subseteq 1 .. chunks
  /\ predictor.hand \in 0 .. chunks \ predictor.queue
  /\ predictor.pending = Queued + InHand
  /\ predictor.settled = (predictor.pending = 0)
  /\ predictor.task \in {"none", "waiting", "ended"} => predictor.hand = 0
  /\ predictor.task = "predicting" => predictor.hand # 0
  /\ predictor.task = "none" => predictor.queue = {}
  /\ asr.reader = "none" \/ FinHolds => predictor.queue = {} /\ predictor.hand = 0
  /\ loop = "starting" => chunks > 0
  /\ ~degraded /\ ~asr.finished =>
       asr.expected = predictor.queue \cup ({predictor.hand} \ {0})


(* Sequences of one and of two events.                                     *)
LEMMA OneEvent ==
  ASSUME NEW e
  PROVE  <<e>> # <<>> /\ Head(<<e>>) = e /\ Tail(<<e>>) = <<>>
  OBVIOUS

LEMMA TwoEvents ==
  ASSUME NEW d, NEW e
  PROVE  <<d, e>> # <<>> /\ Head(<<d, e>>) = d /\ Tail(<<d, e>>) = <<e>>
  OBVIOUS

LEMMA AppendOne ==
  ASSUME NEW e
  PROVE  Append(<<>>, e) = <<e>>
  OBVIOUS

LEMMA AppendTwo ==
  ASSUME NEW d, NEW e
  PROVE  Append(<<d>>, e) = <<d, e>>
  <1> DEFINE S == {d, e}
             a == Append(<<d>>, e)
             b == <<d, e>>
  <1>1. <<d>> \in Seq(S) /\ b \in Seq(S) /\ e \in S /\ Len(b) = 2 /\ b[1] = d /\ b[2] = e
    OBVIOUS
  <1>2. a \in Seq(S) /\ Len(a) = 2
    BY <1>1, AppendProperties
  <1>3. a[1] = d /\ a[2] = e
    BY <1>1, AppendProperties
  <1> HIDE DEF a, b
  <1>4. \A i \in 1 .. Len(a) : a[i] = b[i]
    BY <1>1, <1>2, <1>3
  <1>5. a = b
    BY <1>1, <1>2, <1>4, SeqEqual
  <1> QED
    BY <1>5 DEF a, b

(* What SendFinish does to the transcription, the process and the manager. *)
LEMMA FinishSent ==
  ASSUME TypeOK, NEW obs, SendFinish(Forgotten(obs))
  PROVE  /\ asr'.finished
         /\ process.state = "dead" =>
              worker' = FALSE /\ process' = NoProcess /\ asr'.reader = "error"
         /\ process.state # "dead" =>
              /\ worker' = worker
              /\ asr'.reader = asr.reader
              /\ process'.events = process.events
              /\ process'.state = IF process.state = "ended" THEN "idle" ELSE process.state
              /\ process'.finishing = (process.finishing \/ process.state # "ended")
  BY DEF TypeOK, SendFinish, Forgotten, Asked, Terminate


(* A set whose members are all equal has at most one.                      *)
LEMMA AtMostOne ==
  ASSUME NEW S, \A m, n \in S : m = n
  PROVE  Cardinality(S) = IF S = {} THEN 0 ELSE 1
  <1>1. CASE S = {}
    BY <1>1, FS_EmptySet
  <1>2. CASE S # {}
    <2>1. PICK x \in S : TRUE
      BY <1>2
    <2>2. S = {x}
      BY <2>1
    <2> QED
      BY <1>2, <2>2, FS_Singleton
  <1> QED
    BY <1>1, <1>2

(* The observations in the predictor's queue.                              *)
LEMMA QueueCounted ==
  ASSUME CountInv
  PROVE  Cardinality(predictor.queue) = Queued
  BY AtMostOne DEF CountInv, Queued

Predictors ==
  [task : {"none", "waiting", "predicting", "cancelling", "ended"},
   queue : SUBSET (1 .. MaxChunks), hand : 0 .. MaxChunks,
   pending : Int, settled : BOOLEAN]
Asrs == [reader : {"none", "reading", "final", "error"}, finished : BOOLEAN,
         expected : SUBSET (1 .. MaxChunks), error : BOOLEAN]
Processes == [state : {"idle", "serving", "ended", "dead"}, finishing : BOOLEAN,
              events : Seq({"degraded", "final", "error"})]
Fins == [at : Waiting \cup {"none", "new", "done", "failed"}, inline : BOOLEAN]
Closes == [at : Waiting \cup {"none", "new", "over"}, by : {"loop", "run"}]

(* The types of the predictor's updates; that pending is not negative is   *)
(* CountInv's business.                                                    *)
LEMMA FewerTyped ==
  ASSUME NEW p \in Predictors, NEW n \in Int
  PROVE  Fewer(p, n) \in Predictors
  <1>1. (p.settled \/ p.pending = n) \in BOOLEAN
    OBVIOUS
  <1>2. p.pending - n \in Int
    BY DEF Predictors
  <1> QED
    BY <1>1, <1>2 DEF Predictors, Fewer

LEMMA DoneTyped ==
  ASSUME NEW p \in Predictors, NEW task \in {"waiting","ended"}
  PROVE  Done(p, task) \in Predictors
  <1>1. Fewer(p,1) \in Predictors
    BY FewerTyped
  <1>2. 0 \in 0 .. MaxChunks
    BY UnderstandingAssumption
  <1>3. [Fewer(p, 1) EXCEPT !.hand = 0, !.task = task] \in Predictors
    BY <1>1, <1>2 DEF Predictors
  <1> QED
    BY <1>3 DEF Done

LEMMA DiscardedTyped ==
  ASSUME NEW p \in Predictors, Cardinality(p.queue) \in Int
  PROVE  Discarded(p) \in Predictors
  <1>1. Fewer(p,Cardinality(p.queue)) \in Predictors
    BY FewerTyped
  <1> QED
    BY <1>1 DEF Predictors, Discarded

LEMMA EnqueuedTyped ==
  ASSUME NEW p \in Predictors, Cardinality(p.queue) \in Int, NEW n \in
         1..MaxChunks
  PROVE  Enqueued(p,n) \in Predictors
  <1>1. p.pending + 1 - Cardinality(p.queue) \in Int
    BY DEF Predictors
  <1> QED
    BY <1>1 DEF Predictors, Enqueued

LEMMA StoppedTyped ==
  ASSUME predictor \in Predictors, Cardinality(predictor.queue) \in Int
  PROVE  Stopped \in Predictors
  <1>1. [predictor EXCEPT !.task = "none"] \in Predictors /\ [predictor EXCEPT !.task = "none"].queue = predictor.queue
    BY DEF Predictors
  <1> QED
    BY <1>1, DiscardedTyped DEF Stopped

LEMMA CancellingTyped ==
  ASSUME predictor \in Predictors
  PROVE  Cancelling \in Predictors
  BY DEF Predictors, Cancelling

(* The types of the process's and of the transcription's updates.          *)
LEMMA FreshTyped ==
  /\ FreshProcess \in Processes
  /\ NoProcess \in Processes
  /\ [FreshProcess EXCEPT !.state = "serving"] \in Processes
  <1>1. <<>> \in Seq({"degraded", "final", "error"})
    OBVIOUS
  <1>2. FreshProcess \in Processes
    BY <1>1 DEF FreshProcess, Processes
  <1> QED
    BY <1>2 DEF NoProcess, Processes

LEMMA AskedTyped ==
  ASSUME NEW p \in Processes
  PROVE  Asked(p) \in Processes
  BY DEF Processes, Asked

LEMMA SaysTyped ==
  ASSUME NEW p \in Processes, NEW e \in {"degraded", "final", "error"}
  PROVE  Says(p, e) \in Processes
  <1>1. Append(p.events, e) \in Seq({"degraded", "final", "error"})
    BY DEF Processes
  <1> QED
    BY <1>1 DEF Processes, Says

LEMMA ForgottenTyped ==
  ASSUME asr \in Asrs, NEW obs
  PROVE  Forgotten(obs) \in Asrs
  BY DEF Asrs, Forgotten

LEMMA TerminateTyped ==
  ASSUME NEW a \in Asrs, Terminate(a)
  PROVE  asr' \in Asrs /\ process' \in Processes /\ worker' \in BOOLEAN
  <1>1. [a EXCEPT !.reader = "error", !.finished = TRUE] \in Asrs
    BY DEF Asrs
  <1> QED
    BY <1>1, FreshTyped DEF Terminate

LEMMA SendTyped ==
  ASSUME NEW a \in Asrs, process \in Processes, worker \in BOOLEAN,
         SendFinish(a)
  PROVE  asr' \in Asrs /\ process' \in Processes /\ worker' \in BOOLEAN
  <1>1. [a EXCEPT !.finished = TRUE] \in Asrs
    BY DEF Asrs
  <1> QED
    BY <1>1, AskedTyped, TerminateTyped DEF SendFinish

LEMMA FinishTyped ==
  ASSUME asr \in Asrs, process \in Processes, worker \in BOOLEAN,
         FinishTranscription
  PROVE  asr' \in Asrs /\ process' \in Processes /\ worker' \in BOOLEAN
  <1>1. Forgotten(predictor.queue) \in Asrs
    BY ForgottenTyped
  <1> QED
    BY <1>1, SendTyped DEF FinishTranscription

(* What is left of the predictor once it has been stopped.                 *)
LEMMA StoppedCounts ==
  ASSUME TypeOK, CountInv, Idle
  PROVE  /\ Stopped.task = "none" /\ Stopped.queue = {} /\ Stopped.hand = 0
         /\ Stopped.pending = 0 /\ Stopped.settled = (Stopped.pending = 0)
  <1>1. predictor.hand = 0 /\ predictor.pending = Cardinality(predictor.queue)
    BY QueueCounted DEF Idle, CountInv, InHand, Queued
  <1>2. predictor.settled = (predictor.pending = 0)
    BY DEF CountInv
  <1>3. predictor.pending - predictor.pending = 0
    BY DEF TypeOK
  <1>4. predictor.settled \/ predictor.pending = predictor.pending
    OBVIOUS
  <1>5. /\ Stopped.task = "none" /\ Stopped.queue = {} /\ Stopped.hand = 0
        /\ Stopped.pending = 0 /\ Stopped.settled = TRUE
    BY <1>1, <1>2, <1>3, <1>4 DEF TypeOK, Stopped, Discarded, Fewer
  <1>6. (Stopped.pending = 0) = TRUE
    BY <1>5
  <1> QED
    BY <1>5, <1>6

(* The predictor after a new observation.                                  *)
LEMMA EnqueuedCounts ==
  ASSUME TypeOK, CountInv, NEW n, n \notin {0, predictor.hand}
  PROVE  LET p == Enqueued(predictor, n)
         IN  /\ p.queue = {n} /\ p.hand = predictor.hand /\ p.settled = FALSE
             /\ p.pending = 1 + InHand
             /\ p.task = IF predictor.task = "none" THEN "waiting" ELSE predictor.task
  <1>1. predictor.pending = Cardinality(predictor.queue) + InHand
    BY QueueCounted DEF CountInv
  <1>2. Cardinality(predictor.queue) \in Nat /\ InHand \in Nat
    BY QueueCounted DEF Queued, InHand
  <1> QED
    BY <1>1, <1>2 DEF TypeOK, Enqueued

-----------------------------------------------------------------------------
(* A step keeps the places of the tasks together.                          *)
LEMMA PlacesStep ==
  ASSUME TypeOK, PlacesInv, HoldersInv, PipeInv, [Next]_vars
  PROVE  PlacesInv'
  <1> USE DEF TypeOK, PlacesInv, FinActive, CloseActive, LoopHolds, Waiting,
     sessionVars, predictorVars, asrVars, managerVars
  <1>1. CASE TakeObservation
    BY <1>1 DEF TakeObservation, Settled, Done, Fewer
  <1>2. CASE ObservationIsPredicted
    BY <1>2 DEF ObservationIsPredicted, Settled, Done, Fewer, Forgotten
  <1>3. CASE PredictorDegrades
    BY <1>3 DEF PredictorDegrades, Settled, Done, Discarded, Fewer,
       Forgotten
  <1>4. CASE PredictorCancelled
    BY <1>4 DEF PredictorCancelled, Settled, Done, Fewer, Forgotten
  <1>5. CASE AddAudio
    BY <1>5 DEF AddAudio, AcceptsAudio, Listening, Settled, Observed,
       Enqueued
  <1>6. CASE AddAudioStartsWorker
    BY <1>6 DEF AddAudioStartsWorker, AcceptsAudio, Listening, Settled
  <1>7. CASE AddAudioFails
    BY <1>7 DEF AddAudioFails, AcceptsAudio, Listening, Settled, Terminate
  <1>8. CASE Settle
    BY <1>8 DEF Settle, Listening, Settled
  <1>9. CASE Finalize
    BY <1>9 DEF Finalize, Listening, Settled
  <1>10. CASE FinBegins
    BY <1>10 DEF FinBegins, Settled, FinRaises, Noticed, FinCancelled,
       FinishTranscription, StopPredictor, Idle, Stopped, Cancelling,
       Discarded, Fewer, Forgotten, SendFinish, AfterSend, Asked, Terminate
  <1>11. CASE FinStopped
    BY <1>11 DEF FinStopped, Settled, FinRaises, Noticed, FinCancelled,
       FinishTranscription, Idle, Stopped, Discarded, Fewer, Forgotten,
       SendFinish, AfterSend, Asked, Terminate
  <1>12. CASE FinHears
    BY <1>12 DEF FinHears, Settled, FinSucceeds
  <1>13. CASE FinGivesUp
    BY <1>13 DEF FinGivesUp, Settled, Noticed, Terminate
  <1>14. CASE FinReplaced
    BY <1>14 DEF FinReplaced, Settled, FinRaises, Noticed
  <1>15. CASE WorkerStarts
    BY <1>15 DEF WorkerStarts, Observed, Enqueued
  <1>16. CASE FailedWorkerReplaced
    BY <1>16 DEF FailedWorkerReplaced
  <1>17. CASE AddAudioRaises
    BY <1>17 DEF AddAudioRaises, Idle, Stopped, Cancelling, Discarded,
       Fewer, Forgotten
  <1>18. CASE SettleEnds
    BY <1>18 DEF SettleEnds
  <1>19. CASE LoopHearsFin
    BY <1>19 DEF LoopHearsFin
  <1>20. CASE LoopUnwinds
    BY <1>20 DEF LoopUnwinds
  <1>21. CASE LoopCloses
    BY <1>21 DEF LoopCloses
  <1>22. CASE LoopLeaves
    BY <1>22 DEF LoopLeaves
  <1>23. CASE CloseStopsPredictor
    BY <1>23 DEF CloseStopsPredictor, Idle, Cancelling
  <1>24. CASE CloseGoesOn
    BY <1>24 DEF CloseGoesOn, CloseTranscription, CloseEnds, Idle, Stopped,
       Discarded, Fewer, Forgotten, SendFinish, AfterSend, Asked, Terminate
  <1>25. CASE CloseHears
    BY <1>25 DEF CloseHears, CloseEnds
  <1>26. CASE CloseGivesUp
    BY <1>26 DEF CloseGivesUp, Terminate
  <1>27. CASE CloseReplaced
    BY <1>27 DEF CloseReplaced, CloseEnds, HoldersInv, CloseHolds, FinHolds
  <1>28. CASE RunCloses
    BY <1>28 DEF RunCloses, Settled
  <1>29. CASE RunJoins
    BY <1>29 DEF RunJoins
  <1>30. CASE ReaderHears
    BY <1>30 DEF ReaderHears, Settled
  <1>31. CASE ReaderMeetsEnd
    BY <1>31 DEF ReaderMeetsEnd, Settled
  <1>32. CASE RecognitionEnds
    BY <1>32 DEF RecognitionEnds, Settled, Says
  <1>33. CASE RecognitionFails
    BY <1>33 DEF RecognitionFails, Settled, Says
  <1>34. CASE AdapterDegrades
    BY <1>34 DEF AdapterDegrades, Settled, Says
  <1>35. CASE WorkerDies
    BY <1>35 DEF WorkerDies, Settled
  <1>36. CASE WorkerDoesNotStart
    BY <1>36 DEF WorkerDoesNotStart
  <1>37. CASE GraceEnds
    BY <1>37 DEF GraceEnds
  <1>38. CASE Shutdown
    BY <1>38 DEF Shutdown, Settled
  <1>39. CASE UNCHANGED vars
    BY <1>39 DEF vars
  <1>40. QED
    BY <1>1, <1>2, <1>3, <1>4, <1>5, <1>6, <1>7, <1>8, <1>9, <1>10, <1>11,
       <1>12, <1>13, <1>14, <1>15, <1>16, <1>17, <1>18, <1>19, <1>20, <1>21,
       <1>22, <1>23, <1>24, <1>25, <1>26, <1>27, <1>28, <1>29, <1>30, <1>31,
       <1>32, <1>33, <1>34, <1>35, <1>36, <1>37, <1>38, <1>39 DEF Next,
       Hearing, Predictor, Finalization, LoopGoesOn, Closing, WorkerProgram

(* A step keeps the pipe and its reader together.                          *)
LEMMA PipeStep ==
  ASSUME TypeOK, PlacesInv, HoldersInv, PipeInv, [Next]_vars
  PROVE  PipeInv'
  <1> USE DEF TypeOK, PlacesInv, HoldersInv, PipeInv, FinActive, CloseActive,
     LoopHolds, FinHolds, CloseHolds, Waiting, Clear, Ends, Quiet, FreshAsr,
     FreshProcess, NoProcess, sessionVars, predictorVars, asrVars, managerVars
  <1>1. CASE TakeObservation
    BY <1>1 DEF TakeObservation, Settled, Done, Fewer
  <1>2. CASE ObservationIsPredicted
    BY <1>2 DEF ObservationIsPredicted, Settled, Done, Fewer, Forgotten
  <1>3. CASE PredictorDegrades
    BY <1>3 DEF PredictorDegrades, Settled, Done, Discarded, Fewer,
       Forgotten
  <1>4. CASE PredictorCancelled
    BY <1>4 DEF PredictorCancelled, Settled, Done, Fewer, Forgotten
  <1>5. CASE AddAudio
    BY <1>5 DEF AddAudio, AcceptsAudio, Listening, Settled, Observed,
       Enqueued
  <1>6. CASE AddAudioStartsWorker
    BY <1>6 DEF AddAudioStartsWorker, AcceptsAudio, Listening, Settled
  <1>7. CASE AddAudioFails
    BY <1>7 DEF AddAudioFails, AcceptsAudio, Listening, Settled, Terminate
  <1>8. CASE Settle
    BY <1>8 DEF Settle, Listening, Settled
  <1>9. CASE Finalize
    BY <1>9 DEF Finalize, Listening, Settled
  <1>10. CASE FinBegins
    <2>1. CASE ~fin.inline /\ (FinCancelled \/ closed)
      BY <1>10, <2>1 DEF FinBegins, FinRaises
    <2>2. CASE ~(~fin.inline /\ (FinCancelled \/ closed)) /\ ~Idle
      BY <1>10, <2>2 DEF FinBegins, StopPredictor
    <2>3. CASE ~(~fin.inline /\ (FinCancelled \/ closed)) /\ Idle
      <3>1. CASE asr.finished
        BY <1>10, <2>3, <3>1 DEF FinBegins, Settled, FinishTranscription,
           FinRaises, Forgotten
      <3>2. CASE ~asr.finished
        <4>1. /\ SendFinish(Forgotten(predictor.queue))
              /\ fin'.at = IF process.state = "dead" THEN "replace" ELSE "asr"
              /\ fin'.inline = fin.inline
              /\ UNCHANGED <<run, loop, close, closed, leased>>
              /\ fin.at \in Waiting \cup {"new"}
          BY <1>10, <2>3, <3>2 DEF FinBegins, Settled, FinishTranscription,
             AfterSend, Noticed
        <4> QED
          BY <4>1, <3>2, FinishSent
      <3> QED
        BY <3>1, <3>2
    <2> QED
      BY <2>1, <2>2, <2>3
  <1>11. CASE FinStopped
    <2>1. CASE asr.finished
      BY <1>11, <2>1 DEF FinStopped, Settled, FinishTranscription, FinRaises,
         Forgotten
    <2>2. CASE ~asr.finished
      <3>1. /\ SendFinish(Forgotten(predictor.queue))
            /\ fin'.at = IF process.state = "dead" THEN "replace" ELSE "asr"
            /\ fin'.inline = fin.inline
            /\ UNCHANGED <<run, loop, close, closed, leased>>
            /\ fin.at \in Waiting \cup {"new"}
        BY <1>11, <2>2 DEF FinStopped, Settled, FinishTranscription,
           AfterSend, Noticed
      <3> QED
        BY <3>1, <2>2, FinishSent
    <2> QED
      BY <2>1, <2>2
  <1>12. CASE FinHears
    BY <1>12 DEF FinHears, Settled, FinSucceeds
  <1>13. CASE FinGivesUp
    BY <1>13 DEF FinGivesUp, Settled, Noticed, Terminate
  <1>14. CASE FinReplaced
    BY <1>14 DEF FinReplaced, Settled, FinRaises, Noticed
  <1>15. CASE WorkerStarts
    BY <1>15 DEF WorkerStarts, Observed, Enqueued
  <1>16. CASE FailedWorkerReplaced
    BY <1>16 DEF FailedWorkerReplaced
  <1>17. CASE AddAudioRaises
    BY <1>17 DEF AddAudioRaises, Idle, Stopped, Cancelling, Discarded,
       Fewer, Forgotten
  <1>18. CASE SettleEnds
    BY <1>18 DEF SettleEnds
  <1>19. CASE LoopHearsFin
    BY <1>19 DEF LoopHearsFin
  <1>20. CASE LoopUnwinds
    BY <1>20 DEF LoopUnwinds
  <1>21. CASE LoopCloses
    BY <1>21 DEF LoopCloses
  <1>22. CASE LoopLeaves
    BY <1>22 DEF LoopLeaves
  <1>23. CASE CloseStopsPredictor
    BY <1>23 DEF CloseStopsPredictor, Idle, Cancelling
  <1>24. CASE CloseGoesOn
    <2>1. CASE asr.reader = "none" \/ asr.finished
      BY <1>24, <2>1 DEF CloseGoesOn, CloseTranscription, CloseEnds, Forgotten
    <2>2. CASE ~(asr.reader = "none" \/ asr.finished)
      <3>1. /\ SendFinish(Forgotten(predictor.queue))
            /\ close'.at = IF process.state = "dead" THEN "replace" ELSE "asr"
            /\ close'.by = close.by
            /\ close.at \in {"new", "stop"}
            /\ UNCHANGED <<run, loop, cancels, fin, closed, leased>>
        BY <1>24, <2>2 DEF CloseGoesOn, CloseTranscription, AfterSend
      <3> QED
        BY <3>1, <2>2, FinishSent
    <2> QED
      BY <2>1, <2>2
  <1>25. CASE CloseHears
    BY <1>25 DEF CloseHears, CloseEnds
  <1>26. CASE CloseGivesUp
    BY <1>26 DEF CloseGivesUp, Terminate
  <1>27. CASE CloseReplaced
    BY <1>27 DEF CloseReplaced, CloseEnds
  <1>28. CASE RunCloses
    BY <1>28 DEF RunCloses, Settled
  <1>29. CASE RunJoins
    BY <1>29 DEF RunJoins
  <1>30. CASE ReaderHears
    <2>1. /\ asr.reader = "reading"
          /\ process'.events = Tail(process.events)
          /\ process'.state = process.state /\ process'.finishing = process.finishing
          /\ asr'.finished = asr.finished
          /\ asr'.reader = IF Head(process.events) = "degraded" THEN "reading"
                           ELSE Head(process.events)
          /\ UNCHANGED <<loop, fin, close, worker>>
      BY <1>30 DEF ReaderHears
    <2>2. process.events # <<>>
      BY <1>30 DEF ReaderHears
    <2>3. CASE process.events = <<"degraded">>
      BY <2>1, <2>3, OneEvent
    <2>4. CASE process.events = <<"error">>
      BY <2>1, <2>4, OneEvent
    <2>5. CASE process.events = <<"final">>
      BY <2>1, <2>5, OneEvent
    <2>6. CASE process.events = <<"degraded", "error">>
      BY <2>1, <2>6, OneEvent, TwoEvents
    <2>7. CASE process.events = <<"degraded", "final">>
      BY <2>1, <2>7, OneEvent, TwoEvents
    <2> QED
      BY <2>1, <2>2, <2>3, <2>4, <2>5, <2>6, <2>7
  <1>31. CASE ReaderMeetsEnd
    BY <1>31 DEF ReaderMeetsEnd, Settled
  <1>32. CASE RecognitionEnds
    <2>1. /\ process'.events = Append(process.events, "final")
          /\ process.state = "serving"
          /\ process'.state = "idle"
          /\ ~process'.finishing
          /\ UNCHANGED <<loop, fin, close, asr, worker>>
      BY <1>32 DEF RecognitionEnds, Says
    <2>2. asr.reader = "reading" /\ process.events \in Clear
      BY <2>1
    <2>3. process'.events \in Ends("final")
      <3>1. CASE process.events = <<>>
        BY <2>1, <3>1, AppendOne
      <3>2. CASE process.events = <<"degraded">>
        BY <2>1, <3>2, AppendTwo
      <3> QED
        BY <2>2, <3>1, <3>2
    <2>4. asr.finished = process.finishing
      BY <2>1, <2>2
    <2> QED
      BY <2>1, <2>2, <2>3, <2>4, <1>32 DEF RecognitionEnds
  <1>33. CASE RecognitionFails
    <2>1. /\ process'.events = Append(process.events, "error")
          /\ process.state = "serving"
          /\ process'.state = IF process.finishing THEN "idle" ELSE "ended"
          /\ ~process'.finishing
          /\ UNCHANGED <<loop, fin, close, asr, worker>>
      BY <1>33 DEF RecognitionFails, Says
    <2>2. asr.reader = "reading" /\ process.events \in Clear
      BY <2>1
    <2>3. process'.events \in Ends("error")
      <3>1. CASE process.events = <<>>
        BY <2>1, <3>1, AppendOne
      <3>2. CASE process.events = <<"degraded">>
        BY <2>1, <3>2, AppendTwo
      <3> QED
        BY <2>2, <3>1, <3>2
    <2>4. asr.finished = process.finishing
      BY <2>1, <2>2
    <2> QED
      BY <2>1, <2>2, <2>3, <2>4, <1>33 DEF RecognitionFails
  <1>34. CASE AdapterDegrades
    BY <1>34 DEF AdapterDegrades, Settled, Says
  <1>35. CASE WorkerDies
    BY <1>35 DEF WorkerDies, Settled
  <1>36. CASE WorkerDoesNotStart
    BY <1>36 DEF WorkerDoesNotStart
  <1>37. CASE GraceEnds
    BY <1>37 DEF GraceEnds
  <1>38. CASE Shutdown
    BY <1>38 DEF Shutdown, Settled
  <1>39. CASE UNCHANGED vars
    BY <1>39 DEF vars
  <1>40. QED
    BY <1>1, <1>2, <1>3, <1>4, <1>5, <1>6, <1>7, <1>8, <1>9, <1>10, <1>11,
       <1>12, <1>13, <1>14, <1>15, <1>16, <1>17, <1>18, <1>19, <1>20, <1>21,
       <1>22, <1>23, <1>24, <1>25, <1>26, <1>27, <1>28, <1>29, <1>30, <1>31,
       <1>32, <1>33, <1>34, <1>35, <1>36, <1>37, <1>38, <1>39 DEF Next,
       Hearing, Predictor, Finalization, LoopGoesOn, Closing, WorkerProgram

(* A step keeps the lease with its holders.                                *)
LEMMA HoldersStep ==
  ASSUME TypeOK, PlacesInv, HoldersInv, PipeInv, [Next]_vars
  PROVE  HoldersInv'
  <1> USE DEF TypeOK, PlacesInv, HoldersInv, PipeInv, FinActive, CloseActive,
     LoopHolds, FinHolds, CloseHolds, Waiting, Quiet, FreshAsr, FreshProcess,
     NoProcess, sessionVars, predictorVars, asrVars, managerVars
  <1>1. CASE TakeObservation
    BY <1>1 DEF TakeObservation, Settled, Done, Fewer
  <1>2. CASE ObservationIsPredicted
    BY <1>2 DEF ObservationIsPredicted, Settled, Done, Fewer, Forgotten
  <1>3. CASE PredictorDegrades
    BY <1>3 DEF PredictorDegrades, Settled, Done, Discarded, Fewer,
       Forgotten
  <1>4. CASE PredictorCancelled
    BY <1>4 DEF PredictorCancelled, Settled, Done, Fewer, Forgotten
  <1>5. CASE AddAudio
    BY <1>5 DEF AddAudio, AcceptsAudio, Listening, Settled, Observed,
       Enqueued
  <1>6. CASE AddAudioStartsWorker
    BY <1>6 DEF AddAudioStartsWorker, AcceptsAudio, Listening, Settled
  <1>7. CASE AddAudioFails
    BY <1>7 DEF AddAudioFails, AcceptsAudio, Listening, Settled, Terminate
  <1>8. CASE Settle
    BY <1>8 DEF Settle, Listening, Settled
  <1>9. CASE Finalize
    BY <1>9 DEF Finalize, Listening, Settled
  <1>10. CASE FinBegins
    <2>1. CASE ~fin.inline /\ (FinCancelled \/ closed)
      BY <1>10, <2>1 DEF FinBegins, FinRaises
    <2>2. CASE ~(~fin.inline /\ (FinCancelled \/ closed)) /\ ~Idle
      BY <1>10, <2>2 DEF FinBegins, StopPredictor
    <2>3. CASE ~(~fin.inline /\ (FinCancelled \/ closed)) /\ Idle
      <3>1. CASE asr.finished
        BY <1>10, <2>3, <3>1 DEF FinBegins, Settled, FinishTranscription,
           FinRaises, Forgotten
      <3>2. CASE ~asr.finished
        <4>1. /\ SendFinish(Forgotten(predictor.queue))
              /\ fin'.at = IF process.state = "dead" THEN "replace" ELSE "asr"
              /\ fin'.inline = fin.inline
              /\ UNCHANGED <<run, loop, close, closed, leased>>
              /\ fin.at \in Waiting \cup {"new"}
          BY <1>10, <2>3, <3>2 DEF FinBegins, Settled, FinishTranscription,
             AfterSend, Noticed
        <4> QED
          BY <4>1, <3>2, FinishSent
      <3> QED
        BY <3>1, <3>2
    <2> QED
      BY <2>1, <2>2, <2>3
  <1>11. CASE FinStopped
    <2>1. CASE asr.finished
      BY <1>11, <2>1 DEF FinStopped, Settled, FinishTranscription, FinRaises,
         Forgotten
    <2>2. CASE ~asr.finished
      <3>1. /\ SendFinish(Forgotten(predictor.queue))
            /\ fin'.at = IF process.state = "dead" THEN "replace" ELSE "asr"
            /\ fin'.inline = fin.inline
            /\ UNCHANGED <<run, loop, close, closed, leased>>
            /\ fin.at \in Waiting \cup {"new"}
        BY <1>11, <2>2 DEF FinStopped, Settled, FinishTranscription,
           AfterSend, Noticed
      <3> QED
        BY <3>1, <2>2, FinishSent
    <2> QED
      BY <2>1, <2>2
  <1>12. CASE FinHears
    BY <1>12 DEF FinHears, Settled, FinSucceeds
  <1>13. CASE FinGivesUp
    BY <1>13 DEF FinGivesUp, Settled, Noticed, Terminate
  <1>14. CASE FinReplaced
    BY <1>14 DEF FinReplaced, Settled, FinRaises, Noticed
  <1>15. CASE WorkerStarts
    <2>1. asr'.reader = "reading" /\ asr'.finished = FALSE /\ loop' = "listen"
      BY <1>15 DEF WorkerStarts, Observed
    <2>2. leased' /\ worker' /\ UNCHANGED <<fin, close>>
      BY <1>15 DEF WorkerStarts
    <2>3. fin.at \notin {"asr", "replace"} /\ close.at \notin {"asr", "replace", "over"}
      BY <1>15 DEF WorkerStarts
    <2> QED
      BY <2>1, <2>2, <2>3
  <1>16. CASE FailedWorkerReplaced
    BY <1>16 DEF FailedWorkerReplaced
  <1>17. CASE AddAudioRaises
    BY <1>17 DEF AddAudioRaises, Idle, Stopped, Cancelling, Discarded,
       Fewer, Forgotten
  <1>18. CASE SettleEnds
    BY <1>18 DEF SettleEnds
  <1>19. CASE LoopHearsFin
    BY <1>19 DEF LoopHearsFin
  <1>20. CASE LoopUnwinds
    BY <1>20 DEF LoopUnwinds
  <1>21. CASE LoopCloses
    BY <1>21 DEF LoopCloses
  <1>22. CASE LoopLeaves
    BY <1>22 DEF LoopLeaves
  <1>23. CASE CloseStopsPredictor
    BY <1>23 DEF CloseStopsPredictor, Idle, Cancelling
  <1>24. CASE CloseGoesOn
    <2>1. CASE asr.reader = "none" \/ asr.finished
      BY <1>24, <2>1 DEF CloseGoesOn, CloseTranscription, CloseEnds, Forgotten
    <2>2. CASE ~(asr.reader = "none" \/ asr.finished)
      <3>1. /\ SendFinish(Forgotten(predictor.queue))
            /\ close'.at = IF process.state = "dead" THEN "replace" ELSE "asr"
            /\ close'.by = close.by
            /\ close.at \in {"new", "stop"}
            /\ UNCHANGED <<run, loop, cancels, fin, closed, leased>>
        BY <1>24, <2>2 DEF CloseGoesOn, CloseTranscription, AfterSend
      <3> QED
        BY <3>1, <2>2, FinishSent
    <2> QED
      BY <2>1, <2>2
  <1>25. CASE CloseHears
    BY <1>25 DEF CloseHears, CloseEnds
  <1>26. CASE CloseGivesUp
    BY <1>26 DEF CloseGivesUp, Terminate
  <1>27. CASE CloseReplaced
    BY <1>27 DEF CloseReplaced, CloseEnds
  <1>28. CASE RunCloses
    BY <1>28 DEF RunCloses, Settled
  <1>29. CASE RunJoins
    BY <1>29 DEF RunJoins
  <1>30. CASE ReaderHears
    BY <1>30 DEF ReaderHears, Settled
  <1>31. CASE ReaderMeetsEnd
    BY <1>31 DEF ReaderMeetsEnd, Settled
  <1>32. CASE RecognitionEnds
    BY <1>32 DEF RecognitionEnds, Settled, Says
  <1>33. CASE RecognitionFails
    BY <1>33 DEF RecognitionFails, Settled, Says
  <1>34. CASE AdapterDegrades
    BY <1>34 DEF AdapterDegrades, Settled, Says
  <1>35. CASE WorkerDies
    BY <1>35 DEF WorkerDies, Settled
  <1>36. CASE WorkerDoesNotStart
    BY <1>36 DEF WorkerDoesNotStart
  <1>37. CASE GraceEnds
    BY <1>37 DEF GraceEnds
  <1>38. CASE Shutdown
    BY <1>38 DEF Shutdown, Settled
  <1>39. CASE UNCHANGED vars
    BY <1>39 DEF vars
  <1>40. QED
    BY <1>1, <1>2, <1>3, <1>4, <1>5, <1>6, <1>7, <1>8, <1>9, <1>10, <1>11,
       <1>12, <1>13, <1>14, <1>15, <1>16, <1>17, <1>18, <1>19, <1>20, <1>21,
       <1>22, <1>23, <1>24, <1>25, <1>26, <1>27, <1>28, <1>29, <1>30, <1>31,
       <1>32, <1>33, <1>34, <1>35, <1>36, <1>37, <1>38, <1>39 DEF Next,
       Hearing, Predictor, Finalization, LoopGoesOn, Closing, WorkerProgram

(* A step keeps the count of the predictor.                                *)
LEMMA CountStep ==
  ASSUME TypeOK, PlacesInv, HoldersInv, CountInv, [Next]_vars
  PROVE  CountInv'
  <1> USE DEF TypeOK, HoldersInv, CountInv, Queued, InHand, LoopHolds,
     FinHolds, FreshAsr, FreshProcess, NoProcess, sessionVars, predictorVars,
     asrVars, managerVars
  <1> USE QueueCounted, UnderstandingAssumption
  <1>1. CASE TakeObservation
    BY <1>1 DEF TakeObservation, Settled, Done, Fewer
  <1>2. CASE ObservationIsPredicted
    BY <1>2 DEF ObservationIsPredicted, Settled, Done, Fewer, Forgotten
  <1>3. CASE PredictorDegrades
    BY <1>3 DEF PredictorDegrades, Settled, Done, Discarded, Fewer,
       Forgotten
  <1>4. CASE PredictorCancelled
    BY <1>4 DEF PredictorCancelled, Settled, Done, Fewer, Forgotten
  <1>5. CASE AddAudio
    <2> DEFINE n == chunks + 1
    <2>0. /\ n \in 1 .. chunks' /\ n # predictor.hand /\ n # 0
          /\ chunks' \in Nat /\ chunks \in Nat /\ chunks \in 0 .. chunks'
      BY <1>5 DEF AddAudio, AcceptsAudio, Listening, Settled
    <2>1. PICK work \in {FALSE, ~degraded} :
            /\ predictor' = IF work THEN Enqueued(predictor, n) ELSE predictor
            /\ asr' = [asr EXCEPT
                 !.reader = IF asr.reader = "none" THEN "reading" ELSE asr.reader,
                 !.expected = IF work THEN (asr.expected \ predictor.queue) \cup {n}
                              ELSE asr.expected]
      BY <1>5 DEF AddAudio, Observed
    <2>2. /\ asr'.finished = asr.finished /\ asr'.reader # "none"
          /\ degraded' = degraded /\ ~FinHolds' /\ loop' # "starting"
          /\ asr'.expected = IF work THEN (asr.expected \ predictor.queue) \cup {n}
                             ELSE asr.expected
      BY <1>5, <2>1 DEF AddAudio, AcceptsAudio, Listening, Settled
    <2> HIDE DEF n
    <2>3. CASE work
      <3>1. /\ predictor'.queue = {n} /\ predictor'.hand = predictor.hand
            /\ predictor'.settled = FALSE /\ predictor'.pending = 1 + InHand
            /\ predictor'.task = IF predictor.task = "none" THEN "waiting"
                                 ELSE predictor.task
        BY <2>0, <2>1, <2>3, EnqueuedCounts
      <3>2. Queued' = 1 /\ InHand' = InHand /\ InHand \in {0, 1}
        BY <3>1
      <3> HIDE DEF Queued, InHand
      <3>3. predictor'.settled = (predictor'.pending = 0)
        <4>1. predictor'.pending # 0
          BY <3>1, <3>2
        <4>2. (predictor'.pending = 0) = FALSE
          BY <4>1
        <4> QED
          BY <3>1, <4>2, Zenon
      <3>4. asr'.expected = (asr.expected \ predictor.queue) \cup {n}
        BY <2>2, <2>3
      <3> QED
        BY <2>0, <2>2, <3>1, <3>2, <3>3, <3>4
    <2>4. CASE ~work
      BY <2>0, <2>1, <2>2, <2>4
    <2> QED
      BY <2>3, <2>4
  <1>6. CASE AddAudioStartsWorker
    BY <1>6 DEF AddAudioStartsWorker, AcceptsAudio, Listening, Settled
  <1>7. CASE AddAudioFails
    BY <1>7 DEF AddAudioFails, AcceptsAudio, Listening, Settled, Terminate
  <1>8. CASE Settle
    BY <1>8 DEF Settle, Listening, Settled
  <1>9. CASE Finalize
    BY <1>9 DEF Finalize, Listening, Settled
  <1>10. CASE FinBegins
    <2>1. CASE ~fin.inline /\ (FinCancelled \/ closed)
      BY <1>10, <2>1 DEF FinBegins, FinRaises
    <2>2. CASE ~(~fin.inline /\ (FinCancelled \/ closed)) /\ ~Idle
      <3>1. /\ predictor' = Cancelling /\ fin'.at = "stop"
            /\ UNCHANGED <<asr, degraded, chunks, loop>>
            /\ fin.at = "new"
        BY <1>10, <2>2 DEF FinBegins, StopPredictor
      <3>2. /\ predictor'.task = "cancelling" /\ predictor'.queue = predictor.queue
            /\ predictor'.hand = predictor.hand /\ predictor'.pending = predictor.pending
            /\ predictor'.settled = predictor.settled
        BY <3>1 DEF Cancelling
      <3> QED
        BY <3>1, <3>2
    <2>3. CASE ~(~fin.inline /\ (FinCancelled \/ closed)) /\ Idle
      <3>1. /\ FinishTranscription /\ Idle
            /\ UNCHANGED <<degraded, chunks>> /\ loop # "starting" /\ asr.reader # "none"
        BY <1>10, <2>3 DEF FinBegins, Settled, FinActive, Waiting
      <3>2. CASE asr.finished
        BY <3>1, <3>2, StoppedCounts DEF FinishTranscription, FinRaises, Forgotten
      <3>3. CASE ~asr.finished
        <4>1. /\ predictor' = Stopped /\ asr'.finished /\ loop' = loop
              /\ asr'.reader # "none" /\ UNCHANGED <<degraded, chunks>>
          BY <3>1, <3>3, FinishSent DEF FinishTranscription
        <4> QED
          BY <4>1, <3>1, StoppedCounts
      <3> QED
        BY <3>2, <3>3
    <2> QED
      BY <2>1, <2>2, <2>3
  <1>11. CASE FinStopped
    <2>1. /\ FinishTranscription /\ Idle
          /\ UNCHANGED <<degraded, chunks>> /\ loop # "starting" /\ asr.reader # "none"
      BY <1>11 DEF FinStopped, Settled, FinActive, Waiting
    <2>2. CASE asr.finished
      BY <2>1, <2>2, StoppedCounts DEF FinishTranscription, FinRaises, Forgotten
    <2>3. CASE ~asr.finished
      <4>1. /\ predictor' = Stopped /\ asr'.finished /\ loop' = loop
            /\ asr'.reader # "none" /\ UNCHANGED <<degraded, chunks>>
        BY <2>1, <2>3, FinishSent DEF FinishTranscription
      <4> QED
        BY <4>1, <2>1, StoppedCounts
    <2> QED
      BY <2>2, <2>3
  <1>12. CASE FinHears
    BY <1>12 DEF FinHears, Settled, FinSucceeds
  <1>13. CASE FinGivesUp
    BY <1>13 DEF FinGivesUp, Settled, Noticed, Terminate
  <1>14. CASE FinReplaced
    BY <1>14 DEF FinReplaced, Settled, FinRaises, Noticed
  <1>15. CASE WorkerStarts
    <2> DEFINE n == chunks
    <2>0. /\ n \in 1 .. chunks' /\ n # predictor.hand /\ n # 0
          /\ chunks' \in Nat /\ chunks \in Nat /\ chunks \in 0 .. chunks'
      BY <1>15 DEF WorkerStarts, FinActive, Waiting
    <2>1. PICK work \in {FALSE, ~degraded} :
            /\ predictor' = IF work THEN Enqueued(predictor, n) ELSE predictor
            /\ asr' = [asr EXCEPT
                 !.reader = IF asr.reader = "none" THEN "reading" ELSE asr.reader,
                 !.expected = IF work THEN (asr.expected \ predictor.queue) \cup {n}
                              ELSE asr.expected]
      BY <1>15 DEF WorkerStarts, Observed
    <2>2. /\ asr'.finished = asr.finished /\ asr'.reader # "none"
          /\ degraded' = degraded /\ ~FinHolds' /\ loop' # "starting"
          /\ asr'.expected = IF work THEN (asr.expected \ predictor.queue) \cup {n}
                             ELSE asr.expected
      BY <1>15, <2>1 DEF WorkerStarts, FinActive, Waiting
    <2> HIDE DEF n
    <2>3. CASE work
      <3>1. /\ predictor'.queue = {n} /\ predictor'.hand = predictor.hand
            /\ predictor'.settled = FALSE /\ predictor'.pending = 1 + InHand
            /\ predictor'.task = IF predictor.task = "none" THEN "waiting"
                                 ELSE predictor.task
        BY <2>0, <2>1, <2>3, EnqueuedCounts
      <3>2. Queued' = 1 /\ InHand' = InHand /\ InHand \in {0, 1}
        BY <3>1
      <3> HIDE DEF Queued, InHand
      <3>3. predictor'.settled = (predictor'.pending = 0)
        <4>1. predictor'.pending # 0
          BY <3>1, <3>2
        <4>2. (predictor'.pending = 0) = FALSE
          BY <4>1
        <4> QED
          BY <3>1, <4>2, Zenon
      <3>4. asr'.expected = (asr.expected \ predictor.queue) \cup {n}
        BY <2>2, <2>3
      <3> QED
        BY <2>0, <2>2, <3>1, <3>2, <3>3, <3>4
    <2>4. CASE ~work
      BY <2>0, <2>1, <2>2, <2>4
    <2> QED
      BY <2>3, <2>4
  <1>16. CASE FailedWorkerReplaced
    BY <1>16 DEF FailedWorkerReplaced
  <1>17. CASE AddAudioRaises
    <2>1. CASE Idle
      <3>1. predictor' = Stopped /\ asr' = Forgotten(predictor.queue)
        BY <1>17, <2>1 DEF AddAudioRaises
      <3>2. /\ asr'.finished = asr.finished /\ asr'.reader = asr.reader
            /\ asr'.expected = asr.expected \ predictor.queue
        BY <3>1 DEF Forgotten
      <3>3. UNCHANGED <<fin, degraded, chunks>> /\ loop' = "leaving"
        BY <1>17, <2>1 DEF AddAudioRaises
      <3>4. predictor.hand = 0
        BY <2>1 DEF Idle
      <3> QED
        BY <2>1, <3>1, <3>2, <3>3, <3>4, StoppedCounts
    <2>2. CASE ~Idle
      BY <1>17, <2>2 DEF AddAudioRaises, Cancelling, Idle
    <2> QED
      BY <2>1, <2>2
  <1>18. CASE SettleEnds
    BY <1>18 DEF SettleEnds
  <1>19. CASE LoopHearsFin
    BY <1>19 DEF LoopHearsFin
  <1>20. CASE LoopUnwinds
    BY <1>20 DEF LoopUnwinds
  <1>21. CASE LoopCloses
    BY <1>21 DEF LoopCloses
  <1>22. CASE LoopLeaves
    BY <1>22 DEF LoopLeaves
  <1>23. CASE CloseStopsPredictor
    BY <1>23 DEF CloseStopsPredictor, Idle, Cancelling
  <1>24. CASE CloseGoesOn
    <2>a. predictor' = Stopped /\ Idle /\ UNCHANGED <<degraded, chunks, fin>>
          /\ CloseTranscription
      BY <1>24 DEF CloseGoesOn
    <2>1. /\ asr'.finished \/ asr'.reader = "none"
          /\ asr.reader = "none" => asr'.finished = asr.finished
          /\ loop' = "starting" => loop = "starting"
          /\ asr.finished => asr'.finished
          /\ asr'.finished \/ asr' = Forgotten(predictor.queue)
      <3>1. CASE asr.reader = "none" \/ asr.finished
        BY <2>a, <3>1 DEF CloseTranscription, CloseEnds, Forgotten
      <3>2. CASE ~(asr.reader = "none" \/ asr.finished)
        BY <2>a, <3>2, FinishSent DEF CloseTranscription
      <3> QED
        BY <3>1, <3>2
    <2>2. asr' = Forgotten(predictor.queue) => asr'.expected = asr.expected \ predictor.queue
      BY DEF Forgotten
    <2>3. ~degraded' /\ ~asr'.finished => asr'.expected = {}
      BY <2>a, <2>1, <2>2 DEF Idle
    <2>4. chunks' = chunks /\ fin' = fin
      BY <2>a
    <2> QED
      BY <2>a, <2>1, <2>3, <2>4, StoppedCounts
  <1>25. CASE CloseHears
    BY <1>25 DEF CloseHears, CloseEnds
  <1>26. CASE CloseGivesUp
    BY <1>26 DEF CloseGivesUp, Terminate
  <1>27. CASE CloseReplaced
    BY <1>27 DEF CloseReplaced, CloseEnds
  <1>28. CASE RunCloses
    BY <1>28 DEF RunCloses, Settled
  <1>29. CASE RunJoins
    BY <1>29 DEF RunJoins
  <1>30. CASE ReaderHears
    <2>1. process.events \in Seq({"degraded", "final", "error"}) /\ process.events # <<>>
      BY <1>30 DEF ReaderHears
    <2>2. Head(process.events) \in {"degraded", "final", "error"}
      BY <2>1
    <2>3. /\ asr'.expected = asr.expected /\ asr'.finished = asr.finished
          /\ asr'.reader # "none" /\ asr.reader # "none"
          /\ UNCHANGED <<predictor, chunks, degraded, loop, fin>>
      BY <1>30, <2>2 DEF ReaderHears
    <2> QED
      BY <2>3
  <1>31. CASE ReaderMeetsEnd
    BY <1>31 DEF ReaderMeetsEnd, Settled
  <1>32. CASE RecognitionEnds
    BY <1>32 DEF RecognitionEnds, Settled, Says
  <1>33. CASE RecognitionFails
    BY <1>33 DEF RecognitionFails, Settled, Says
  <1>34. CASE AdapterDegrades
    BY <1>34 DEF AdapterDegrades, Settled, Says
  <1>35. CASE WorkerDies
    BY <1>35 DEF WorkerDies, Settled
  <1>36. CASE WorkerDoesNotStart
    BY <1>36 DEF WorkerDoesNotStart
  <1>37. CASE GraceEnds
    BY <1>37 DEF GraceEnds
  <1>38. CASE Shutdown
    BY <1>38 DEF Shutdown, Settled
  <1>39. CASE UNCHANGED vars
    BY <1>39 DEF vars
  <1>40. QED
    BY <1>1, <1>2, <1>3, <1>4, <1>5, <1>6, <1>7, <1>8, <1>9, <1>10, <1>11,
       <1>12, <1>13, <1>14, <1>15, <1>16, <1>17, <1>18, <1>19, <1>20, <1>21,
       <1>22, <1>23, <1>24, <1>25, <1>26, <1>27, <1>28, <1>29, <1>30, <1>31,
       <1>32, <1>33, <1>34, <1>35, <1>36, <1>37, <1>38, <1>39 DEF Next,
       Hearing, Predictor, Finalization, LoopGoesOn, Closing, WorkerProgram

(* A step keeps the types: the places of run and of the loop, the          *)
(* counters, the flags, and one record after the other.                    *)
LEMMA PlaceStep ==
  ASSUME TypeOK, [Next]_vars
  PROVE  (/\ run \in RunPlace /\ loop \in LoopPlace
          /\ cancels \subseteq {"loop", "fin", "lost"})'
  <1> USE DEF TypeOK, RunPlace, LoopPlace, sessionVars, predictorVars,
     asrVars, managerVars
  <1>1. CASE TakeObservation
    BY <1>1 DEF TakeObservation, Settled, Done, Fewer
  <1>2. CASE ObservationIsPredicted
    BY <1>2 DEF ObservationIsPredicted, Settled, Done, Fewer, Forgotten
  <1>3. CASE PredictorDegrades
    BY <1>3 DEF PredictorDegrades, Settled, Done, Discarded, Fewer,
       Forgotten
  <1>4. CASE PredictorCancelled
    BY <1>4 DEF PredictorCancelled, Settled, Done, Fewer, Forgotten
  <1>5. CASE AddAudio
    BY <1>5 DEF AddAudio, AcceptsAudio, Listening, Settled, Observed,
       Enqueued
  <1>6. CASE AddAudioStartsWorker
    BY <1>6 DEF AddAudioStartsWorker, AcceptsAudio, Listening, Settled
  <1>7. CASE AddAudioFails
    BY <1>7 DEF AddAudioFails, AcceptsAudio, Listening, Settled, Terminate
  <1>8. CASE Settle
    BY <1>8 DEF Settle, Listening, Settled
  <1>9. CASE Finalize
    BY <1>9 DEF Finalize, Listening, Settled
  <1>10. CASE FinBegins
    BY <1>10 DEF FinBegins, Settled, FinRaises, Noticed, FinCancelled,
       FinishTranscription, StopPredictor, Idle, Stopped, Cancelling,
       Discarded, Fewer, Forgotten, SendFinish, AfterSend, Asked, Terminate
  <1>11. CASE FinStopped
    BY <1>11 DEF FinStopped, Settled, FinRaises, Noticed, FinCancelled,
       FinishTranscription, Idle, Stopped, Discarded, Fewer, Forgotten,
       SendFinish, AfterSend, Asked, Terminate
  <1>12. CASE FinHears
    BY <1>12 DEF FinHears, Settled, FinSucceeds
  <1>13. CASE FinGivesUp
    BY <1>13 DEF FinGivesUp, Settled, Noticed, Terminate
  <1>14. CASE FinReplaced
    BY <1>14 DEF FinReplaced, Settled, FinRaises, Noticed
  <1>15. CASE WorkerStarts
    BY <1>15 DEF WorkerStarts, Observed, Enqueued
  <1>16. CASE FailedWorkerReplaced
    BY <1>16 DEF FailedWorkerReplaced
  <1>17. CASE AddAudioRaises
    BY <1>17 DEF AddAudioRaises, Idle, Stopped, Cancelling, Discarded,
       Fewer, Forgotten
  <1>18. CASE SettleEnds
    BY <1>18 DEF SettleEnds
  <1>19. CASE LoopHearsFin
    BY <1>19 DEF LoopHearsFin
  <1>20. CASE LoopUnwinds
    BY <1>20 DEF LoopUnwinds
  <1>21. CASE LoopCloses
    BY <1>21 DEF LoopCloses
  <1>22. CASE LoopLeaves
    BY <1>22 DEF LoopLeaves
  <1>23. CASE CloseStopsPredictor
    BY <1>23 DEF CloseStopsPredictor, Idle, Cancelling
  <1>24. CASE CloseGoesOn
    BY <1>24 DEF CloseGoesOn, CloseTranscription, CloseEnds, Idle, Stopped,
       Discarded, Fewer, Forgotten, SendFinish, AfterSend, Asked, Terminate
  <1>25. CASE CloseHears
    BY <1>25 DEF CloseHears, CloseEnds
  <1>26. CASE CloseGivesUp
    BY <1>26 DEF CloseGivesUp, Terminate
  <1>27. CASE CloseReplaced
    BY <1>27 DEF CloseReplaced, CloseEnds
  <1>28. CASE RunCloses
    BY <1>28 DEF RunCloses, Settled
  <1>29. CASE RunJoins
    BY <1>29 DEF RunJoins
  <1>30. CASE ReaderHears
    BY <1>30 DEF ReaderHears, Settled
  <1>31. CASE ReaderMeetsEnd
    BY <1>31 DEF ReaderMeetsEnd, Settled
  <1>32. CASE RecognitionEnds
    BY <1>32 DEF RecognitionEnds, Settled, Says
  <1>33. CASE RecognitionFails
    BY <1>33 DEF RecognitionFails, Settled, Says
  <1>34. CASE AdapterDegrades
    BY <1>34 DEF AdapterDegrades, Settled, Says
  <1>35. CASE WorkerDies
    BY <1>35 DEF WorkerDies, Settled
  <1>36. CASE WorkerDoesNotStart
    BY <1>36 DEF WorkerDoesNotStart
  <1>37. CASE GraceEnds
    BY <1>37 DEF GraceEnds
  <1>38. CASE Shutdown
    BY <1>38 DEF Shutdown, Settled
  <1>39. CASE UNCHANGED vars
    BY <1>39 DEF vars
  <1>40. QED
    BY <1>1, <1>2, <1>3, <1>4, <1>5, <1>6, <1>7, <1>8, <1>9, <1>10, <1>11,
       <1>12, <1>13, <1>14, <1>15, <1>16, <1>17, <1>18, <1>19, <1>20, <1>21,
       <1>22, <1>23, <1>24, <1>25, <1>26, <1>27, <1>28, <1>29, <1>30, <1>31,
       <1>32, <1>33, <1>34, <1>35, <1>36, <1>37, <1>38, <1>39 DEF Next,
       Hearing, Predictor, Finalization, LoopGoesOn, Closing, WorkerProgram

LEMMA BoundStep ==
  ASSUME chunks \in 0 .. MaxChunks, faults \in 0 .. MaxFaults, [Next]_vars
  PROVE  chunks' \in 0 .. MaxChunks /\ faults' \in 0 .. MaxFaults
  <1> USE DEF sessionVars, predictorVars, asrVars, managerVars
  <1> USE UnderstandingAssumption
  <1>1. CASE AddAudio
    BY <1>1 DEF AddAudio, AcceptsAudio, Listening, Settled, Observed,
       Enqueued
  <1>2. CASE AddAudioStartsWorker
    BY <1>2 DEF AddAudioStartsWorker, AcceptsAudio, Listening, Settled
  <1>3. CASE AddAudioFails
    BY <1>3 DEF AddAudioFails, AcceptsAudio, Listening, Settled, Terminate
  <1>4. CASE WorkerDoesNotStart
    BY <1>4 DEF WorkerDoesNotStart
  <1>5. CASE RecognitionFails
    BY <1>5 DEF RecognitionFails, Settled, Says
  <1>6. CASE AdapterDegrades
    BY <1>6 DEF AdapterDegrades, Settled, Says
  <1>7. CASE WorkerDies
    BY <1>7 DEF WorkerDies, Settled
  <1>8. CASE \/ TakeObservation \/ ObservationIsPredicted
              \/ PredictorDegrades \/ PredictorCancelled \/ Settle
              \/ Finalize \/ FinBegins \/ FinStopped \/ FinHears
              \/ FinGivesUp \/ FinReplaced \/ WorkerStarts
              \/ FailedWorkerReplaced \/ AddAudioRaises \/ SettleEnds
              \/ LoopHearsFin \/ LoopUnwinds \/ LoopCloses \/ LoopLeaves
              \/ CloseStopsPredictor \/ CloseGoesOn \/ CloseHears
              \/ CloseGivesUp \/ CloseReplaced \/ RunCloses \/ RunJoins
              \/ ReaderHears \/ ReaderMeetsEnd \/ RecognitionEnds
              \/ GraceEnds \/ Shutdown \/ UNCHANGED vars
    BY <1>8 DEF vars, TakeObservation, ObservationIsPredicted,
       PredictorDegrades, PredictorCancelled, Settle, Listening, Finalize,
       FinBegins, FinRaises, Noticed, FinCancelled, FinishTranscription,
       StopPredictor, Idle, SendFinish, Terminate, FinStopped, FinHears,
       FinSucceeds, FinGivesUp, FinReplaced, WorkerStarts, Observed,
       FailedWorkerReplaced, AddAudioRaises, SettleEnds, LoopHearsFin,
       LoopUnwinds, LoopCloses, LoopLeaves, CloseStopsPredictor,
       CloseGoesOn, CloseTranscription, CloseEnds, CloseHears, CloseGivesUp,
       CloseReplaced, RunCloses, RunJoins, ReaderHears, ReaderMeetsEnd,
       RecognitionEnds, GraceEnds, Shutdown
  <1>9. QED
    BY <1>1, <1>2, <1>3, <1>4, <1>5, <1>6, <1>7, <1>8 DEF Next, Hearing,
       Predictor, Finalization, LoopGoesOn, Closing, WorkerProgram

LEMMA FlagStep ==
  ASSUME closed \in BOOLEAN, degraded \in BOOLEAN, leased \in BOOLEAN,
         asr.error \in BOOLEAN, [Next]_vars
  PROVE  closed' \in BOOLEAN /\ degraded' \in BOOLEAN /\ leased' \in BOOLEAN
  <1> USE DEF sessionVars, predictorVars, asrVars, managerVars
  <1>1. CASE TakeObservation
    BY <1>1 DEF TakeObservation, Settled, Done, Fewer
  <1>2. CASE PredictorDegrades
    BY <1>2 DEF PredictorDegrades, Settled, Done, Discarded, Fewer,
       Forgotten
  <1>3. CASE AddAudio
    BY <1>3 DEF AddAudio, AcceptsAudio, Listening, Settled, Observed,
       Enqueued
  <1>4. CASE AddAudioStartsWorker
    BY <1>4 DEF AddAudioStartsWorker, AcceptsAudio, Listening, Settled
  <1>5. CASE AddAudioFails
    BY <1>5 DEF AddAudioFails, AcceptsAudio, Listening, Settled, Terminate
  <1>6. CASE WorkerDoesNotStart
    BY <1>6 DEF WorkerDoesNotStart
  <1>7. CASE FailedWorkerReplaced
    BY <1>7 DEF FailedWorkerReplaced
  <1>8. CASE LoopLeaves
    BY <1>8 DEF LoopLeaves
  <1>9. CASE FinHears
    BY <1>9 DEF FinHears, Settled, FinSucceeds
  <1>10. CASE FinReplaced
    BY <1>10 DEF FinReplaced, Settled, FinRaises, Noticed
  <1>11. CASE LoopCloses
    BY <1>11 DEF LoopCloses
  <1>12. CASE RunCloses
    BY <1>12 DEF RunCloses, Settled
  <1>13. CASE CloseHears
    BY <1>13 DEF CloseHears, CloseEnds
  <1>14. CASE CloseReplaced
    BY <1>14 DEF CloseReplaced, CloseEnds
  <1>15. CASE \/ ObservationIsPredicted \/ PredictorCancelled \/ Settle
               \/ Finalize \/ FinBegins \/ FinStopped \/ FinGivesUp
               \/ WorkerStarts \/ AddAudioRaises \/ SettleEnds \/ LoopHearsFin
               \/ LoopUnwinds \/ CloseStopsPredictor \/ CloseGoesOn
               \/ CloseGivesUp \/ RunJoins \/ ReaderHears \/ ReaderMeetsEnd
               \/ RecognitionEnds \/ RecognitionFails \/ AdapterDegrades
               \/ WorkerDies \/ GraceEnds \/ Shutdown \/ UNCHANGED vars
    BY <1>15 DEF vars, ObservationIsPredicted, PredictorCancelled, Settle,
       Listening, Finalize, FinBegins, FinRaises, Noticed, FinCancelled,
       FinishTranscription, StopPredictor, Idle, SendFinish, Terminate,
       FinStopped, FinGivesUp, WorkerStarts, Observed, AddAudioRaises,
       SettleEnds, LoopHearsFin, LoopUnwinds, CloseStopsPredictor,
       CloseGoesOn, CloseTranscription, CloseEnds, CloseGivesUp, RunJoins,
       ReaderHears, ReaderMeetsEnd, RecognitionEnds, RecognitionFails,
       AdapterDegrades, WorkerDies, GraceEnds, Shutdown
  <1>16. QED
    BY <1>1, <1>2, <1>3, <1>4, <1>5, <1>6, <1>7, <1>8, <1>9, <1>10, <1>11,
       <1>12, <1>13, <1>14, <1>15 DEF Next, Hearing, Predictor,
       Finalization, LoopGoesOn, Closing, WorkerProgram

LEMMA FinStep ==
  ASSUME fin \in Fins, close \in Closes, [Next]_vars
  PROVE  fin' \in Fins /\ close' \in Closes
  <1> USE DEF Fins, Closes, Waiting, sessionVars, predictorVars, asrVars,
     managerVars
  <1>1. CASE Finalize
    <2>1. [at |-> "new", inline |-> TRUE] \in Fins /\ [at |-> "new", inline |-> FALSE] \in Fins
      OBVIOUS
    <2> HIDE DEF Fins, Closes
    <2> QED
      BY <1>1, <2>1 DEF Finalize
  <1>2. CASE FinBegins
    BY <1>2 DEF FinBegins, Settled, FinRaises, Noticed, FinCancelled,
       FinishTranscription, StopPredictor, Idle, Stopped, Cancelling,
       Discarded, Fewer, Forgotten, SendFinish, AfterSend, Asked, Terminate
  <1>3. CASE FinStopped
    BY <1>3 DEF FinStopped, Settled, FinRaises, Noticed, FinCancelled,
       FinishTranscription, Idle, Stopped, Discarded, Fewer, Forgotten,
       SendFinish, AfterSend, Asked, Terminate
  <1>4. CASE FinHears
    BY <1>4 DEF FinHears, Settled, FinSucceeds
  <1>5. CASE FinGivesUp
    BY <1>5 DEF FinGivesUp, Settled, Noticed, Terminate
  <1>6. CASE FinReplaced
    BY <1>6 DEF FinReplaced, Settled, FinRaises, Noticed
  <1>7. CASE LoopCloses
    BY <1>7 DEF LoopCloses
  <1>8. CASE RunCloses
    BY <1>8 DEF RunCloses, Settled
  <1>9. CASE CloseStopsPredictor
    BY <1>9 DEF CloseStopsPredictor, Idle, Cancelling
  <1>10. CASE CloseGoesOn
    BY <1>10 DEF CloseGoesOn, CloseTranscription, CloseEnds, Idle, Stopped,
       Discarded, Fewer, Forgotten, SendFinish, AfterSend, Asked, Terminate
  <1>11. CASE CloseHears
    BY <1>11 DEF CloseHears, CloseEnds
  <1>12. CASE CloseGivesUp
    BY <1>12 DEF CloseGivesUp, Terminate
  <1>13. CASE CloseReplaced
    BY <1>13 DEF CloseReplaced, CloseEnds
  <1>14. CASE \/ TakeObservation \/ ObservationIsPredicted
               \/ PredictorDegrades \/ PredictorCancelled \/ AddAudio
               \/ AddAudioStartsWorker \/ AddAudioFails \/ Settle
               \/ WorkerStarts \/ FailedWorkerReplaced \/ AddAudioRaises
               \/ SettleEnds \/ LoopHearsFin \/ LoopUnwinds \/ LoopLeaves
               \/ RunJoins \/ ReaderHears \/ ReaderMeetsEnd \/ RecognitionEnds
               \/ RecognitionFails \/ AdapterDegrades \/ WorkerDies
               \/ WorkerDoesNotStart \/ GraceEnds \/ Shutdown \/ UNCHANGED
               \/ vars
    BY <1>14 DEF vars, TakeObservation, ObservationIsPredicted,
       PredictorDegrades, PredictorCancelled, AddAudio, Listening, Observed,
       AddAudioStartsWorker, AddAudioFails, Terminate, Settle, WorkerStarts,
       FailedWorkerReplaced, AddAudioRaises, Idle, SettleEnds, LoopHearsFin,
       LoopUnwinds, LoopLeaves, RunJoins, ReaderHears, ReaderMeetsEnd,
       RecognitionEnds, RecognitionFails, AdapterDegrades, WorkerDies,
       WorkerDoesNotStart, GraceEnds, Shutdown
  <1>15. QED
    BY <1>1, <1>2, <1>3, <1>4, <1>5, <1>6, <1>7, <1>8, <1>9, <1>10, <1>11,
       <1>12, <1>13, <1>14 DEF Next, Hearing, Predictor, Finalization,
       LoopGoesOn, Closing, WorkerProgram

LEMMA PredictorStep ==
  ASSUME TypeOK, CountInv, predictor \in Predictors,
         Cardinality(predictor.queue) \in Int, [Next]_vars
  PROVE  predictor' \in Predictors
  <1> USE DEF sessionVars, predictorVars, asrVars, managerVars
  <1>1. CASE TakeObservation
    <2>1. PICK n \in predictor.queue :
            LET taken == [predictor EXCEPT !.queue = {}, !.hand = n]
            IN  predictor' = IF asr.error THEN Done(taken, "ended")
                             ELSE [taken EXCEPT !.task = "predicting"]
      BY <1>1 DEF TakeObservation
    <2> DEFINE taken == [predictor EXCEPT !.queue = {}, !.hand = n]
    <2>2. n \in 0 .. MaxChunks /\ {} \in SUBSET (1 .. MaxChunks)
      BY UnderstandingAssumption DEF Predictors
    <2>4. taken \in Predictors
      BY <2>2 DEF Predictors
    <2>5. [taken EXCEPT !.task = "predicting"] \in Predictors
      BY <2>4 DEF Predictors
    <2>3. Done(taken, "ended") \in Predictors
      BY <2>4, DoneTyped
    <2> QED
      BY <2>1, <2>4, <2>5, <2>3
  <1>2. CASE ObservationIsPredicted
    <2>1. Done(predictor, "waiting") \in Predictors
      BY DoneTyped
    <2> QED
      BY <1>2, <2>1 DEF ObservationIsPredicted
  <1>3. CASE PredictorDegrades
    <2>1. Discarded(predictor) \in Predictors
      BY DiscardedTyped
    <2>2. Done(Discarded(predictor), "ended") \in Predictors
      BY <2>1, DoneTyped
    <2> QED
      BY <1>3, <2>2 DEF PredictorDegrades
  <1>4. CASE PredictorCancelled
    <2>1. Done(predictor, "ended") \in Predictors
      BY DoneTyped
    <2>2. [predictor EXCEPT !.task = "ended"] \in Predictors
      BY DEF Predictors
    <2> QED
      BY <1>4, <2>1, <2>2 DEF PredictorCancelled
  <1>5. CASE AddAudio
    <2>1. chunks + 1 \in 1 .. MaxChunks
      BY <1>5, UnderstandingAssumption DEF AddAudio, AcceptsAudio, TypeOK
    <2>2. Enqueued(predictor, chunks + 1) \in Predictors
      BY <2>1, EnqueuedTyped
    <2> QED
      BY <1>5, <2>2 DEF AddAudio, Observed
  <1>6. CASE WorkerStarts
    <2>1. chunks \in 1 .. MaxChunks
      BY <1>6, UnderstandingAssumption DEF WorkerStarts, CountInv, TypeOK
    <2>2. Enqueued(predictor, chunks) \in Predictors
      BY <2>1, EnqueuedTyped
    <2> QED
      BY <1>6, <2>2 DEF WorkerStarts, Observed
  <1>7. CASE AddAudioRaises
    BY StoppedTyped, CancellingTyped, <1>7 DEF AddAudioRaises
  <1>8. CASE FinBegins
    BY StoppedTyped, CancellingTyped, <1>8 DEF FinBegins, FinishTranscription,
       StopPredictor
  <1>9. CASE FinStopped
    BY StoppedTyped, <1>9 DEF FinStopped, FinishTranscription
  <1>10. CASE CloseStopsPredictor
    BY CancellingTyped, <1>10 DEF CloseStopsPredictor
  <1>11. CASE CloseGoesOn
    BY StoppedTyped, <1>11 DEF CloseGoesOn
  <1>12. CASE \/ AddAudioStartsWorker \/ AddAudioFails \/ Settle \/ Finalize
               \/ FinHears \/ FinGivesUp \/ FinReplaced
               \/ FailedWorkerReplaced \/ SettleEnds \/ LoopHearsFin
               \/ LoopUnwinds \/ LoopCloses \/ LoopLeaves \/ CloseHears
               \/ CloseGivesUp \/ CloseReplaced \/ RunCloses \/ RunJoins
               \/ ReaderHears \/ ReaderMeetsEnd \/ RecognitionEnds
               \/ RecognitionFails \/ AdapterDegrades \/ WorkerDies
               \/ WorkerDoesNotStart \/ GraceEnds \/ Shutdown \/ UNCHANGED
               \/ vars
    BY <1>12 DEF vars, AddAudioStartsWorker, Listening, AddAudioFails,
       Terminate, Settle, Finalize, FinHears, FinSucceeds, FinGivesUp,
       Noticed, FinReplaced, FinRaises, FailedWorkerReplaced, SettleEnds,
       LoopHearsFin, LoopUnwinds, LoopCloses, LoopLeaves, CloseHears,
       CloseEnds, CloseGivesUp, CloseReplaced, RunCloses, RunJoins,
       ReaderHears, ReaderMeetsEnd, RecognitionEnds, RecognitionFails,
       AdapterDegrades, WorkerDies, WorkerDoesNotStart, GraceEnds, Shutdown
  <1>13. QED
    BY <1>1, <1>2, <1>3, <1>4, <1>5, <1>6, <1>7, <1>8, <1>9, <1>10, <1>11,
       <1>12 DEF Next, Hearing, Predictor, Finalization, LoopGoesOn,
       Closing, WorkerProgram

LEMMA AsrStep ==
  ASSUME TypeOK, CountInv, asr \in Asrs, process \in Processes, [Next]_vars
  PROVE  asr' \in Asrs
  <1> USE DEF sessionVars, predictorVars, asrVars, managerVars
  <1>w. worker \in BOOLEAN
    BY DEF TypeOK
  <1> USE <1>w
  <1>1. CASE ObservationIsPredicted
    BY ForgottenTyped, <1>1 DEF ObservationIsPredicted
  <1>2. CASE PredictorDegrades
    BY ForgottenTyped, <1>2 DEF PredictorDegrades
  <1>3. CASE PredictorCancelled
    BY ForgottenTyped, <1>3 DEF PredictorCancelled
  <1>4. CASE AddAudio
    <2>1. PICK work \in {FALSE, ~degraded} :
            asr' = [asr EXCEPT
                      !.reader = IF asr.reader = "none" THEN "reading" ELSE asr.reader,
                      !.expected = IF work THEN (asr.expected \ predictor.queue) \cup {chunks + 1} ELSE asr.expected]
      BY <1>4 DEF AddAudio, Observed
    <2>2. chunks + 1 \in 1 .. MaxChunks
      BY <1>4, UnderstandingAssumption DEF AddAudio, AcceptsAudio, CountInv, TypeOK
    <2>3. (IF work THEN (asr.expected \ predictor.queue) \cup {chunks + 1} ELSE asr.expected) \in SUBSET (1 .. MaxChunks)
      BY <2>2 DEF Asrs
    <2> QED
      BY <2>1, <2>3 DEF Asrs
  <1>5. CASE AddAudioFails
    BY TerminateTyped, <1>5 DEF AddAudioFails
  <1>6. CASE WorkerStarts
    <2>1. PICK work \in {FALSE, ~degraded} :
            asr' = [asr EXCEPT
                      !.reader = IF asr.reader = "none" THEN "reading" ELSE asr.reader,
                      !.expected = IF work THEN (asr.expected \ predictor.queue) \cup {chunks} ELSE asr.expected]
      BY <1>6 DEF WorkerStarts, Observed
    <2>2. chunks \in 1 .. MaxChunks
      BY <1>6, UnderstandingAssumption DEF WorkerStarts, AcceptsAudio,
         CountInv, TypeOK
    <2>3. (IF work THEN (asr.expected \ predictor.queue) \cup {chunks} ELSE asr.expected) \in SUBSET (1 .. MaxChunks)
      BY <2>2 DEF Asrs
    <2> QED
      BY <2>1, <2>3 DEF Asrs
  <1>7. CASE AddAudioRaises
    BY ForgottenTyped, <1>7 DEF AddAudioRaises
  <1>8. CASE FinBegins
    BY FinishTyped, <1>8 DEF FinBegins, StopPredictor, FinRaises
  <1>9. CASE FinStopped
    BY FinishTyped, <1>9 DEF FinStopped
  <1>10. CASE FinHears
    BY <1>10 DEF FinHears, FreshAsr, Asrs
  <1>11. CASE FinGivesUp
    BY TerminateTyped, <1>11 DEF FinGivesUp
  <1>12. CASE CloseGoesOn
    <2>1. Forgotten(predictor.queue) \in Asrs
      BY ForgottenTyped
    <2> QED
      BY <1>12, <2>1, SendTyped DEF CloseGoesOn, CloseTranscription
  <1>13. CASE CloseGivesUp
    BY TerminateTyped, <1>13 DEF CloseGivesUp
  <1>14. CASE ReaderHears
    <2>1. process.events \in Seq({"degraded", "final", "error"}) /\ process.events # <<>>
      BY <1>14 DEF ReaderHears, TypeOK
    <2>2. Head(process.events) \in {"degraded", "final", "error"}
      BY <2>1
    <2> QED
      BY <1>14, <2>2 DEF ReaderHears, Asrs
  <1>15. CASE ReaderMeetsEnd
    BY <1>15 DEF ReaderMeetsEnd, Asrs
  <1>16. CASE \/ TakeObservation \/ AddAudioStartsWorker \/ Settle
               \/ Finalize \/ FinReplaced \/ FailedWorkerReplaced
               \/ SettleEnds \/ LoopHearsFin \/ LoopUnwinds \/ LoopCloses
               \/ LoopLeaves \/ CloseStopsPredictor \/ CloseHears
               \/ CloseReplaced \/ RunCloses \/ RunJoins \/ RecognitionEnds
               \/ RecognitionFails \/ AdapterDegrades \/ WorkerDies
               \/ WorkerDoesNotStart \/ GraceEnds \/ Shutdown \/ UNCHANGED
               \/ vars
    BY <1>16 DEF vars, TakeObservation, AddAudioStartsWorker, Listening,
       Settle, Finalize, FinReplaced, FinRaises, Noticed,
       FailedWorkerReplaced, SettleEnds, LoopHearsFin, LoopUnwinds,
       LoopCloses, LoopLeaves, CloseStopsPredictor, Idle, CloseHears,
       CloseEnds, CloseReplaced, RunCloses, RunJoins, RecognitionEnds,
       RecognitionFails, AdapterDegrades, WorkerDies, WorkerDoesNotStart,
       GraceEnds, Shutdown
  <1>17. QED
    BY <1>1, <1>2, <1>3, <1>4, <1>5, <1>6, <1>7, <1>8, <1>9, <1>10, <1>11,
       <1>12, <1>13, <1>14, <1>15, <1>16 DEF Next, Hearing, Predictor,
       Finalization, LoopGoesOn, Closing, WorkerProgram

LEMMA ProcessStep ==
  ASSUME asr \in Asrs, process \in Processes, worker \in BOOLEAN, [Next]_vars
  PROVE  process' \in Processes /\ worker' \in BOOLEAN
  <1> USE DEF sessionVars, predictorVars, asrVars, managerVars
  <1>1. CASE AddAudio
    BY <1>1 DEF AddAudio, Processes
  <1>2. CASE AddAudioFails
    BY TerminateTyped, <1>2 DEF AddAudioFails
  <1>3. CASE WorkerStarts
    BY FreshTyped, <1>3 DEF WorkerStarts
  <1>4. CASE FinBegins
    BY FinishTyped, <1>4 DEF FinBegins, StopPredictor, FinRaises
  <1>5. CASE FinStopped
    BY FinishTyped, <1>5 DEF FinStopped
  <1>6. CASE FinGivesUp
    BY TerminateTyped, <1>6 DEF FinGivesUp
  <1>7. CASE CloseGoesOn
    <2>1. Forgotten(predictor.queue) \in Asrs
      BY ForgottenTyped
    <2> QED
      BY <1>7, <2>1, SendTyped DEF CloseGoesOn, CloseTranscription
  <1>8. CASE CloseGivesUp
    BY TerminateTyped, <1>8 DEF CloseGivesUp
  <1>9. CASE ReaderHears
    <2>1. process.events # <<>>
      BY <1>9 DEF ReaderHears
    <2>2. Tail(process.events) \in Seq({"degraded", "final", "error"})
      BY <2>1 DEF Processes
    <2> QED
      BY <1>9, <2>2 DEF ReaderHears, Processes
  <1>10. CASE RecognitionEnds
    <2>1. [process EXCEPT !.state = "idle", !.finishing = FALSE] \in Processes
      BY DEF Processes
    <2> QED
      BY <1>10, <2>1, SaysTyped DEF RecognitionEnds
  <1>11. CASE RecognitionFails
    <2>1. [process EXCEPT !.state = IF process.finishing THEN "idle" ELSE "ended",
                           !.finishing = FALSE] \in Processes
      BY DEF Processes
    <2> QED
      BY <1>11, <2>1, SaysTyped DEF RecognitionFails
  <1>12. CASE AdapterDegrades
    BY SaysTyped, <1>12 DEF AdapterDegrades
  <1>13. CASE WorkerDies
    BY <1>13 DEF WorkerDies, Processes
  <1>14. CASE \/ TakeObservation \/ ObservationIsPredicted
               \/ PredictorDegrades \/ PredictorCancelled
               \/ AddAudioStartsWorker \/ Settle \/ Finalize \/ FinHears
               \/ FinReplaced \/ FailedWorkerReplaced \/ AddAudioRaises
               \/ SettleEnds \/ LoopHearsFin \/ LoopUnwinds \/ LoopCloses
               \/ LoopLeaves \/ CloseStopsPredictor \/ CloseHears
               \/ CloseReplaced \/ RunCloses \/ RunJoins \/ ReaderMeetsEnd
               \/ WorkerDoesNotStart \/ GraceEnds \/ Shutdown \/ UNCHANGED
               \/ vars
    BY <1>14 DEF vars, TakeObservation, ObservationIsPredicted,
       PredictorDegrades, PredictorCancelled, AddAudioStartsWorker,
       Listening, Settle, Finalize, FinHears, FinSucceeds, FinReplaced,
       FinRaises, Noticed, FailedWorkerReplaced, AddAudioRaises, Idle,
       SettleEnds, LoopHearsFin, LoopUnwinds, LoopCloses, LoopLeaves,
       CloseStopsPredictor, CloseHears, CloseEnds, CloseReplaced, RunCloses,
       RunJoins, ReaderMeetsEnd, WorkerDoesNotStart, GraceEnds, Shutdown
  <1>15. QED
    BY <1>1, <1>2, <1>3, <1>4, <1>5, <1>6, <1>7, <1>8, <1>9, <1>10, <1>11,
       <1>12, <1>13, <1>14 DEF Next, Hearing, Predictor, Finalization,
       LoopGoesOn, Closing, WorkerProgram


-----------------------------------------------------------------------------
UnderstandingInv ==
  /\ TypeOK /\ PlacesInv /\ PipeInv /\ HoldersInv /\ CountInv

(* The invariant holds initially: nothing of the session has begun.        *)
LEMMA InitHolds ==
  Init => UnderstandingInv
  <1> SUFFICES ASSUME Init PROVE UnderstandingInv
    OBVIOUS
  <1> USE UnderstandingAssumption DEF Init
  <1>1. asr \in Asrs /\ asr.reader = "none" /\ ~asr.finished /\ asr.expected = {}
    BY DEF Asrs, FreshAsr
  <1>2. process \in Processes /\ Quiet /\ process.state \in {"idle", "dead"}
    BY FreshTyped DEF FreshProcess, NoProcess, Quiet
  <1>3. TypeOK
    <2>1. predictor \in [task : {"none", "waiting", "predicting", "cancelling", "ended"},
                         queue : SUBSET (1 .. MaxChunks), hand : 0 .. MaxChunks,
                         pending : Nat, settled : BOOLEAN]
      OBVIOUS
    <2>2. fin \in Fins /\ close \in Closes
      BY DEF Fins, Closes
    <2>3. run \in RunPlace /\ loop \in LoopPlace /\ cancels \subseteq {"loop", "fin", "lost"}
      BY DEF RunPlace, LoopPlace
    <2>4. chunks \in 0 .. MaxChunks /\ faults \in 0 .. MaxFaults
      OBVIOUS
    <2>5. closed \in BOOLEAN /\ degraded \in BOOLEAN /\ leased \in BOOLEAN /\ worker \in BOOLEAN
      OBVIOUS
    <2> HIDE DEF Init
    <2> QED
      BY <1>1, <1>2, <2>1, <2>2, <2>3, <2>4, <2>5 DEF TypeOK, Asrs, Processes,
         Fins, Closes
  <1>4. PlacesInv
    BY DEF PlacesInv, FinActive, CloseActive, LoopHolds, Waiting
  <1>5. PipeInv
    <2>1. ~worker => process = NoProcess
      OBVIOUS
    <2>2. ~process.finishing
      BY <1>2 DEF Quiet
    <2> QED
      BY <1>1, <1>2, <2>1, <2>2 DEF PipeInv
  <1>6. HoldersInv
    BY <1>1 DEF HoldersInv, FinHolds, CloseHolds, LoopHolds, FinActive, Waiting
  <1>7. CountInv
    <2>1. /\ predictor.task = "none" /\ predictor.queue = {} /\ predictor.hand = 0
          /\ predictor.pending = 0 /\ predictor.settled = TRUE /\ chunks = 0
          /\ loop = "listen"
      OBVIOUS
    <2>2. (predictor.pending = 0) = TRUE
      BY <2>1
    <2>3. Queued = 0 /\ InHand = 0
      BY <2>1 DEF Queued, InHand
    <2> HIDE DEF Init
    <2>4. predictor.settled = (predictor.pending = 0)
      BY <2>1, <2>2
    <2> QED
      BY <1>1, <2>1, <2>3, <2>4 DEF CountInv
  <1> QED
    BY <1>3, <1>4, <1>5, <1>6, <1>7 DEF UnderstandingInv

(* A step keeps the invariant.  That pending is a natural number is what   *)
(* the count says after the step.                                          *)
LEMMA StepHolds ==
  UnderstandingInv /\ [Next]_vars => UnderstandingInv'
  <1> SUFFICES ASSUME UnderstandingInv, [Next]_vars PROVE UnderstandingInv'
    OBVIOUS
  <1>1. TypeOK /\ PlacesInv /\ PipeInv /\ HoldersInv /\ CountInv
    BY DEF UnderstandingInv
  <1>2. PlacesInv' /\ PipeInv' /\ HoldersInv' /\ CountInv'
    BY <1>1, PlacesStep, PipeStep, HoldersStep, CountStep
  <1>3. /\ fin \in Fins /\ close \in Closes
        /\ asr \in Asrs /\ process \in Processes
        /\ predictor \in Predictors
        /\ closed \in BOOLEAN /\ degraded \in BOOLEAN
        /\ leased \in BOOLEAN /\ worker \in BOOLEAN
        /\ asr.error \in BOOLEAN
        /\ chunks \in 0 .. MaxChunks /\ faults \in 0 .. MaxFaults
    BY <1>1 DEF TypeOK, Fins, Closes, Asrs, Processes, Predictors
  <1>4. Cardinality(predictor.queue) \in Int
    BY <1>1, QueueCounted DEF Queued
  <1>5. predictor' \in Predictors
    BY <1>1, <1>3, <1>4, PredictorStep
  <1>6. predictor'.pending \in Nat
    BY <1>2 DEF CountInv, Queued, InHand
  <1>7. predictor' \in [task : {"none", "waiting", "predicting", "cancelling", "ended"},
                        queue : SUBSET (1 .. MaxChunks), hand : 0 .. MaxChunks,
                        pending : Nat, settled : BOOLEAN]
    BY <1>5, <1>6 DEF Predictors
  <1>8. TypeOK'
    BY <1>1, <1>3, <1>7, PlaceStep, BoundStep, FlagStep, FinStep, AsrStep,
       ProcessStep
       DEF TypeOK, Fins, Closes, Asrs, Processes
  <1> QED
    BY <1>2, <1>8 DEF UnderstandingInv

(* Spec keeps the whole invariant.                                         *)
LEMMA InvHolds == Spec => []UnderstandingInv
  BY InitHolds, StepHolds, PTL DEF Spec

-----------------------------------------------------------------------------
(* Every variable keeps its type, and the count of pending predictions     *)
(* never falls below zero.                                                 *)
THEOREM TypeCorrect == Spec => []TypeOK
  <1>1. UnderstandingInv => TypeOK
    BY DEF UnderstandingInv
  <1> QED
    BY <1>1, InvHolds, PTL

(* The lease of the ASR worker is held by the one task that waits for the  *)
(* worker or by a turn whose audio comes in, a worker that the next turn   *)
(* can take is silent, and a session that is over holds the lease only     *)
(* through a finalization (nemotron_client.py:219-228), for any number of  *)
(* chunks and faults.                                                      *)
THEOREM AsrLeaseHolds == Spec => []AsrLeaseIsSound
  <1>1. UnderstandingInv => AsrLeaseIsSound
    <2> SUFFICES ASSUME UnderstandingInv PROVE AsrLeaseIsSound
      OBVIOUS
    <2> USE DEF UnderstandingInv
    <2>1. /\ ~(LoopHolds /\ FinHolds) /\ ~(LoopHolds /\ CloseHolds)
          /\ ~(FinHolds /\ CloseHolds)
      BY DEF HoldersInv
    <2>2. leased <=> \/ LoopHolds \/ FinHolds \/ CloseHolds
                     \/ asr.reader # "none" /\ ~asr.finished
      BY DEF HoldersInv
    <2>3. ASSUME ~leased, worker, process.state # "dead"
          PROVE  process = FreshProcess
      <3>1. asr.reader \in {"none", "final"}
        BY <2>2, <2>3 DEF PipeInv, TypeOK, FinHolds, CloseHolds
      <3>2. Quiet /\ process.state = "idle"
        BY <2>3, <3>1 DEF PipeInv
      <3>3. process = [state |-> process.state, finishing |-> process.finishing,
                       events |-> process.events]
        BY DEF TypeOK
      <3>4. process.finishing = FALSE
        BY <3>2 DEF Quiet, TypeOK
      <3> QED
        BY <3>2, <3>3, <3>4 DEF Quiet, FreshProcess
    <2>4. run = "over" /\ leased => FinHolds
      BY <2>2 DEF PlacesInv, HoldersInv, CloseHolds
    <2> QED
      BY <2>1, <2>2, <2>3, <2>4 DEF AsrLeaseIsSound
  <1> QED
    BY <1>1, InvHolds, PTL

(* The count of pending predictions is the number of observations that     *)
(* wait or are being predicted, the event of settle_predictions tells when *)
(* it is zero, and while the predictor works the transcription expects     *)
(* what it is asked for (speech_understanding.py:542-550).                 *)
THEOREM PendingHolds == Spec => []PendingIsCounted
  <1>1. UnderstandingInv => PendingIsCounted
    <2> SUFFICES ASSUME TypeOK, CountInv PROVE PendingIsCounted
      BY DEF UnderstandingInv
    <2> DEFINE inHand == {predictor.hand} \ {0}
    <2>1. Cardinality(inHand) = InHand
      BY AtMostOne DEF InHand
    <2>2. Cardinality(predictor.queue) = Queued
      BY QueueCounted
    <2>3. Cardinality(predictor.queue) <= 1
      BY <2>2 DEF Queued
    <2> QED
      BY <2>1, <2>2, <2>3 DEF PendingIsCounted, CountInv
  <1> QED
    BY <1>1, InvHolds, PTL

=============================================================================
