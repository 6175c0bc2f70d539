------------------------- MODULE SessionGenerations -------------------------
(***************************************************************************)
(* The assistant generations of one VoiceSession (app/compute/voice/       *)
(* session.py): how the recognition loop starts speculative candidates,    *)
(* commits user turns, promotes or replaces candidates and cancels         *)
(* answers, while the generation tasks, their release tasks, the teardown  *)
(* task and the receive loop run between its awaits.                       *)
(*                                                                         *)
(* asyncio runs one task at a time and switches only at an await, so a     *)
(* step is the code between two awaits.  The recognition loop is one       *)
(* sequential process whose await points are the values of rpc.  The       *)
(* messages a step sends are left out; awaiting the send is kept, because  *)
(* other tasks run meanwhile.  Sends succeed: what a broken connection     *)
(* does to the session is not part of this module.                         *)
(***************************************************************************)
EXTENDS Naturals, Sequences

CONSTANT MaxGenerations   \* generation ids given out before the model stops

ASSUME MaxGenerationsAssumption == MaxGenerations \in Nat \ {0}

GenId == 1 .. MaxGenerations
NoGen == 0

CandidateLifecycle ==
  {"CREATED", "PREFILLING", "STREAMING", "READY", "COMMITTED",
   "CANCELLATION_REQUESTED", "CANCELLED", "FAILED"}

(* asyncio tasks.  "created": scheduled, not begun.  "closing": the text   *)
(* and audio subtasks returned and the synthesis is being closed.          *)
(* "reporting": the failure handler has run up to its first send.          *)
(* "cancelling": cancel() was called and the subtasks are being stopped.   *)
TaskState == {"none", "created", "running", "closing", "reporting",
              "cancelling", "done"}
ReleaseState == {"none", "created", "running", "done"}
GateState == {"HELD", "RELEASED", "DISCARDED"}

(* Where the recognition loop is suspended. *)
RecognitionPoint ==
  {"listening",          \* audio_queue.get()
   "cancelSend",         \* sending playback.cancel
   "speculating",        \* _finalize_cancelled_playback, before a candidate
   "overlapFinalizing",  \* finalizing the transcript of an overlap
   "overlapResumed",     \* the same, after playback was resumed early
   "overlapTaken",       \* reporting that an overlap became the user's turn
   "finalizing",         \* finalizing the user turn, sending transcript.final
   "turnSend",           \* sending turn.committed
   "settling",           \* _finalize_cancelled_playback, before a commit
   "promoting",          \* sending llm.history for a promoted candidate
   "awaitTeardown",      \* _await_generation_teardown
   "startSend",          \* sending llm.history for an authoritative answer
   "crashed"}            \* an assertion failed; the session is shut down

VARIABLES
  life, spec, cancelled, accepts, played, gate, task, rel, turn,
                   \* per generation: lifecycle, speculative, cancelled,
                   \* accepts_playback, playback_complete, release_gate,
                   \* task, release_task, user_turn_id
  nextGen,         \* next_generation_id
  nextTurn,        \* next_user_turn_id
  active,          \* active_generation, NoGen for None
  teardown,        \* pending_generation_teardown
  playbackGen,     \* playback_controller.active_generation_id
  flowGen,         \* generation playback_flow_control admits
  contextTurn,     \* last user turn committed to the private model context
  conversation,    \* durable history: user and assistant entries
  overlap,         \* generation of active_user_overlap
  resumeSent,      \* generations a playback.resume was sent for
  speech,          \* speech_active of the recognition loop
  rpc, rgen, rnext, rpend
                   \* recognition loop: await point, captured generation,
                   \* point after a cancellation, playback it waits for

genVars == <<life, spec, cancelled, accepts, played, gate, task, rel, turn>>
playbackVars == <<playbackGen, flowGen>>
historyVars == <<contextTurn, conversation, nextTurn>>
recognitionVars == <<overlap, resumeSent, speech, rpc, rgen, rnext, rpend>>
vars == <<genVars, nextGen, active, teardown, playbackVars, historyVars,
          recognitionVars>>

UserEntry(t) == [turn |-> t, gen |-> NoGen]
AssistantEntry(g) == [turn |-> turn[g], gen |-> g]
InHistory(g) == \E i \in 1 .. Len(conversation) : conversation[i].gen = g

(* Qwen or TTS may be working for g. *)
Working(g) == task[g] \in {"created", "running", "cancelling"}

Entry == [turn : Nat, gen : GenId \cup {NoGen}]

GenerationsTypeOK ==
  /\ life \in [GenId -> CandidateLifecycle]
  /\ spec \in [GenId -> BOOLEAN]
  /\ cancelled \in [GenId -> BOOLEAN]
  /\ accepts \in [GenId -> BOOLEAN]
  /\ played \in [GenId -> BOOLEAN]
  /\ gate \in [GenId -> GateState]
  /\ task \in [GenId -> TaskState]
  /\ rel \in [GenId -> ReleaseState]
  /\ turn \in [GenId -> Nat]

HistoryTypeOK ==
  /\ contextTurn \in Nat
  /\ nextTurn \in Nat
  /\ conversation \in Seq(Entry)

LoopTypeOK ==
  /\ nextGen \in 1 .. MaxGenerations + 1
  /\ active \in GenId \cup {NoGen}
  /\ teardown \in GenId \cup {NoGen}
  /\ playbackGen \in GenId \cup {NoGen}
  /\ flowGen \in GenId \cup {NoGen}
  /\ overlap \in GenId \cup {NoGen}
  /\ resumeSent \in SUBSET GenId
  /\ speech \in BOOLEAN
  /\ rpc \in RecognitionPoint
  /\ rgen \in GenId \cup {NoGen}
  /\ rnext \in {"listening", "finalizing"}
  /\ rpend \in SUBSET GenId

(* Every variable has its type, whatever the tasks interleave. *)
TypeOK == GenerationsTypeOK /\ HistoryTypeOK /\ LoopTypeOK

Init ==
  /\ life = [g \in GenId |-> "CREATED"]
  /\ spec = [g \in GenId |-> FALSE]
  /\ cancelled = [g \in GenId |-> FALSE]
  /\ accepts = [g \in GenId |-> TRUE]
  /\ played = [g \in GenId |-> FALSE]
  /\ gate = [g \in GenId |-> "HELD"]
  /\ task = [g \in GenId |-> "none"]
  /\ rel = [g \in GenId |-> "none"]
  /\ turn = [g \in GenId |-> 0]
  /\ nextGen = 1
  /\ nextTurn = 1
  /\ active = NoGen
  /\ teardown = NoGen
  /\ playbackGen = NoGen
  /\ flowGen = NoGen
  /\ contextTurn = 0
  /\ conversation = <<>>
  /\ overlap = NoGen
  /\ resumeSent = {}
  /\ speech = FALSE
  /\ rpc = "listening"
  /\ rgen = NoGen
  /\ rnext = "listening"
  /\ rpend = {}

-----------------------------------------------------------------------------
(* Operations shared by the handlers.                                      *)

(* task.cancel().  A task that never began never will; one that is only    *)
(* sending its failure report ends without a further step of its own.      *)
CancelledTask(state) ==
  IF state \in {"running", "closing"} THEN "cancelling"
  ELSE IF state = "created" THEN "none"
  ELSE IF state = "reporting" THEN "done"
  ELSE state

(* _schedule_generation_teardown: cancel the unfinished tasks of g. *)
ScheduleTeardown(g) ==
  /\ teardown' = g
  /\ task' = [task EXCEPT ![g] = CancelledTask(@)]
  /\ rel' = [rel EXCEPT ![g] = IF @ = "none" THEN @ ELSE "done"]

(* The lifecycle a cancelled task and the teardown leave behind. *)
Cancelled_Always(state) == "CANCELLED"
Cancelled(state) ==
  IF state = "CANCELLATION_REQUESTED" THEN "CANCELLED" ELSE state

(* The await for the previous generation's teardown, or the guard on it.   *)
TeardownAwaited_Skipped == TRUE
TeardownAwaited == teardown = NoGen

(* A finished task, or none: a teardown passes over it. *)
TaskEnded_NoneForgotten(g) == task[g] = "done"
TaskEnded(g) == task[g] \in {"none", "done"}

(* _invalidate_speculative_candidate, for the active candidate. *)
InvalidateSpeculative ==
  /\ cancelled' = [cancelled EXCEPT ![active] = TRUE]
  /\ accepts' = [accepts EXCEPT ![active] = FALSE]
  /\ life' = [life EXCEPT ![active] = "CANCELLATION_REQUESTED"]
  /\ gate' = [gate EXCEPT ![active] = "DISCARDED"]
  /\ active' = NoGen
  /\ ScheduleTeardown(active)
  /\ UNCHANGED <<spec, played, turn, nextGen, playbackVars>>

(* The tail of _request_generation_cancellation for generation g. *)
FinishCancellation_KeepsActive(g) ==
  /\ flowGen' = IF flowGen = g THEN NoGen ELSE flowGen
  /\ active' = active
  /\ ScheduleTeardown(g)

FinishCancellation(g) ==
  /\ flowGen' = IF flowGen = g THEN NoGen ELSE flowGen
  /\ active' = NoGen
  /\ ScheduleTeardown(g)

(* _request_generation_cancellation(send_event=True) by the recognition    *)
(* loop, which continues at next; it suspends only to send the command.    *)
RequestCancellation(next) ==
  \/ /\ active = NoGen
     /\ rpc' = next
     /\ UNCHANGED <<genVars, nextGen, active, teardown, playbackVars, rgen, rnext>>
  \/ /\ active # NoGen
     /\ spec[active]
     /\ InvalidateSpeculative
     /\ rpc' = next
     /\ UNCHANGED <<rgen, rnext>>
  \/ /\ active # NoGen
     /\ ~spec[active]
     /\ cancelled' = [cancelled EXCEPT ![active] = TRUE]
     /\ life' = [life EXCEPT ![active] = "CANCELLATION_REQUESTED"]
     /\ \/ /\ playbackGen = active
           /\ rpc' = "cancelSend"
           /\ rgen' = active
           /\ rnext' = next
           /\ UNCHANGED <<active, teardown, flowGen, task, rel>>
        \/ /\ playbackGen # active
           /\ FinishCancellation(active)
           /\ rpc' = next
           /\ UNCHANGED <<rgen, rnext>>
     /\ UNCHANGED <<spec, accepts, played, gate, turn, nextGen, playbackGen>>

(* _update_assistant_history: the first audible word appends the entry. *)
WriteHistory(g) ==
  conversation' = IF InHistory(g) THEN conversation
                  ELSE Append(conversation, AssistantEntry(g))

(* _commit_assistant_if_complete, where finished and complete are the      *)
(* values of generation_finished and playback_complete after the step.     *)
CommitAssistantIfComplete_Unplayed(g, finished, complete) ==
  IF finished /\ active = g
  THEN /\ WriteHistory(g)
       /\ active' = NoGen
  ELSE UNCHANGED <<conversation, active>>

CommitAssistantIfComplete(g, finished, complete) ==
  IF finished /\ complete /\ active = g
  THEN /\ WriteHistory(g)
       /\ active' = NoGen
  ELSE UNCHANGED <<conversation, active>>

(* _create_generation and the assignment to active_generation that follows. *)
CreateGeneration_GateOpen(isSpeculative) ==
  /\ nextGen' = nextGen + 1
  /\ active' = nextGen
  /\ turn' = [turn EXCEPT ![nextGen] = nextTurn]
  /\ spec' = [spec EXCEPT ![nextGen] = isSpeculative]
  /\ gate' = [gate EXCEPT ![nextGen] = "RELEASED"]

CreateGeneration(isSpeculative) ==
  /\ nextGen' = nextGen + 1
  /\ active' = nextGen
  /\ turn' = [turn EXCEPT ![nextGen] = nextTurn]
  /\ spec' = [spec EXCEPT ![nextGen] = isSpeculative]
  /\ gate' = [gate EXCEPT ![nextGen] = IF isSpeculative THEN @ ELSE "RELEASED"]

(* Generations whose playback _finalize_cancelled_playback waits for. *)
StoppingPlayback_None == {}
StoppingPlayback == {g \in GenId : g < nextGen /\ cancelled[g] /\ accepts[g]}

PlaybackSettled_Unawaited == TRUE
PlaybackSettled == \A g \in rpend : ~accepts[g]

-----------------------------------------------------------------------------
(* The recognition loop. *)

OverlapEligible ==
  /\ active # NoGen
  /\ ~spec[active]
  /\ ~cancelled[active]
  /\ ~played[active]
  /\ accepts[active]
  /\ playbackGen = active

(* First speech after silence: an overlap of the answer being played, or   *)
(* the cancellation of whatever is active.                                 *)
SpeechOnset ==
  /\ rpc = "listening"
  /\ ~speech
  /\ nextGen <= MaxGenerations   \* bound: an id is left for the answer
  /\ speech' = TRUE
  /\ \/ /\ OverlapEligible
        /\ overlap' = active
        /\ UNCHANGED <<genVars, nextGen, active, teardown, playbackVars, rpc,
                       rgen, rnext>>
     \/ /\ ~OverlapEligible
        /\ RequestCancellation("listening")
        /\ UNCHANGED overlap
  /\ UNCHANGED <<historyVars, resumeSent, rpend>>

(* The command was sent: the generation is dropped and torn down. *)
CancelSent ==
  /\ rpc = "cancelSend"
  /\ FinishCancellation(rgen)
  /\ rpc' = rnext
  /\ UNCHANGED <<life, spec, cancelled, accepts, played, gate, turn, nextGen,
                 playbackGen, historyVars, overlap, resumeSent, speech, rgen,
                 rnext, rpend>>

(* Resumed speech, a revised transcript or a hold prediction. *)
InvalidateCandidate ==
  /\ rpc = "listening"
  /\ speech
  /\ active # NoGen
  /\ spec[active]
  /\ InvalidateSpeculative
  /\ UNCHANGED <<historyVars, recognitionVars>>

(* _start_speculative_candidate up to its await. *)
StartSpeculation ==
  /\ rpc = "listening"
  /\ speech
  /\ active = NoGen
  /\ TeardownAwaited
  /\ nextGen < MaxGenerations   \* bound: an id is left for the answer
  /\ rpc' = "speculating"
  /\ rpend' = StoppingPlayback
  /\ UNCHANGED <<genVars, nextGen, active, teardown, playbackVars, historyVars,
                 overlap, resumeSent, speech, rgen, rnext>>

CreateCandidate ==
  /\ rpc = "speculating"
  /\ PlaybackSettled
  /\ IF active # NoGen
     THEN /\ rpc' = "crashed"
          /\ UNCHANGED <<genVars, nextGen, active>>
     ELSE /\ CreateGeneration(TRUE)
          /\ task' = [task EXCEPT ![nextGen] = "created"]
          /\ rpc' = "listening"
          /\ UNCHANGED <<life, cancelled, accepts, played, rel>>
  /\ UNCHANGED <<teardown, playbackVars, historyVars, overlap, resumeSent,
                 speech, rgen, rnext, rpend>>

(* PLAYBACK_STOP_TIMEOUT_SECONDS passed without a report from the browser. *)
PlaybackStopTimeout_Never(g) == FALSE

PlaybackStopTimeout(g) ==
  /\ rpc \in {"speculating", "settling"}
  /\ g \in rpend
  /\ accepts[g]
  /\ accepts' = [accepts EXCEPT ![g] = FALSE]
  /\ UNCHANGED <<life, spec, cancelled, played, gate, task, rel, turn, nextGen,
                 active, teardown, playbackVars, historyVars, recognitionVars>>

(* _evaluate_active_overlap: the overlap takes the floor or needs an       *)
(* answer.  _promote_overlap_to_user_turn reports it before it cancels.    *)
OverlapTakesFloor ==
  /\ rpc = "listening"
  /\ speech
  /\ overlap # NoGen
  /\ overlap' = NoGen
  /\ rpc' = "overlapTaken"
  /\ rnext' = "listening"
  /\ UNCHANGED <<genVars, nextGen, active, teardown, playbackVars, historyVars,
                 resumeSent, speech, rgen, rpend>>

OverlapReported ==
  /\ rpc = "overlapTaken"
  /\ RequestCancellation(rnext)
  /\ UNCHANGED <<historyVars, overlap, resumeSent, speech, rpend>>

(* It looks like feedback: finalize the transcript before resuming, or     *)
(* commit it as a turn if the generation is no longer the active one.      *)
(* speech is read again only when the loop listens, so it is reset here.   *)
OverlapLooksEphemeral ==
  /\ rpc = "listening"
  /\ speech
  /\ overlap # NoGen
  /\ speech' = FALSE
  /\ IF active = overlap
     THEN /\ rpc' = "overlapFinalizing"
          /\ UNCHANGED overlap
     ELSE /\ rpc' = "finalizing"
          /\ overlap' = NoGen
  /\ UNCHANGED <<genVars, nextGen, active, teardown, playbackVars, historyVars,
                 resumeSent, rgen, rnext, rpend>>

(* _resume_provisional_overlap: a command is issued if the controller      *)
(* finds the generation current and its playback resumable.                *)
ResumeOverlap ==
  \/ playbackGen = overlap /\ resumeSent' = resumeSent \cup {overlap}
  \/ UNCHANGED resumeSent

(* The finalization grace ran out: playback is resumed provisionally. *)
OverlapGraceTimeout ==
  /\ rpc = "overlapFinalizing"
  /\ ResumeOverlap
  /\ rpc' = "overlapResumed"
  /\ UNCHANGED <<genVars, nextGen, active, teardown, playbackVars, historyVars,
                 overlap, speech, rgen, rnext, rpend>>

OverlapDismissed ==
  /\ \/ rpc = "overlapFinalizing" /\ ResumeOverlap
     \/ rpc = "overlapResumed" /\ UNCHANGED resumeSent
  /\ overlap' = NoGen
  /\ rpc' = "listening"
  /\ UNCHANGED <<genVars, nextGen, active, teardown, playbackVars, historyVars,
                 speech, rgen, rnext, rpend>>

OverlapTranscriptNeedsAnswer ==
  /\ rpc \in {"overlapFinalizing", "overlapResumed"}
  /\ overlap' = NoGen
  /\ rpc' = "overlapTaken"
  /\ rnext' = "finalizing"
  /\ UNCHANGED <<genVars, nextGen, active, teardown, playbackVars, historyVars,
                 resumeSent, speech, rgen, rpend>>

(* Once speech stopped the policy leaves an overlap unresolved only when   *)
(* its generation is no longer the active one.                             *)
OverlapPreventsCommit == overlap # NoGen /\ overlap = active

(* Enough silence, or a confident prediction, ends the user's turn. *)
CommitTurn ==
  /\ rpc = "listening"
  /\ speech
  /\ ~OverlapPreventsCommit
  /\ speech' = FALSE
  /\ rpc' = "finalizing"
  /\ UNCHANGED <<genVars, nextGen, active, teardown, playbackVars, historyVars,
                 overlap, resumeSent, rgen, rnext, rpend>>

(* _commit_finalized_user_turn reads active_generation once. *)
TurnFinalized ==
  /\ rpc = "finalizing"
  /\ rgen' = active
  /\ rpc' = "turnSend"
  /\ UNCHANGED <<genVars, nextGen, active, teardown, playbackVars, historyVars,
                 overlap, resumeSent, speech, rnext, rpend>>

EmptyTurnFinalized ==
  /\ rpc = "finalizing"
  /\ rpc' = "listening"
  /\ IF active # NoGen /\ spec[active]
     THEN InvalidateSpeculative
     ELSE UNCHANGED <<genVars, nextGen, active, teardown, playbackVars>>
  /\ UNCHANGED <<historyVars, overlap, resumeSent, speech, rgen, rnext, rpend>>

TurnSent ==
  /\ rpc = "turnSend"
  /\ rpc' = "settling"
  /\ rpend' = StoppingPlayback
  /\ UNCHANGED <<genVars, nextGen, active, teardown, playbackVars, historyVars,
                 overlap, resumeSent, speech, rgen, rnext>>

(* The final transcript agrees with the captured candidate: promote it. *)
PromoteCandidate ==
  /\ rpc = "settling"
  /\ PlaybackSettled
  /\ rgen # NoGen /\ spec[rgen]
  /\ conversation' = Append(conversation, UserEntry(nextTurn))
  /\ IF active # rgen
     THEN /\ rpc' = "crashed"
          /\ UNCHANGED <<spec, life, contextTurn>>
     ELSE /\ rpc' = "promoting"
          /\ spec' = [spec EXCEPT ![rgen] = FALSE]
          /\ life' = [life EXCEPT ![rgen] = "COMMITTED"]
          /\ contextTurn' = turn[rgen]
  /\ UNCHANGED <<cancelled, accepts, played, gate, task, rel, turn, nextGen,
                 active, teardown, playbackVars, nextTurn, overlap, resumeSent,
                 speech, rgen, rnext, rpend>>

PromotionSent ==
  /\ rpc = "promoting"
  /\ playbackGen' = rgen
  /\ flowGen' = rgen
  /\ rel' = [rel EXCEPT ![rgen] = "created"]
  /\ nextTurn' = nextTurn + 1
  /\ rpc' = "listening"
  /\ UNCHANGED <<life, spec, cancelled, accepts, played, gate, task, turn,
                 nextGen, active, teardown, contextTurn, conversation, overlap,
                 resumeSent, speech, rgen, rnext, rpend>>

(* No candidate was captured, or the final transcript contradicts it. *)
RejectCandidate ==
  /\ rpc = "settling"
  /\ PlaybackSettled
  /\ conversation' = Append(conversation, UserEntry(nextTurn))
  /\ rpc' = "awaitTeardown"
  /\ IF rgen # NoGen /\ spec[rgen] /\ active # NoGen /\ spec[active]
     THEN InvalidateSpeculative
     ELSE UNCHANGED <<genVars, nextGen, active, teardown, playbackVars>>
  /\ UNCHANGED <<contextTurn, nextTurn, overlap, resumeSent, speech, rgen,
                 rnext, rpend>>

StartAuthoritative ==
  /\ rpc = "awaitTeardown"
  /\ TeardownAwaited
  /\ IF active # NoGen
     THEN /\ rpc' = "crashed"
          /\ UNCHANGED <<life, spec, gate, turn, nextGen, active, playbackVars,
                         contextTurn, rgen>>
     ELSE /\ CreateGeneration(FALSE)
          /\ life' = [life EXCEPT ![nextGen] = "COMMITTED"]
          /\ contextTurn' = nextTurn
          /\ playbackGen' = nextGen
          /\ flowGen' = nextGen
          /\ rpc' = "startSend"
          /\ rgen' = nextGen
  /\ UNCHANGED <<cancelled, accepts, played, task, rel, teardown, conversation,
                 nextTurn, overlap, resumeSent, speech, rnext, rpend>>

StartSent ==
  /\ rpc = "startSend"
  /\ task' = [task EXCEPT ![rgen] = "created"]
  /\ nextTurn' = nextTurn + 1
  /\ rpc' = "listening"
  /\ UNCHANGED <<life, spec, cancelled, accepts, played, gate, rel, turn,
                 nextGen, active, teardown, playbackVars, contextTurn,
                 conversation, overlap, resumeSent, speech, rgen, rnext, rpend>>

-----------------------------------------------------------------------------
(* The generation task of g. *)

TaskBegins(g) ==
  /\ task[g] = "created"
  /\ task' = [task EXCEPT ![g] = "running"]
  /\ life' = [life EXCEPT ![g] = IF @ = "CREATED" THEN "PREFILLING" ELSE @]
  /\ UNCHANGED <<spec, cancelled, accepts, played, gate, rel, turn, nextGen,
                 active, teardown, playbackVars, historyVars, recognitionVars>>

FirstDelta(g) ==
  /\ task[g] = "running"
  /\ life[g] = "PREFILLING"
  /\ life' = [life EXCEPT ![g] = "STREAMING"]
  /\ UNCHANGED <<spec, cancelled, accepts, played, gate, task, rel, turn,
                 nextGen, active, teardown, playbackVars, historyVars,
                 recognitionVars>>

(* gather() returned: text and audio are complete. *)
ResponseFinished(g) ==
  /\ task[g] = "running"
  /\ life[g] # "PREFILLING"
  /\ task' = [task EXCEPT ![g] = "closing"]
  /\ CommitAssistantIfComplete(g, TRUE, played[g])
  /\ UNCHANGED <<life, spec, cancelled, accepts, played, gate, rel, turn,
                 nextGen, teardown, playbackVars, contextTurn, nextTurn,
                 recognitionVars>>

TaskReturns(g) ==
  /\ task[g] = "closing"
  /\ task' = [task EXCEPT ![g] = "done"]
  /\ life' = [life EXCEPT ![g] = IF spec[g] THEN "READY" ELSE @]
  /\ UNCHANGED <<spec, cancelled, accepts, played, gate, rel, turn, nextGen,
                 active, teardown, playbackVars, historyVars, recognitionVars>>

GateAfterFailure_Discarded(g) == "DISCARDED"
GateAfterFailure(g) == IF spec[g] THEN "DISCARDED" ELSE gate[g]

(* _handle_generation_failure up to its first send; also reached from a    *)
(* cancelled task whose synthesis cleanup fails.                           *)
TaskFails(g) ==
  /\ task[g] \in {"running", "closing", "cancelling"}
  /\ task[g] = "running" => ~played[g]   \* all its audio is already out
  /\ task' = [task EXCEPT ![g] = "reporting"]
  /\ life' = [life EXCEPT ![g] = "FAILED"]
  /\ gate' = [gate EXCEPT ![g] = GateAfterFailure(g)]
  /\ IF active = g
     THEN /\ cancelled' = [cancelled EXCEPT ![g] = TRUE]
          /\ active' = NoGen
     ELSE UNCHANGED <<cancelled, active>>
  /\ UNCHANGED <<spec, accepts, played, rel, turn, nextGen, teardown,
                 playbackVars, historyVars, recognitionVars>>

FailureReported(g) ==
  /\ task[g] = "reporting"
  /\ task' = [task EXCEPT ![g] = "done"]
  /\ UNCHANGED <<life, spec, cancelled, accepts, played, gate, rel, turn,
                 nextGen, active, teardown, playbackVars, historyVars,
                 recognitionVars>>

TaskCancelled(g) ==
  /\ task[g] = "cancelling"
  /\ task' = [task EXCEPT ![g] = "done"]
  /\ life' = [life EXCEPT ![g] = Cancelled(@)]
  /\ UNCHANGED <<spec, cancelled, accepts, played, gate, rel, turn, nextGen,
                 active, teardown, playbackVars, historyVars, recognitionVars>>

(* The release task of a promoted candidate: CandidateReleaseGate.release. *)
ReleaseBegins(g) ==
  /\ rel[g] = "created"
  /\ rel' = [rel EXCEPT ![g] = "running"]
  /\ gate' = [gate EXCEPT ![g] = "RELEASED"]
  /\ UNCHANGED <<life, spec, cancelled, accepts, played, task, turn, nextGen,
                 active, teardown, playbackVars, historyVars, recognitionVars>>

ReleaseReturns(g) ==
  /\ rel[g] = "running"
  /\ rel' = [rel EXCEPT ![g] = "done"]
  /\ UNCHANGED <<life, spec, cancelled, accepts, played, gate, task, turn,
                 nextGen, active, teardown, playbackVars, historyVars,
                 recognitionVars>>

(* _run_generation_teardown: both tasks of the generation have ended. *)
TeardownFinishes ==
  /\ teardown # NoGen
  /\ TaskEnded(teardown)
  /\ rel[teardown] \in {"none", "done"}
  /\ life' = [life EXCEPT ![teardown] = Cancelled(@)]
  /\ teardown' = NoGen
  /\ UNCHANGED <<spec, cancelled, accepts, played, gate, task, rel, turn,
                 nextGen, active, playbackVars, historyVars, recognitionVars>>

-----------------------------------------------------------------------------
(* The receive loop: reports of the browser about audio it was sent.       *)

Audible(g) == gate[g] = "RELEASED" /\ task[g] \notin {"none", "created"}

(* _acknowledge_playback.  Whether a report is stale is decided by the      *)
(* playback controller, whose own state is left out here.                  *)
PlaybackProgress(g) ==
  /\ Audible(g)
  /\ accepts[g]
  /\ playbackGen = g
  /\ WriteHistory(g)
  /\ UNCHANGED <<genVars, nextGen, active, teardown, playbackVars, contextTurn,
                 nextTurn, recognitionVars>>

(* _complete_playback; the browser reports it after assistant.audio.end. *)
PlaybackComplete(g) ==
  /\ Audible(g)
  /\ rel[g] \in {"none", "done"}
  /\ active = g
  /\ playbackGen = g
  /\ ~played[g]
  /\ played' = [played EXCEPT ![g] = TRUE]
  /\ accepts' = [accepts EXCEPT ![g] = FALSE]
  /\ CommitAssistantIfComplete(g, task[g] \in {"closing", "done"}, TRUE)
  /\ UNCHANGED <<life, spec, cancelled, gate, task, rel, turn, nextGen,
                 teardown, playbackVars, contextTurn, nextTurn,
                 recognitionVars>>

(* _stop_playback, and the acknowledgement of playback.cancel: the words   *)
(* that were heard enter the history, nothing is accepted afterwards.      *)
PlaybackStopped(g) ==
  /\ g <= playbackGen /\ ~spec[g]   \* the browser was told of g
  /\ cancelled[g]
  /\ accepts[g]
  /\ accepts' = [accepts EXCEPT ![g] = FALSE]
  /\ \/ Audible(g) /\ WriteHistory(g)
     \/ UNCHANGED conversation
  /\ UNCHANGED <<life, spec, cancelled, played, gate, task, rel, turn, nextGen,
                 active, teardown, playbackVars, contextTurn, nextTurn,
                 recognitionVars>>

(* The worklet refused to resume: its acknowledgement is CANCELLED with    *)
(* resume_rejected, which cancels the active generation.                   *)
ResumeRejected(g) ==
  /\ g \in resumeSent
  /\ playbackGen = g
  /\ active = g
  /\ ~cancelled[g]
  /\ resumeSent' = resumeSent \ {g}
  /\ cancelled' = [cancelled EXCEPT ![g] = TRUE]
  /\ life' = [life EXCEPT ![g] = "CANCELLATION_REQUESTED"]
  /\ FinishCancellation(g)
  /\ accepts' = [accepts EXCEPT ![g] = FALSE]
  /\ \/ WriteHistory(g)
     \/ UNCHANGED conversation
  /\ UNCHANGED <<spec, played, gate, turn, nextGen, playbackGen, contextTurn,
                 nextTurn, overlap, speech, rpc, rgen, rnext, rpend>>

-----------------------------------------------------------------------------
Recognition ==
  \/ SpeechOnset \/ CancelSent \/ InvalidateCandidate \/ StartSpeculation
  \/ CreateCandidate \/ OverlapTakesFloor \/ OverlapReported
  \/ OverlapLooksEphemeral \/ OverlapGraceTimeout \/ OverlapDismissed \/ OverlapTranscriptNeedsAnswer
  \/ CommitTurn \/ TurnFinalized \/ EmptyTurnFinalized \/ TurnSent
  \/ PromoteCandidate \/ PromotionSent \/ RejectCandidate
  \/ StartAuthoritative \/ StartSent
  \/ \E g \in GenId : PlaybackStopTimeout(g)

Generation(g) ==
  \/ TaskBegins(g) \/ FirstDelta(g) \/ ResponseFinished(g) \/ TaskReturns(g)
  \/ TaskFails(g) \/ FailureReported(g) \/ TaskCancelled(g)
  \/ ReleaseBegins(g) \/ ReleaseReturns(g)

Receive(g) ==
  PlaybackProgress(g) \/ PlaybackComplete(g) \/ PlaybackStopped(g)
    \/ ResumeRejected(g)

Next ==
  \/ Recognition
  \/ TeardownFinishes
  \/ \E g \in GenId : Generation(g) \/ Receive(g)

Spec == Init /\ [][Next]_vars

(* The steps of the loop that follow an await it has reached.  Listening   *)
(* is left to the microphone; what is awaited elsewhere always arrives:    *)
(* sends and the transcript finalization return, a stop has a timeout.     *)
Continue == rpc # "listening" /\ Recognition

(* A task is scheduled when it is ready, and a cancelled task stops.  How  *)
(* long the model speaks, and whether the browser reports, is not assumed. *)
FairSpec ==
  /\ Spec
  /\ WF_vars(Continue)
  /\ WF_vars(TeardownFinishes)
  /\ WF_vars(\E g \in GenId : TaskCancelled(g) \/ FailureReported(g))
  /\ WF_vars(\E g \in GenId : ReleaseReturns(g))

-----------------------------------------------------------------------------
(* What a correct session guarantees.                                      *)

(* Two generations never use the language model and the speech synthesizer *)
(* at the same time: a successor is created only behind the teardown       *)
(* barrier (_await_generation_teardown, _start_speculative_candidate).     *)
SingleGenerationWork ==
  \A g, h \in GenId : Working(g) /\ Working(h) => g = h

(* Whoever is about to schedule a teardown finds none pending, as          *)
(* _schedule_generation_teardown asserts: any holder of an active          *)
(* generation, and the loop while it is sending a cancel command.          *)
TeardownIsFree ==
  active # NoGen \/ rpc = "cancelSend" => teardown = NoGen

(* The loop never meets an active generation where it is about to create   *)
(* one, as _start_speculative_candidate and                                *)
(* _start_authoritative_generation assert after their awaits.              *)
SuccessorFindsNoAnswer ==
  rpc \in {"speculating", "awaitTeardown"} => active = NoGen

(* Both kinds of assertion hold whatever the other tasks do at the awaits  *)
(* before them: a failure would end the session in the middle of a turn.   *)
AssertionsHold == TeardownIsFree /\ SuccessorFindsNoAnswer

(* Nothing of a candidate leaves the session before its turn is committed: *)
(* its gate is closed, the browser is not given its id, the history holds  *)
(* no word of it and receive handlers cannot complete it.                  *)
SpeculativePrivate ==
  \A g \in GenId :
    spec[g] => gate[g] # "RELEASED" /\ playbackGen # g /\ ~InHistory(g)

(* A release task never finds the gate it opens discarded, which           *)
(* CandidateReleaseGate.release answers with an error.                     *)
ReleaseNeverRefused ==
  \A g \in GenId : rel[g] = "created" => gate[g] # "DISCARDED"

(* An answer that is out and neither cancelled nor played to its end is    *)
(* the active one, so that the next speech onset reaches it.               *)
AnswerStaysReachable ==
  \A g \in GenId :
    gate[g] = "RELEASED" /\ ~cancelled[g] /\ ~played[g] => active = g

(* In the durable history every answer follows the user turn it answers,   *)
(* and turns follow one another in order, however late the browser reports *)
(* what it played of a cancelled answer.                                   *)
HistoryAnswersItsTurn ==
  \A i \in 1 .. Len(conversation) :
    LET entry == conversation[i]
    IN  IF entry.gen # NoGen
        THEN i > 1 /\ conversation[i - 1] = UserEntry(entry.turn)
        ELSE \A j \in 1 .. i - 1 : conversation[j].turn < entry.turn

(* The history a candidate was prompted with is still the history when its *)
(* turn is committed: no late report changes it in between.                *)
CandidatePromptFrozen ==
  [][active # NoGen /\ spec[active] /\ conversation' # conversation
       => rpc = "settling"]_vars

LegalTransition ==
  ({"CREATED"} \X {"PREFILLING", "COMMITTED", "CANCELLATION_REQUESTED"})
  \cup ({"PREFILLING"} \X {"STREAMING", "READY", "COMMITTED",
                           "CANCELLATION_REQUESTED", "FAILED"})
  \cup ({"STREAMING"} \X {"READY", "COMMITTED", "CANCELLATION_REQUESTED",
                          "FAILED"})
  \cup ({"READY"} \X {"COMMITTED", "CANCELLATION_REQUESTED"})
  \cup ({"COMMITTED"} \X {"CANCELLATION_REQUESTED", "FAILED"})
  \cup ({"CANCELLATION_REQUESTED"} \X {"CANCELLED", "FAILED"})

(* No interleaving asks _transition_generation for a transition its table  *)
(* refuses.  INVALIDATED, left in the step that enters it, is skipped.     *)
LifecycleLegal ==
  [][\A g \in GenId : life'[g] # life[g]
       => <<life[g], life'[g]>> \in LegalTransition]_vars

(* A cancellation, once requested, ends: the generation is cancelled, or   *)
(* failed while it was being stopped (LifecycleLegal names both).  Whatever *)
(* is requested meanwhile, a moment without an open request always comes.  *)
CancellationCompletes ==
  []<>(\A g \in GenId : life[g] # "CANCELLATION_REQUESTED")

(* Every user turn the browser is told was committed gets a generation the *)
(* browser is told to play, even when it never confirms that the previous  *)
(* one stopped; unless the loop failed.                                    *)
Replied(t) == \E g \in GenId : g <= playbackGen /\ turn[g] = t

CommittedTurnIsAnswered ==
  []<>(\/ rpc = "crashed"
       \/ /\ rpc \notin {"turnSend", "settling"}
          /\ \A i \in 1 .. Len(conversation) : Replied(conversation[i].turn))

(* The documentation lets a model failure invalidate speculative work and  *)
(* answers the turn with a new authoritative generation; the assertion in  *)
(* _promote_candidate must then never fail.                                *)
CandidateFailureIsSurvived == rpc # "crashed"
=============================================================================
