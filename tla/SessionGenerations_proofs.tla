---------------------- MODULE SessionGenerations_proofs ----------------------
(***************************************************************************)
(* Proofs about the generations of a voice session, for every number of    *)
(* generations.  The first half rests on the invariant IInv: type          *)
(* correctness, one generation at work at a time, and the assertions of    *)
(* the creation and teardown of generations.  The second half is about     *)
(* what becomes of the answers, from four more invariants, one for each    *)
(* of its sections: a candidate stays private until its turn is committed, *)
(* an answer that is out stays within reach of the user, the history holds *)
(* each answer behind its turn, and no generation takes a transition its   *)
(* table refuses.                                                          *)
(***************************************************************************)
EXTENDS SessionGenerations, TLAPS

-----------------------------------------------------------------------------
(* The inductive invariant. *)

(* The user's turn is being committed. *)
CommitPoint ==
  {"overlapFinalizing", "overlapResumed", "finalizing", "turnSend", "settling",
   "promoting", "awaitTeardown", "startSend"}

Committing ==
  \/ rpc \in CommitPoint
  \/ rpc \in {"cancelSend", "overlapTaken"} /\ rnext = "finalizing"

SpeechEnded == Committing => ~speech

(* The bound of the model leaves an id for the answer to every turn. *)
IdLeft ==
  /\ rpc = "speculating" => nextGen < MaxGenerations
  /\ speech \/ (Committing /\ rpc \notin {"promoting", "startSend"})
       => nextGen <= MaxGenerations

(* Generations not created yet do nothing. *)
FreshUnused ==
  /\ active < nextGen
  /\ overlap < nextGen
  /\ \A g \in GenId : g >= nextGen => task[g] = "none" /\ g \notin resumeSent

(* A generation at work is the active one, the one being torn down, or the *)
(* one whose cancel command is being sent.                                 *)
WorkIsOwned ==
  \A g \in GenId :
    Working(g) => g = active \/ g = teardown \/ (rpc = "cancelSend" /\ g = rgen)

CancelSendHolds ==
  rpc = "cancelSend" => rgen \in GenId /\ active \in {rgen, NoGen} /\ cancelled[rgen]

SpeculatingIsFree == rpc = "speculating" => active = NoGen /\ teardown = NoGen

StartSendHolds ==
  rpc = "startSend" =>
    rgen \in GenId /\ active = rgen /\ task[rgen] = "none" /\ rgen \notin resumeSent

OverlapFinalizingHolds == rpc = "overlapFinalizing" => overlap \in GenId

(* While the user speaks, or a turn is being committed, the active         *)
(* generation is private or overlapped.                                    *)
AnswerIsPrivate == active = NoGen \/ spec[active]

CommitMeetsPrivate ==
  /\ rpc = "listening" /\ speech => AnswerIsPrivate \/ overlap = active
  /\ rpc = "finalizing" => AnswerIsPrivate
  /\ rpc \in {"turnSend", "settling"} => active = NoGen \/ (active = rgen /\ spec[rgen])
  /\ rpc = "awaitTeardown" => active = NoGen

IInv ==
  /\ TypeOK
  /\ SpeechEnded
  /\ IdLeft
  /\ FreshUnused
  /\ TeardownIsFree
  /\ WorkIsOwned
  /\ CancelSendHolds
  /\ SpeculatingIsFree
  /\ StartSendHolds
  /\ OverlapFinalizingHolds
  /\ CommitMeetsPrivate

USE MaxGenerationsAssumption DEF GenId, NoGen

-----------------------------------------------------------------------------
(* What the operations shared by the actions do to the tasks and types.    *)

(* A teardown touches the tasks of its generation only and starts none.    *)
LEMMA TeardownTasks ==
  ASSUME TypeOK, NEW g \in GenId, ScheduleTeardown(g)
  PROVE  /\ teardown' = g
         /\ task' \in [GenId -> TaskState]
         /\ rel' \in [GenId -> ReleaseState]
         /\ \A h \in GenId : h # g => task'[h] = task[h]
         /\ task[g] = "none" => task'[g] = "none"
BY DEF TypeOK, GenerationsTypeOK, ScheduleTeardown, CancelledTask, TaskState,
       ReleaseState

(* Invalidating the active candidate hands its work to the teardown. *)
LEMMA InvalidationFacts ==
  ASSUME IInv, active # NoGen, rpc # "cancelSend", InvalidateSpeculative
  PROVE  /\ GenerationsTypeOK'
         /\ active' = NoGen /\ teardown' = active
         /\ WorkIsOwned'
         /\ \A g \in GenId : task[g] = "none" => task'[g] = "none"
<1>. active \in GenId
  BY DEF IInv, TypeOK, LoopTypeOK
<1>1. /\ teardown' = active
      /\ task' \in [GenId -> TaskState]
      /\ rel' \in [GenId -> ReleaseState]
      /\ \A h \in GenId : h # active => task'[h] = task[h]
      /\ task[active] = "none" => task'[active] = "none"
  BY TeardownTasks DEF IInv, InvalidateSpeculative
<1>2. GenerationsTypeOK'
  BY <1>1 DEF IInv, TypeOK, GenerationsTypeOK, InvalidateSpeculative,
              CandidateLifecycle, GateState
<1>3. WorkIsOwned'
  BY <1>1 DEF IInv, TeardownIsFree, WorkIsOwned, Working
<1>. QED
  BY <1>1, <1>2, <1>3 DEF InvalidateSpeculative

(* So does the cancellation of an answer, unless its command must be sent. *)
LEMMA CancellationFacts ==
  ASSUME IInv, NEW next \in {"listening", "finalizing"}, rpc # "cancelSend",
         RequestCancellation(next)
  PROVE  /\ GenerationsTypeOK'
         /\ TeardownIsFree'
         /\ WorkIsOwned'
         /\ \A g \in GenId : task[g] = "none" => task'[g] = "none"
<1>1. CASE active = NoGen
  BY <1>1 DEF IInv, TypeOK, GenerationsTypeOK, RequestCancellation, genVars,
              TeardownIsFree, WorkIsOwned, Working
<1>2. CASE active # NoGen /\ spec[active]
  <2>1. InvalidateSpeculative /\ rpc' = next
    BY <1>2 DEF RequestCancellation
  <2>. QED
    BY <1>2, <2>1, InvalidationFacts DEF TeardownIsFree
<1>3. CASE active # NoGen /\ ~spec[active] /\ playbackGen = active
  BY <1>3 DEF IInv, TypeOK, GenerationsTypeOK, LoopTypeOK, CandidateLifecycle,
              RequestCancellation, TeardownIsFree, WorkIsOwned, Working
<1>4. CASE active # NoGen /\ ~spec[active] /\ playbackGen # active
  <2>. active \in GenId
    BY <1>4 DEF IInv, TypeOK, LoopTypeOK
  <2>1. FinishCancellation(active) /\ rpc' = next
    BY <1>4 DEF RequestCancellation
  <2>2. /\ teardown' = active
        /\ task' \in [GenId -> TaskState]
        /\ rel' \in [GenId -> ReleaseState]
        /\ \A h \in GenId : h # active => task'[h] = task[h]
        /\ task[active] = "none" => task'[active] = "none"
    BY <2>1, TeardownTasks DEF IInv, FinishCancellation
  <2>3. GenerationsTypeOK'
    BY <1>4, <2>2 DEF IInv, TypeOK, GenerationsTypeOK, RequestCancellation,
                      CandidateLifecycle
  <2>4. TeardownIsFree' /\ WorkIsOwned'
    BY <1>4, <2>1, <2>2 DEF IInv, FinishCancellation, TeardownIsFree,
                            WorkIsOwned, Working
  <2>. QED
    BY <2>2, <2>3, <2>4
<1>. QED
  BY <1>1, <1>2, <1>3, <1>4

(* A history entry of an answer has the type of the history. *)
LEMMA WrittenHistory ==
  ASSUME TypeOK, NEW g \in GenId, WriteHistory(g)
  PROVE  conversation' \in Seq(Entry)
<1>1. AssistantEntry(g) \in Entry
  BY DEF TypeOK, GenerationsTypeOK, AssistantEntry, Entry
<1>. QED
  BY <1>1 DEF TypeOK, HistoryTypeOK, WriteHistory

(* A created generation has the types of its fields. *)
LEMMA CreatedTyped ==
  ASSUME TypeOK, NEW s \in BOOLEAN, nextGen <= MaxGenerations, CreateGeneration(s)
  PROVE  /\ spec' \in [GenId -> BOOLEAN]
         /\ gate' \in [GenId -> GateState]
         /\ turn' \in [GenId -> Nat]
BY DEF TypeOK, GenerationsTypeOK, HistoryTypeOK, LoopTypeOK, CreateGeneration,
       GateState

-----------------------------------------------------------------------------
(* Steps that leave most of the state alone.                               *)

(* A step of a task or of the receive loop that starts no work and leaves  *)
(* the loop and the current generations alone.                             *)
LEMMA QuietStep ==
  ASSUME IInv, GenerationsTypeOK', HistoryTypeOK',
         UNCHANGED <<spec, nextGen, active, teardown, playbackVars,
                     recognitionVars>>,
         \A g \in GenId : /\ cancelled[g] => cancelled'[g]
                          /\ Working(g)' => Working(g)
                          /\ task[g] = "none" => task'[g] = "none"
  PROVE  IInv'
<1>. /\ UNCHANGED <<spec, nextGen, active, teardown, playbackGen, flowGen>>
     /\ UNCHANGED <<overlap, resumeSent, speech, rpc, rgen, rnext, rpend>>
  BY DEF playbackVars, recognitionVars
<1>1. TypeOK'
  BY DEF IInv, TypeOK, LoopTypeOK
<1>2. SpeechEnded' /\ IdLeft' /\ SpeculatingIsFree' /\ OverlapFinalizingHolds'
      /\ TeardownIsFree' /\ CommitMeetsPrivate'
  BY DEF IInv, SpeechEnded, IdLeft, Committing, SpeculatingIsFree,
         OverlapFinalizingHolds, TeardownIsFree, CommitMeetsPrivate, AnswerIsPrivate
<1>3. FreshUnused' /\ WorkIsOwned' /\ CancelSendHolds' /\ StartSendHolds'
  BY DEF IInv, FreshUnused, WorkIsOwned, CancelSendHolds, StartSendHolds
<1>. QED
  BY <1>1, <1>2, <1>3 DEF IInv

(* A step of the recognition loop that touches only its own variables. *)
LEMMA LoopStep ==
  ASSUME IInv, LoopTypeOK',
         UNCHANGED <<genVars, nextGen, active, teardown, playbackVars,
                     historyVars>>,
         overlap' \in {overlap, NoGen}, resumeSent' \subseteq resumeSent \cup {overlap},
         rpc' \notin {"cancelSend", "startSend"},
         rpc # "cancelSend",
         SpeechEnded', IdLeft', SpeculatingIsFree', OverlapFinalizingHolds',
         CommitMeetsPrivate'
  PROVE  IInv'
<1>. /\ UNCHANGED <<life, spec, cancelled, accepts, played, gate, task, rel, turn>>
     /\ UNCHANGED <<nextGen, active, teardown, contextTurn, nextTurn, conversation>>
  BY DEF genVars, historyVars
<1>1. TypeOK'
  BY DEF IInv, TypeOK, GenerationsTypeOK, HistoryTypeOK
<1>2. TeardownIsFree' /\ WorkIsOwned' /\ CancelSendHolds' /\ StartSendHolds'
  BY DEF IInv, TeardownIsFree, WorkIsOwned, Working, CancelSendHolds, StartSendHolds
<1>3. FreshUnused'
  BY DEF IInv, TypeOK, LoopTypeOK, FreshUnused
<1>. QED
  BY <1>1, <1>2, <1>3 DEF IInv

-----------------------------------------------------------------------------
(* Every action preserves the invariant. *)

LEMMA StartSpeculationStep ==
  ASSUME IInv, StartSpeculation
  PROVE  IInv'
<1>1. LoopTypeOK'
  BY DEF IInv, TypeOK, LoopTypeOK, RecognitionPoint, OverlapFinalizingHolds,
         StartSpeculation, StoppingPlayback, playbackVars
<1>2. SpeechEnded' /\ IdLeft' /\ SpeculatingIsFree' /\ OverlapFinalizingHolds'
      /\ CommitMeetsPrivate'
  BY DEF IInv, TypeOK, LoopTypeOK, SpeechEnded, IdLeft, Committing, CommitPoint,
         SpeculatingIsFree, OverlapFinalizingHolds, CommitMeetsPrivate,
         AnswerIsPrivate, StartSpeculation, genVars, TeardownAwaited
<1>. QED
  BY <1>1, <1>2, LoopStep DEF StartSpeculation

LEMMA OverlapTakesFloorStep ==
  ASSUME IInv, OverlapTakesFloor
  PROVE  IInv'
<1>1. LoopTypeOK'
  BY DEF IInv, TypeOK, LoopTypeOK, RecognitionPoint, OverlapFinalizingHolds,
         OverlapTakesFloor, playbackVars
<1>2. SpeechEnded' /\ IdLeft' /\ SpeculatingIsFree' /\ OverlapFinalizingHolds'
      /\ CommitMeetsPrivate'
  BY DEF IInv, TypeOK, LoopTypeOK, SpeechEnded, IdLeft, Committing, CommitPoint,
         SpeculatingIsFree, OverlapFinalizingHolds, CommitMeetsPrivate,
         AnswerIsPrivate, OverlapTakesFloor, genVars
<1>. QED
  BY <1>1, <1>2, LoopStep DEF OverlapTakesFloor

LEMMA OverlapLooksEphemeralStep ==
  ASSUME IInv, OverlapLooksEphemeral
  PROVE  IInv'
<1>1. LoopTypeOK'
  BY DEF IInv, TypeOK, LoopTypeOK, RecognitionPoint, OverlapFinalizingHolds,
         OverlapLooksEphemeral, playbackVars
<1>2. SpeechEnded' /\ IdLeft' /\ SpeculatingIsFree' /\ OverlapFinalizingHolds'
      /\ CommitMeetsPrivate'
  BY DEF IInv, TypeOK, LoopTypeOK, SpeechEnded, IdLeft, Committing, CommitPoint,
         SpeculatingIsFree, OverlapFinalizingHolds, CommitMeetsPrivate,
         AnswerIsPrivate, OverlapLooksEphemeral, genVars
<1>. QED
  BY <1>1, <1>2, LoopStep DEF OverlapLooksEphemeral

LEMMA OverlapGraceTimeoutStep ==
  ASSUME IInv, OverlapGraceTimeout
  PROVE  IInv'
<1>1. LoopTypeOK'
  BY DEF IInv, TypeOK, LoopTypeOK, RecognitionPoint, OverlapFinalizingHolds,
         OverlapGraceTimeout, ResumeOverlap, playbackVars
<1>2. SpeechEnded' /\ IdLeft' /\ SpeculatingIsFree' /\ OverlapFinalizingHolds'
      /\ CommitMeetsPrivate'
  BY DEF IInv, TypeOK, LoopTypeOK, SpeechEnded, IdLeft, Committing, CommitPoint,
         SpeculatingIsFree, OverlapFinalizingHolds, CommitMeetsPrivate,
         AnswerIsPrivate, OverlapGraceTimeout, genVars
<1>. QED
  BY <1>1, <1>2, LoopStep DEF OverlapGraceTimeout, ResumeOverlap

LEMMA OverlapDismissedStep ==
  ASSUME IInv, OverlapDismissed
  PROVE  IInv'
<1>1. LoopTypeOK'
  BY DEF IInv, TypeOK, LoopTypeOK, RecognitionPoint, OverlapFinalizingHolds,
         OverlapDismissed, ResumeOverlap, playbackVars
<1>2. SpeechEnded' /\ IdLeft' /\ SpeculatingIsFree' /\ OverlapFinalizingHolds'
      /\ CommitMeetsPrivate'
  BY DEF IInv, TypeOK, LoopTypeOK, SpeechEnded, IdLeft, Committing, CommitPoint,
         SpeculatingIsFree, OverlapFinalizingHolds, CommitMeetsPrivate,
         AnswerIsPrivate, OverlapDismissed, genVars
<1>. QED
  BY <1>1, <1>2, LoopStep DEF OverlapDismissed, ResumeOverlap

LEMMA OverlapTranscriptNeedsAnswerStep ==
  ASSUME IInv, OverlapTranscriptNeedsAnswer
  PROVE  IInv'
<1>1. LoopTypeOK'
  BY DEF IInv, TypeOK, LoopTypeOK, RecognitionPoint, OverlapFinalizingHolds,
         OverlapTranscriptNeedsAnswer, playbackVars
<1>2. SpeechEnded' /\ IdLeft' /\ SpeculatingIsFree' /\ OverlapFinalizingHolds'
      /\ CommitMeetsPrivate'
  BY DEF IInv, TypeOK, LoopTypeOK, SpeechEnded, IdLeft, Committing, CommitPoint,
         SpeculatingIsFree, OverlapFinalizingHolds, CommitMeetsPrivate,
         AnswerIsPrivate, OverlapTranscriptNeedsAnswer, genVars
<1>. QED
  BY <1>1, <1>2, LoopStep DEF OverlapTranscriptNeedsAnswer

LEMMA CommitTurnStep ==
  ASSUME IInv, CommitTurn
  PROVE  IInv'
<1>1. LoopTypeOK'
  BY DEF IInv, TypeOK, LoopTypeOK, RecognitionPoint, OverlapFinalizingHolds,
         CommitTurn, playbackVars
<1>2. SpeechEnded' /\ IdLeft' /\ SpeculatingIsFree' /\ OverlapFinalizingHolds'
      /\ CommitMeetsPrivate'
  BY DEF IInv, TypeOK, LoopTypeOK, SpeechEnded, IdLeft, Committing, CommitPoint,
         SpeculatingIsFree, OverlapFinalizingHolds, CommitMeetsPrivate,
         AnswerIsPrivate, CommitTurn, genVars, OverlapPreventsCommit
<1>. QED
  BY <1>1, <1>2, LoopStep DEF CommitTurn

LEMMA TurnFinalizedStep ==
  ASSUME IInv, TurnFinalized
  PROVE  IInv'
<1>1. LoopTypeOK'
  BY DEF IInv, TypeOK, LoopTypeOK, RecognitionPoint, OverlapFinalizingHolds,
         TurnFinalized, playbackVars
<1>2. SpeechEnded' /\ IdLeft' /\ SpeculatingIsFree' /\ OverlapFinalizingHolds'
      /\ CommitMeetsPrivate'
  BY DEF IInv, TypeOK, LoopTypeOK, SpeechEnded, IdLeft, Committing, CommitPoint,
         SpeculatingIsFree, OverlapFinalizingHolds, CommitMeetsPrivate,
         AnswerIsPrivate, TurnFinalized, genVars
<1>. QED
  BY <1>1, <1>2, LoopStep DEF TurnFinalized

LEMMA TurnSentStep ==
  ASSUME IInv, TurnSent
  PROVE  IInv'
<1>1. LoopTypeOK'
  BY DEF IInv, TypeOK, LoopTypeOK, RecognitionPoint, OverlapFinalizingHolds,
         TurnSent, StoppingPlayback, playbackVars
<1>2. SpeechEnded' /\ IdLeft' /\ SpeculatingIsFree' /\ OverlapFinalizingHolds'
      /\ CommitMeetsPrivate'
  BY DEF IInv, TypeOK, LoopTypeOK, SpeechEnded, IdLeft, Committing, CommitPoint,
         SpeculatingIsFree, OverlapFinalizingHolds, CommitMeetsPrivate,
         AnswerIsPrivate, TurnSent, genVars
<1>. QED
  BY <1>1, <1>2, LoopStep DEF TurnSent

LEMMA SpeechOnsetStep ==
  ASSUME IInv, SpeechOnset
  PROVE  IInv'
<1>1. TypeOK'
  <2>1. GenerationsTypeOK'
    <3>1. CASE OverlapEligible
      BY <3>1 DEF IInv, TypeOK, GenerationsTypeOK, SpeechOnset, genVars
    <3>2. CASE ~OverlapEligible
      BY <3>2, CancellationFacts DEF SpeechOnset
    <3>. QED BY <3>1, <3>2
  <2>2. HistoryTypeOK'
    BY DEF IInv, TypeOK, GenerationsTypeOK, HistoryTypeOK, Entry,
           SpeechOnset, RequestCancellation, genVars, playbackVars,
           historyVars
  <2>3. LoopTypeOK'
    BY DEF IInv, TypeOK, LoopTypeOK, RecognitionPoint, IdLeft,
           OverlapFinalizingHolds, Committing, CommitPoint, SpeechOnset,
           RequestCancellation, OverlapEligible, genVars, playbackVars,
           historyVars, InvalidateSpeculative, FinishCancellation,
           ScheduleTeardown, CancelledTask
  <2>. QED BY <2>1, <2>2, <2>3 DEF TypeOK
<1>2. (SpeechEnded /\ IdLeft)'
  BY DEF IInv, TypeOK, LoopTypeOK, SpeechEnded, IdLeft, Committing,
         CommitPoint, SpeechOnset, RequestCancellation, OverlapEligible,
         genVars, playbackVars, historyVars, InvalidateSpeculative,
         FinishCancellation, ScheduleTeardown, CancelledTask
<1>3. (FreshUnused /\ TeardownIsFree /\ WorkIsOwned)'
  <2>1. CASE OverlapEligible
    BY <2>1 DEF IInv, FreshUnused, TeardownIsFree, WorkIsOwned, Working,
                SpeechOnset, genVars
  <2>2. CASE ~OverlapEligible
    <3>1. RequestCancellation("listening") /\ rpc = "listening"
      BY <2>2 DEF SpeechOnset
    <3>2. /\ TeardownIsFree' /\ WorkIsOwned'
          /\ \A g \in GenId : task[g] = "none" => task'[g] = "none"
      BY <3>1, CancellationFacts
    <3>3. nextGen' = nextGen /\ active' \in {active, NoGen}
      BY <3>1 DEF RequestCancellation, InvalidateSpeculative, FinishCancellation
    <3>. QED
      BY <2>2, <3>2, <3>3 DEF IInv, TypeOK, LoopTypeOK, FreshUnused, SpeechOnset
  <2>. QED BY <2>1, <2>2
<1>4. /\ CancelSendHolds' /\ SpeculatingIsFree' /\ StartSendHolds'
      /\ OverlapFinalizingHolds' /\ CommitMeetsPrivate'
  BY DEF IInv, TypeOK, GenerationsTypeOK, LoopTypeOK, FreshUnused,
         CancelSendHolds, SpeculatingIsFree, StartSendHolds,
         OverlapFinalizingHolds, CommitMeetsPrivate, AnswerIsPrivate,
         TeardownIsFree, SpeechOnset, RequestCancellation, OverlapEligible,
         genVars, playbackVars, historyVars, InvalidateSpeculative,
         FinishCancellation, ScheduleTeardown, CancelledTask
<1>. QED BY <1>1, <1>2, <1>3, <1>4 DEF IInv

LEMMA CancelSentStep ==
  ASSUME IInv, CancelSent
  PROVE  IInv'
<1>1. TypeOK'
  <2>1. GenerationsTypeOK'
    BY DEF IInv, TypeOK, GenerationsTypeOK, LoopTypeOK, HistoryTypeOK,
           CandidateLifecycle, GateState, TaskState, ReleaseState,
           CancelSent, FinishCancellation, historyVars, ScheduleTeardown,
           CancelledTask
  <2>2. HistoryTypeOK'
    BY DEF IInv, TypeOK, GenerationsTypeOK, HistoryTypeOK, Entry,
           CancelSent, historyVars
  <2>3. LoopTypeOK'
    BY DEF IInv, TypeOK, LoopTypeOK, RecognitionPoint, IdLeft,
           OverlapFinalizingHolds, Committing, CommitPoint, CancelSent,
           FinishCancellation, historyVars, ScheduleTeardown, CancelledTask
  <2>. QED BY <2>1, <2>2, <2>3 DEF TypeOK
<1>2. (SpeechEnded /\ IdLeft)'
  BY DEF IInv, TypeOK, LoopTypeOK, SpeechEnded, IdLeft, Committing,
         CommitPoint, CancelSent, FinishCancellation, historyVars,
         ScheduleTeardown, CancelledTask
<1>3. (FreshUnused /\ TeardownIsFree /\ WorkIsOwned)'
  BY DEF IInv, TypeOK, GenerationsTypeOK, LoopTypeOK, FreshUnused,
         TeardownIsFree, WorkIsOwned, Working, CancelSendHolds,
         SpeculatingIsFree, StartSendHolds, CancelSent, FinishCancellation,
         historyVars, ScheduleTeardown, CancelledTask
<1>4. /\ CancelSendHolds' /\ SpeculatingIsFree' /\ StartSendHolds'
      /\ OverlapFinalizingHolds' /\ CommitMeetsPrivate'
  BY DEF IInv, TypeOK, GenerationsTypeOK, LoopTypeOK, FreshUnused,
         CancelSendHolds, SpeculatingIsFree, StartSendHolds,
         OverlapFinalizingHolds, CommitMeetsPrivate, AnswerIsPrivate,
         TeardownIsFree, CancelSent, FinishCancellation, historyVars,
         ScheduleTeardown, CancelledTask
<1>. QED BY <1>1, <1>2, <1>3, <1>4 DEF IInv

LEMMA InvalidateCandidateStep ==
  ASSUME IInv, InvalidateCandidate
  PROVE  IInv'
<1>1. TypeOK'
  <2>1. GenerationsTypeOK'
    BY InvalidationFacts DEF IInv, TypeOK, GenerationsTypeOK,
       LoopTypeOK, HistoryTypeOK, CandidateLifecycle, GateState,
       TaskState, ReleaseState, InvalidateCandidate, historyVars,
       recognitionVars, playbackVars
  <2>2. HistoryTypeOK'
    BY DEF IInv, TypeOK, GenerationsTypeOK, HistoryTypeOK, Entry,
           InvalidateCandidate, historyVars, recognitionVars, playbackVars
  <2>3. LoopTypeOK'
    BY DEF IInv, TypeOK, LoopTypeOK, RecognitionPoint, IdLeft,
           OverlapFinalizingHolds, Committing, CommitPoint,
           InvalidateCandidate, InvalidateSpeculative, historyVars,
           recognitionVars, ScheduleTeardown, playbackVars, CancelledTask
  <2>. QED BY <2>1, <2>2, <2>3 DEF TypeOK
<1>2. (SpeechEnded /\ IdLeft)'
  BY DEF IInv, TypeOK, LoopTypeOK, SpeechEnded, IdLeft, Committing,
         CommitPoint, InvalidateCandidate, InvalidateSpeculative,
         historyVars, recognitionVars, ScheduleTeardown, playbackVars,
         CancelledTask
<1>3. (FreshUnused /\ TeardownIsFree /\ WorkIsOwned)'
  <2>1. /\ active' = NoGen /\ WorkIsOwned'
        /\ \A g \in GenId : task[g] = "none" => task'[g] = "none"
    BY InvalidationFacts DEF InvalidateCandidate
  <2>. QED
    BY <2>1 DEF IInv, TypeOK, LoopTypeOK, FreshUnused, TeardownIsFree,
                InvalidateCandidate, InvalidateSpeculative, recognitionVars
<1>4. /\ CancelSendHolds' /\ SpeculatingIsFree' /\ StartSendHolds'
      /\ OverlapFinalizingHolds' /\ CommitMeetsPrivate'
  BY DEF IInv, TypeOK, GenerationsTypeOK, LoopTypeOK, FreshUnused,
         CancelSendHolds, SpeculatingIsFree, StartSendHolds,
         OverlapFinalizingHolds, CommitMeetsPrivate, AnswerIsPrivate,
         TeardownIsFree, InvalidateCandidate, InvalidateSpeculative,
         historyVars, recognitionVars, ScheduleTeardown, playbackVars,
         CancelledTask
<1>. QED BY <1>1, <1>2, <1>3, <1>4 DEF IInv

LEMMA CreateCandidateStep ==
  ASSUME IInv, CreateCandidate
  PROVE  IInv'
<1>1. TypeOK'
  <2>1. GenerationsTypeOK'
    <3>1. CASE active # NoGen
      BY <3>1 DEF IInv, TypeOK, GenerationsTypeOK, CreateCandidate, genVars
    <3>2. CASE active = NoGen
      <4>. nextGen <= MaxGenerations
        BY DEF IInv, TypeOK, LoopTypeOK, IdLeft, CreateCandidate
      <4>1. CreateGeneration(TRUE)
        BY <3>2 DEF CreateCandidate
      <4>2. /\ spec' \in [GenId -> BOOLEAN]
            /\ gate' \in [GenId -> GateState]
            /\ turn' \in [GenId -> Nat]
        BY <4>1, CreatedTyped DEF IInv
      <4>. QED
        BY <3>2, <4>2 DEF IInv, TypeOK, GenerationsTypeOK, TaskState,
                          CreateCandidate
    <3>. QED BY <3>1, <3>2
  <2>2. HistoryTypeOK'
    BY DEF IInv, TypeOK, GenerationsTypeOK, HistoryTypeOK, Entry,
           CreateCandidate, CreateGeneration, genVars, playbackVars,
           historyVars
  <2>3. LoopTypeOK'
    BY DEF IInv, TypeOK, LoopTypeOK, RecognitionPoint, IdLeft,
           OverlapFinalizingHolds, Committing, CommitPoint, CreateCandidate,
           CreateGeneration, PlaybackSettled, genVars, playbackVars,
           historyVars
  <2>. QED BY <2>1, <2>2, <2>3 DEF TypeOK
<1>2. (SpeechEnded /\ IdLeft)'
  BY DEF IInv, TypeOK, LoopTypeOK, SpeechEnded, IdLeft, Committing,
         CommitPoint, CreateCandidate, CreateGeneration, PlaybackSettled,
         genVars, playbackVars, historyVars
<1>3. (FreshUnused /\ TeardownIsFree /\ WorkIsOwned)'
  BY DEF IInv, TypeOK, GenerationsTypeOK, LoopTypeOK, FreshUnused,
         TeardownIsFree, WorkIsOwned, Working, CancelSendHolds,
         SpeculatingIsFree, StartSendHolds, IdLeft, Committing, CommitPoint,
         CreateCandidate, CreateGeneration, PlaybackSettled, genVars,
         playbackVars, historyVars
<1>4. /\ CancelSendHolds' /\ SpeculatingIsFree' /\ StartSendHolds'
      /\ OverlapFinalizingHolds' /\ CommitMeetsPrivate'
  BY DEF IInv, TypeOK, GenerationsTypeOK, LoopTypeOK, FreshUnused,
         CancelSendHolds, SpeculatingIsFree, StartSendHolds,
         OverlapFinalizingHolds, CommitMeetsPrivate, AnswerIsPrivate,
         TeardownIsFree, IdLeft, Committing, CommitPoint, CreateCandidate,
         CreateGeneration, PlaybackSettled, genVars, playbackVars,
         historyVars
<1>. QED BY <1>1, <1>2, <1>3, <1>4 DEF IInv

LEMMA OverlapReportedStep ==
  ASSUME IInv, OverlapReported
  PROVE  IInv'
<1>1. TypeOK'
  <2>1. GenerationsTypeOK'
    BY CancellationFacts DEF IInv, TypeOK, GenerationsTypeOK,
       LoopTypeOK, HistoryTypeOK, CandidateLifecycle, GateState,
       TaskState, ReleaseState, OverlapReported, historyVars,
       playbackVars
  <2>2. HistoryTypeOK'
    BY DEF IInv, TypeOK, GenerationsTypeOK, HistoryTypeOK, Entry,
           OverlapReported, RequestCancellation, historyVars, genVars,
           playbackVars
  <2>3. LoopTypeOK'
    BY DEF IInv, TypeOK, LoopTypeOK, RecognitionPoint, IdLeft,
           OverlapFinalizingHolds, Committing, CommitPoint, OverlapReported,
           RequestCancellation, historyVars, InvalidateSpeculative,
           FinishCancellation, genVars, playbackVars, ScheduleTeardown,
           CancelledTask
  <2>. QED BY <2>1, <2>2, <2>3 DEF TypeOK
<1>2. (SpeechEnded /\ IdLeft)'
  BY DEF IInv, TypeOK, LoopTypeOK, SpeechEnded, IdLeft, Committing,
         CommitPoint, OverlapReported, RequestCancellation, historyVars,
         InvalidateSpeculative, FinishCancellation, genVars, playbackVars,
         ScheduleTeardown, CancelledTask
<1>3. (FreshUnused /\ TeardownIsFree /\ WorkIsOwned)'
  <2>1. RequestCancellation(rnext) /\ rpc = "overlapTaken"
        /\ rnext \in {"listening", "finalizing"}
    BY DEF IInv, TypeOK, LoopTypeOK, OverlapReported
  <2>2. /\ TeardownIsFree' /\ WorkIsOwned'
        /\ \A g \in GenId : task[g] = "none" => task'[g] = "none"
    BY <2>1, CancellationFacts
  <2>3. nextGen' = nextGen /\ active' \in {active, NoGen}
    BY <2>1 DEF RequestCancellation, InvalidateSpeculative, FinishCancellation
  <2>. QED
    BY <2>2, <2>3 DEF IInv, TypeOK, LoopTypeOK, FreshUnused, OverlapReported
<1>4. /\ CancelSendHolds' /\ SpeculatingIsFree' /\ StartSendHolds'
      /\ OverlapFinalizingHolds' /\ CommitMeetsPrivate'
  BY DEF IInv, TypeOK, GenerationsTypeOK, LoopTypeOK, FreshUnused,
         CancelSendHolds, SpeculatingIsFree, StartSendHolds,
         OverlapFinalizingHolds, CommitMeetsPrivate, AnswerIsPrivate,
         TeardownIsFree, OverlapReported, RequestCancellation, historyVars,
         InvalidateSpeculative, FinishCancellation, genVars, playbackVars,
         ScheduleTeardown, CancelledTask
<1>. QED BY <1>1, <1>2, <1>3, <1>4 DEF IInv

LEMMA EmptyTurnFinalizedStep ==
  ASSUME IInv, EmptyTurnFinalized
  PROVE  IInv'
<1>1. TypeOK'
  <2>1. GenerationsTypeOK'
    BY InvalidationFacts DEF IInv, TypeOK, GenerationsTypeOK,
       LoopTypeOK, HistoryTypeOK, CandidateLifecycle, GateState,
       TaskState, ReleaseState, EmptyTurnFinalized, genVars,
       playbackVars, historyVars
  <2>2. HistoryTypeOK'
    BY DEF IInv, TypeOK, GenerationsTypeOK, HistoryTypeOK, Entry,
           EmptyTurnFinalized, genVars, playbackVars, historyVars
  <2>3. LoopTypeOK'
    BY DEF IInv, TypeOK, LoopTypeOK, RecognitionPoint, IdLeft,
           OverlapFinalizingHolds, Committing, CommitPoint,
           EmptyTurnFinalized, InvalidateSpeculative, genVars, playbackVars,
           historyVars, ScheduleTeardown, CancelledTask
  <2>. QED BY <2>1, <2>2, <2>3 DEF TypeOK
<1>2. (SpeechEnded /\ IdLeft)'
  BY DEF IInv, TypeOK, LoopTypeOK, SpeechEnded, IdLeft, Committing,
         CommitPoint, EmptyTurnFinalized, InvalidateSpeculative, genVars,
         playbackVars, historyVars, ScheduleTeardown, CancelledTask
<1>3. (FreshUnused /\ TeardownIsFree /\ WorkIsOwned)'
  <2>1. CASE active # NoGen /\ spec[active]
    <3>1. /\ active' = NoGen /\ WorkIsOwned'
          /\ \A g \in GenId : task[g] = "none" => task'[g] = "none"
      BY <2>1, InvalidationFacts DEF EmptyTurnFinalized
    <3>. QED
      BY <2>1, <3>1 DEF IInv, TypeOK, LoopTypeOK, FreshUnused, TeardownIsFree,
                        EmptyTurnFinalized, InvalidateSpeculative
  <2>2. CASE ~(active # NoGen /\ spec[active])
    BY <2>2 DEF IInv, FreshUnused, TeardownIsFree, WorkIsOwned, Working,
                EmptyTurnFinalized, genVars
  <2>. QED BY <2>1, <2>2
<1>4. /\ CancelSendHolds' /\ SpeculatingIsFree' /\ StartSendHolds'
      /\ OverlapFinalizingHolds' /\ CommitMeetsPrivate'
  BY DEF IInv, TypeOK, GenerationsTypeOK, LoopTypeOK, FreshUnused,
         CancelSendHolds, SpeculatingIsFree, StartSendHolds,
         OverlapFinalizingHolds, CommitMeetsPrivate, AnswerIsPrivate,
         TeardownIsFree, EmptyTurnFinalized, InvalidateSpeculative, genVars,
         playbackVars, historyVars, ScheduleTeardown, CancelledTask
<1>. QED BY <1>1, <1>2, <1>3, <1>4 DEF IInv

LEMMA PromoteCandidateStep ==
  ASSUME IInv, PromoteCandidate
  PROVE  IInv'
<1>1. TypeOK'
  <2>1. GenerationsTypeOK'
    BY DEF IInv, TypeOK, GenerationsTypeOK, LoopTypeOK, HistoryTypeOK,
           CandidateLifecycle, GateState, TaskState, ReleaseState,
           PromoteCandidate, UserEntry, PlaybackSettled, playbackVars
  <2>2. HistoryTypeOK'
    BY DEF IInv, TypeOK, GenerationsTypeOK, LoopTypeOK, HistoryTypeOK, Entry,
           PromoteCandidate, UserEntry, playbackVars
  <2>3. LoopTypeOK'
    BY DEF IInv, TypeOK, LoopTypeOK, RecognitionPoint, IdLeft,
           OverlapFinalizingHolds, Committing, CommitPoint, PromoteCandidate,
           UserEntry, PlaybackSettled, playbackVars
  <2>. QED BY <2>1, <2>2, <2>3 DEF TypeOK
<1>2. (SpeechEnded /\ IdLeft)'
  BY DEF IInv, TypeOK, LoopTypeOK, SpeechEnded, IdLeft, Committing,
         CommitPoint, PromoteCandidate, UserEntry, PlaybackSettled,
         playbackVars
<1>3. (FreshUnused /\ TeardownIsFree /\ WorkIsOwned)'
  BY DEF IInv, TypeOK, GenerationsTypeOK, LoopTypeOK, FreshUnused,
         TeardownIsFree, WorkIsOwned, Working, CancelSendHolds,
         SpeculatingIsFree, StartSendHolds, PromoteCandidate, UserEntry,
         PlaybackSettled, playbackVars
<1>4. /\ CancelSendHolds' /\ SpeculatingIsFree' /\ StartSendHolds'
      /\ OverlapFinalizingHolds' /\ CommitMeetsPrivate'
  BY DEF IInv, TypeOK, GenerationsTypeOK, LoopTypeOK, FreshUnused,
         CancelSendHolds, SpeculatingIsFree, StartSendHolds,
         OverlapFinalizingHolds, CommitMeetsPrivate, AnswerIsPrivate,
         TeardownIsFree, PromoteCandidate, UserEntry, PlaybackSettled,
         playbackVars
<1>. QED BY <1>1, <1>2, <1>3, <1>4 DEF IInv

LEMMA PromotionSentStep ==
  ASSUME IInv, PromotionSent
  PROVE  IInv'
<1>1. TypeOK'
  <2>1. GenerationsTypeOK'
    BY DEF IInv, TypeOK, GenerationsTypeOK, LoopTypeOK, HistoryTypeOK,
           CandidateLifecycle, GateState, TaskState, ReleaseState,
           PromotionSent
  <2>2. HistoryTypeOK'
    BY DEF IInv, TypeOK, GenerationsTypeOK, HistoryTypeOK, Entry,
           PromotionSent
  <2>3. LoopTypeOK'
    BY DEF IInv, TypeOK, LoopTypeOK, RecognitionPoint, IdLeft,
           OverlapFinalizingHolds, Committing, CommitPoint, PromotionSent
  <2>. QED BY <2>1, <2>2, <2>3 DEF TypeOK
<1>2. (SpeechEnded /\ IdLeft)'
  BY DEF IInv, TypeOK, LoopTypeOK, SpeechEnded, IdLeft, Committing,
         CommitPoint, PromotionSent
<1>3. (FreshUnused /\ TeardownIsFree /\ WorkIsOwned)'
  BY DEF IInv, TypeOK, GenerationsTypeOK, LoopTypeOK, FreshUnused,
         TeardownIsFree, WorkIsOwned, Working, CancelSendHolds,
         SpeculatingIsFree, StartSendHolds, PromotionSent
<1>4. /\ CancelSendHolds' /\ SpeculatingIsFree' /\ StartSendHolds'
      /\ OverlapFinalizingHolds' /\ CommitMeetsPrivate'
  BY DEF IInv, TypeOK, GenerationsTypeOK, LoopTypeOK, FreshUnused,
         CancelSendHolds, SpeculatingIsFree, StartSendHolds,
         OverlapFinalizingHolds, CommitMeetsPrivate, SpeechEnded, Committing, CommitPoint,
         AnswerIsPrivate,
         TeardownIsFree, PromotionSent
<1>. QED BY <1>1, <1>2, <1>3, <1>4 DEF IInv

LEMMA RejectCandidateStep ==
  ASSUME IInv, RejectCandidate
  PROVE  IInv'
<1>1. TypeOK'
  <2>1. GenerationsTypeOK'
    BY InvalidationFacts DEF IInv, TypeOK, GenerationsTypeOK,
       LoopTypeOK, HistoryTypeOK, CandidateLifecycle, GateState,
       TaskState, ReleaseState, RejectCandidate, UserEntry,
       PlaybackSettled, genVars, playbackVars
  <2>2. HistoryTypeOK'
    BY DEF IInv, TypeOK, GenerationsTypeOK, HistoryTypeOK, Entry,
           RejectCandidate, UserEntry, genVars, playbackVars
  <2>3. LoopTypeOK'
    BY DEF IInv, TypeOK, LoopTypeOK, RecognitionPoint, IdLeft,
           OverlapFinalizingHolds, Committing, CommitPoint, RejectCandidate,
           InvalidateSpeculative, UserEntry, PlaybackSettled, genVars,
           playbackVars, ScheduleTeardown, CancelledTask
  <2>. QED BY <2>1, <2>2, <2>3 DEF TypeOK
<1>2. (SpeechEnded /\ IdLeft)'
  BY DEF IInv, TypeOK, LoopTypeOK, SpeechEnded, IdLeft, Committing,
         CommitPoint, RejectCandidate, InvalidateSpeculative, UserEntry,
         PlaybackSettled, genVars, playbackVars, ScheduleTeardown,
         CancelledTask
<1>3. (FreshUnused /\ TeardownIsFree /\ WorkIsOwned)'
  <2>1. CASE rgen # NoGen /\ spec[rgen] /\ active # NoGen /\ spec[active]
    <3>1. /\ active' = NoGen /\ WorkIsOwned'
          /\ \A g \in GenId : task[g] = "none" => task'[g] = "none"
      BY <2>1, InvalidationFacts DEF RejectCandidate
    <3>. QED
      BY <2>1, <3>1 DEF IInv, TypeOK, LoopTypeOK, FreshUnused, TeardownIsFree,
                        RejectCandidate, InvalidateSpeculative
  <2>2. CASE ~(rgen # NoGen /\ spec[rgen] /\ active # NoGen /\ spec[active])
    BY <2>2 DEF IInv, FreshUnused, TeardownIsFree, WorkIsOwned, Working,
                RejectCandidate, genVars
  <2>. QED BY <2>1, <2>2
<1>4. /\ CancelSendHolds' /\ SpeculatingIsFree' /\ StartSendHolds'
      /\ OverlapFinalizingHolds' /\ CommitMeetsPrivate'
  BY DEF IInv, TypeOK, GenerationsTypeOK, LoopTypeOK, FreshUnused,
         CancelSendHolds, SpeculatingIsFree, StartSendHolds,
         OverlapFinalizingHolds, CommitMeetsPrivate, AnswerIsPrivate,
         TeardownIsFree, RejectCandidate, InvalidateSpeculative, UserEntry,
         PlaybackSettled, genVars, playbackVars, ScheduleTeardown,
         CancelledTask
<1>. QED BY <1>1, <1>2, <1>3, <1>4 DEF IInv

LEMMA StartAuthoritativeStep ==
  ASSUME IInv, StartAuthoritative
  PROVE  IInv'
<1>1. TypeOK'
  <2>1. GenerationsTypeOK'
    BY CreatedTyped DEF IInv, TypeOK, GenerationsTypeOK, LoopTypeOK,
       HistoryTypeOK, CandidateLifecycle, GateState, TaskState,
       ReleaseState, IdLeft, Committing, CommitPoint, StartAuthoritative,
       CreateGeneration, TeardownAwaited, playbackVars
  <2>2. HistoryTypeOK'
    BY DEF IInv, TypeOK, GenerationsTypeOK, HistoryTypeOK, Entry,
           StartAuthoritative, CreateGeneration, TeardownAwaited,
           playbackVars
  <2>3. LoopTypeOK'
    BY DEF IInv, TypeOK, LoopTypeOK, RecognitionPoint, IdLeft,
           OverlapFinalizingHolds, Committing, CommitPoint,
           StartAuthoritative, CreateGeneration, TeardownAwaited,
           playbackVars
  <2>. QED BY <2>1, <2>2, <2>3 DEF TypeOK
<1>2. (SpeechEnded /\ IdLeft)'
  BY DEF IInv, TypeOK, LoopTypeOK, SpeechEnded, IdLeft, Committing,
         CommitPoint, StartAuthoritative, CreateGeneration, TeardownAwaited,
         playbackVars
<1>3. (FreshUnused /\ TeardownIsFree /\ WorkIsOwned)'
  BY DEF IInv, TypeOK, GenerationsTypeOK, LoopTypeOK, FreshUnused,
         TeardownIsFree, WorkIsOwned, Working, CancelSendHolds,
         SpeculatingIsFree, StartSendHolds, IdLeft, Committing, CommitPoint,
         StartAuthoritative, CreateGeneration, TeardownAwaited, playbackVars
<1>4. /\ CancelSendHolds' /\ SpeculatingIsFree' /\ StartSendHolds'
      /\ OverlapFinalizingHolds' /\ CommitMeetsPrivate'
  BY DEF IInv, TypeOK, GenerationsTypeOK, LoopTypeOK, FreshUnused,
         CancelSendHolds, SpeculatingIsFree, StartSendHolds,
         OverlapFinalizingHolds, CommitMeetsPrivate, AnswerIsPrivate,
         TeardownIsFree, IdLeft, Committing, CommitPoint, StartAuthoritative,
         CreateGeneration, TeardownAwaited, playbackVars
<1>. QED BY <1>1, <1>2, <1>3, <1>4 DEF IInv

LEMMA StartSentStep ==
  ASSUME IInv, StartSent
  PROVE  IInv'
<1>1. TypeOK'
  <2>1. GenerationsTypeOK'
    BY DEF IInv, TypeOK, GenerationsTypeOK, LoopTypeOK, HistoryTypeOK,
           CandidateLifecycle, GateState, TaskState, ReleaseState, StartSent,
           playbackVars
  <2>2. HistoryTypeOK'
    BY DEF IInv, TypeOK, GenerationsTypeOK, HistoryTypeOK, Entry,
           StartSent, playbackVars
  <2>3. LoopTypeOK'
    BY DEF IInv, TypeOK, LoopTypeOK, RecognitionPoint, IdLeft,
           OverlapFinalizingHolds, Committing, CommitPoint, StartSent,
           playbackVars
  <2>. QED BY <2>1, <2>2, <2>3 DEF TypeOK
<1>2. (SpeechEnded /\ IdLeft)'
  BY DEF IInv, TypeOK, LoopTypeOK, SpeechEnded, IdLeft, Committing,
         CommitPoint, StartSent, playbackVars
<1>3. (FreshUnused /\ TeardownIsFree /\ WorkIsOwned)'
  BY DEF IInv, TypeOK, GenerationsTypeOK, LoopTypeOK, FreshUnused,
         TeardownIsFree, WorkIsOwned, Working, CancelSendHolds,
         SpeculatingIsFree, StartSendHolds, StartSent, playbackVars
<1>4. /\ CancelSendHolds' /\ SpeculatingIsFree' /\ StartSendHolds'
      /\ OverlapFinalizingHolds' /\ CommitMeetsPrivate'
  BY DEF IInv, TypeOK, GenerationsTypeOK, LoopTypeOK, FreshUnused,
         CancelSendHolds, SpeculatingIsFree, StartSendHolds,
         OverlapFinalizingHolds, CommitMeetsPrivate, SpeechEnded, Committing, CommitPoint,
         AnswerIsPrivate,
         TeardownIsFree, StartSent, playbackVars
<1>. QED BY <1>1, <1>2, <1>3, <1>4 DEF IInv

LEMMA TeardownFinishesStep ==
  ASSUME IInv, TeardownFinishes
  PROVE  IInv'
<1>1. TypeOK'
  <2>1. GenerationsTypeOK'
    BY DEF IInv, TypeOK, GenerationsTypeOK, LoopTypeOK, HistoryTypeOK,
           CandidateLifecycle, GateState, TaskState, ReleaseState,
           TeardownFinishes, Cancelled, TaskEnded, playbackVars, historyVars,
           recognitionVars
  <2>2. HistoryTypeOK'
    BY DEF IInv, TypeOK, GenerationsTypeOK, HistoryTypeOK, Entry,
           TeardownFinishes, playbackVars, historyVars, recognitionVars
  <2>3. LoopTypeOK'
    BY DEF IInv, TypeOK, LoopTypeOK, RecognitionPoint, IdLeft,
           OverlapFinalizingHolds, Committing, CommitPoint, TeardownFinishes,
           Cancelled, TaskEnded, playbackVars, historyVars, recognitionVars
  <2>. QED BY <2>1, <2>2, <2>3 DEF TypeOK
<1>2. (SpeechEnded /\ IdLeft)'
  BY DEF IInv, TypeOK, LoopTypeOK, SpeechEnded, IdLeft, Committing,
         CommitPoint, TeardownFinishes, Cancelled, TaskEnded, playbackVars,
         historyVars, recognitionVars
<1>3. (FreshUnused /\ TeardownIsFree /\ WorkIsOwned)'
  BY DEF IInv, TypeOK, GenerationsTypeOK, LoopTypeOK, FreshUnused,
         TeardownIsFree, WorkIsOwned, Working, CancelSendHolds,
         SpeculatingIsFree, StartSendHolds, TeardownFinishes, Cancelled,
         TaskEnded, playbackVars, historyVars, recognitionVars
<1>4. /\ CancelSendHolds' /\ SpeculatingIsFree' /\ StartSendHolds'
      /\ OverlapFinalizingHolds' /\ CommitMeetsPrivate'
  BY DEF IInv, TypeOK, GenerationsTypeOK, LoopTypeOK, FreshUnused,
         CancelSendHolds, SpeculatingIsFree, StartSendHolds,
         OverlapFinalizingHolds, CommitMeetsPrivate, AnswerIsPrivate,
         TeardownIsFree, TeardownFinishes, Cancelled, TaskEnded,
         playbackVars, historyVars, recognitionVars
<1>. QED BY <1>1, <1>2, <1>3, <1>4 DEF IInv

LEMMA ResponseFinishedStep ==
  ASSUME IInv, NEW g \in GenId, ResponseFinished(g)
  PROVE  IInv'
<1>1. TypeOK'
  <2>1. GenerationsTypeOK'
    BY DEF IInv, TypeOK, GenerationsTypeOK, LoopTypeOK, HistoryTypeOK,
           CandidateLifecycle, GateState, TaskState, ReleaseState,
           ResponseFinished, CommitAssistantIfComplete, playbackVars,
           recognitionVars, WriteHistory, AssistantEntry, InHistory
  <2>2. HistoryTypeOK'
    BY WrittenHistory DEF IInv, TypeOK, GenerationsTypeOK,
       HistoryTypeOK, Entry, ResponseFinished, CommitAssistantIfComplete,
       playbackVars, recognitionVars
  <2>3. LoopTypeOK'
    BY DEF IInv, TypeOK, LoopTypeOK, RecognitionPoint, IdLeft,
           OverlapFinalizingHolds, Committing, CommitPoint, ResponseFinished,
           CommitAssistantIfComplete, playbackVars, recognitionVars,
           WriteHistory, AssistantEntry, InHistory
  <2>. QED BY <2>1, <2>2, <2>3 DEF TypeOK
<1>2. (SpeechEnded /\ IdLeft)'
  BY DEF IInv, TypeOK, LoopTypeOK, SpeechEnded, IdLeft, Committing,
         CommitPoint, ResponseFinished, CommitAssistantIfComplete,
         playbackVars, recognitionVars, WriteHistory, AssistantEntry,
         InHistory
<1>3. (FreshUnused /\ TeardownIsFree /\ WorkIsOwned)'
  BY DEF IInv, TypeOK, GenerationsTypeOK, LoopTypeOK, FreshUnused,
         TeardownIsFree, WorkIsOwned, Working, CancelSendHolds,
         SpeculatingIsFree, StartSendHolds, ResponseFinished,
         CommitAssistantIfComplete, playbackVars, recognitionVars,
         WriteHistory, AssistantEntry, InHistory
<1>4. /\ CancelSendHolds' /\ SpeculatingIsFree' /\ StartSendHolds'
      /\ OverlapFinalizingHolds' /\ CommitMeetsPrivate'
  BY DEF IInv, TypeOK, GenerationsTypeOK, LoopTypeOK, FreshUnused,
         CancelSendHolds, SpeculatingIsFree, StartSendHolds,
         OverlapFinalizingHolds, CommitMeetsPrivate, AnswerIsPrivate,
         TeardownIsFree, ResponseFinished, CommitAssistantIfComplete,
         playbackVars, recognitionVars, WriteHistory, AssistantEntry,
         InHistory
<1>. QED BY <1>1, <1>2, <1>3, <1>4 DEF IInv

LEMMA TaskFailsStep ==
  ASSUME IInv, NEW g \in GenId, TaskFails(g)
  PROVE  IInv'
<1>1. TypeOK'
  <2>1. GenerationsTypeOK'
    BY DEF IInv, TypeOK, GenerationsTypeOK, LoopTypeOK, HistoryTypeOK,
           CandidateLifecycle, GateState, TaskState, ReleaseState, TaskFails,
           GateAfterFailure, playbackVars, historyVars, recognitionVars
  <2>2. HistoryTypeOK'
    BY DEF IInv, TypeOK, GenerationsTypeOK, HistoryTypeOK, Entry,
           TaskFails, playbackVars, historyVars, recognitionVars
  <2>3. LoopTypeOK'
    BY DEF IInv, TypeOK, LoopTypeOK, RecognitionPoint, IdLeft,
           OverlapFinalizingHolds, Committing, CommitPoint, TaskFails,
           GateAfterFailure, playbackVars, historyVars, recognitionVars
  <2>. QED BY <2>1, <2>2, <2>3 DEF TypeOK
<1>2. (SpeechEnded /\ IdLeft)'
  BY DEF IInv, TypeOK, LoopTypeOK, SpeechEnded, IdLeft, Committing,
         CommitPoint, TaskFails, GateAfterFailure, playbackVars, historyVars,
         recognitionVars
<1>3. (FreshUnused /\ TeardownIsFree /\ WorkIsOwned)'
  BY DEF IInv, TypeOK, GenerationsTypeOK, LoopTypeOK, FreshUnused,
         TeardownIsFree, WorkIsOwned, Working, CancelSendHolds,
         SpeculatingIsFree, StartSendHolds, TaskFails, GateAfterFailure,
         playbackVars, historyVars, recognitionVars
<1>4. /\ CancelSendHolds' /\ SpeculatingIsFree' /\ StartSendHolds'
      /\ OverlapFinalizingHolds' /\ CommitMeetsPrivate'
  BY DEF IInv, TypeOK, GenerationsTypeOK, LoopTypeOK, FreshUnused,
         CancelSendHolds, SpeculatingIsFree, StartSendHolds,
         OverlapFinalizingHolds, CommitMeetsPrivate, AnswerIsPrivate,
         TeardownIsFree, TaskFails, GateAfterFailure, playbackVars,
         historyVars, recognitionVars
<1>. QED BY <1>1, <1>2, <1>3, <1>4 DEF IInv

LEMMA PlaybackCompleteStep ==
  ASSUME IInv, NEW g \in GenId, PlaybackComplete(g)
  PROVE  IInv'
<1>1. TypeOK'
  <2>1. GenerationsTypeOK'
    BY DEF IInv, TypeOK, GenerationsTypeOK, LoopTypeOK, HistoryTypeOK,
           CandidateLifecycle, GateState, TaskState, ReleaseState,
           PlaybackComplete, CommitAssistantIfComplete, Audible,
           playbackVars, recognitionVars, WriteHistory, AssistantEntry,
           InHistory
  <2>2. HistoryTypeOK'
    BY WrittenHistory DEF IInv, TypeOK, GenerationsTypeOK,
       HistoryTypeOK, Entry, PlaybackComplete, CommitAssistantIfComplete,
       playbackVars, recognitionVars
  <2>3. LoopTypeOK'
    BY DEF IInv, TypeOK, LoopTypeOK, RecognitionPoint, IdLeft,
           OverlapFinalizingHolds, Committing, CommitPoint, PlaybackComplete,
           CommitAssistantIfComplete, Audible, playbackVars, recognitionVars,
           WriteHistory, AssistantEntry, InHistory
  <2>. QED BY <2>1, <2>2, <2>3 DEF TypeOK
<1>2. (SpeechEnded /\ IdLeft)'
  BY DEF IInv, TypeOK, LoopTypeOK, SpeechEnded, IdLeft, Committing,
         CommitPoint, PlaybackComplete, CommitAssistantIfComplete, Audible,
         playbackVars, recognitionVars, WriteHistory, AssistantEntry,
         InHistory
<1>3. (FreshUnused /\ TeardownIsFree /\ WorkIsOwned)'
  BY DEF IInv, TypeOK, GenerationsTypeOK, LoopTypeOK, FreshUnused,
         TeardownIsFree, WorkIsOwned, Working, CancelSendHolds,
         SpeculatingIsFree, StartSendHolds, PlaybackComplete,
         CommitAssistantIfComplete, Audible, playbackVars, recognitionVars,
         WriteHistory, AssistantEntry, InHistory
<1>4. /\ CancelSendHolds' /\ SpeculatingIsFree' /\ StartSendHolds'
      /\ OverlapFinalizingHolds' /\ CommitMeetsPrivate'
  BY DEF IInv, TypeOK, GenerationsTypeOK, LoopTypeOK, FreshUnused,
         CancelSendHolds, SpeculatingIsFree, StartSendHolds,
         OverlapFinalizingHolds, CommitMeetsPrivate, AnswerIsPrivate,
         TeardownIsFree, PlaybackComplete, CommitAssistantIfComplete,
         Audible, playbackVars, recognitionVars, WriteHistory,
         AssistantEntry, InHistory
<1>. QED BY <1>1, <1>2, <1>3, <1>4 DEF IInv

LEMMA ResumeRejectedStep ==
  ASSUME IInv, NEW g \in GenId, ResumeRejected(g)
  PROVE  IInv'
<1>1. TypeOK'
  <2>1. GenerationsTypeOK'
    BY DEF IInv, TypeOK, GenerationsTypeOK, LoopTypeOK, HistoryTypeOK,
           CandidateLifecycle, GateState, TaskState, ReleaseState,
           ResumeRejected, FinishCancellation, WriteHistory, AssistantEntry,
           InHistory, ScheduleTeardown, CancelledTask
  <2>2. HistoryTypeOK'
    BY WrittenHistory DEF IInv, TypeOK, GenerationsTypeOK,
       HistoryTypeOK, Entry, ResumeRejected
  <2>3. LoopTypeOK'
    BY DEF IInv, TypeOK, LoopTypeOK, RecognitionPoint, IdLeft,
           OverlapFinalizingHolds, Committing, CommitPoint, ResumeRejected,
           FinishCancellation, WriteHistory, AssistantEntry, InHistory,
           ScheduleTeardown, CancelledTask
  <2>. QED BY <2>1, <2>2, <2>3 DEF TypeOK
<1>2. (SpeechEnded /\ IdLeft)'
  BY DEF IInv, TypeOK, LoopTypeOK, SpeechEnded, IdLeft, Committing,
         CommitPoint, ResumeRejected, FinishCancellation, WriteHistory,
         AssistantEntry, InHistory, ScheduleTeardown, CancelledTask
<1>3. (FreshUnused /\ TeardownIsFree /\ WorkIsOwned)'
  BY DEF IInv, TypeOK, GenerationsTypeOK, LoopTypeOK, FreshUnused,
         TeardownIsFree, WorkIsOwned, Working, CancelSendHolds,
         SpeculatingIsFree, StartSendHolds, ResumeRejected,
         FinishCancellation, WriteHistory, AssistantEntry, InHistory,
         ScheduleTeardown, CancelledTask
<1>4. /\ CancelSendHolds' /\ SpeculatingIsFree' /\ StartSendHolds'
      /\ OverlapFinalizingHolds' /\ CommitMeetsPrivate'
  BY DEF IInv, TypeOK, GenerationsTypeOK, LoopTypeOK, FreshUnused,
         CancelSendHolds, SpeculatingIsFree, StartSendHolds,
         OverlapFinalizingHolds, CommitMeetsPrivate, AnswerIsPrivate,
         TeardownIsFree, ResumeRejected, FinishCancellation, WriteHistory,
         AssistantEntry, InHistory, ScheduleTeardown, CancelledTask
<1>. QED BY <1>1, <1>2, <1>3, <1>4 DEF IInv

LEMMA TaskSteps ==
  ASSUME IInv, NEW g \in GenId,
         \/ TaskBegins(g) \/ FirstDelta(g) \/ TaskReturns(g) \/ FailureReported(g)
         \/ TaskCancelled(g) \/ ReleaseBegins(g) \/ ReleaseReturns(g)
         \/ PlaybackStopTimeout(g)
  PROVE  IInv'
<1>1. HistoryTypeOK'
  BY DEF IInv, TypeOK, HistoryTypeOK, TaskBegins, FirstDelta, TaskReturns,
         FailureReported, TaskCancelled, ReleaseBegins, ReleaseReturns,
         PlaybackStopTimeout, historyVars
<1>2. CASE PlaybackStopTimeout(g)
  <2>1. GenerationsTypeOK'
    BY <1>2 DEF IInv, TypeOK, GenerationsTypeOK, PlaybackStopTimeout
  <2>. QED
    BY <1>2, <1>1, <2>1, QuietStep DEF PlaybackStopTimeout, Working
<1>3. CASE TaskBegins(g)
  <2>1. GenerationsTypeOK'
    BY <1>3 DEF IInv, TypeOK, GenerationsTypeOK, TaskState, CandidateLifecycle, TaskBegins
  <2>. QED
    BY <1>3, <1>1, <2>1, QuietStep DEF TaskBegins, Working
<1>4. CASE FirstDelta(g)
  <2>1. GenerationsTypeOK'
    BY <1>4 DEF IInv, TypeOK, GenerationsTypeOK, CandidateLifecycle, FirstDelta
  <2>. QED
    BY <1>4, <1>1, <2>1, QuietStep DEF FirstDelta, Working
<1>5. CASE TaskReturns(g)
  <2>1. GenerationsTypeOK'
    BY <1>5 DEF IInv, TypeOK, GenerationsTypeOK, TaskState, CandidateLifecycle, TaskReturns
  <2>. QED
    BY <1>5, <1>1, <2>1, QuietStep DEF TaskReturns, Working
<1>6. CASE FailureReported(g)
  <2>1. GenerationsTypeOK'
    BY <1>6 DEF IInv, TypeOK, GenerationsTypeOK, TaskState, FailureReported
  <2>. QED
    BY <1>6, <1>1, <2>1, QuietStep DEF FailureReported, Working
<1>7. CASE TaskCancelled(g)
  <2>1. GenerationsTypeOK'
    BY <1>7 DEF IInv, TypeOK, GenerationsTypeOK, TaskState, CandidateLifecycle, Cancelled, TaskCancelled
  <2>. QED
    BY <1>7, <1>1, <2>1, QuietStep DEF TaskCancelled, Working
<1>8. CASE ReleaseBegins(g)
  <2>1. GenerationsTypeOK'
    BY <1>8 DEF IInv, TypeOK, GenerationsTypeOK, ReleaseState, GateState, ReleaseBegins
  <2>. QED
    BY <1>8, <1>1, <2>1, QuietStep DEF ReleaseBegins, Working
<1>9. CASE ReleaseReturns(g)
  <2>1. GenerationsTypeOK'
    BY <1>9 DEF IInv, TypeOK, GenerationsTypeOK, ReleaseState, ReleaseReturns
  <2>. QED
    BY <1>9, <1>1, <2>1, QuietStep DEF ReleaseReturns, Working
<1>. QED
  BY <1>2, <1>3, <1>4, <1>5, <1>6, <1>7, <1>8, <1>9

LEMMA PlaybackProgressStep ==
  ASSUME IInv, NEW g \in GenId, PlaybackProgress(g)
  PROVE  IInv'
<1>1. GenerationsTypeOK'
  BY DEF IInv, TypeOK, GenerationsTypeOK, PlaybackProgress, genVars
<1>2. HistoryTypeOK'
  BY WrittenHistory DEF IInv, TypeOK, HistoryTypeOK, PlaybackProgress
<1>. QED
  BY <1>1, <1>2, QuietStep DEF PlaybackProgress, Working, genVars

LEMMA PlaybackStoppedStep ==
  ASSUME IInv, NEW g \in GenId, PlaybackStopped(g)
  PROVE  IInv'
<1>1. GenerationsTypeOK'
  BY DEF IInv, TypeOK, GenerationsTypeOK, PlaybackStopped
<1>2. HistoryTypeOK'
  BY WrittenHistory DEF IInv, TypeOK, HistoryTypeOK, PlaybackStopped
<1>. QED
  BY <1>1, <1>2, QuietStep DEF PlaybackStopped, Working

-----------------------------------------------------------------------------
LEMMA InitIInv == Init => IInv
<1>. SUFFICES ASSUME Init PROVE IInv
  OBVIOUS
<1>1. TypeOK
  <2>1. GenerationsTypeOK
    BY DEF Init, GenerationsTypeOK, CandidateLifecycle, GateState, TaskState,
           ReleaseState
  <2>2. HistoryTypeOK
    BY DEF Init, HistoryTypeOK
  <2>3. nextGen \in 1 .. MaxGenerations + 1
    BY DEF Init
  <2>4. LoopTypeOK
    BY <2>3 DEF Init, LoopTypeOK, RecognitionPoint
  <2>. QED BY <2>1, <2>2, <2>4 DEF TypeOK
<1>. QED
  BY <1>1 DEF Init, IInv, SpeechEnded, IdLeft, Committing, CommitPoint,
              FreshUnused, TeardownIsFree, WorkIsOwned, Working,
              CancelSendHolds, SpeculatingIsFree, StartSendHolds,
              OverlapFinalizingHolds, CommitMeetsPrivate, AnswerIsPrivate

LEMMA StutterStep ==
  ASSUME IInv, UNCHANGED vars
  PROVE  IInv'
BY DEF vars, genVars, playbackVars, historyVars, recognitionVars, IInv, TypeOK,
       GenerationsTypeOK, HistoryTypeOK, LoopTypeOK, SpeechEnded, IdLeft,
       Committing, CommitPoint, FreshUnused, TeardownIsFree, WorkIsOwned,
       Working, CancelSendHolds, SpeculatingIsFree, StartSendHolds,
       OverlapFinalizingHolds, CommitMeetsPrivate, AnswerIsPrivate

LEMMA RecognitionStep ==
  ASSUME IInv, Recognition
  PROVE  IInv'
BY SpeechOnsetStep, CancelSentStep, InvalidateCandidateStep,
   StartSpeculationStep, CreateCandidateStep, OverlapTakesFloorStep,
   OverlapReportedStep, OverlapLooksEphemeralStep, OverlapGraceTimeoutStep,
   OverlapDismissedStep, OverlapTranscriptNeedsAnswerStep, CommitTurnStep,
   TurnFinalizedStep, EmptyTurnFinalizedStep, TurnSentStep,
   PromoteCandidateStep, PromotionSentStep, RejectCandidateStep,
   StartAuthoritativeStep, StartSentStep, TaskSteps
   DEF Recognition

LEMMA GenerationStep ==
  ASSUME IInv, NEW g \in GenId, Generation(g)
  PROVE  IInv'
BY TaskSteps, ResponseFinishedStep, TaskFailsStep DEF Generation

LEMMA ReceiveStep ==
  ASSUME IInv, NEW g \in GenId, Receive(g)
  PROVE  IInv'
BY PlaybackProgressStep, PlaybackCompleteStep, PlaybackStoppedStep,
   ResumeRejectedStep DEF Receive

LEMMA NextIInv == IInv /\ [Next]_vars => IInv'
<1>. SUFFICES ASSUME IInv, [Next]_vars PROVE IInv'
  OBVIOUS
<1>1. CASE Recognition
  BY <1>1, RecognitionStep
<1>2. CASE TeardownFinishes
  BY <1>2, TeardownFinishesStep
<1>3. CASE \E g \in GenId : Generation(g) \/ Receive(g)
  BY <1>3, GenerationStep, ReceiveStep
<1>4. CASE UNCHANGED vars
  BY <1>4, StutterStep
<1>. QED
  BY <1>1, <1>2, <1>3, <1>4 DEF Next

THEOREM Invariance == Spec => []IInv
BY InitIInv, NextIInv, PTL DEF Spec

-----------------------------------------------------------------------------
(* Every variable of the session keeps its type; in particular every       *)
(* generation the loop, the teardown or playback refers to exists.         *)
THEOREM TypeCorrect == Spec => []TypeOK
<1>1. IInv => TypeOK
  BY DEF IInv
<1>. QED
  BY <1>1, Invariance, PTL

(* Old and new language model and synthesis work never overlap: at any     *)
(* moment one generation at most has a task that may be working.           *)
THEOREM OneGenerationWorks == Spec => []SingleGenerationWork
<1>1. IInv => SingleGenerationWork
  BY DEF IInv, TypeOK, LoopTypeOK, TeardownIsFree, WorkIsOwned,
         CancelSendHolds, Working, SingleGenerationWork
<1>. QED
  BY <1>1, Invariance, PTL

(* The assertions of _schedule_generation_teardown, of                     *)
(* _start_speculative_candidate and of _start_authoritative_generation     *)
(* never fail: no teardown is pending where one is scheduled, and no       *)
(* generation is active where a successor is created.                      *)
THEOREM SessionAssertionsHold == Spec => []AssertionsHold
<1>1. IInv => AssertionsHold
  BY DEF IInv, SpeculatingIsFree, CommitMeetsPrivate, TeardownIsFree,
         SuccessorFindsNoAnswer, AssertionsHold
<1>. QED
  BY <1>1, Invariance, PTL
-----------------------------------------------------------------------------
(* Privacy: gates, release tasks and the answer the browser plays.         *)

(* Of a generation not created yet nothing has happened. *)
FreshBlank ==
  /\ playbackGen < nextGen
  /\ \A g \in GenId : g >= nextGen =>
       /\ gate[g] = "HELD" /\ rel[g] = "none"
       /\ ~spec[g] /\ ~cancelled[g] /\ ~played[g]

(* Only audio that was let out is played, and its last report is final. *)
PlayedEnds ==
  \A g \in GenId : played[g] => gate[g] = "RELEASED" /\ ~accepts[g]

(* Who discards the gate of a candidate drops the candidate. *)
DiscardedDropped == \A g \in GenId : gate[g] = "DISCARDED" => active # g

(* A promoted candidate whose gate waits to be opened. *)
Handed(g) ==
  gate[g] = "HELD" /\ ~spec[g] /\ (active = g \/ cancelled[g])

ReleaseHolds == \A g \in GenId : rel[g] = "created" => Handed(g)

PromotingHolds ==
  rpc = "promoting" =>
    /\ rgen \in GenId /\ rgen < nextGen /\ active \in {rgen, NoGen}
    /\ Handed(rgen) /\ rel[rgen] = "none"

CandidateHidden ==
  \A g \in GenId :
    spec[g] => gate[g] # "RELEASED" /\ playbackGen # g /\ rel[g] = "none"

PrivacyInv ==
  /\ FreshBlank
  /\ PlayedEnds
  /\ DiscardedDropped
  /\ ReleaseHolds
  /\ PromotingHolds
  /\ CandidateHidden
  /\ AnswerStaysReachable

(* Generations that have begun anything are created. *)
LEMMA CreatedEarlier ==
  ASSUME IInv
  PROVE  /\ active # NoGen => active \in GenId /\ active < nextGen
         /\ \A g \in GenId : task[g] # "none" => g < nextGen
         /\ \A g \in GenId : g < nextGen => ~(g >= nextGen)
         /\ nextGen <= MaxGenerations => nextGen \in GenId
BY DEF IInv, TypeOK, LoopTypeOK, FreshUnused

(* Steps that leave the gates and the flags of the generations alone, and  *)
(* at most end release tasks and stop accepting reports.                   *)
LEMMA PrivacyFrame ==
  ASSUME PrivacyInv,
         UNCHANGED <<spec, cancelled, played, gate, nextGen, active, playbackGen>>,
         \A g \in GenId : /\ accepts'[g] => accepts[g]
                          /\ rel'[g] = "created" => rel[g] = "created"
                          /\ rel[g] = "none" => rel'[g] = "none",
         rpc' = "promoting" => rpc = "promoting" /\ rgen' = rgen
  PROVE  PrivacyInv'
<1>1. FreshBlank' /\ PlayedEnds' /\ DiscardedDropped' /\ AnswerStaysReachable'
  BY DEF PrivacyInv, FreshBlank, PlayedEnds, DiscardedDropped, AnswerStaysReachable
<1>2. ReleaseHolds' /\ PromotingHolds' /\ CandidateHidden'
  BY DEF PrivacyInv, ReleaseHolds, PromotingHolds, Handed, CandidateHidden
<1>. QED
  BY <1>1, <1>2 DEF PrivacyInv

LEMMA QuietPrivacy ==
  ASSUME IInv, PrivacyInv,
         \/ StartSpeculation \/ OverlapTakesFloor \/ OverlapLooksEphemeral
         \/ OverlapGraceTimeout \/ OverlapDismissed
         \/ OverlapTranscriptNeedsAnswer \/ CommitTurn \/ TurnFinalized
         \/ TurnSent \/ StartSent \/ TeardownFinishes \/ UNCHANGED vars
         \/ \E g \in GenId :
              \/ TaskBegins(g) \/ FirstDelta(g) \/ TaskReturns(g)
              \/ FailureReported(g) \/ TaskCancelled(g) \/ ReleaseReturns(g)
              \/ PlaybackStopTimeout(g) \/ PlaybackProgress(g)
              \/ PlaybackStopped(g)
  PROVE  PrivacyInv'
<1>1. UNCHANGED <<spec, cancelled, played, gate, nextGen, active, playbackGen>>
  BY DEF StartSpeculation, OverlapTakesFloor, OverlapLooksEphemeral,
         OverlapGraceTimeout, OverlapDismissed, OverlapTranscriptNeedsAnswer,
         CommitTurn, TurnFinalized, TurnSent, StartSent, TeardownFinishes,
         TaskBegins, FirstDelta, TaskReturns, FailureReported, TaskCancelled,
         ReleaseReturns, PlaybackStopTimeout, PlaybackProgress,
         PlaybackStopped, vars, genVars, playbackVars
<1>2. rpc' = "promoting" => rpc = "promoting" /\ rgen' = rgen
  BY DEF StartSpeculation, OverlapTakesFloor, OverlapLooksEphemeral,
         OverlapGraceTimeout, OverlapDismissed, OverlapTranscriptNeedsAnswer,
         CommitTurn, TurnFinalized, TurnSent, StartSent, TeardownFinishes,
         TaskBegins, FirstDelta, TaskReturns, FailureReported, TaskCancelled,
         ReleaseReturns, PlaybackStopTimeout, PlaybackProgress,
         PlaybackStopped, vars, recognitionVars
<1>3. \A g \in GenId : accepts'[g] => accepts[g]
  BY DEF IInv, TypeOK, GenerationsTypeOK, StartSpeculation, OverlapTakesFloor,
         OverlapLooksEphemeral, OverlapGraceTimeout, OverlapDismissed,
         OverlapTranscriptNeedsAnswer, CommitTurn, TurnFinalized, TurnSent,
         StartSent, TeardownFinishes, TaskBegins, FirstDelta, TaskReturns,
         FailureReported, TaskCancelled, ReleaseReturns, PlaybackStopTimeout,
         PlaybackProgress, PlaybackStopped, vars, genVars
<1>4. \A g \in GenId : /\ rel'[g] = "created" => rel[g] = "created"
                       /\ rel[g] = "none" => rel'[g] = "none"
  BY DEF IInv, TypeOK, GenerationsTypeOK, StartSpeculation, OverlapTakesFloor,
         OverlapLooksEphemeral, OverlapGraceTimeout, OverlapDismissed,
         OverlapTranscriptNeedsAnswer, CommitTurn, TurnFinalized, TurnSent,
         StartSent, TeardownFinishes, TaskBegins, FirstDelta, TaskReturns,
         FailureReported, TaskCancelled, ReleaseReturns, PlaybackStopTimeout,
         PlaybackProgress, PlaybackStopped, vars, genVars
<1>. QED
  BY <1>1, <1>2, <1>3, <1>4, PrivacyFrame

(* A candidate is invalidated: its gate is discarded and it is dropped. *)
LEMMA InvalidationPrivacy ==
  ASSUME IInv, PrivacyInv, active # NoGen, spec[active], InvalidateSpeculative,
         rpc' # "promoting"
  PROVE  PrivacyInv'
<1>. active \in GenId /\ active < nextGen
  BY DEF IInv, TypeOK, LoopTypeOK, FreshUnused
<1>1. /\ cancelled'[active] /\ ~accepts'[active]
      /\ gate'[active] = "DISCARDED" /\ rel'[active] \in {"none", "done"}
      /\ \A g \in GenId : g # active =>
            /\ cancelled'[g] = cancelled[g] /\ accepts'[g] = accepts[g]
            /\ gate'[g] = gate[g] /\ rel'[g] = rel[g]
  BY DEF IInv, TypeOK, GenerationsTypeOK, InvalidateSpeculative, ScheduleTeardown
<1>2. /\ active' = NoGen
      /\ UNCHANGED <<spec, played, nextGen, playbackGen>>
  BY DEF InvalidateSpeculative, playbackVars
<1>3. ~played[active] /\ rel[active] = "none" /\ rel'[active] = "none"
  BY DEF PrivacyInv, PlayedEnds, CandidateHidden, IInv, TypeOK,
         GenerationsTypeOK, InvalidateSpeculative, ScheduleTeardown
<1>4. FreshBlank'
  BY <1>1, <1>2, <1>3 DEF PrivacyInv, FreshBlank, IInv, TypeOK, LoopTypeOK
<1>5. PlayedEnds' /\ CandidateHidden'
  BY <1>1, <1>2, <1>3 DEF PrivacyInv, PlayedEnds, CandidateHidden
<1>6. DiscardedDropped' /\ ReleaseHolds' /\ AnswerStaysReachable'
  <2>1. DiscardedDropped'
    BY <1>2 DEF DiscardedDropped
  <2>2. ReleaseHolds'
    BY <1>1, <1>2, <1>3 DEF PrivacyInv, ReleaseHolds, Handed
  <2>3. AnswerStaysReachable'
    BY <1>1, <1>2, <1>3 DEF PrivacyInv, AnswerStaysReachable
  <2>. QED BY <2>1, <2>2, <2>3
<1>7. PromotingHolds'
  BY DEF PromotingHolds
<1>. QED BY <1>4, <1>5, <1>6, <1>7 DEF PrivacyInv

(* A cancelled answer is dropped.  Its release task ends with it. *)
LEMMA DroppingPrivacy ==
  ASSUME IInv, PrivacyInv, NEW a \in GenId, a < nextGen,
         cancelled'[a], active \in {a, NoGen}, 
         \A g \in GenId : g # a => cancelled'[g] = cancelled[g],
         FinishCancellation(a), 
         UNCHANGED <<spec, accepts, played, gate, nextGen, playbackGen>>,
         rpc' # "promoting"
  PROVE  PrivacyInv'
<1>1. /\ active' = NoGen
      /\ rel'[a] \in {"none", "done"} /\ (rel[a] = "none" => rel'[a] = "none")
      /\ \A g \in GenId : g # a => rel'[g] = rel[g]
  BY DEF IInv, TypeOK, GenerationsTypeOK, FinishCancellation, ScheduleTeardown
<1>2. FreshBlank'
  <2>1. \A g \in GenId : g >= nextGen => g # a
    BY DEF IInv, TypeOK, LoopTypeOK
  <2>. QED
    BY <1>1, <2>1 DEF PrivacyInv, FreshBlank
<1>3. PlayedEnds' /\ CandidateHidden'
  BY <1>1 DEF PrivacyInv, PlayedEnds, CandidateHidden
<1>4. DiscardedDropped' /\ ReleaseHolds' /\ AnswerStaysReachable'
  <2>1. DiscardedDropped'
    BY <1>1 DEF DiscardedDropped
  <2>2. ReleaseHolds'
    BY <1>1 DEF PrivacyInv, ReleaseHolds, Handed
  <2>3. AnswerStaysReachable'
    BY <1>1 DEF PrivacyInv, AnswerStaysReachable
  <2>. QED BY <2>1, <2>2, <2>3
<1>5. PromotingHolds'
  BY DEF PromotingHolds
<1>. QED BY <1>2, <1>3, <1>4, <1>5 DEF PrivacyInv

(* Either, or the command is sent first and the answer stays active. *)
LEMMA CancellationPrivacy ==
  ASSUME IInv, PrivacyInv, NEW next \in {"listening", "finalizing"},
         rpc \in {"listening", "overlapTaken"}, RequestCancellation(next)
  PROVE  PrivacyInv'
<1>1. CASE active = NoGen
  BY <1>1, PrivacyFrame DEF RequestCancellation, genVars, playbackVars
<1>2. CASE active # NoGen /\ spec[active]
  BY <1>2, InvalidationPrivacy DEF RequestCancellation
<1>3. CASE active # NoGen /\ ~spec[active]
  <2>. active \in GenId /\ active < nextGen
    BY <1>3 DEF IInv, TypeOK, LoopTypeOK, FreshUnused
  <2>1. /\ cancelled'[active]
        /\ \A g \in GenId : g # active => cancelled'[g] = cancelled[g]
        /\ UNCHANGED <<spec, accepts, played, gate, nextGen, playbackGen>>
        /\ rpc' # "promoting"
    BY <1>3 DEF RequestCancellation, IInv, TypeOK, GenerationsTypeOK
  <2>2. CASE playbackGen = active
    <3>1. UNCHANGED <<active, rel>>
      BY <1>3, <2>2 DEF RequestCancellation
    <3>2. FreshBlank' /\ PromotingHolds'
      <4>1. \A g \in GenId : g >= nextGen => g # active
        BY DEF IInv, TypeOK, LoopTypeOK
      <4>. QED
        BY <2>1, <3>1, <4>1 DEF PrivacyInv, FreshBlank, PromotingHolds
    <3>. QED
      BY <2>1, <3>1, <3>2 DEF PrivacyInv, PlayedEnds, DiscardedDropped,
                              ReleaseHolds, Handed, CandidateHidden,
                              AnswerStaysReachable
  <2>3. CASE playbackGen # active
    BY <1>3, <2>1, <2>3, DroppingPrivacy DEF RequestCancellation
  <2>. QED BY <2>2, <2>3
<1>. QED BY <1>1, <1>2, <1>3

(* A generation is created, its gate open unless it is a candidate. *)
LEMMA CreationPrivacy ==
  ASSUME IInv, PrivacyInv, NEW s \in BOOLEAN, nextGen <= MaxGenerations,
         active = NoGen, CreateGeneration(s),
         UNCHANGED <<cancelled, accepts, played, rel>>,
         playbackGen' \in {playbackGen, nextGen},
         s => playbackGen' = playbackGen, rpc' # "promoting"
  PROVE  PrivacyInv'
<1>. DEFINE n == nextGen
<1>. n \in GenId
  BY MaxGenerationsAssumption DEF IInv, TypeOK, LoopTypeOK
<1>1. /\ active' = n /\ nextGen' = n + 1
      /\ spec'[n] = s /\ gate'[n] = (IF s THEN "HELD" ELSE "RELEASED")
      /\ \A g \in GenId : g # n => spec'[g] = spec[g] /\ gate'[g] = gate[g]
  BY DEF CreateGeneration, IInv, TypeOK, GenerationsTypeOK, LoopTypeOK,
         PrivacyInv, FreshBlank
<1>2. /\ gate[n] = "HELD" /\ rel[n] = "none"
      /\ ~cancelled[n] /\ ~played[n] /\ playbackGen # n
  BY DEF PrivacyInv, FreshBlank, IInv, TypeOK, LoopTypeOK
<1>3. FreshBlank'
  <2>1. playbackGen' < nextGen'
    BY <1>1 DEF PrivacyInv, FreshBlank, IInv, TypeOK, LoopTypeOK
  <2>2. \A g \in GenId : g >= nextGen' => g >= n /\ g # n
    BY <1>1 DEF IInv, TypeOK, LoopTypeOK
  <2>. QED BY <1>1, <2>1, <2>2 DEF PrivacyInv, FreshBlank
<1>4. \A g \in GenId : g # n /\ playbackGen' = g => playbackGen = g
  OBVIOUS
<1>5. PlayedEnds' /\ DiscardedDropped' 
  BY <1>1, <1>2, Zenon DEF PrivacyInv, PlayedEnds, DiscardedDropped
<1>6. CandidateHidden'
  BY <1>1, <1>2, <1>4 DEF PrivacyInv, CandidateHidden
<1>7. ReleaseHolds' /\ AnswerStaysReachable'
  <2>1. ReleaseHolds'
    BY <1>1, <1>2 DEF PrivacyInv, ReleaseHolds, Handed
  <2>2. \A g \in GenId : active # g
    OBVIOUS
  <2>3. AnswerStaysReachable'
    BY <1>1, <2>2 DEF PrivacyInv, AnswerStaysReachable
  <2>. QED BY <2>1, <2>3
<1>8. PromotingHolds'
  BY DEF PromotingHolds
<1>. QED BY <1>3, <1>5, <1>6, <1>7, <1>8 DEF PrivacyInv
LEMMA LoopPrivacy ==
  ASSUME IInv, PrivacyInv,
         \/ SpeechOnset \/ CancelSent \/ InvalidateCandidate \/ OverlapReported
         \/ EmptyTurnFinalized \/ RejectCandidate
  PROVE  PrivacyInv'
<1>1. CASE SpeechOnset
  <2>1. CASE OverlapEligible
    BY <1>1, <2>1, PrivacyFrame DEF SpeechOnset, genVars, playbackVars
  <2>2. CASE ~OverlapEligible
    BY <1>1, <2>2, CancellationPrivacy DEF SpeechOnset
  <2>. QED BY <2>1, <2>2
<1>2. CASE CancelSent
  <2>1. rgen \in GenId /\ rgen < nextGen /\ cancelled[rgen] /\ active \in {rgen, NoGen}
    BY <1>2 DEF IInv, CancelSendHolds, CancelSent, PrivacyInv, FreshBlank, TypeOK, LoopTypeOK
  <2>. QED
    BY <1>2, <2>1, DroppingPrivacy DEF CancelSent, IInv, TypeOK, LoopTypeOK
<1>3. CASE InvalidateCandidate
  BY <1>3, InvalidationPrivacy DEF InvalidateCandidate, recognitionVars
<1>4. CASE OverlapReported
  BY <1>4, CancellationPrivacy DEF OverlapReported, IInv, TypeOK, LoopTypeOK
<1>5. CASE EmptyTurnFinalized
  <2>1. CASE active # NoGen /\ spec[active]
    BY <1>5, <2>1, InvalidationPrivacy DEF EmptyTurnFinalized
  <2>2. CASE ~(active # NoGen /\ spec[active])
    BY <1>5, <2>2, PrivacyFrame DEF EmptyTurnFinalized, genVars, playbackVars
  <2>. QED BY <2>1, <2>2
<1>6. CASE RejectCandidate
  <2>1. CASE rgen # NoGen /\ spec[rgen] /\ active # NoGen /\ spec[active]
    BY <1>6, <2>1, InvalidationPrivacy DEF RejectCandidate
  <2>2. CASE ~(rgen # NoGen /\ spec[rgen] /\ active # NoGen /\ spec[active])
    BY <1>6, <2>2, PrivacyFrame DEF RejectCandidate, genVars, playbackVars
  <2>. QED BY <2>1, <2>2
<1>. QED
  BY <1>1, <1>2, <1>3, <1>4, <1>5, <1>6

LEMMA CreatingPrivacy ==
  ASSUME IInv, PrivacyInv, CreateCandidate \/ StartAuthoritative
  PROVE  PrivacyInv'
<1>1. CASE CreateCandidate
  <2>1. active = NoGen /\ nextGen <= MaxGenerations
    BY <1>1 DEF CreateCandidate, IInv, SpeculatingIsFree, IdLeft, TypeOK, LoopTypeOK
  <2>. QED
    BY <1>1, <2>1, CreationPrivacy DEF CreateCandidate, playbackVars
<1>2. CASE StartAuthoritative
  <2>1. active = NoGen /\ nextGen <= MaxGenerations
    BY <1>2 DEF StartAuthoritative, IInv, CommitMeetsPrivate, IdLeft,
                Committing, CommitPoint
  <2>. QED
    BY <1>2, <2>1, CreationPrivacy DEF StartAuthoritative
<1>. QED
  BY <1>1, <1>2

(* The candidate that is promoted is active, so that its gate is held and  *)
(* its release task finds it so.                                           *)
LEMMA PromotionPrivacy ==
  ASSUME IInv, PrivacyInv, PromoteCandidate \/ PromotionSent
  PROVE  PrivacyInv'
<1>1. CASE PromoteCandidate /\ active # rgen
  BY <1>1, PrivacyFrame DEF PromoteCandidate, playbackVars
<1>2. CASE PromoteCandidate /\ active = rgen
  <2>1. /\ rgen \in GenId /\ rgen < nextGen
        /\ gate[rgen] = "HELD" /\ rel[rgen] = "none"
    BY <1>2, CreatedEarlier DEF PromoteCandidate, PrivacyInv, DiscardedDropped,
       CandidateHidden, IInv, TypeOK, GenerationsTypeOK, GateState
  <2>2. /\ UNCHANGED <<cancelled, accepts, played, gate, rel, nextGen, active>>
        /\ UNCHANGED <<playbackGen, rgen>>
        /\ ~spec'[rgen]
        /\ \A g \in GenId : g # rgen => spec'[g] = spec[g]
    BY <1>2, <2>1 DEF PromoteCandidate, playbackVars, IInv, TypeOK, GenerationsTypeOK
  <2>3. /\ FreshBlank' /\ PlayedEnds' /\ DiscardedDropped' /\ CandidateHidden'
        /\ AnswerStaysReachable'
    BY <2>1, <2>2 DEF PrivacyInv, FreshBlank, PlayedEnds, DiscardedDropped,
                      CandidateHidden, AnswerStaysReachable
  <2>4. ReleaseHolds' /\ PromotingHolds'
    BY <1>2, <2>1, <2>2 DEF PrivacyInv, ReleaseHolds, PromotingHolds, Handed
  <2>. QED
    BY <2>3, <2>4 DEF PrivacyInv
<1>3. CASE PromotionSent
  <2>1. /\ UNCHANGED <<spec, cancelled, accepts, played, gate, nextGen, active>>
        /\ rel'[rgen] = "created"
        /\ \A g \in GenId : g # rgen => rel'[g] = rel[g]
        /\ playbackGen' = rgen /\ rpc' = "listening"
        /\ rgen \in GenId /\ rgen < nextGen /\ Handed(rgen)
    BY <1>3 DEF PromotionSent, IInv, TypeOK, GenerationsTypeOK, PrivacyInv,
                PromotingHolds
  <2>2. FreshBlank'
    BY <2>1, CreatedEarlier DEF PrivacyInv, FreshBlank
  <2>3. /\ PlayedEnds' /\ DiscardedDropped' /\ CandidateHidden'
        /\ AnswerStaysReachable'
    BY <2>1 DEF PrivacyInv, PlayedEnds, DiscardedDropped, CandidateHidden,
                AnswerStaysReachable, Handed
  <2>4. ReleaseHolds' /\ PromotingHolds'
    BY <2>1 DEF PrivacyInv, ReleaseHolds, PromotingHolds, Handed
  <2>. QED
    BY <2>2, <2>3, <2>4 DEF PrivacyInv
<1>. QED
  BY <1>1, <1>2, <1>3

LEMMA TaskPrivacy ==
  ASSUME IInv, PrivacyInv, NEW g \in GenId,
         ResponseFinished(g) \/ TaskFails(g) \/ ReleaseBegins(g)
  PROVE  PrivacyInv'
<1>1. CASE ResponseFinished(g)
  <2>1. /\ UNCHANGED <<spec, cancelled, accepts, played, gate, rel, nextGen>>
        /\ UNCHANGED <<playbackGen, rpc, rgen>>
        /\ active' = active \/ (active = g /\ active' = NoGen /\ played[g])
    BY <1>1 DEF ResponseFinished, CommitAssistantIfComplete, playbackVars,
                recognitionVars
  <2>2. FreshBlank' /\ PlayedEnds' /\ CandidateHidden' /\ AnswerStaysReachable'
    BY <2>1 DEF PrivacyInv, FreshBlank, PlayedEnds, CandidateHidden,
                AnswerStaysReachable
  <2>3. DiscardedDropped' /\ ReleaseHolds' /\ PromotingHolds'
    BY <2>1 DEF PrivacyInv, PlayedEnds, DiscardedDropped, ReleaseHolds,
                PromotingHolds, Handed
  <2>. QED
    BY <2>2, <2>3 DEF PrivacyInv
<1>2. CASE TaskFails(g)
  <2>1. /\ UNCHANGED <<spec, accepts, played, rel, nextGen, playbackGen, rpc, rgen>>
        /\ gate'[g] = IF spec[g] THEN "DISCARDED" ELSE gate[g]
        /\ \A h \in GenId : h # g => gate'[h] = gate[h] /\ cancelled'[h] = cancelled[h]
        /\ \A h \in GenId : cancelled[h] => cancelled'[h]
        /\ IF active = g THEN active' = NoGen /\ cancelled'[g]
           ELSE active' = active /\ cancelled'[g] = cancelled[g]
    BY <1>2 DEF TaskFails, GateAfterFailure, playbackVars, recognitionVars,
                IInv, TypeOK, GenerationsTypeOK
  <2>2. \A h \in GenId : h >= nextGen => h # g
    BY <1>2, CreatedEarlier DEF TaskFails
  <2>3. FreshBlank' /\ PlayedEnds' /\ CandidateHidden' /\ AnswerStaysReachable'
    BY <2>1, <2>2 DEF PrivacyInv, FreshBlank, PlayedEnds, CandidateHidden,
                      AnswerStaysReachable
  <2>4. DiscardedDropped'
    BY <2>1 DEF PrivacyInv, DiscardedDropped
  <2>5. ReleaseHolds' /\ PromotingHolds'
    BY <2>1 DEF PrivacyInv, ReleaseHolds, PromotingHolds, Handed
  <2>. QED
    BY <2>3, <2>4, <2>5 DEF PrivacyInv
<1>3. CASE ReleaseBegins(g)
  <2>1. /\ UNCHANGED <<spec, cancelled, accepts, played, nextGen, active>>
        /\ UNCHANGED <<playbackGen, rpc, rgen>>
        /\ gate'[g] = "RELEASED" /\ rel'[g] = "running" /\ rel[g] = "created"
        /\ \A h \in GenId : h # g => gate'[h] = gate[h] /\ rel'[h] = rel[h]
    BY <1>3 DEF ReleaseBegins, playbackVars, recognitionVars, IInv, TypeOK,
                GenerationsTypeOK
  <2>2. Handed(g)
    BY <2>1 DEF PrivacyInv, ReleaseHolds
  <2>3. /\ FreshBlank' /\ PlayedEnds' /\ CandidateHidden' /\ AnswerStaysReachable'
        /\ DiscardedDropped'
    BY <2>1, <2>2 DEF PrivacyInv, FreshBlank, PlayedEnds, CandidateHidden,
                      AnswerStaysReachable, DiscardedDropped, Handed
  <2>4. ReleaseHolds' /\ PromotingHolds'
    BY <2>1, <2>2 DEF PrivacyInv, ReleaseHolds, PromotingHolds, Handed
  <2>. QED
    BY <2>3, <2>4 DEF PrivacyInv
<1>. QED
  BY <1>1, <1>2, <1>3

LEMMA ReportPrivacy ==
  ASSUME IInv, PrivacyInv, NEW g \in GenId,
         PlaybackComplete(g) \/ ResumeRejected(g)
  PROVE  PrivacyInv'
<1>1. CASE PlaybackComplete(g)
  <2>1. /\ UNCHANGED <<spec, cancelled, gate, rel, nextGen, playbackGen, rpc, rgen>>
        /\ active = g /\ active' \in {g, NoGen}
        /\ gate[g] = "RELEASED" /\ played'[g] /\ ~accepts'[g]
        /\ \A h \in GenId : h # g => played'[h] = played[h] /\ accepts'[h] = accepts[h]
    BY <1>1 DEF PlaybackComplete, Audible, CommitAssistantIfComplete,
                playbackVars, recognitionVars, IInv, TypeOK, GenerationsTypeOK
  <2>2. FreshBlank' /\ PlayedEnds' /\ CandidateHidden' /\ AnswerStaysReachable'
    BY <2>1, CreatedEarlier DEF PrivacyInv, FreshBlank, PlayedEnds, CandidateHidden,
                AnswerStaysReachable
  <2>3. DiscardedDropped' /\ ReleaseHolds' /\ PromotingHolds'
    BY <2>1 DEF PrivacyInv, DiscardedDropped, ReleaseHolds, PromotingHolds, Handed
  <2>. QED
    BY <2>2, <2>3 DEF PrivacyInv
<1>2. CASE ResumeRejected(g)
  <2>1. /\ UNCHANGED <<spec, played, gate, nextGen, playbackGen, rpc, rgen>>
        /\ active = g /\ active' = NoGen /\ playbackGen = g
        /\ cancelled'[g] /\ ~accepts'[g] /\ rel'[g] \in {"none", "done"}
        /\ rel[g] = "none" => rel'[g] = "none"
        /\ \A h \in GenId : h # g => /\ cancelled'[h] = cancelled[h]
                                     /\ accepts'[h] = accepts[h]
                                     /\ rel'[h] = rel[h]
    BY <1>2 DEF ResumeRejected, FinishCancellation, ScheduleTeardown, IInv,
                TypeOK, GenerationsTypeOK
  <2>2. FreshBlank' /\ PlayedEnds' /\ CandidateHidden' /\ AnswerStaysReachable'
    BY <2>1, CreatedEarlier DEF PrivacyInv, FreshBlank, PlayedEnds, CandidateHidden,
                AnswerStaysReachable
  <2>3. DiscardedDropped' /\ ReleaseHolds' /\ PromotingHolds'
    BY <2>1 DEF PrivacyInv, DiscardedDropped, ReleaseHolds, PromotingHolds, Handed
  <2>. QED
    BY <2>2, <2>3 DEF PrivacyInv
<1>. QED
  BY <1>1, <1>2

LEMMA InitPrivacy == Init => PrivacyInv
BY DEF Init, PrivacyInv, FreshBlank, PlayedEnds, DiscardedDropped, ReleaseHolds,
       Handed, PromotingHolds, CandidateHidden, AnswerStaysReachable

LEMMA NextPrivacy == IInv /\ PrivacyInv /\ [Next]_vars => PrivacyInv'
BY QuietPrivacy, LoopPrivacy, CreatingPrivacy, PromotionPrivacy, TaskPrivacy,
   ReportPrivacy DEF Next, Recognition, Generation, Receive

-----------------------------------------------------------------------------
(* The open answer: the one the history may still have to take up.         *)

(* The browser may still report on g, or g is being spoken. *)
Open(g) == g < nextGen /\ ~spec[g] /\ (accepts[g] \/ active = g)

AcceptsOwned ==
  \A g \in GenId : g < nextGen /\ accepts[g] => active = g \/ cancelled[g]

(* What the loop waits for before a candidate and before a commit. *)
SpeculatingSettles ==
  rpc = "speculating" => \A g \in GenId : g < nextGen /\ accepts[g] => g \in rpend

SettlingSettles ==
  rpc = "settling" => \A g \in GenId : Open(g) => g \in rpend

CandidateAlone ==
  active # NoGen /\ spec[active] =>
    /\ turn[active] = nextTurn
    /\ \A g \in GenId : g < nextGen /\ accepts[g] => g = active

OneOpen ==
  /\ \A g, h \in GenId : Open(g) /\ Open(h) => g = h
  /\ rpc = "awaitTeardown" => \A g \in GenId : ~Open(g)

StartIsAnswer == rpc = "startSend" => ~spec[rgen]

OpenInv ==
  /\ AcceptsOwned
  /\ SpeculatingSettles
  /\ SettlingSettles
  /\ CandidateAlone
  /\ OneOpen
  /\ StartIsAnswer

(* Steps that at most drop the active generation and stop accepting its    *)
(* reports.                                                                *)
LEMMA OpenFrame ==
  ASSUME OpenInv,
         UNCHANGED <<spec, turn, nextGen, nextTurn>>,
         \A g \in GenId : /\ accepts'[g] => accepts[g]
                          /\ cancelled[g] => cancelled'[g],
         \/ active' = active
         \/ /\ active' = NoGen
            /\ \A g \in GenId : active = g => cancelled'[g] \/ ~accepts'[g],
         rpc' = "speculating" => rpc = "speculating" /\ rpend' = rpend,
         rpc' = "settling" => rpc = "settling" /\ rpend' = rpend,
         rpc' = "startSend" => rpc = "startSend" /\ rgen' = rgen,
         rpc' = "awaitTeardown" => rpc = "awaitTeardown"
  PROVE  OpenInv' /\ \A g \in GenId : Open(g)' => Open(g)
<1>1. \A g \in GenId : Open(g)' => Open(g)
  BY DEF Open
<1>2. AcceptsOwned' /\ SpeculatingSettles' /\ CandidateAlone' /\ StartIsAnswer'
  BY DEF OpenInv, AcceptsOwned, SpeculatingSettles, CandidateAlone, StartIsAnswer
<1>3. SettlingSettles' /\ OneOpen'
  BY <1>1 DEF OpenInv, SettlingSettles, OneOpen
<1>. QED
  BY <1>1, <1>2, <1>3 DEF OpenInv

(* Once the playback it waited for has settled, a commit finds no answer   *)
(* open, and a candidate finds nothing at all.                             *)
LEMMA SettledClosed ==
  ASSUME IInv, OpenInv, rpc = "settling", PlaybackSettled
  PROVE  \A g \in GenId : ~Open(g)
BY DEF IInv, CommitMeetsPrivate, OpenInv, SettlingSettles, PlaybackSettled, Open

LEMMA QuietOpen ==
  ASSUME IInv, OpenInv,
         \/ OverlapTakesFloor \/ OverlapLooksEphemeral \/ OverlapGraceTimeout
         \/ OverlapDismissed \/ OverlapTranscriptNeedsAnswer \/ CommitTurn
         \/ TurnFinalized \/ TeardownFinishes \/ UNCHANGED vars
         \/ \E g \in GenId :
              \/ TaskBegins(g) \/ FirstDelta(g) \/ TaskReturns(g)
              \/ FailureReported(g) \/ TaskCancelled(g) \/ ReleaseBegins(g)
              \/ ReleaseReturns(g) \/ PlaybackStopTimeout(g)
              \/ PlaybackProgress(g) \/ PlaybackStopped(g)
  PROVE  OpenInv' /\ \A g \in GenId : Open(g)' => Open(g)
<1>1. UNCHANGED <<spec, turn, nextGen, nextTurn, active, cancelled>>
  BY DEF OverlapTakesFloor, OverlapLooksEphemeral, OverlapGraceTimeout,
         OverlapDismissed, OverlapTranscriptNeedsAnswer, CommitTurn,
         TurnFinalized, TeardownFinishes, TaskBegins, FirstDelta, TaskReturns,
         FailureReported, TaskCancelled, ReleaseBegins, ReleaseReturns,
         PlaybackStopTimeout, PlaybackProgress, PlaybackStopped, vars, genVars,
         historyVars
<1>2. \A g \in GenId : accepts'[g] => accepts[g]
  BY DEF IInv, TypeOK, GenerationsTypeOK, OverlapTakesFloor,
         OverlapLooksEphemeral, OverlapGraceTimeout, OverlapDismissed,
         OverlapTranscriptNeedsAnswer, CommitTurn, TurnFinalized,
         TeardownFinishes, TaskBegins, FirstDelta, TaskReturns,
         FailureReported, TaskCancelled, ReleaseBegins, ReleaseReturns,
         PlaybackStopTimeout, PlaybackProgress, PlaybackStopped, vars, genVars
<1>3. /\ rpc' \in {"speculating", "settling", "startSend", "awaitTeardown"}
           => rpc' = rpc /\ rpend' = rpend /\ rgen' = rgen
  BY DEF OverlapTakesFloor, OverlapLooksEphemeral, OverlapGraceTimeout,
         OverlapDismissed, OverlapTranscriptNeedsAnswer, CommitTurn,
         TurnFinalized, TeardownFinishes, TaskBegins, FirstDelta, TaskReturns,
         FailureReported, TaskCancelled, ReleaseBegins, ReleaseReturns,
         PlaybackStopTimeout, PlaybackProgress, PlaybackStopped, vars,
         recognitionVars
<1>. QED
  BY <1>1, <1>2, <1>3, OpenFrame

(* The active generation is dropped: cancelled, failed or played out. *)
LEMMA DroppingOpen ==
  ASSUME IInv, PrivacyInv, OpenInv,
         \/ SpeechOnset \/ CancelSent \/ InvalidateCandidate \/ OverlapReported
         \/ EmptyTurnFinalized
         \/ \E g \in GenId : \/ ResponseFinished(g) \/ TaskFails(g)
                             \/ PlaybackComplete(g) \/ ResumeRejected(g)
  PROVE  OpenInv' /\ \A g \in GenId : Open(g)' => Open(g)
<1>1. CASE SpeechOnset \/ OverlapReported
  <2>1. \/ UNCHANGED <<spec, turn, nextGen, nextTurn, active, accepts, cancelled>>
           /\ rpc' = "listening"
        \/ RequestCancellation("listening") /\ nextTurn' = nextTurn
        \/ RequestCancellation("finalizing") /\ nextTurn' = nextTurn
    BY <1>1 DEF SpeechOnset, OverlapReported, IInv, TypeOK, LoopTypeOK, genVars,
                historyVars
  <2>2. rpc' \in {"listening", "finalizing", "cancelSend"}
        /\ UNCHANGED <<spec, turn, nextGen, nextTurn>>
    BY <2>1 DEF RequestCancellation, InvalidateSpeculative, FinishCancellation,
                genVars
  <2>3. /\ \A g \in GenId : /\ accepts'[g] => accepts[g]
                            /\ cancelled[g] => cancelled'[g]
        /\ \/ active' = active
           \/ /\ active' = NoGen
              /\ \A g \in GenId : active = g => cancelled'[g] \/ ~accepts'[g]
    BY <2>1 DEF RequestCancellation, InvalidateSpeculative, FinishCancellation,
                genVars, IInv, TypeOK, GenerationsTypeOK
  <2>. QED
    BY <2>2, <2>3, OpenFrame
<1>2. CASE CancelSent
  BY <1>2, OpenFrame DEF CancelSent, FinishCancellation, historyVars, IInv,
     CancelSendHolds, TypeOK, LoopTypeOK
<1>3. CASE InvalidateCandidate \/ EmptyTurnFinalized
  <2>1. rpc' = "listening" /\ UNCHANGED <<spec, turn, nextGen, nextTurn>>
    BY <1>3 DEF InvalidateCandidate, EmptyTurnFinalized, InvalidateSpeculative,
                genVars, historyVars, recognitionVars
  <2>2. /\ \A g \in GenId : /\ accepts'[g] => accepts[g]
                            /\ cancelled[g] => cancelled'[g]
        /\ \/ active' = active
           \/ /\ active' = NoGen
              /\ \A g \in GenId : active = g => cancelled'[g] \/ ~accepts'[g]
    BY <1>3 DEF InvalidateCandidate, EmptyTurnFinalized, InvalidateSpeculative,
                genVars, IInv, TypeOK, GenerationsTypeOK
  <2>. QED
    BY <2>1, <2>2, OpenFrame
<1>4. ASSUME NEW g \in GenId,
             \/ ResponseFinished(g) \/ TaskFails(g) \/ PlaybackComplete(g)
             \/ ResumeRejected(g)
      PROVE  OpenInv' /\ \A h \in GenId : Open(h)' => Open(h)
  <2>1. UNCHANGED <<spec, turn, nextGen, nextTurn, rpc, rpend, rgen>>
    BY <1>4 DEF ResponseFinished, TaskFails, PlaybackComplete, ResumeRejected,
                historyVars, recognitionVars
  <2>2. \A h \in GenId : /\ accepts'[h] => accepts[h]
                         /\ cancelled[h] => cancelled'[h]
    BY <1>4 DEF ResponseFinished, TaskFails, PlaybackComplete, ResumeRejected,
                IInv, TypeOK, GenerationsTypeOK
  <2>3. \/ active' = active
        \/ active' = NoGen /\ active = g /\ (cancelled'[g] \/ ~accepts'[g])
    BY <1>4 DEF ResponseFinished, TaskFails, PlaybackComplete, ResumeRejected,
                FinishCancellation, CommitAssistantIfComplete, PrivacyInv,
                PlayedEnds, IInv, TypeOK, GenerationsTypeOK
  <2>. QED
    BY <2>1, <2>2, <2>3, OpenFrame
<1>. QED
  BY <1>1, <1>2, <1>3, <1>4

(* The loop begins to wait: for every cancelled answer, and no other is    *)
(* still open.                                                             *)
LEMMA WaitingOpen ==
  ASSUME IInv, OpenInv, StartSpeculation \/ TurnSent
  PROVE  OpenInv' /\ \A g \in GenId : Open(g)' => Open(g)
<1>1. /\ UNCHANGED <<spec, turn, nextGen, nextTurn, active, accepts, cancelled>>
      /\ rpend' = StoppingPlayback
      /\ rpc' \in {"speculating", "settling"}
      /\ rpc' = "speculating" => active = NoGen
      /\ active = NoGen \/ spec[active]
  BY DEF StartSpeculation, TurnSent, genVars, historyVars, IInv,
         CommitMeetsPrivate
<1>2. \A g \in GenId : Open(g)' <=> Open(g)
  BY <1>1 DEF Open
<1>3. \A g \in GenId : g < nextGen /\ accepts[g] /\ active # g => g \in rpend'
  BY <1>1 DEF OpenInv, AcceptsOwned, StoppingPlayback
<1>4. SpeculatingSettles'
  BY <1>1, <1>3 DEF SpeculatingSettles
<1>5. SettlingSettles'
  BY <1>1, <1>3 DEF SettlingSettles, Open
<1>6. AcceptsOwned' /\ CandidateAlone' /\ StartIsAnswer'
  BY <1>1 DEF OpenInv, AcceptsOwned, CandidateAlone, StartIsAnswer
<1>7. OneOpen'
  BY <1>1, <1>2 DEF OpenInv, OneOpen
<1>. QED
  BY <1>2, <1>4, <1>5, <1>6, <1>7 DEF OpenInv

LEMMA CreateCandidateOpen ==
  ASSUME IInv, PrivacyInv, OpenInv, CreateCandidate
  PROVE  OpenInv' /\ \A g \in GenId : ~Open(g)'
<1>. DEFINE n == nextGen
<1>1. active = NoGen /\ n \in GenId
  BY CreatedEarlier DEF CreateCandidate, IInv, SpeculatingIsFree, IdLeft, TypeOK,
                        LoopTypeOK
<1>2. /\ active' = n /\ nextGen' = n + 1 /\ nextTurn' = nextTurn
      /\ spec'[n] /\ turn'[n] = nextTurn
      /\ \A g \in GenId : g # n => spec'[g] = spec[g]
      /\ UNCHANGED <<accepts, cancelled>>
      /\ rpc' = "listening"
  BY <1>1 DEF CreateCandidate, CreateGeneration, historyVars, IInv, TypeOK,
              GenerationsTypeOK
<1>3. \A g \in GenId : g < n + 1 => g < n \/ g = n
  BY DEF IInv, TypeOK, LoopTypeOK
<1>4. \A g \in GenId : g < n => ~accepts[g]
  BY <1>1 DEF OpenInv, SpeculatingSettles, CreateCandidate, PlaybackSettled
<1>5. \A g \in GenId : ~Open(g)'
  BY <1>2, <1>3, <1>4 DEF Open
<1>6. AcceptsOwned' /\ CandidateAlone'
  BY <1>2, <1>3, <1>4 DEF AcceptsOwned, CandidateAlone
<1>7. SpeculatingSettles' /\ SettlingSettles' /\ StartIsAnswer' /\ OneOpen'
  BY <1>2, <1>5 DEF SpeculatingSettles, SettlingSettles, StartIsAnswer, OneOpen
<1>. QED
  BY <1>5, <1>6, <1>7 DEF OpenInv

LEMMA StartAuthoritativeOpen ==
  ASSUME IInv, PrivacyInv, OpenInv, StartAuthoritative
  PROVE  /\ OpenInv'
         /\ turn'[nextGen] = nextTurn
         /\ \A g \in GenId : Open(g)' => g = nextGen
<1>. DEFINE n == nextGen
<1>1. active = NoGen /\ n \in GenId
  BY CreatedEarlier DEF StartAuthoritative, IInv, CommitMeetsPrivate, IdLeft,
                        Committing, CommitPoint
<1>2. /\ active' = n /\ nextGen' = n + 1 /\ nextTurn' = nextTurn
      /\ ~spec'[n] /\ turn'[n] = nextTurn
      /\ \A g \in GenId : g # n => spec'[g] = spec[g]
      /\ UNCHANGED <<accepts, cancelled>>
      /\ rpc' = "startSend" /\ rgen' = n
  BY <1>1 DEF StartAuthoritative, CreateGeneration, IInv, TypeOK,
              GenerationsTypeOK
<1>3. \A g \in GenId : g < n + 1 => g < n \/ g = n
  BY DEF IInv, TypeOK, LoopTypeOK
<1>4. \A g \in GenId : ~Open(g)
  BY DEF OpenInv, OneOpen, StartAuthoritative
<1>5. \A g \in GenId : Open(g)' => g = n
  BY <1>2, <1>3, <1>4 DEF Open
<1>6. AcceptsOwned' /\ CandidateAlone'
  BY <1>1, <1>2, <1>3 DEF OpenInv, AcceptsOwned, CandidateAlone
<1>7. SpeculatingSettles' /\ SettlingSettles' /\ StartIsAnswer' /\ OneOpen'
  BY <1>2, <1>5 DEF SpeculatingSettles, SettlingSettles, StartIsAnswer, OneOpen
<1>. QED
  BY <1>2, <1>5, <1>6, <1>7 DEF OpenInv

(* A commit: the candidate becomes the open answer, or none is open. *)
LEMMA CommittingOpen ==
  ASSUME IInv, PrivacyInv, OpenInv, PromoteCandidate \/ RejectCandidate
  PROVE  /\ OpenInv'
         /\ \A g \in GenId : Open(g)' => /\ PromoteCandidate
                                         /\ g = active /\ spec[g]
<1>. \A g \in GenId : ~Open(g)
  BY SettledClosed DEF PromoteCandidate, RejectCandidate
<1>1. CASE PromoteCandidate
  <2>1. /\ UNCHANGED <<accepts, cancelled, turn, nextGen, nextTurn, active>>
        /\ rpc' \in {"promoting", "crashed"}
        /\ \A g \in GenId : spec'[g] => spec[g]
        /\ \A g \in GenId : spec[g] /\ ~spec'[g] => g = active
        /\ \A g \in GenId : active = g /\ spec'[g] => spec[g]
    BY <1>1 DEF PromoteCandidate, IInv, TypeOK, GenerationsTypeOK
  <2>2. \A g \in GenId : Open(g)' => g = active /\ spec[g]
    BY <2>1 DEF Open
  <2>3. AcceptsOwned' /\ SpeculatingSettles' /\ SettlingSettles' /\ StartIsAnswer'
    BY <2>1 DEF OpenInv, AcceptsOwned, SpeculatingSettles, SettlingSettles,
                StartIsAnswer
  <2>4. CandidateAlone'
    BY <2>1, CreatedEarlier DEF OpenInv, CandidateAlone
  <2>5. OneOpen'
    BY <2>1, <2>2 DEF OneOpen
  <2>. QED
    BY <1>1, <2>2, <2>3, <2>4, <2>5 DEF OpenInv
<1>2. CASE RejectCandidate
  <2>1. /\ UNCHANGED <<spec, turn, nextGen, nextTurn>>
        /\ rpc' = "awaitTeardown"
        /\ \A g \in GenId : accepts'[g] => accepts[g]
        /\ \A g \in GenId : cancelled[g] => cancelled'[g]
        /\ \/ active' = active
           \/ active' = NoGen /\ \A g \in GenId : active = g => ~accepts'[g]
    BY <1>2 DEF RejectCandidate, InvalidateSpeculative, genVars, IInv, TypeOK,
                GenerationsTypeOK
  <2>2. \A g \in GenId : ~Open(g)'
    BY <2>1 DEF Open
  <2>3. AcceptsOwned' /\ SpeculatingSettles' /\ SettlingSettles' /\ StartIsAnswer'
        /\ CandidateAlone'
    BY <2>1 DEF OpenInv, AcceptsOwned, SpeculatingSettles, SettlingSettles,
                StartIsAnswer, CandidateAlone
  <2>4. OneOpen'
    BY <2>2 DEF OneOpen
  <2>. QED
    BY <2>2, <2>3, <2>4 DEF OpenInv
<1>. QED
  BY <1>1, <1>2

(* The turn is over once its answer is under way. *)
LEMMA AnsweredOpen ==
  ASSUME IInv, PrivacyInv, OpenInv, PromotionSent \/ StartSent
  PROVE  OpenInv' /\ \A g \in GenId : Open(g)' => Open(g)
<1>1. /\ UNCHANGED <<spec, turn, nextGen, active, accepts, cancelled>>
      /\ rpc' = "listening"
      /\ active = NoGen \/ ~spec[active]
  BY DEF PromotionSent, StartSent, PrivacyInv, PromotingHolds, Handed, OpenInv,
         StartIsAnswer, IInv, StartSendHolds
<1>2. \A g \in GenId : Open(g)' => Open(g)
  BY <1>1 DEF Open
<1>3. AcceptsOwned' /\ SpeculatingSettles' /\ SettlingSettles' /\ StartIsAnswer'
      /\ CandidateAlone'
  BY <1>1 DEF OpenInv, AcceptsOwned, SpeculatingSettles, SettlingSettles,
              StartIsAnswer, CandidateAlone
<1>4. OneOpen'
  BY <1>1, <1>2 DEF OpenInv, OneOpen
<1>. QED
  BY <1>2, <1>3, <1>4 DEF OpenInv

LEMMA InitOpen == Init => OpenInv
BY DEF Init, OpenInv, AcceptsOwned, SpeculatingSettles, SettlingSettles,
       CandidateAlone, OneOpen, Open, StartIsAnswer

LEMMA NextOpen == IInv /\ PrivacyInv /\ OpenInv /\ [Next]_vars => OpenInv'
BY QuietOpen, DroppingOpen, WaitingOpen, CreateCandidateOpen,
   StartAuthoritativeOpen, CommittingOpen, AnsweredOpen
   DEF Next, Recognition, Generation, Receive

-----------------------------------------------------------------------------
(* The durable history.                                                    *)

(* The last entry is the user's turn t, not answered yet. *)
AnswersLast(t) ==
  Len(conversation) > 0 /\ conversation[Len(conversation)] = UserEntry(t)

(* The turn is in the history, its number not yet used up. *)
TurnCounted == rpc \in {"promoting", "awaitTeardown", "startSend", "crashed"}

OpenIsLast ==
  /\ \A g \in GenId : Open(g) => InHistory(g) \/ AnswersLast(turn[g])
  /\ rpc = "awaitTeardown" => AnswersLast(nextTurn)

TurnsBounded ==
  \A i \in 1 .. Len(conversation) :
    /\ conversation[i].turn <= nextTurn
    /\ ~TurnCounted => conversation[i].turn < nextTurn

CandidateUnheard ==
  \A g \in GenId : spec[g] \/ g >= nextGen => ~InHistory(g)

HistoryInv ==
  /\ OpenIsLast
  /\ TurnsBounded
  /\ CandidateUnheard
  /\ HistoryAnswersItsTurn

(* What appending an entry does to the history. *)
LEMMA Appended ==
  ASSUME TypeOK, NEW e \in Entry, conversation' = Append(conversation, e)
  PROVE  /\ Len(conversation) \in Nat /\ Len(conversation)' = Len(conversation) + 1
         /\ conversation'[Len(conversation) + 1] = e
         /\ \A i \in 1 .. Len(conversation) : /\ conversation'[i] = conversation[i]
                                              /\ conversation[i] \in Entry
         /\ \A g \in GenId : InHistory(g)' <=> InHistory(g) \/ e.gen = g
<1>1. /\ Len(conversation) \in Nat /\ Len(conversation)' = Len(conversation) + 1
      /\ conversation'[Len(conversation) + 1] = e
      /\ \A i \in 1 .. Len(conversation) : /\ conversation'[i] = conversation[i]
                                           /\ conversation[i] \in Entry
  BY DEF TypeOK, HistoryTypeOK
<1>2. \A i \in 1 .. Len(conversation)' :
        i \in 1 .. Len(conversation) \/ i = Len(conversation) + 1
  BY <1>1
<1>3. /\ Len(conversation) + 1 \in 1 .. Len(conversation)'
      /\ \A i \in 1 .. Len(conversation) : i \in 1 .. Len(conversation)'
  BY <1>1
<1>4. \A g \in GenId : InHistory(g)' <=> InHistory(g) \/ e.gen = g
  BY <1>1, <1>2, <1>3 DEF InHistory
<1>. QED
  BY <1>1, <1>4

(* Steps that leave the history alone. *)
LEMMA HistoryFrame ==
  ASSUME HistoryInv,
         UNCHANGED <<conversation, nextTurn, turn, nextGen>>,
         \A g \in GenId : spec'[g] => spec[g],
         \A g \in GenId : Open(g)' => Open(g),
         rpc' = "awaitTeardown" => rpc = "awaitTeardown",
         TurnCounted => TurnCounted'
  PROVE  HistoryInv'
<1>1. /\ \A g \in GenId : InHistory(g)' <=> InHistory(g)
      /\ \A t : AnswersLast(t)' <=> AnswersLast(t)
  BY DEF InHistory, AnswersLast, UserEntry
<1>2. OpenIsLast'
  BY <1>1 DEF HistoryInv, OpenIsLast, AnswersLast, UserEntry
<1>3. TurnsBounded' /\ HistoryAnswersItsTurn'
  BY DEF HistoryInv, TurnsBounded, HistoryAnswersItsTurn, UserEntry
<1>4. CandidateUnheard'
  BY <1>1 DEF HistoryInv, CandidateUnheard
<1>. QED
  BY <1>2, <1>3, <1>4 DEF HistoryInv

(* The answer that is open enters the history behind its turn. *)
LEMMA Answered ==
  ASSUME IInv, OpenInv, HistoryInv, NEW a \in GenId, Open(a), WriteHistory(a),
         UNCHANGED <<spec, turn, nextGen, nextTurn, rpc>>,
         \A g \in GenId : Open(g)' => Open(g)
  PROVE  HistoryInv'
<1>1. CASE InHistory(a)
  BY <1>1, HistoryFrame DEF WriteHistory, TurnCounted
<1>2. CASE ~InHistory(a)
  <2>. DEFINE e == AssistantEntry(a)
              n == Len(conversation)
  <2>1. /\ conversation' = Append(conversation, e)
        /\ e \in Entry /\ e.gen = a /\ e.turn = turn[a]
    BY <1>2 DEF WriteHistory, AssistantEntry, Entry, IInv, TypeOK, GenerationsTypeOK
  <2>2. /\ n \in Nat /\ Len(conversation)' = n + 1
        /\ conversation'[n + 1] = e
        /\ \A i \in 1 .. n : /\ conversation'[i] = conversation[i]
                             /\ conversation[i] \in Entry
        /\ \A g \in GenId : InHistory(g)' <=> InHistory(g) \/ g = a
    BY <2>1, Appended DEF IInv
  <2>3. n > 0 /\ conversation[n] = UserEntry(turn[a])
    BY <1>2 DEF HistoryInv, OpenIsLast, AnswersLast
  <2>4. \A i \in 1 .. Len(conversation)' : i \in 1 .. n \/ i = n + 1
    BY <2>2
  <2>5. OpenIsLast'
    <3>1. \A g \in GenId : Open(g)' => g = a
      BY DEF OpenInv, OneOpen
    <3>2. rpc' # "awaitTeardown"
      BY DEF OpenInv, OneOpen
    <3>. QED
      BY <2>2, <3>1, <3>2 DEF OpenIsLast
  <2>6. TurnsBounded'
    <3>1. n \in 1 .. n /\ conversation[n].turn = turn[a]
      BY <2>2, <2>3 DEF UserEntry
    <3>. QED
      BY <2>1, <2>2, <2>4, <3>1 DEF HistoryInv, TurnsBounded, TurnCounted
  <2>7. CandidateUnheard'
    BY <2>2, CreatedEarlier DEF HistoryInv, CandidateUnheard, Open
  <2>8. HistoryAnswersItsTurn'
    <3>. SUFFICES ASSUME NEW i \in 1 .. Len(conversation)'
                  PROVE  IF conversation'[i].gen # NoGen
                         THEN i > 1 /\ conversation'[i - 1] = UserEntry(conversation'[i].turn)
                         ELSE \A j \in 1 .. i - 1 : conversation'[j].turn < conversation'[i].turn
      BY DEF HistoryAnswersItsTurn, UserEntry
    <3>1. CASE i \in 1 .. n
      <4>1. \A j \in 1 .. i - 1 : j \in 1 .. n
        BY <2>2, <3>1
      <4>2. i > 1 => i - 1 \in 1 .. n
        BY <2>2, <3>1
      <4>. QED
        BY <2>2, <3>1, <4>1, <4>2 DEF HistoryInv, HistoryAnswersItsTurn
    <3>2. CASE i = n + 1
      <4>1. i > 1 /\ i - 1 = n /\ n \in 1 .. n
        BY <2>2, <2>3, <3>2
      <4>. QED
        BY <2>1, <2>2, <2>3, <3>2, <4>1
    <3>. QED
      BY <2>4, <3>1, <3>2
  <2>. QED
    BY <2>5, <2>6, <2>7, <2>8 DEF HistoryInv
<1>. QED
  BY <1>1, <1>2

(* Late or not, a report writes only the answer that is open. *)
LEMMA ReportsOpen ==
  ASSUME IInv, PrivacyInv, NEW g \in GenId, conversation' # conversation,
         \/ ResponseFinished(g) \/ PlaybackProgress(g) \/ PlaybackComplete(g)
         \/ PlaybackStopped(g) \/ ResumeRejected(g)
  PROVE  Open(g) /\ WriteHistory(g)
<1>1. WriteHistory(g)
  BY DEF ResponseFinished, PlaybackProgress, PlaybackComplete, PlaybackStopped,
         ResumeRejected, CommitAssistantIfComplete
<1>2. \/ accepts[g] /\ gate[g] = "RELEASED"
      \/ active = g /\ (gate[g] = "RELEASED" \/ playbackGen = g)
  BY DEF ResponseFinished, PlaybackProgress, PlaybackComplete, PlaybackStopped,
         ResumeRejected, CommitAssistantIfComplete, Audible, PrivacyInv, PlayedEnds
<1>3. ~spec[g]
  BY <1>2 DEF PrivacyInv, CandidateHidden
<1>4. g < nextGen
  BY <1>2, CreatedEarlier DEF PrivacyInv, FreshBlank, IInv, TypeOK, LoopTypeOK
<1>. QED
  BY <1>1, <1>2, <1>3, <1>4 DEF Open

LEMMA ReportHistory ==
  ASSUME IInv, PrivacyInv, OpenInv, HistoryInv, NEW g \in GenId,
         \/ ResponseFinished(g) \/ PlaybackProgress(g) \/ PlaybackComplete(g)
         \/ PlaybackStopped(g) \/ ResumeRejected(g)
  PROVE  HistoryInv'
<1>1. UNCHANGED <<spec, turn, nextGen, nextTurn, rpc>>
  BY DEF ResponseFinished, PlaybackProgress, PlaybackComplete, PlaybackStopped,
         ResumeRejected, recognitionVars, genVars
<1>2. \A h \in GenId : Open(h)' => Open(h)
  BY QuietOpen, DroppingOpen
<1>3. CASE conversation' = conversation
  BY <1>1, <1>2, <1>3, HistoryFrame DEF TurnCounted
<1>4. CASE conversation' # conversation
  BY <1>1, <1>2, <1>4, ReportsOpen, Answered
<1>. QED
  BY <1>3, <1>4

LEMMA QuietHistory ==
  ASSUME IInv, PrivacyInv, OpenInv, HistoryInv,
         \/ OverlapTakesFloor \/ OverlapLooksEphemeral \/ OverlapGraceTimeout
         \/ OverlapDismissed \/ OverlapTranscriptNeedsAnswer \/ CommitTurn
         \/ TurnFinalized \/ TeardownFinishes \/ UNCHANGED vars
         \/ SpeechOnset \/ CancelSent \/ InvalidateCandidate \/ OverlapReported
         \/ EmptyTurnFinalized \/ StartSpeculation \/ TurnSent
         \/ \E g \in GenId :
              \/ TaskBegins(g) \/ FirstDelta(g) \/ TaskReturns(g)
              \/ FailureReported(g) \/ TaskCancelled(g) \/ ReleaseBegins(g)
              \/ ReleaseReturns(g) \/ PlaybackStopTimeout(g) \/ TaskFails(g)
  PROVE  HistoryInv'
<1>1. UNCHANGED <<conversation, nextTurn, turn, nextGen, spec>>
  BY DEF OverlapTakesFloor, OverlapLooksEphemeral, OverlapGraceTimeout,
         OverlapDismissed, OverlapTranscriptNeedsAnswer, CommitTurn,
         TurnFinalized, TeardownFinishes, SpeechOnset, CancelSent,
         InvalidateCandidate, OverlapReported, EmptyTurnFinalized,
         StartSpeculation, TurnSent, TaskBegins, FirstDelta, TaskReturns,
         FailureReported, TaskCancelled, ReleaseBegins, ReleaseReturns,
         PlaybackStopTimeout, TaskFails, RequestCancellation,
         InvalidateSpeculative, FinishCancellation, vars, genVars, historyVars
<1>2. \A g \in GenId : Open(g)' => Open(g)
  BY QuietOpen, DroppingOpen, WaitingOpen
<1>3. /\ rpc' = "awaitTeardown" => rpc = "awaitTeardown"
      /\ TurnCounted => TurnCounted'
  BY DEF OverlapTakesFloor, OverlapLooksEphemeral, OverlapGraceTimeout,
         OverlapDismissed, OverlapTranscriptNeedsAnswer, CommitTurn,
         TurnFinalized, TeardownFinishes, SpeechOnset, CancelSent,
         InvalidateCandidate, OverlapReported, EmptyTurnFinalized,
         StartSpeculation, TurnSent, TaskBegins, FirstDelta, TaskReturns,
         FailureReported, TaskCancelled, ReleaseBegins, ReleaseReturns,
         PlaybackStopTimeout, TaskFails, RequestCancellation, vars,
         recognitionVars, TurnCounted, IInv, TypeOK, LoopTypeOK
<1>. QED
  BY <1>1, <1>2, <1>3, HistoryFrame

(* A commit appends the user's turn, which is later than all before it. *)
LEMMA CommitHistory ==
  ASSUME IInv, PrivacyInv, OpenInv, HistoryInv, PromoteCandidate \/ RejectCandidate
  PROVE  HistoryInv'
<1>. DEFINE e == UserEntry(nextTurn)
            n == Len(conversation)
<1>1. /\ conversation' = Append(conversation, e)
      /\ e \in Entry /\ e.gen = NoGen /\ e.turn = nextTurn
      /\ UNCHANGED <<turn, nextGen, nextTurn>>
      /\ rpc = "settling" /\ TurnCounted'
      /\ \A g \in GenId : spec'[g] => spec[g]
  BY DEF PromoteCandidate, RejectCandidate, UserEntry, Entry, IInv, TypeOK,
         GenerationsTypeOK, HistoryTypeOK, TurnCounted, InvalidateSpeculative,
         genVars
<1>2. /\ n \in Nat /\ Len(conversation)' = n + 1
      /\ conversation'[n + 1] = e
      /\ \A i \in 1 .. n : /\ conversation'[i] = conversation[i]
                           /\ conversation[i] \in Entry
      /\ \A g \in GenId : InHistory(g)' <=> InHistory(g)
  BY <1>1, Appended DEF IInv
<1>3. \A i \in 1 .. Len(conversation)' : i \in 1 .. n \/ i = n + 1
  BY <1>2
<1>4. \A i \in 1 .. n : conversation[i].turn < nextTurn
  BY <1>1 DEF HistoryInv, TurnsBounded, TurnCounted
<1>5. AnswersLast(nextTurn)'
  BY <1>1, <1>2 DEF AnswersLast, UserEntry
<1>6. OpenIsLast'
  <2>1. \A g \in GenId : Open(g)' => turn'[g] = nextTurn
    BY <1>1, CommittingOpen DEF OpenInv, CandidateAlone
  <2>. QED
    BY <1>1, <1>2, <2>1 DEF OpenIsLast, AnswersLast, UserEntry
<1>7. TurnsBounded'
  <2>1. nextTurn \in Nat /\ \A i \in 1 .. n : conversation[i].turn \in Nat
    BY <1>2 DEF IInv, TypeOK, HistoryTypeOK, Entry
  <2>. QED
    BY <1>1, <1>2, <1>3, <1>4, <2>1 DEF TurnsBounded
<1>8. CandidateUnheard'
  BY <1>1, <1>2 DEF HistoryInv, CandidateUnheard
<1>9. HistoryAnswersItsTurn'
  <2>. SUFFICES ASSUME NEW i \in 1 .. Len(conversation)'
                PROVE  IF conversation'[i].gen # NoGen
                       THEN i > 1 /\ conversation'[i - 1] = UserEntry(conversation'[i].turn)
                       ELSE \A j \in 1 .. i - 1 : conversation'[j].turn < conversation'[i].turn
    BY DEF HistoryAnswersItsTurn, UserEntry
  <2>1. CASE i \in 1 .. n
    <3>1. \A j \in 1 .. i - 1 : j \in 1 .. n
      BY <1>2, <2>1
    <3>2. i > 1 => i - 1 \in 1 .. n
      BY <1>2, <2>1
    <3>. QED
      BY <1>2, <2>1, <3>1, <3>2 DEF HistoryInv, HistoryAnswersItsTurn
  <2>2. CASE i = n + 1
    BY <1>1, <1>2, <1>4, <2>2
  <2>. QED
    BY <1>3, <2>1, <2>2
<1>. QED
  BY <1>6, <1>7, <1>8, <1>9 DEF HistoryInv

(* The turn number is used up once its answer is under way. *)
LEMMA AnsweredHistory ==
  ASSUME IInv, PrivacyInv, OpenInv, HistoryInv, PromotionSent \/ StartSent
  PROVE  HistoryInv'
<1>1. /\ UNCHANGED <<conversation, turn, nextGen, spec>>
      /\ nextTurn' = nextTurn + 1 /\ rpc' = "listening"
  BY DEF PromotionSent, StartSent
<1>2. \A g \in GenId : Open(g)' => Open(g)
  BY AnsweredOpen
<1>3. \A g \in GenId : InHistory(g)' <=> InHistory(g)
  BY <1>1 DEF InHistory
<1>4. OpenIsLast'
  BY <1>1, <1>2, <1>3 DEF HistoryInv, OpenIsLast, AnswersLast, UserEntry
<1>5. TurnsBounded'
  <2>1. \A i \in 1 .. Len(conversation) : conversation[i] \in Entry
    BY DEF IInv, TypeOK, HistoryTypeOK
  <2>2. nextTurn \in Nat /\ \A i \in 1 .. Len(conversation) : conversation[i].turn \in Nat
    BY <2>1 DEF IInv, TypeOK, HistoryTypeOK, Entry
  <2>. QED
    BY <1>1, <2>2 DEF HistoryInv, TurnsBounded
<1>6. HistoryAnswersItsTurn' /\ CandidateUnheard'
  BY <1>1, <1>3 DEF HistoryInv, HistoryAnswersItsTurn, CandidateUnheard, UserEntry
<1>. QED
  BY <1>4, <1>5, <1>6 DEF HistoryInv

LEMMA CreatingHistory ==
  ASSUME IInv, PrivacyInv, OpenInv, HistoryInv, CreateCandidate \/ StartAuthoritative
  PROVE  HistoryInv'
<1>. DEFINE n == nextGen
<1>1. active = NoGen /\ n \in GenId
  <2>1. CASE CreateCandidate
    BY <2>1, CreatedEarlier DEF CreateCandidate, IInv, SpeculatingIsFree, IdLeft,
                                TypeOK, LoopTypeOK
  <2>2. CASE StartAuthoritative
    BY <2>2, CreatedEarlier DEF StartAuthoritative, IInv, CommitMeetsPrivate,
                                IdLeft, Committing, CommitPoint
  <2>. QED BY <2>1, <2>2
<1>2. /\ UNCHANGED <<conversation, nextTurn>>
      /\ nextGen' = n + 1 /\ turn'[n] = nextTurn
      /\ \A g \in GenId : g # n => spec'[g] = spec[g]
      /\ rpc' # "awaitTeardown" /\ (TurnCounted => TurnCounted')
  BY <1>1 DEF CreateCandidate, StartAuthoritative, CreateGeneration, historyVars,
     TurnCounted, IInv, TypeOK, GenerationsTypeOK
<1>3. \A g \in GenId : InHistory(g)' <=> InHistory(g)
  BY <1>2 DEF InHistory
<1>4. OpenIsLast'
  <2>1. CASE CreateCandidate
    BY <1>2, <2>1, CreateCandidateOpen DEF OpenIsLast
  <2>2. CASE StartAuthoritative
    <3>1. AnswersLast(nextTurn)
      BY <2>2 DEF HistoryInv, OpenIsLast, StartAuthoritative
    <3>2. \A g \in GenId : Open(g)' => turn'[g] = nextTurn
      BY <2>2, StartAuthoritativeOpen
    <3>. QED
      BY <1>2, <3>1, <3>2 DEF OpenIsLast, AnswersLast, UserEntry
  <2>. QED BY <2>1, <2>2
<1>5. TurnsBounded' /\ HistoryAnswersItsTurn'
  BY <1>2 DEF HistoryInv, TurnsBounded, HistoryAnswersItsTurn, UserEntry
<1>6. CandidateUnheard'
  <2>1. \A g \in GenId : g >= n + 1 => g >= n /\ g # n
    BY <1>1
  <2>2. n >= n
    BY <1>1
  <2>. QED
    BY <1>1, <1>2, <1>3, <2>1, <2>2 DEF HistoryInv, CandidateUnheard
<1>. QED
  BY <1>4, <1>5, <1>6 DEF HistoryInv

LEMMA InitHistory == Init => HistoryInv
BY DEF Init, HistoryInv, OpenIsLast, AnswersLast, Open, TurnsBounded,
       CandidateUnheard, InHistory, HistoryAnswersItsTurn

LEMMA NextHistory ==
  IInv /\ PrivacyInv /\ OpenInv /\ HistoryInv /\ [Next]_vars => HistoryInv'
BY QuietHistory, ReportHistory, CommitHistory, AnsweredHistory, CreatingHistory
   DEF Next, Recognition, Generation, Receive

-----------------------------------------------------------------------------
(* Lifecycles: which one a generation is in, seen from its task.           *)

Requested == "CANCELLATION_REQUESTED"

LifeOf(g) ==
  /\ task[g] = "created" =>
       life[g] \in IF spec[g] THEN {"CREATED"}
                   ELSE {"CREATED", "COMMITTED", Requested}
  /\ task[g] = "running" =>
       life[g] \in IF spec[g] THEN {"PREFILLING", "STREAMING"}
                   ELSE {"PREFILLING", "STREAMING", "COMMITTED", Requested}
  /\ task[g] = "closing" =>
       life[g] \in IF spec[g] THEN {"STREAMING"}
                   ELSE {"STREAMING", "COMMITTED", Requested}
  /\ task[g] = "cancelling" => life[g] = Requested /\ active # g
  /\ active = g =>
       life[g] \in IF spec[g] THEN {"CREATED", "PREFILLING", "STREAMING", "READY"}
                   ELSE {"COMMITTED", Requested}
  /\ active = g /\ ~spec[g] /\ ~cancelled[g] => life[g] = "COMMITTED"
  /\ g >= nextGen => life[g] = "CREATED"

LifeHolds == \A g \in GenId : LifeOf(g)

(* The loop cancels the task of a generation only once it asked for it. *)
CancelSendLife ==
  rpc = "cancelSend" =>
    /\ ~spec[rgen]
    /\ task[rgen] \in {"created", "running", "closing"} => life[rgen] = Requested

LifeInv == LifeHolds /\ CancelSendLife

Legal(g) == life'[g] # life[g] => <<life[g], life'[g]>> \in LegalTransition

(* A step that concerns one generation: the others keep their lifecycle    *)
(* and what it is seen from.                                               *)
LEMMA LifeFrame ==
  ASSUME LifeInv, NEW a \in GenId,
         \A g \in GenId : g # a => /\ life'[g] = life[g] /\ spec'[g] = spec[g]
                                   /\ task'[g] = task[g]
                                   /\ cancelled[g] => cancelled'[g],
         active' \in {active, a, NoGen},
         \A g \in GenId : g >= nextGen' => g >= nextGen,
         LifeOf(a)', Legal(a),
         rpc' = "cancelSend" =>
           /\ rgen' \in GenId
           /\ rgen' = a \/ (rpc = "cancelSend" /\ rgen' = rgen)
           /\ rgen' = a =>
                /\ ~spec'[a]
                /\ task'[a] \in {"created", "running", "closing"} => life'[a] = Requested
  PROVE  LifeInv' /\ \A g \in GenId : Legal(g)
<1>1. LifeHolds'
  <2>. SUFFICES ASSUME NEW g \in GenId PROVE LifeOf(g)'
    BY DEF LifeHolds
  <2>1. CASE g = a
    BY <2>1
  <2>2. CASE g # a
    <3>. LifeOf(g)
      BY DEF LifeInv, LifeHolds
    <3>. active' = g => active = g
      BY <2>2
    <3>. QED
      BY <2>2 DEF LifeOf
  <2>. QED BY <2>1, <2>2
<1>2. CancelSendLife'
  <2>1. CASE rpc' = "cancelSend" /\ rgen' = a
    BY <2>1 DEF CancelSendLife
  <2>2. CASE rpc' = "cancelSend" /\ rgen' # a
    BY <2>2 DEF LifeInv, CancelSendLife
  <2>. QED BY <2>1, <2>2 DEF CancelSendLife
<1>3. \A g \in GenId : Legal(g)
  BY DEF Legal
<1>. QED
  BY <1>1, <1>2, <1>3 DEF LifeInv

(* Steps that at most drop the active generation. *)
LEMMA QuietLife ==
  ASSUME LifeInv,
         UNCHANGED <<life, spec, task, nextGen>>, active' \in {active, NoGen},
         \A g \in GenId : cancelled[g] => cancelled'[g],
         rpc' = "cancelSend" => rpc = "cancelSend" /\ rgen' = rgen
  PROVE  LifeInv' /\ \A g \in GenId : Legal(g)
<1>1. LifeHolds'
  BY DEF LifeInv, LifeHolds, LifeOf
<1>2. CancelSendLife'
  BY DEF LifeInv, CancelSendLife
<1>. QED
  BY <1>1, <1>2 DEF LifeInv, Legal

LEMMA QuietLifeSteps ==
  ASSUME IInv, LifeInv,
         \/ StartSpeculation \/ OverlapTakesFloor \/ OverlapLooksEphemeral
         \/ OverlapGraceTimeout \/ OverlapDismissed
         \/ OverlapTranscriptNeedsAnswer \/ CommitTurn \/ TurnFinalized
         \/ TurnSent \/ PromotionSent \/ UNCHANGED vars
         \/ \E g \in GenId :
              \/ ReleaseBegins(g) \/ ReleaseReturns(g) \/ PlaybackStopTimeout(g)
              \/ PlaybackProgress(g) \/ PlaybackStopped(g) \/ PlaybackComplete(g)
  PROVE  LifeInv' /\ \A g \in GenId : Legal(g)
<1>1. /\ UNCHANGED <<life, spec, task, nextGen, cancelled>>
      /\ active' \in {active, NoGen}
  BY DEF StartSpeculation, OverlapTakesFloor, OverlapLooksEphemeral,
         OverlapGraceTimeout, OverlapDismissed, OverlapTranscriptNeedsAnswer,
         CommitTurn, TurnFinalized, TurnSent, PromotionSent, ReleaseBegins,
         ReleaseReturns, PlaybackStopTimeout, PlaybackProgress, PlaybackStopped,
         PlaybackComplete, CommitAssistantIfComplete, vars, genVars
<1>2. rpc' = "cancelSend" => rpc = "cancelSend" /\ rgen' = rgen
  BY DEF StartSpeculation, OverlapTakesFloor, OverlapLooksEphemeral,
         OverlapGraceTimeout, OverlapDismissed, OverlapTranscriptNeedsAnswer,
         CommitTurn, TurnFinalized, TurnSent, PromotionSent, ReleaseBegins,
         ReleaseReturns, PlaybackStopTimeout, PlaybackProgress, PlaybackStopped,
         PlaybackComplete, vars, recognitionVars
<1>. QED
  BY <1>1, <1>2, QuietLife

(* The steps of a generation task. *)
LEMMA TaskLife ==
  ASSUME IInv, LifeInv, NEW a \in GenId,
         \/ TaskBegins(a) \/ FirstDelta(a) \/ ResponseFinished(a)
         \/ TaskReturns(a) \/ TaskFails(a) \/ FailureReported(a)
         \/ TaskCancelled(a)
  PROVE  LifeInv' /\ \A g \in GenId : Legal(g)
<1>1. /\ \A g \in GenId : g # a => /\ life'[g] = life[g] /\ task'[g] = task[g]
                                   /\ cancelled[g] => cancelled'[g]
      /\ UNCHANGED <<spec, nextGen, rpc, rgen>>
      /\ active' \in {active, NoGen}
  BY DEF TaskBegins, FirstDelta, ResponseFinished, TaskReturns, TaskFails,
         FailureReported, TaskCancelled, CommitAssistantIfComplete,
         recognitionVars, IInv, TypeOK, GenerationsTypeOK
<1>2. LifeOf(a) /\ a < nextGen
  BY CreatedEarlier DEF LifeInv, LifeHolds, TaskBegins, FirstDelta,
     ResponseFinished, TaskReturns, TaskFails, FailureReported, TaskCancelled
<1>3. rpc = "cancelSend" =>
        /\ rgen \in GenId
        /\ rgen = a =>
             /\ ~spec[a]
             /\ task[a] \in {"created", "running", "closing"} => life[a] = Requested
  BY DEF LifeInv, CancelSendLife, IInv, CancelSendHolds
<1>4. ~(a >= nextGen)
  BY <1>2, CreatedEarlier
<1>5. CASE TaskBegins(a)
  <2>1. /\ task[a] = "created" /\ task'[a] = "running"
        /\ life'[a] = IF life[a] = "CREATED" THEN "PREFILLING" ELSE life[a]
        /\ UNCHANGED <<active, cancelled>>
    BY <1>5 DEF TaskBegins, IInv, TypeOK, GenerationsTypeOK
  <2>2. LifeOf(a)' /\ Legal(a)
    BY <1>1, <1>2, <1>4, <2>1 DEF LifeOf, Legal, LegalTransition, Requested
  <2>. QED
    BY <1>1, <1>3, <2>1, <2>2, LifeFrame DEF Requested
<1>6. CASE FirstDelta(a)
  <2>1. /\ task[a] = "running" /\ task'[a] = "running"
        /\ life[a] = "PREFILLING" /\ life'[a] = "STREAMING"
        /\ UNCHANGED <<active, cancelled>>
    BY <1>6 DEF FirstDelta, IInv, TypeOK, GenerationsTypeOK
  <2>2. LifeOf(a)' /\ Legal(a)
    BY <1>1, <1>2, <1>4, <2>1 DEF LifeOf, Legal, LegalTransition, Requested
  <2>. QED
    BY <1>1, <1>3, <2>1, <2>2, LifeFrame DEF Requested
<1>7. CASE ResponseFinished(a)
  <2>1. /\ task[a] = "running" /\ task'[a] = "closing"
        /\ life[a] # "PREFILLING" /\ life' = life
        /\ UNCHANGED cancelled
    BY <1>7 DEF ResponseFinished, IInv, TypeOK, GenerationsTypeOK
  <2>2. LifeOf(a)' /\ Legal(a)
    BY <1>1, <1>2, <1>4, <2>1 DEF LifeOf, Legal, Requested
  <2>. QED
    BY <1>1, <1>3, <2>1, <2>2, LifeFrame DEF Requested
<1>8. CASE TaskReturns(a)
  <2>1. /\ task[a] = "closing" /\ task'[a] = "done"
        /\ life'[a] = IF spec[a] THEN "READY" ELSE life[a]
        /\ UNCHANGED <<active, cancelled>>
    BY <1>8 DEF TaskReturns, IInv, TypeOK, GenerationsTypeOK
  <2>2. LifeOf(a)' /\ Legal(a)
    BY <1>1, <1>2, <1>4, <2>1 DEF LifeOf, Legal, LegalTransition, Requested
  <2>. QED
    BY <1>1, <1>3, <2>1, <2>2, LifeFrame DEF Requested
<1>9. CASE TaskFails(a)
  <2>1. /\ task[a] \in {"running", "closing", "cancelling"}
        /\ task'[a] = "reporting" /\ life'[a] = "FAILED" /\ active' # a
    BY <1>9 DEF TaskFails, IInv, TypeOK, GenerationsTypeOK
  <2>2. LifeOf(a)' /\ Legal(a)
    BY <1>1, <1>2, <1>4, <2>1 DEF LifeOf, Legal, LegalTransition, Requested
  <2>. QED
    BY <1>1, <1>3, <2>1, <2>2, LifeFrame DEF Requested
<1>10. CASE FailureReported(a)
  <2>1. /\ task'[a] = "done" /\ UNCHANGED <<life, active, cancelled>>
    BY <1>10 DEF FailureReported, IInv, TypeOK, GenerationsTypeOK
  <2>2. LifeOf(a)' /\ Legal(a)
    BY <1>1, <1>2, <1>4, <2>1 DEF LifeOf, Legal, Requested
  <2>. QED
    BY <1>1, <1>3, <2>1, <2>2, LifeFrame DEF Requested
<1>11. CASE TaskCancelled(a)
  <2>1. /\ task[a] = "cancelling" /\ task'[a] = "done"
        /\ life'[a] = Cancelled(life[a])
        /\ UNCHANGED <<active, cancelled>>
    BY <1>11 DEF TaskCancelled, IInv, TypeOK, GenerationsTypeOK
  <2>2. LifeOf(a)' /\ Legal(a)
    BY <1>1, <1>2, <1>4, <2>1 DEF LifeOf, Legal, LegalTransition, Requested, Cancelled
  <2>. QED
    BY <1>1, <1>3, <2>1, <2>2, LifeFrame DEF Requested
<1>. QED
  BY <1>5, <1>6, <1>7, <1>8, <1>9, <1>10, <1>11

(* What cancelling a task makes of it. *)
LEMMA TornDown ==
  ASSUME TypeOK, NEW a \in GenId, ScheduleTeardown(a)
  PROVE  /\ \A g \in GenId : g # a => task'[g] = task[g]
         /\ task'[a] \in {"none", "done", "cancelling"}
         /\ task'[a] = "cancelling" => task[a] \in {"running", "closing", "cancelling"}
BY DEF ScheduleTeardown, CancelledTask, TypeOK, GenerationsTypeOK, TaskState

(* Every cancellation leaves its generation with the request on record. *)
LEMMA RequestedLife ==
  ASSUME LifeInv, NEW a \in GenId, a < nextGen, ~(a >= nextGen),
         UNCHANGED <<spec, nextGen>>,
         \A g \in GenId : g # a => /\ life'[g] = life[g] /\ task'[g] = task[g]
                                   /\ cancelled[g] => cancelled'[g],
         task'[a] \in {"none", "done", "cancelling"},
         active' = NoGen,
         task'[a] = "cancelling" => life'[a] = Requested,
         Legal(a), rpc' = "cancelSend" => rpc = "cancelSend" /\ rgen' = rgen /\ rgen \in GenId
  PROVE  LifeInv' /\ \A g \in GenId : Legal(g)
<1>1. LifeOf(a)'
  BY DEF LifeOf
<1>2. rpc' = "cancelSend" /\ rgen' = a => ~spec'[a]
  BY DEF LifeInv, CancelSendLife
<1>. QED
  BY <1>1, <1>2, LifeFrame

LEMMA InvalidationLife ==
  ASSUME IInv, LifeInv, active # NoGen, spec[active], InvalidateSpeculative,
         rpc' # "cancelSend"
  PROVE  LifeInv' /\ \A g \in GenId : Legal(g)
<1>. PICK a \in GenId : a = active
  BY CreatedEarlier
<1>1. a < nextGen /\ ~(a >= nextGen) /\ LifeOf(a)
  BY CreatedEarlier DEF LifeInv, LifeHolds
<1>2. /\ UNCHANGED <<spec, nextGen>> /\ active' = NoGen
      /\ life'[a] = Requested
      /\ \A g \in GenId : g # a => /\ life'[g] = life[g] /\ task'[g] = task[g]
                                   /\ cancelled[g] => cancelled'[g]
      /\ task'[a] \in {"none", "done", "cancelling"}
  BY TornDown DEF InvalidateSpeculative, IInv, TypeOK, GenerationsTypeOK, Requested
<1>3. Legal(a)
  BY <1>1, <1>2 DEF LifeOf, Legal, LegalTransition, Requested
<1>. QED
  BY <1>1, <1>2, <1>3, RequestedLife

LEMMA CancellationLife ==
  ASSUME IInv, LifeInv, NEW next \in {"listening", "finalizing"},
         rpc # "cancelSend", RequestCancellation(next)
  PROVE  LifeInv' /\ \A g \in GenId : Legal(g)
<1>1. CASE active = NoGen
  BY <1>1, QuietLife DEF RequestCancellation, genVars
<1>2. CASE active # NoGen /\ spec[active]
  BY <1>2, InvalidationLife DEF RequestCancellation
<1>3. CASE active # NoGen /\ ~spec[active]
  <2>. PICK a \in GenId : a = active
    BY <1>3, CreatedEarlier
  <2>1. a < nextGen /\ ~(a >= nextGen) /\ LifeOf(a)
    BY CreatedEarlier DEF LifeInv, LifeHolds
  <2>2. /\ UNCHANGED <<spec, nextGen>>
        /\ life'[a] = Requested /\ cancelled'[a]
        /\ \A g \in GenId : g # a => /\ life'[g] = life[g]
                                     /\ cancelled'[g] = cancelled[g]
    BY <1>3 DEF RequestCancellation, IInv, TypeOK, GenerationsTypeOK, Requested
  <2>3. Legal(a)
    BY <1>3, <2>1, <2>2 DEF LifeOf, Legal, LegalTransition, Requested
  <2>4. CASE playbackGen = active
    <3>1. /\ UNCHANGED <<active, task>> /\ rgen' = a
      BY <1>3, <2>4 DEF RequestCancellation
    <3>2. LifeOf(a)'
      BY <1>3, <2>1, <2>2, <3>1 DEF LifeOf
    <3>. QED
      BY <1>3, <2>2, <2>3, <3>1, <3>2, LifeFrame
  <2>5. CASE playbackGen # active
    <3>1. /\ active' = NoGen /\ rpc' = next /\ ScheduleTeardown(a)
      BY <1>3, <2>5 DEF RequestCancellation, FinishCancellation
    <3>2. /\ \A g \in GenId : g # a => task'[g] = task[g]
          /\ task'[a] \in {"none", "done", "cancelling"}
      BY <3>1, TornDown DEF IInv
    <3>. QED
      BY <2>1, <2>2, <2>3, <3>1, <3>2, RequestedLife
  <2>. QED BY <2>4, <2>5
<1>. QED
  BY <1>1, <1>2, <1>3

LEMMA LoopLife ==
  ASSUME IInv, LifeInv,
         \/ SpeechOnset \/ CancelSent \/ InvalidateCandidate \/ OverlapReported
         \/ EmptyTurnFinalized \/ RejectCandidate
  PROVE  LifeInv' /\ \A g \in GenId : Legal(g)
<1>1. CASE SpeechOnset
  <2>1. CASE OverlapEligible
    BY <1>1, <2>1, QuietLife DEF SpeechOnset, genVars
  <2>2. CASE ~OverlapEligible
    BY <1>1, <2>2, CancellationLife DEF SpeechOnset
  <2>. QED BY <2>1, <2>2
<1>2. CASE CancelSent
  <2>1. /\ rgen \in GenId /\ active' = NoGen /\ rpc' # "cancelSend"
        /\ UNCHANGED <<life, spec, nextGen, cancelled>>
        /\ ScheduleTeardown(rgen)
    BY <1>2 DEF CancelSent, FinishCancellation, IInv, CancelSendHolds, TypeOK, LoopTypeOK
  <2>2. PICK a \in GenId : a = rgen
    BY <2>1
  <2>3. /\ \A g \in GenId : g # a => task'[g] = task[g]
        /\ task'[a] \in {"none", "done", "cancelling"}
        /\ task'[a] = "cancelling" => task[a] \in {"running", "closing", "cancelling"}
    BY <2>1, <2>2, TornDown DEF IInv
  <2>4. task'[a] = "cancelling" => life'[a] = Requested
    BY <1>2, <2>1, <2>2, <2>3 DEF LifeInv, LifeHolds, LifeOf, CancelSendLife, CancelSent
  <2>5. LifeOf(a)'
    <3>1. LifeOf(a)
      BY DEF LifeInv, LifeHolds
    <3>. QED
      BY <2>1, <2>3, <2>4, <3>1 DEF LifeOf
  <2>. QED
    BY <2>1, <2>3, <2>5, LifeFrame DEF Legal
<1>3. CASE InvalidateCandidate
  BY <1>3, InvalidationLife DEF InvalidateCandidate, recognitionVars
<1>4. CASE OverlapReported
  BY <1>4, CancellationLife DEF OverlapReported, IInv, TypeOK, LoopTypeOK
<1>5. CASE EmptyTurnFinalized
  <2>1. CASE active # NoGen /\ spec[active]
    BY <1>5, <2>1, InvalidationLife DEF EmptyTurnFinalized
  <2>2. CASE ~(active # NoGen /\ spec[active])
    BY <1>5, <2>2, QuietLife DEF EmptyTurnFinalized, genVars
  <2>. QED BY <2>1, <2>2
<1>6. CASE RejectCandidate
  <2>1. CASE rgen # NoGen /\ spec[rgen] /\ active # NoGen /\ spec[active]
    BY <1>6, <2>1, InvalidationLife DEF RejectCandidate
  <2>2. CASE ~(rgen # NoGen /\ spec[rgen] /\ active # NoGen /\ spec[active])
    BY <1>6, <2>2, QuietLife DEF RejectCandidate, genVars
  <2>. QED BY <2>1, <2>2
<1>. QED
  BY <1>1, <1>2, <1>3, <1>4, <1>5, <1>6

(* A candidate or an answer is created, promoted or started. *)
LEMMA CommittingLife ==
  ASSUME IInv, PrivacyInv, OpenInv, LifeInv,
         \/ CreateCandidate \/ StartAuthoritative \/ PromoteCandidate \/ StartSent
  PROVE  LifeInv' /\ \A g \in GenId : Legal(g)
<1>1. CASE CreateCandidate \/ StartAuthoritative
  <2>1. active = NoGen /\ nextGen \in GenId
    <3>1. CASE CreateCandidate
      BY <3>1, CreatedEarlier DEF CreateCandidate, IInv, SpeculatingIsFree, IdLeft,
                                  TypeOK, LoopTypeOK
    <3>2. CASE StartAuthoritative
      BY <3>2, CreatedEarlier DEF StartAuthoritative, IInv, CommitMeetsPrivate,
                                  IdLeft, Committing, CommitPoint
    <3>. QED BY <1>1, <3>1, <3>2
  <2>2. PICK a \in GenId : a = nextGen
    BY <2>1
  <2>3. a >= nextGen /\ nextGen' = a + 1 /\ active' = a /\ cancelled' = cancelled
        /\ rpc' # "cancelSend"
    BY <1>1, <2>1, <2>2 DEF CreateCandidate, StartAuthoritative, CreateGeneration
  <2>4. /\ \A g \in GenId : g # a => /\ life'[g] = life[g] /\ spec'[g] = spec[g]
                                     /\ task'[g] = task[g]
        /\ \/ spec'[a] /\ life'[a] = life[a] /\ task'[a] = "created"
           \/ ~spec'[a] /\ life'[a] = "COMMITTED" /\ task'[a] = task[a]
    BY <1>1, <2>1, <2>2 DEF CreateCandidate, StartAuthoritative, CreateGeneration,
                            IInv, TypeOK, GenerationsTypeOK
  <2>5. life[a] = "CREATED" /\ task[a] = "none"
    BY <2>2, <2>3 DEF LifeInv, LifeHolds, LifeOf, IInv, FreshUnused
  <2>6. \A g \in GenId : g >= nextGen' => g >= nextGen
    BY <2>2, <2>3
  <2>7. ~(a >= a + 1)
    OBVIOUS
  <2>8. LifeOf(a)' /\ Legal(a)
    BY <2>3, <2>4, <2>5, <2>7 DEF LifeOf, Legal, LegalTransition
  <2>. QED
    BY <2>3, <2>4, <2>6, <2>8, LifeFrame
<1>2. CASE PromoteCandidate /\ active # rgen
  BY <1>2, QuietLife DEF PromoteCandidate
<1>3. CASE PromoteCandidate /\ active = rgen
  <2>1. PICK a \in GenId : a = rgen
    BY <1>3, CreatedEarlier DEF PromoteCandidate
  <2>2. ~(a >= nextGen) /\ LifeOf(a)
    BY <1>3, <2>1, CreatedEarlier DEF LifeInv, LifeHolds
  <2>3. /\ \A g \in GenId : g # a => life'[g] = life[g] /\ spec'[g] = spec[g]
        /\ spec[a] /\ ~spec'[a] /\ life'[a] = "COMMITTED"
        /\ UNCHANGED <<task, cancelled, active, nextGen>>
        /\ rpc' # "cancelSend" /\ active = a
    BY <1>3, <2>1 DEF PromoteCandidate, IInv, TypeOK, GenerationsTypeOK
  <2>4. LifeOf(a)' /\ Legal(a)
    BY <2>2, <2>3 DEF LifeOf, Legal, LegalTransition
  <2>. QED
    BY <2>3, <2>4, LifeFrame
<1>4. CASE StartSent
  <2>1. PICK a \in GenId : a = rgen
    BY <1>4 DEF StartSent, IInv, StartSendHolds
  <2>2. /\ \A g \in GenId : g # a => task'[g] = task[g]
        /\ task'[a] = "created" /\ active = a /\ ~spec[a]
        /\ UNCHANGED <<life, spec, cancelled, active, nextGen>>
        /\ rpc' # "cancelSend"
    BY <1>4, <2>1 DEF StartSent, IInv, StartSendHolds, OpenInv, StartIsAnswer,
                      TypeOK, GenerationsTypeOK
  <2>3. LifeOf(a)
    BY DEF LifeInv, LifeHolds
  <2>4. LifeOf(a)' /\ Legal(a)
    BY <2>2, <2>3 DEF LifeOf, Legal
  <2>. QED
    BY <2>2, <2>4, LifeFrame
<1>. QED
  BY <1>1, <1>2, <1>3, <1>4

LEMMA TeardownLife ==
  ASSUME IInv, LifeInv, TeardownFinishes
  PROVE  LifeInv' /\ \A g \in GenId : Legal(g)
<1>1. PICK a \in GenId : a = teardown
  BY DEF TeardownFinishes, IInv, TypeOK, LoopTypeOK
<1>2. /\ active = NoGen /\ rpc # "cancelSend"
      /\ task[a] \in {"none", "done"} /\ life'[a] = Cancelled(life[a])
      /\ \A g \in GenId : g # a => life'[g] = life[g]
      /\ UNCHANGED <<spec, cancelled, task, nextGen, active, rpc>>
  BY <1>1 DEF TeardownFinishes, TaskEnded, IInv, TeardownIsFree, TypeOK,
              GenerationsTypeOK, recognitionVars
<1>3. LifeOf(a)
  BY DEF LifeInv, LifeHolds
<1>4. LifeOf(a)' /\ Legal(a)
  BY <1>2, <1>3 DEF LifeOf, Legal, LegalTransition, Cancelled
<1>. QED
  BY <1>2, <1>4, LifeFrame

LEMMA ResumeRejectedLife ==
  ASSUME IInv, PrivacyInv, LifeInv, NEW a \in GenId, ResumeRejected(a)
  PROVE  LifeInv' /\ \A g \in GenId : Legal(g)
<1>1. /\ UNCHANGED <<spec, nextGen, rpc, rgen>> /\ active' = NoGen /\ active = a
      /\ life'[a] = Requested /\ ~cancelled[a] /\ ~spec[a]
      /\ \A g \in GenId : g # a => /\ life'[g] = life[g]
                                   /\ cancelled[g] => cancelled'[g]
      /\ ScheduleTeardown(a)
  BY DEF ResumeRejected, FinishCancellation, PrivacyInv, CandidateHidden, IInv,
         TypeOK, GenerationsTypeOK, Requested
<1>2. /\ \A g \in GenId : g # a => task'[g] = task[g]
      /\ task'[a] \in {"none", "done", "cancelling"}
  BY <1>1, TornDown DEF IInv
<1>3. a < nextGen /\ ~(a >= nextGen) /\ LifeOf(a)
  BY <1>1, CreatedEarlier DEF LifeInv, LifeHolds
<1>4. Legal(a)
  BY <1>1, <1>3 DEF LifeOf, Legal, LegalTransition, Requested
<1>5. rpc = "cancelSend" => rgen \in GenId
  BY DEF IInv, CancelSendHolds
<1>. QED
  BY <1>1, <1>2, <1>3, <1>4, <1>5, RequestedLife

LEMMA InitLife == Init => LifeInv
BY DEF Init, LifeInv, LifeHolds, LifeOf, CancelSendLife

LEMMA NextLife ==
  IInv /\ PrivacyInv /\ OpenInv /\ LifeInv /\ [Next]_vars
    => LifeInv' /\ \A g \in GenId : Legal(g)
BY QuietLifeSteps, TaskLife, LoopLife, CommittingLife, TeardownLife,
   ResumeRejectedLife DEF Next, Recognition, Generation, Receive

-----------------------------------------------------------------------------
(* What the four invariants say together. *)

AnswersInv == IInv /\ PrivacyInv /\ OpenInv /\ HistoryInv /\ LifeInv

LEMMA InitAnswers == Init => AnswersInv
BY InitIInv, InitPrivacy, InitOpen, InitHistory, InitLife DEF AnswersInv

LEMMA NextAnswers == AnswersInv /\ [Next]_vars => AnswersInv'
BY NextIInv, NextPrivacy, NextOpen, NextHistory, NextLife DEF AnswersInv

THEOREM AnswersInvariance == Spec => []AnswersInv
BY InitAnswers, NextAnswers, PTL DEF Spec

(* Nothing of a candidate leaves the session before its turn is committed: *)
(* its gate is not opened, the browser is not given its id, and the        *)
(* history holds no word of it.                                            *)
THEOREM CandidatesStayPrivate == Spec => []SpeculativePrivate
<1>1. AnswersInv => SpeculativePrivate
  BY DEF AnswersInv, PrivacyInv, CandidateHidden, HistoryInv, CandidateUnheard,
         SpeculativePrivate
<1>. QED
  BY <1>1, AnswersInvariance, PTL

(* CandidateReleaseGate.release is never called on a discarded gate. *)
THEOREM ReleasesSucceed == Spec => []ReleaseNeverRefused
<1>1. AnswersInv => ReleaseNeverRefused
  BY DEF AnswersInv, PrivacyInv, ReleaseHolds, Handed, ReleaseNeverRefused
<1>. QED
  BY <1>1, AnswersInvariance, PTL

(* An answer that is out, not cancelled and not played to its end is the   *)
(* active one, so that the user can interrupt it.                          *)
THEOREM AnswersStayReachable == Spec => []AnswerStaysReachable
<1>1. AnswersInv => AnswerStaysReachable
  BY DEF AnswersInv, PrivacyInv
<1>. QED
  BY <1>1, AnswersInvariance, PTL

(* In the durable history every answer follows the user turn it answers,   *)
(* and the turns follow one another in order, however late the browser     *)
(* reports what it played of a cancelled answer.                           *)
THEOREM HistoryInOrder == Spec => []HistoryAnswersItsTurn
<1>1. AnswersInv => HistoryAnswersItsTurn
  BY DEF AnswersInv, HistoryInv
<1>. QED
  BY <1>1, AnswersInvariance, PTL

(* Nothing is written to the history while a candidate that was prompted   *)
(* with it waits for its turn; the commit itself is the next entry.        *)
THEOREM PromptsStayFrozen == Spec => CandidatePromptFrozen
<1>1. ASSUME AnswersInv, [Next]_vars, active # NoGen /\ spec[active],
             conversation' # conversation
      PROVE  rpc = "settling"
  <2>1. CASE \E g \in GenId : \/ ResponseFinished(g) \/ PlaybackProgress(g)
                              \/ PlaybackComplete(g) \/ PlaybackStopped(g)
                              \/ ResumeRejected(g)
    <3>1. PICK g \in GenId : Open(g)
      BY <1>1, <2>1, ReportsOpen DEF AnswersInv
    <3>2. g = active
      BY <1>1, <3>1 DEF AnswersInv, OpenInv, CandidateAlone, Open
    <3>. QED
      BY <1>1, <3>1, <3>2 DEF Open
  <2>2. CASE PromoteCandidate \/ RejectCandidate
    BY <2>2 DEF PromoteCandidate, RejectCandidate
  <2>3. \/ \E g \in GenId : \/ ResponseFinished(g) \/ PlaybackProgress(g)
                            \/ PlaybackComplete(g) \/ PlaybackStopped(g)
                            \/ ResumeRejected(g)
        \/ PromoteCandidate \/ RejectCandidate
    BY <1>1 DEF Next, Recognition, Generation, Receive, OverlapTakesFloor,
       OverlapLooksEphemeral, OverlapGraceTimeout, OverlapDismissed,
       OverlapTranscriptNeedsAnswer, CommitTurn, TurnFinalized,
       TeardownFinishes, SpeechOnset, CancelSent, InvalidateCandidate,
       OverlapReported, EmptyTurnFinalized, StartSpeculation, TurnSent,
       CreateCandidate, PromotionSent, StartAuthoritative, StartSent,
       TaskBegins, FirstDelta, TaskReturns, FailureReported, TaskCancelled,
       ReleaseBegins, ReleaseReturns, PlaybackStopTimeout, TaskFails, vars,
       historyVars
  <2>. QED
    BY <2>1, <2>2, <2>3
<1>. QED
  BY <1>1, AnswersInvariance, PTL DEF Spec, CandidatePromptFrozen

(* No interleaving of the loop, the tasks and the receive handlers asks    *)
(* for a lifecycle transition that _transition_generation refuses.         *)
THEOREM LifecyclesStayLegal == Spec => LifecycleLegal
<1>1. AnswersInv /\ [Next]_vars
        => \A g \in GenId : life'[g] # life[g]
             => <<life[g], life'[g]>> \in LegalTransition
  BY NextLife DEF AnswersInv, Legal
<1>. QED
  BY <1>1, AnswersInvariance, PTL DEF Spec, LifecycleLegal
=============================================================================
