--------------------------- MODULE OverlapHolds_proofs ---------------------------
(***************************************************************************)
(* The two bounds of OverlapHolds hold for answers of any length, any      *)
(* budget and any number of overlaps.                                      *)
(*                                                                         *)
(* Neither is inductive: a stream that has passed its check, and a text    *)
(* task that a resume has woken, still have one chunk or one word to come. *)
(* LastChunk and LastWord say what is left of the bounds in those states.  *)
(***************************************************************************)
EXTENDS OverlapHolds, TLAPS

(* A word, and a chunk, is taken only while there is one left. *)
TextHasWord == text # "delta" => words < Words
ChunkHasWord == stream # "next" => sent < words

(* A chunk past its check is within the bound itself. *)
LastChunk ==
  overlap \in Undecided /\ stream \in {"sending", "woken"} =>
    sent <= onsetSent \/ sent + 1 <= pos + Ahead

(* A woken word is the one word that may follow the hold. *)
LastWord == overlap = "held" /\ text = "woken" => words <= holdWords
HoldStands == overlap = "held" => continuation = "clear"

IInv ==
  /\ TypeOK /\ TextHasWord /\ ChunkHasWord
  /\ SynthesisBounded /\ LastChunk
  /\ TextHeld /\ LastWord /\ HoldStands

(* Nothing is pending, and nothing is being judged, at the start. *)
LEMMA InitInvariant == Init => IInv
<1> SUFFICES ASSUME Init PROVE IInv
  OBVIOUS
<1>1. TypeOK
  BY HoldsAssumption DEF Init, TypeOK, Undecided, Event
<1>2. overlap = "none" /\ text = "delta" /\ stream = "next"
  BY DEF Init
<1> QED
  BY <1>1, <1>2
  DEF IInv, TextHasWord, ChunkHasWord, SynthesisBounded, LastChunk, TextHeld, LastWord,
      HoldStands, Undecided

(* Every step of the session, its tasks and the browser keeps IInv.        *)
LEMMA StepInvariant == IInv /\ [Next]_vars => IInv'
<1> SUFFICES ASSUME IInv, [Next]_vars PROVE IInv'
  OBVIOUS
<1> USE HoldsAssumption DEF IInv, TypeOK, TextHasWord, ChunkHasWord, SynthesisBounded,
    LastChunk, TextHeld, LastWord, HoldStands, loopVars, textVars, streamVars, browserVars,
    Undecided, Event
<1>1. CASE StartOverlap
  BY <1>1 DEF StartOverlap, Hold, NoHold
<1>2. ASSUME NEW decision \in {"unresolved", "feedback", "floor"}, Evaluate(decision)
      PROVE IInv'
  <2>1. UNCHANGED <<count, onsetSent, text, words, stream, sent, playback, pos>>
    BY <1>2 DEF Evaluate
  <2>2. /\ loop' \in {"listen", "finalizing"}
        /\ answer' \in {"active", "cancelled"}
    BY <1>2 DEF Evaluate, Decide, Promote
  <2>3. CASE overlap = "unresolved" /\ Hold /\ Decide(decision, "held")
    <3>1. overlap' \in {"held", "none"}
      BY <2>3 DEF Decide, Promote
    <3> QED
      BY <2>1, <2>2, <2>3, <3>1 DEF Hold
  <2>4. CASE overlap \in Undecided /\ NoHold /\ Decide(decision, overlap)
    <3>1. overlap' = overlap \/ overlap' = "none"
      <4>1. CASE decision = "unresolved"
        BY <2>4, <4>1 DEF Decide
      <4>2. CASE decision = "feedback"
        BY <2>4, <4>2 DEF Decide
      <4>3. CASE decision = "floor"
        BY <2>4, <4>3 DEF Decide, Promote
      <4> QED
        BY <4>1, <4>2, <4>3
    <3>2. CASE overlap' = overlap
      BY <2>1, <2>2, <2>4, <3>2 DEF NoHold
    <3>3. CASE overlap' = "none"
      BY <2>1, <2>2, <2>4, <3>3 DEF NoHold
    <3> QED
      BY <3>1, <3>2, <3>3
  <2> QED
    BY <1>2, <2>3, <2>4 DEF Evaluate
<1>3. CASE ResumeOverlap
  BY <1>3 DEF ResumeOverlap, Resume
<1>4. CASE Confirmed \/ Recorded
  BY <1>4 DEF Confirmed, Recorded
<1>5. CASE PromoteFinalized
  BY <1>5 DEF PromoteFinalized, Promote
<1>6. CASE PublishDelta
  BY <1>6 DEF PublishDelta
<1>7. CASE Continue
  BY <1>7 DEF Continue, AddWord
<1>8. CASE TakeChunk
  BY <1>8 DEF TakeChunk, OverBudget
<1>9. CASE BudgetReleased
  BY <1>9 DEF BudgetReleased
<1>10. CASE SendChunk
  BY <1>10 DEF SendChunk
<1>11. CASE PlayWord
  BY <1>11 DEF PlayWord
<1>12. CASE UNCHANGED vars
  BY <1>12 DEF vars
<1> QED
  BY <1>1, <1>2, <1>3, <1>4, <1>5, <1>6, <1>7, <1>8, <1>9, <1>10, <1>11, <1>12
  DEF Next, RecognitionLoop, Resolve, TextTask, SpeechStream

(* The strengthened invariant holds of every behaviour. *)
THEOREM Invariance == Spec => []IInv
  BY InitInvariant, StepInvariant, PTL DEF Spec

(* Every variable keeps its type: no word or chunk is counted twice,       *)
(* however often the tasks of the answer are held and woken.               *)
THEOREM TypeCorrect == Spec => []TypeOK
<1>1. IInv => TypeOK
  BY DEF IInv
<1> QED
  BY <1>1, Invariance, PTL

(* _wait_for_synthesis_overlap_budget keeps synthesis within its budget    *)
(* while an overlap is being judged, but for one chunk.                    *)
THEOREM SynthesisStaysBounded == Spec => []SynthesisBounded
<1>1. IInv => SynthesisBounded
  BY DEF IInv
<1> QED
  BY <1>1, Invariance, PTL

(* continuation_allowed stops the text within one word of the hold.        *)
THEOREM TextStaysHeld == Spec => []TextHeld
<1>1. IInv => TextHeld
  BY DEF IInv
<1> QED
  BY <1>1, Invariance, PTL
=============================================================================
