------------------------------ MODULE OverlapHolds ------------------------------
(***************************************************************************)
(* The holds that a user's overlapping speech puts on one answer           *)
(* (voice/session.py): the recognition loop that starts, judges and        *)
(* resolves the overlap, the text task that waits at word boundaries for   *)
(* continuation_allowed, and the speech stream that waits for              *)
(* synthesis_budget_available and then, inside the release gate, for       *)
(* transport credit.                                                       *)
(*                                                                         *)
(* Positions are counted in words, one audio chunk each.  What the overlap *)
(* turns out to be and how long its finalization takes are free choices.   *)
(* A task that waits for an event is woken by set() for good, whatever     *)
(* happens to the event before it runs.  A cancelled answer stops.         *)
(***************************************************************************)
EXTENDS Naturals

CONSTANTS
  Words,       \* of the answer
  Ahead,       \* maximum_synthesized_ahead_ms
  Transport,   \* maximum_transport_ahead_ms
  Overlaps     \* bound: overlaps of this answer

ASSUME HoldsAssumption ==
  /\ Words \in Nat /\ Ahead \in Nat /\ Overlaps \in Nat
  /\ Transport \in Nat \ {0}

VARIABLES
  overlap,        \* active_user_overlap: undecided, undecided with its
                  \* generation_hold_applied, or resumed
  loop,           \* the await of the recognition loop
  continuation,   \* continuation_allowed
  budget,         \* synthesis_budget_available
  text, words,    \* the text task, and the words it gave to synthesis
  stream, sent,   \* the speech stream, and the chunks it published
  playback, pos,  \* the browser, and the position it reported
  answer,         \* active, or cancelled
  count,          \* overlaps so far
  onsetSent,      \* sent when the overlap began
  holdWords       \* words when the hold was applied

loopVars == <<overlap, loop, count, onsetSent, answer>>
textVars == <<text, words>>
streamVars == <<stream, sent>>
browserVars == <<playback, pos>>
vars == <<loopVars, continuation, budget, textVars, streamVars, browserVars, holdWords>>

Undecided == {"unresolved", "held"}
Event == {"set", "clear"}

TypeOK ==
  /\ overlap \in {"none", "resumed"} \cup Undecided
  /\ loop \in {"listen", "finalizing", "awaiting", "recording"}
  /\ continuation \in Event /\ budget \in Event
  /\ answer \in {"active", "cancelled"}
  /\ text \in {"delta", "word", "waiting", "woken"}
  /\ stream \in {"next", "waiting", "woken", "sending"}
  /\ playback \in {"speaking", "pausing", "paused"}
  /\ count \in 0 .. Overlaps
  /\ words \in 0 .. Words /\ holdWords \in 0 .. Words
  /\ sent \in 0 .. words /\ onsetSent \in 0 .. words
  /\ pos \in 0 .. sent

Init ==
  /\ overlap = "none" /\ loop = "listen" /\ count = 0
  /\ onsetSent = 0 /\ answer = "active" /\ holdWords = 0
  /\ continuation = "set" /\ budget = "set"
  /\ text = "delta" /\ words = 0
  /\ stream = "next" /\ sent = 0
  /\ playback = "speaking" /\ pos = 0

Complete == pos = Words

-----------------------------------------------------------------------------
(* The recognition loop. *)

Hold ==
  /\ continuation' = "clear"
  /\ budget' = "clear"
  /\ holdWords' = words

NoHold == UNCHANGED <<continuation, budget, holdWords>>

(* An answer that is not audible is held at once. *)
StartOverlap ==
  /\ loop = "listen" /\ overlap = "none"
  /\ answer = "active" /\ ~Complete
  /\ count < Overlaps
  /\ count' = count + 1
  /\ onsetSent' = sent
  /\ playback' = IF playback = "speaking" THEN "pausing" ELSE playback
  /\ IF playback = "speaking" /\ pos < sent
     THEN overlap' = "unresolved" /\ NoHold
     ELSE overlap' = "held" /\ Hold
  /\ UNCHANGED <<loop, answer, textVars, streamVars, pos>>

Promote ==
  /\ overlap' = "none"
  /\ answer' = IF Complete THEN answer ELSE "cancelled"
  /\ loop' = "listen"

Decide(decision, undecided) ==
  CASE decision = "unresolved" -> overlap' = undecided /\ UNCHANGED <<answer, loop>>
    [] decision = "feedback" ->
         IF Complete   \* outlived the answer: a turn of its own, after the silence
         THEN overlap' = "none" /\ UNCHANGED <<answer, loop>>
         ELSE overlap' = undecided /\ loop' = "finalizing" /\ UNCHANGED answer
    [] decision = "floor" -> Promote

(* _evaluate_active_overlap, for every chunk: the hold is due after 350 ms *)
(* whatever the decision is.                                               *)
Evaluate(decision) ==
  /\ loop = "listen"
  /\ \/ overlap = "unresolved" /\ Hold /\ Decide(decision, "held")
     \/ overlap \in Undecided /\ NoHold /\ Decide(decision, overlap)
  /\ UNCHANGED <<count, onsetSent, textVars, streamVars, browserVars>>

(* _resume_provisional_overlap *)
Resume_KeepsText ==
  /\ overlap' = "resumed"
  /\ budget' = "set"
  /\ stream' = IF stream = "waiting" THEN "woken" ELSE stream
  /\ playback' = "speaking"
  /\ UNCHANGED <<continuation, text>>
Resume ==
  /\ overlap' = "resumed"
  /\ continuation' = "set"
  /\ budget' = "set"
  /\ text' = IF text = "waiting" THEN "woken" ELSE text
  /\ stream' = IF stream = "waiting" THEN "woken" ELSE stream
  /\ playback' = "speaking"

(* The transcript is final within the grace and confirms the decision, or  *)
(* the grace passes and the answer is resumed before it is final.          *)
ResumeOverlap ==
  /\ loop = "finalizing"
  /\ loop' \in {"recording", "awaiting"}
  /\ Resume
  /\ UNCHANGED <<count, onsetSent, answer, words, sent, pos, holdWords>>

Confirmed ==
  /\ loop = "awaiting"
  /\ loop' = "recording"
  /\ UNCHANGED <<overlap, count, onsetSent, answer, continuation, budget,
                 textVars, streamVars, browserVars, holdWords>>

(* The final transcript takes the floor. *)
PromoteFinalized ==
  /\ loop \in {"finalizing", "awaiting"}
  /\ Promote
  /\ UNCHANGED <<count, onsetSent, continuation, budget,
                 textVars, streamVars, browserVars, holdWords>>

(* The resolution has been sent. *)
Recorded ==
  /\ loop = "recording"
  /\ loop' = "listen"
  /\ overlap' = "none"
  /\ UNCHANGED <<count, onsetSent, answer, continuation, budget,
                 textVars, streamVars, browserVars, holdWords>>

-----------------------------------------------------------------------------
(* The text task: a text delta goes through the release gate, then its     *)
(* complete word to synthesis.                                             *)

PublishDelta ==
  /\ text = "delta" /\ words < Words /\ answer = "active"
  /\ stream # "sending"   \* the gate's lock
  /\ text' = "word"
  /\ UNCHANGED <<loopVars, continuation, budget, words, streamVars, browserVars, holdWords>>

AddWord ==
  /\ text' = "delta"
  /\ words' = words + 1

Continue_Always ==
  /\ text \in {"word", "woken"} /\ answer = "active"
  /\ AddWord
  /\ UNCHANGED <<loopVars, continuation, budget, streamVars, browserVars, holdWords>>
Continue ==
  /\ answer = "active"
  /\ \/ text = "woken" /\ AddWord
     \/ text = "word" /\ continuation = "set" /\ AddWord
     \/ text = "word" /\ continuation = "clear" /\ text' = "waiting" /\ UNCHANGED words
  /\ UNCHANGED <<loopVars, continuation, budget, streamVars, browserVars, holdWords>>

-----------------------------------------------------------------------------
(* The speech stream. *)

(* _wait_for_synthesis_overlap_budget *)
OverBudget_Never == FALSE
OverBudget == overlap # "none" /\ sent + 1 > pos + Ahead

TakeChunk ==
  /\ stream = "next" /\ sent < words /\ answer = "active"
  /\ IF OverBudget THEN stream' = "waiting" /\ budget' = "clear"
     ELSE stream' = "sending" /\ UNCHANGED budget
  /\ UNCHANGED <<loopVars, continuation, textVars, sent, browserVars, holdWords>>

BudgetReleased ==
  /\ stream = "woken" /\ answer = "active"
  /\ stream' = "sending"
  /\ UNCHANGED <<loopVars, continuation, budget, textVars, sent, browserVars, holdWords>>

(* wait_until_send_allowed *)
SendChunk ==
  /\ stream = "sending" /\ answer = "active"
  /\ sent + 1 <= pos + Transport
  /\ stream' = "next"
  /\ sent' = sent + 1
  /\ UNCHANGED <<loopVars, continuation, budget, textVars, browserVars, holdWords>>

-----------------------------------------------------------------------------
(* The browser, as the session sees it: a pause takes effect at the next   *)
(* boundary or later, and a resume at once (PlaybackProtocol has the       *)
(* resumes that are refused).                                              *)

PlayWord ==
  /\ playback # "paused" /\ pos < sent
  /\ pos' = pos + 1
  /\ playback' \in IF playback = "pausing" THEN {"pausing", "paused"} ELSE {"speaking"}
  /\ UNCHANGED <<loopVars, continuation, budget, textVars, streamVars, holdWords>>

-----------------------------------------------------------------------------
Resolve == \E decision \in {"feedback", "floor"} : Evaluate(decision)
RecognitionLoop == Resolve \/ ResumeOverlap \/ Confirmed \/ PromoteFinalized \/ Recorded
TextTask == PublishDelta \/ Continue
SpeechStream == TakeChunk \/ BudgetReleased \/ SendChunk

Next ==
  StartOverlap \/ Evaluate("unresolved") \/ RecognitionLoop
    \/ TextTask \/ SpeechStream \/ PlayWord

Spec == Init /\ [][Next]_vars

(* Every task runs, the browser plays what it has, and an overlap is       *)
(* decided at the latest by its deadline.                                  *)
FairSpec ==
  /\ Spec
  /\ WF_vars(RecognitionLoop)
  /\ WF_vars(TextTask)
  /\ WF_vars(SpeechStream)
  /\ WF_vars(PlayWord)

-----------------------------------------------------------------------------
(* What the holds guarantee.                                               *)

(* While an overlap is undecided, synthesis stays within its budget beyond *)
(* the heard position, but for one chunk that had passed its check: the    *)
(* prototype's document, by which synthesis "cannot advance more than 500  *)
(* ms", leaves that chunk out (session.py:3624 checks the budget and the   *)
(* chunk is sent after further awaits).                                    *)
SynthesisBounded ==
  overlap \in Undecided => sent <= onsetSent + 1 \/ sent <= pos + Ahead

(* Once the hold is applied, no word follows but one whose task a resume   *)
(* had already woken.                                                      *)
TextHeld == overlap = "held" => words <= holdWords + 1

(* A text task that waits for an overlap is released when it is over.      *)
TextContinues == text = "waiting" ~> text # "waiting" \/ answer = "cancelled"

(* The prototype's design: resume releases both holds, so an answer that   *)
(* was only acknowledged is synthesized to its end.                        *)
ResumedAnswerIsSpoken ==
  overlap = "resumed" ~> sent = Words \/ answer = "cancelled" \/ overlap \in Undecided
=============================================================================
