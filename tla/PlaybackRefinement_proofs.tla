---------------------- MODULE PlaybackRefinement_proofs ----------------------
(***************************************************************************)
(* PlaybackProtocol implements AudibleAnswers.  Of what the browser takes, *)
(* a word of a newer answer takes that answer up, a quantum sounds one     *)
(* sample, and everything else can only silence; of what the session does  *)
(* only the reports it receives are seen, as words that were heard.        *)
(***************************************************************************)
EXTENDS PlaybackProtocol_proofs

(* What cannot sound any more: an answer that is closed but fading out has *)
(* a cancel to end it, so that only the ended ones are silent.             *)
LEMMA SilentNow ==
  ASSUME Inv
  PROVE  Silent = {g \in GenId : Ended(g)}
<1>1. w.closed /\ w.cancel = 0 => w.state \in Terminal
  BY DEF Inv, WorkInv, Live
<1> QED
  BY <1>1 DEF Silent, Ended

(* The same after a step. *)
LEMMA SilentNext ==
  ASSUME Inv'
  PROVE  Silent' = {g \in GenId : Ended(g)'}
<1>1. w'.closed /\ w'.cancel = 0 => w'.state \in Terminal
  BY DEF Inv, WorkInv, Live
<1> QED
  BY <1>1 DEF Silent, Ended

(* The same answer goes on, and one that has ended does not begin again.   *)
LEMMA SilencesOnly ==
  ASSUME Inv, Inv', w'.gen = w.gen, Live(w') => Live(w),
         pageCancelled <= pageCancelled',
         UNCHANGED <<rendered, heard>>
  PROVE  Audible!Silence
<1>1. /\ w.gen \in Nat /\ pageCancelled \in Nat /\ pageCancelled' \in Nat
      /\ \A g \in GenId : g \in Nat
  BY GenNumbers DEF Inv, TypeInv, Worklet
<1>2. \A g \in GenId : Ended(g) => Ended(g)'
  BY <1>1 DEF Ended, Live
<1>3. Silent \subseteq Silent' /\ Silent' \in SUBSET GenId
  BY <1>2, SilentNow, SilentNext
<1> QED
  BY <1>3, Zenon DEF Audible!Silence, Audible!GenId, GenId

(* A word of a newer answer. *)
LEMMA NewAnswerSounds ==
  ASSUME Inv, Inv', NEW g \in GenId, g > w.gen, pageCancelled < g,
         pageCancelled' = pageCancelled, w'.gen = g, Live(w'),
         UNCHANGED <<rendered, heard>>
  PROVE  Audible!TakeUp(g)
<1>1. /\ w.gen \in Nat /\ pageCancelled \in Nat
      /\ \A h \in GenId : h \in Nat
  BY GenNumbers DEF Inv, TypeInv, Worklet
<1>2. \A h \in GenId : Ended(h) => h < g
  BY <1>1 DEF Ended
<1>3. \A h \in GenId : Ended(h)' <=> h < g
  BY <1>1 DEF Ended, Live
<1>4. g \notin Silent
  BY <1>1, <1>2, SilentNow
<1>5. Silent' = Silent \cup {h \in GenId : h < g}
  BY <1>2, <1>3, SilentNow, SilentNext
<1> QED
  BY <1>4, <1>5 DEF Audible!TakeUp, Audible!GenId, GenId

(* The worklet's own cursor stays where it is. *)
LEMMA BecomesSilently ==
  ASSUME Inv, NEW v \in Worklet, Becomes(v), w.gen # NoGen, v.gen = w.gen, v.pos = w.pos,
         Live(v) => Live(w)
  PROVE  w'.gen = w.gen /\ (Live(w') => Live(w)) /\ rendered' = rendered
<1>1. w'.gen = v.gen /\ w'.state = v.state
  BY DEF Becomes, Worklet
<1>2. rendered \in [GenId -> 0 .. Samples] /\ rendered[w.gen] = w.pos
  BY DEF Inv, TypeInv, WorkInv, Typed
<1>3. rendered' = rendered
  BY <1>2 DEF Becomes
<1> QED
  BY <1>1, <1>3 DEF Live

(* A word is ignored, queued, or takes up a newer answer. *)
LEMMA DeliverWordImplements ==
  ASSUME Inv, Inv', DeliverWord
  PROVE  Audible!Silence \/ \E g \in GenId : Audible!TakeUp(g)
<1> DEFINE m == Head(down)
<1>1. /\ down # <<>> /\ m.kind = "word" /\ UNCHANGED serverVars
      /\ UNCHANGED <<pageCancelled, heard, ctl, flow>>
  BY DEF DeliverWord, Delivered, serverVars, sessionVars
<1>2. /\ m.gen \in GenId /\ m.gen \in Nat /\ m.word \in 1 .. Words /\ w.gen \in Nat
      /\ pageCancelled < m.gen /\ ~(m.gen <= pageCancelled) /\ pageCancelled \in Nat
  BY <1>1, HeadFacts
<1>3. Becomes(LET v == ReplaceProcessor(w, m.gen)
              IN  IF m.gen = v.gen THEN Enqueue(v, m.word) ELSE v)
  BY <1>2 DEF DeliverWord
<1>4. CASE m.gen < w.gen
  <2>1. ReplaceProcessor(w, m.gen) = w
    BY <1>2, <1>4 DEF ReplaceProcessor
  <2>2. Becomes(w)
    BY <1>2, <1>3, <1>4, <2>1
  <2>3. UNCHANGED <<w, up, rendered>>
    BY <2>2, BecomesItself
  <2> QED
    BY <1>1, <1>2, <2>3, SilencesOnly
<1>5. CASE m.gen = w.gen
  <2> DEFINE v == Enqueue(w, m.word)
  <2>1. ReplaceProcessor(w, m.gen) = w
    BY <1>2, <1>5 DEF ReplaceProcessor
  <2>2. Becomes(v)
    BY <1>3, <1>5, <2>1
  <2>3. w.gen # NoGen /\ Working(w) /\ Typed /\ rendered[w.gen] = w.pos
    BY <1>2, <1>5, GenNumbers DEF Inv, TypeInv, WorkInv
  <2>4. v.gen = w.gen /\ v.pos = w.pos /\ (Live(v) => Live(w)) /\ v \in Worklet
    BY <1>2, <2>3, EnqueueWorks DEF Working
  <2> HIDE DEF v
  <2>5. w'.gen = w.gen /\ (Live(w') => Live(w)) /\ rendered' = rendered
    BY <2>2, <2>3, <2>4, BecomesSilently
  <2> QED
    BY <1>1, <1>2, <2>5, SilencesOnly
<1>6. CASE m.gen > w.gen
  <2>1. ReplaceProcessor(w, m.gen).gen = m.gen
    BY <1>2, <1>6 DEF ReplaceProcessor, Processor
  <2>2. Becomes(Enqueue(ReplaceProcessor(w, m.gen), m.word))
    BY <1>3, <2>1
  <2>3. rendered' = rendered /\ w'.gen = m.gen /\ Live(w')
    BY <1>1, <1>2, <1>6, <2>2, TakesUp
  <2> QED
    BY <1>1, <1>2, <1>6, <2>3, NewAnswerSounds
<1> QED
  BY <1>2, <1>4, <1>5, <1>6

(* The end of an answer can only end it. *)
LEMMA DeliverEndImplements ==
  ASSUME Inv, Inv', DeliverEnd
  PROVE  Audible!Silence
<1> DEFINE m == Head(down)
           e == [w EXCEPT !.ended = TRUE]
           v == CompleteIfDrained(e)
<1>1. /\ down # <<>> /\ m.kind = "end" /\ UNCHANGED <<pageCancelled, heard>>
  BY DEF DeliverEnd, Delivered, serverVars, sessionVars
<1>2. /\ m.gen \in GenId /\ pageCancelled \in Nat /\ Arrived(m.gen, Words) /\ pageCancelled < m.gen
      /\ m.gen \in Nat /\ w.gen \in Nat
  BY <1>1, HeadFacts DEF Pred
<1>3. CASE ~(m.gen = w.gen /\ Live(w))
  <2>1. UNCHANGED <<w, up, rendered>>
    BY <1>3 DEF DeliverEnd, Live
  <2> QED
    BY <1>1, <1>2, <2>1, SilencesOnly
<1>4. CASE m.gen = w.gen /\ Live(w)
  <2>1. Becomes(v)
    BY <1>4 DEF DeliverEnd, Live
  <2>2. w.gen # NoGen /\ Working(w) /\ Typed /\ w \in Worklet /\ ~w.closed
    <3>1. w.gen # NoGen /\ ~(w.gen <= pageCancelled)
      BY <1>2, <1>4, GenNumbers
    <3> QED
      BY <1>4, <3>1 DEF Inv, TypeInv, WorkInv
  <2>3. w.pos + w.queue = Samples
    BY <1>2, <1>4, SamplesNat DEF Arrived
  <2>4. /\ e \in Worklet /\ e.gen = w.gen /\ e.pos = w.pos /\ e.queue = w.queue
        /\ e.state = w.state /\ e.closed = w.closed /\ e.cancel = w.cancel
        /\ e.resume = w.resume /\ e.out = w.out
    BY <2>2 DEF Worklet
  <2> HIDE DEF e
  <2>5. Working(e) /\ e.cancel = 0
    BY <2>2, <2>3, <2>4 DEF Working, Posts
  <2>6. Moves(e, v)
    BY <2>2, <2>5, CompleteIfDrainedMoves
  <2> HIDE DEF v
  <2>7. v \in Worklet /\ v.gen = w.gen /\ v.pos = w.pos
    BY <2>4, <2>6 DEF Moves, Working
  <2>8. w'.gen = w.gen /\ (Live(w') => Live(w)) /\ rendered' = rendered
    BY <1>4, <2>1, <2>2, <2>7, BecomesSilently
  <2> QED
    BY <1>1, <1>2, <2>8, SilencesOnly
<1> QED
  BY <1>3, <1>4

(* A command can only end answers. *)
LEMMA DeliverCommandImplements ==
  ASSUME Inv, Inv', DeliverCommand
  PROVE  Audible!Silence
<1> DEFINE m == Head(down)
<1>1. /\ down # <<>> /\ m.kind = "command" /\ heard' = heard
      /\ pageCancelled' = IF m.action = "cancel" THEN Larger(pageCancelled, m.gen) ELSE pageCancelled
  BY DEF DeliverCommand, Delivered, serverVars, sessionVars
<1>2. m \in CommandMsg /\ m.gen \in Nat /\ m.gen \in GenId /\ pageCancelled \in Nat
  BY <1>1, HeadFacts
<1>3. pageCancelled <= pageCancelled'
  BY <1>1, <1>2 DEF Larger
<1>4. PICK tooOld \in BOOLEAN : Becomes(ApplyCommand(w, m, tooOld))
  BY DEF DeliverCommand
<1> DEFINE v == ApplyCommand(w, m, tooOld)
<1>5. CASE w.gen = NoGen
  <2>1. v = w
    BY <1>2, <1>5, GenNumbers DEF ApplyCommand
  <2>2. UNCHANGED <<w, up, rendered>>
    BY <1>4, <2>1, BecomesItself
  <2> QED
    BY <1>1, <1>3, <2>2, SilencesOnly
<1>6. CASE w.gen # NoGen
  <2>1. Working(w) /\ Typed
    BY <1>6 DEF Inv, TypeInv, WorkInv
  <2>2. Moves(w, v) \/ (Live(w) /\ Cancels(w, v))
    BY <1>2, <2>1, CommandWorks
  <2>3. Becomes(v)
    BY <1>4
  <2> HIDE DEF v
  <2>4. v \in Worklet /\ v.gen = w.gen /\ v.pos = w.pos /\ (Live(v) => Live(w))
    BY <2>2 DEF Moves, Cancels, Working
  <2>5. w'.gen = w.gen /\ (Live(w') => Live(w)) /\ rendered' = rendered
    BY <1>6, <2>3, <2>4, BecomesSilently
  <2> QED
    BY <1>1, <1>3, <2>5, SilencesOnly
<1> QED
  BY <1>5, <1>6

(* A pause that takes effect changes nothing that sounds. *)
LEMMA TakePauseImplements ==
  ASSUME Inv, Inv', TakePause
  PROVE  Audible!Silence
<1> DEFINE v == PauseIfDue(w, TRUE)
<1>1. Sounding /\ Becomes(v) /\ UNCHANGED <<pageCancelled, heard>>
  BY DEF TakePause, serverVars, sessionVars
<1>2. w.gen # NoGen /\ Working(w) /\ Live(w) /\ Typed
  BY <1>1, SoundingWorks
<1>3. Moves(w, v)
  BY <1>2, PauseIfDueMoves
<1> HIDE DEF v
<1>4. v \in Worklet /\ v.gen = w.gen /\ v.pos = w.pos
  BY <1>3 DEF Moves, Working
<1>5. w'.gen = w.gen /\ (Live(w') => Live(w)) /\ rendered' = rendered
  BY <1>1, <1>2, <1>4, BecomesSilently
<1>6. pageCancelled <= pageCancelled'
  BY <1>1, GenNumbers DEF Inv, TypeInv
<1> QED
  BY <1>1, <1>5, <1>6, SilencesOnly

(* A quantum sounds one sample of the answer, unless its cancel was due.   *)
LEMMA RenderImplements ==
  ASSUME Inv, Inv', Render
  PROVE  Audible!Silence \/ Audible!Sound
<1>1. PICK rampEnds \in BOOLEAN : Becomes(Rendered(w, rampEnds))
  BY DEF Render
<1> DEFINE v == Rendered(w, rampEnds)
<1>2. Sounding /\ w.queue > 0 /\ UNCHANGED <<pageCancelled, heard>>
  BY DEF Render, MustRender, serverVars, sessionVars
<1>3. w.gen # NoGen /\ Working(w) /\ Live(w) /\ Typed
  BY <1>2, SoundingWorks
<1>4. /\ v \in Worklet /\ v.gen = w.gen
      /\ v.pos = w.pos + 1 \/ (v.pos = w.pos /\ ~Live(v))
  BY <1>2, <1>3, RenderedWorks DEF Working
<1>5. Becomes(v)
  BY <1>1
<1> HIDE DEF v
<1>6. pageCancelled <= pageCancelled' /\ pageCancelled' = pageCancelled
  BY <1>2, GenNumbers DEF Inv, TypeInv
<1>7. CASE v.pos = w.pos
  <2>1. w'.gen = w.gen /\ (Live(w') => Live(w)) /\ rendered' = rendered
    BY <1>3, <1>4, <1>5, <1>7, BecomesSilently
  <2> QED
    BY <1>2, <1>6, <2>1, SilencesOnly
<1>8. CASE v.pos = w.pos + 1
  <2>1. w'.gen = w.gen /\ rendered' = [rendered EXCEPT ![w.gen] = @ + 1]
    <3>1. w'.gen = v.gen
      BY <1>4, <1>5 DEF Becomes, Worklet
    <3>2. rendered[w.gen] = w.pos /\ w.gen \in GenId /\ rendered \in [GenId -> 0 .. Samples]
      BY <1>3 DEF Inv, TypeInv, WorkInv, Typed, Worklet
    <3>3. rendered' = [rendered EXCEPT ![w.gen] = v.pos]
      BY <1>3, <1>4, <1>5 DEF Becomes
    <3> QED
      BY <1>4, <1>8, <3>1, <3>2, <3>3
  <2>2. /\ w.gen \in Nat /\ w.gen \in GenId /\ pageCancelled \in Nat
        /\ \A g \in GenId : g \in Nat
    BY <1>3, GenNumbers DEF Inv, TypeInv, Worklet
  <2>3. w.gen \notin Silent
    BY <1>3, <2>2, SilentNow DEF Ended, Live
  <2>4. \A g \in GenId : g # w.gen => (Ended(g)' <=> Ended(g))
    BY <1>6, <2>1, <2>2 DEF Ended
  <2>5. Silent' \in {Silent, Silent \cup {w.gen}}
    BY <2>2, <2>3, <2>4, SilentNow, SilentNext
  <2> QED
    BY <1>2, <1>3, <2>1, <2>3, <2>5 DEF Audible!Sound, NoGen
<1> QED
  BY <1>4, <1>7, <1>8

(* The session and the socket change nothing that sounds.                  *)
LEMMA NothingSounds ==
  ASSUME UNCHANGED <<browserVars, heard>>
  PROVE  UNCHANGED Audible!vars
<1>1. w' = w /\ rendered' = rendered /\ pageCancelled' = pageCancelled
  BY DEF browserVars
<1>2. Silent' = Silent
  BY <1>1 DEF Silent, Ended
<1> QED
  BY <1>1, <1>2 DEF Audible!vars

(* Words enter the history once their samples have sounded.                *)
LEMMA HearsWords ==
  ASSUME Inv, UNCHANGED browserVars, NEW g \in GenId, NEW k \in 0 .. Words,
         k * WordLength <= rendered[g],
         heard' = [heard EXCEPT ![g] = Larger(@, k)]
  PROVE  [Audible!Next]_(Audible!vars)
<1>1. /\ heard \in [GenId -> 0 .. Words] /\ rendered \in [GenId -> 0 .. Samples]
      /\ heard[g] \in Nat /\ rendered[g] \in Nat /\ k \in Nat
  <2>1. heard \in [GenId -> 0 .. Words] /\ rendered \in [GenId -> 0 .. Samples]
    BY DEF Inv, TypeInv, Typed
  <2>2. heard[g] \in 0 .. Words /\ rendered[g] \in 0 .. Samples
    BY <2>1
  <2> QED
    BY <2>1, <2>2, SamplesNat
<1>2. CASE k <= heard[g]
  <2>1. heard' = heard
    BY <1>1, <1>2 DEF Larger
  <2> QED
    BY <2>1, NothingSounds
<1>3. CASE k > heard[g]
  <2>1. heard' = [heard EXCEPT ![g] = k]
    <3>1. Larger(heard[g], k) = k
      BY <1>1, <1>3 DEF Larger
    <3> QED
      BY <3>1
  <2>2. UNCHANGED <<w.gen, Silent, rendered>>
    BY DEF browserVars, Silent, Ended
  <2>3. k \in 1 .. rendered[g]
    BY <1>1, <1>3, SamplesNat
  <2>4. Audible!Hear(g, k)
    BY <1>3, <2>1, <2>2 DEF Audible!Hear
  <2> QED
    BY <2>3, <2>4 DEF Audible!Next, Audible!GenId, GenId
<1> QED
  BY <1>1, <1>2, <1>3

(* A word that is fully played at a position lies before that position. *)
LEMMA FullyPlayedSounded ==
  ASSUME Inv, NEW g \in GenId, NEW pos \in 0 .. Samples
  PROVE  FullyPlayed(g, pos) * WordLength <= pos
<1>1. published[g] \in 0 .. Words /\ pos \in Nat
  BY SamplesNat DEF Inv, TypeInv
<1> DEFINE d == pos \div WordLength
<1>2. d \in Nat /\ d * 2 <= pos
  BY <1>1, SamplesNat
<1> HIDE DEF d
<1>3. FullyPlayed(g, pos) = IF published[g] = 0 THEN 0
                            ELSE IF published[g] - 1 < d THEN published[g] - 1 ELSE d
  BY DEF FullyPlayed, Smaller, d
<1> QED
  BY <1>1, <1>2, <1>3, SamplesNat

(* A report adds words to the history that have sounded, or none. *)
LEMMA ReceiveImplements ==
  ASSUME Inv, Receive
  PROVE  [Audible!Next]_(Audible!vars)
<1> DEFINE m == Head(up)
<1>1. up # <<>> /\ UNCHANGED browserVars
  BY DEF Receive, ReceiveStarted, ReceiveClock, ReceiveProgress, ReceiveComplete,
         ReceiveAck, Received
<1>2. /\ m.gen \in GenId /\ m.pos \in 0 .. Samples /\ m.pos \in Nat /\ m.word \in 0 .. Words
      /\ m.pos <= rendered[m.gen] /\ rendered[m.gen] \in Nat
      /\ m.kind = "complete" => m.pos = Samples
  BY <1>1, ReportFacts, SamplesNat DEF Inv, TypeInv, Typed
<1>3. FullyPlayed(m.gen, m.pos) \in 0 .. Words /\ FullyPlayed(m.gen, m.pos) * WordLength <= m.pos
  BY <1>2, FullyPlayedType, FullyPlayedSounded
<1>4. CASE heard' = heard
  BY <1>1, <1>4, NothingSounds
<1>5. CASE heard' = [heard EXCEPT ![m.gen] = Larger(@, FullyPlayed(m.gen, m.pos))]
  <2>1. FullyPlayed(m.gen, m.pos) * WordLength <= rendered[m.gen]
    BY <1>2, <1>3, SamplesNat
  <2> QED
    BY <1>1, <1>2, <1>3, <1>5, <2>1, HearsWords
<1>6. CASE /\ heard' = [heard EXCEPT ![m.gen] = Larger(@, m.word)]
           /\ m.word <= FullyPlayed(m.gen, m.pos)
  <2>1. m.word * WordLength <= rendered[m.gen]
    BY <1>2, <1>3, <1>6, SamplesNat
  <2> QED
    BY <1>1, <1>2, <1>6, <2>1, HearsWords
<1>7. CASE m.kind = "complete" /\ heard' = [heard EXCEPT ![m.gen] = Words]
  <2>1. Words * WordLength <= rendered[m.gen] /\ Words \in 0 .. Words
    BY <1>2, <1>7, SamplesNat
  <2>2. heard' = [heard EXCEPT ![m.gen] = Larger(@, Words)]
    <3>1. heard \in [GenId -> 0 .. Words] /\ heard[m.gen] \in 0 .. Words
      BY <1>2 DEF Inv, TypeInv
    <3>2. Larger(heard[m.gen], Words) = Words
      BY <3>1, SamplesNat DEF Larger
    <3> QED
      BY <1>7, <3>2
  <2> QED
    BY <1>1, <1>2, <2>1, <2>2, HearsWords
<1>8. CASE ReceiveStarted \/ ReceiveClock
  BY <1>4, <1>8 DEF ReceiveStarted, ReceiveClock, sessionVars
<1>9. CASE ReceiveProgress
  BY <1>4, <1>6, <1>9 DEF ReceiveProgress
<1>10. CASE ReceiveComplete
  BY <1>4, <1>7, <1>10 DEF ReceiveComplete, Received
<1>11. CASE ReceiveAck
  BY <1>4, <1>5, <1>11 DEF ReceiveAck
<1> QED
  BY <1>8, <1>9, <1>10, <1>11 DEF Receive

(* Nothing has sounded at the start. *)
LEMMA InitImplements == Init => Audible!Init
<1> SUFFICES ASSUME Init PROVE Audible!Init
  OBVIOUS
<1>1. /\ w = Processor(NoGen) /\ pageCancelled = 0
      /\ heard = [g \in GenId |-> 0] /\ rendered = [g \in GenId |-> 0]
  BY DEF Init
<1>2. w.gen = 0 /\ ~w.closed
  BY <1>1 DEF Processor, NoGen
<1>3. \A g \in GenId : g \in Nat /\ g # 0
  BY GenNumbers
<1>4. Silent = {}
  BY <1>1, <1>2, <1>3 DEF Silent, Ended
<1> QED
  BY <1>1, <1>2, <1>4 DEF Audible!Init, Audible!GenId, GenId

(* Every step is a step of AudibleAnswers or changes nothing it speaks of. *)
LEMMA NextImplements ==
  ASSUME Inv, Inv', [Next]_vars
  PROVE  [Audible!Next]_(Audible!vars)
<1>1. CASE DeliverWord
  BY <1>1, DeliverWordImplements DEF Audible!Next, Audible!GenId, GenId
<1>2. CASE DeliverEnd \/ DeliverCommand \/ TakePause
  BY <1>2, DeliverEndImplements, DeliverCommandImplements, TakePauseImplements DEF Audible!Next
<1>3. CASE Render
  BY <1>3, RenderImplements DEF Audible!Next
<1>4. CASE Receive
  BY <1>4, ReceiveImplements
<1>5. CASE Sending \/ User \/ SendCommand \/ \E g \in GenId : StopTimeout(g)
  <2>1. UNCHANGED <<browserVars, heard>>
    BY <1>5 DEF Sending, SynthesizeWord, SendWord, SendEnd, User, StartAnswer, StartOverlap,
                ResumeOverlap, CancelAnswer, SendCommand, StopTimeout
  <2> QED
    BY <2>1, NothingSounds
<1>6. CASE UNCHANGED vars
  BY <1>6, NothingSounds DEF vars, serverVars, sessionVars
<1> QED
  BY <1>1, <1>2, <1>3, <1>4, <1>5, <1>6 DEF Next, Browser, Deliver

(* An answer sounds until it is complete, cancelled or replaced and never   *)
(* again afterwards, and only words rendered to their last sample enter the *)
(* history (the worklet's processor, _played_text_offset and                *)
(* _complete_playback): every behaviour of the protocol is one of           *)
(* AudibleAnswers.                                                          *)
THEOREM ImplementsAudible == Spec => AudibleSpec
<1>1. Inv /\ Inv' /\ [Next]_vars => [Audible!Next]_(Audible!vars)
  BY NextImplements
<1> QED
  BY Invariant, InitImplements, <1>1, PTL DEF Spec, AudibleSpec, Audible!Spec
=============================================================================
