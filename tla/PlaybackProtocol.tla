--------------------------- MODULE PlaybackProtocol ---------------------------
(***************************************************************************)
(* How the session and the browser agree on what of an answer was heard:   *)
(* PlaybackController and PlaybackFlowControl (app/compute/voice/          *)
(* playback.py) and the playback handlers of VoiceSession at one end, the  *)
(* voice page and its AudioWorklet (app/local/web/pages/voice-agent) at    *)
(* the other, one WebSocket between them: ordered and reliable.            *)
(*                                                                         *)
(* The message port between page and worklet is ordered too, so the two    *)
(* are one process here.  A word is one message: its boundary and its PCM, *)
(* WordLength samples long.  Source and output cursors advance together    *)
(* and are one position.  Times are left out: whether a deadline or an age *)
(* limit has passed is a free choice.  Underruns change the sound only.    *)
(* Commands are sent once, so the caches that make repeated commands and   *)
(* acknowledgements harmless are never used and are left out.              *)
(***************************************************************************)
EXTENDS Naturals, Sequences

CONSTANTS
  MaxGenerations,   \* answers before the model stops
  Words,            \* words of an answer
  Window,           \* samples the session may send ahead of playback
  ClockInterval,    \* samples between two clock reports
  MaxOverlaps       \* bound: overlaps before the user stays quiet

WordLength == 2

ASSUME PlaybackAssumption ==
  /\ MaxGenerations \in Nat \ {0}
  /\ Words \in Nat \ {0}
  /\ Window \in Nat /\ Window >= WordLength
  /\ ClockInterval \in Nat \ {0}
  /\ MaxOverlaps \in Nat

GenId == 1 .. MaxGenerations
NoGen == 0
Samples == Words * WordLength
NoBoundary == Samples + 1   \* a position never reached

PlaybackState ==
  {"IDLE", "QUEUED", "SPEAKING", "DUCKING", "PAUSED_BUFFERED", "RESUMING",
   "DRAINING_TO_BOUNDARY", "CANCELLED", "COMPLETED"}
Terminal == {"CANCELLED", "COMPLETED"}

VARIABLES
  active,      \* active_generation of the session
  cancelled, accepts, heard, published,
               \* per answer: cancelled, accepts_playback, words in the
               \* history, words whose boundary the session knows
  publishing,  \* a word waits for transport credit
  endSent,     \* assistant.audio.end of the active answer was sent
  overlap,     \* generation of active_user_overlap
  overlaps,    \* overlaps so far
  outbox,      \* commands issued by the loop, their sends still ahead
  ctl,         \* PlaybackController
  flow,        \* PlaybackFlowControl: generation and credited position
  down, up,    \* the WebSocket
  pageCancelled, \* cancelledGenerationId of the page
  w,           \* the worklet
  rendered     \* samples the browser has rendered of each answer

sessionVars == <<active, cancelled, accepts, heard, published, publishing,
                 endSent, overlap, overlaps>>
serverVars == <<sessionVars, outbox, ctl, flow>>
browserVars == <<pageCancelled, w, rendered>>
vars == <<serverVars, down, up, browserVars>>

Larger(m, n) == IF m > n THEN m ELSE n
Smaller(m, n) == IF m < n THEN m ELSE n

-----------------------------------------------------------------------------
(* The worklet.  An operator takes the processor v and returns the         *)
(* processor after the call; v.out collects the messages it posts.  A      *)
(* pending command is its sequence number, 0 for none.                     *)

Processor(g) ==
  [gen |-> g, state |-> "IDLE", pos |-> 0, queue |-> 0, words |-> 0,
   reported |-> 0, clocked |-> 0, gain |-> "full", ramp |-> "none", duck |-> 0, pause |-> 0,
   stop |-> NoBoundary, resume |-> 0, cancel |-> 0, closed |-> FALSE,
   ended |-> FALSE, started |-> FALSE, out |-> <<>>]

Post(v, m) == [v EXCEPT !.out = Append(@, m)]

Report(kind, v) ==
  [kind |-> kind, gen |-> v.gen, pos |-> v.pos, state |-> v.state,
   word |-> v.reported, seq |-> 0, rejected |-> FALSE]

Acknowledge(v, seq, rejected) ==
  Post(v, [Report("ack", v) EXCEPT !.seq = seq, !.rejected = rejected])

BeginGainRamp(v, target) ==
  [v EXCEPT !.ramp = IF target = v.gain THEN "none" ELSE target]

FinishDuck(v) ==
  IF v.duck = 0 THEN v ELSE Acknowledge([v EXCEPT !.duck = 0], v.duck, FALSE)

FinishCancel_OnlyAcknowledges(v) ==
  IF v.cancel = 0 THEN v ELSE Acknowledge([v EXCEPT !.cancel = 0], v.cancel, FALSE)

FinishCancel(v) ==
  IF v.cancel = 0 THEN v
  ELSE Acknowledge([v EXCEPT !.cancel = 0, !.queue = 0, !.ramp = "none",
                             !.state = "CANCELLED"], v.cancel, FALSE)

(* settleSupersededCommands *)
Settle(v) ==
  LET p == FinishDuck(v)
      q == IF p.pause = 0 THEN p
           ELSE Acknowledge([p EXCEPT !.pause = 0], p.pause, FALSE)
  IN  IF q.resume = 0 THEN q
      ELSE Acknowledge([q EXCEPT !.resume = 0], q.resume, TRUE)

PauseDue(v, deadlineReached) ==
  /\ v.pause # 0
  /\ v.state = "DRAINING_TO_BOUNDARY"
  /\ v.duck = 0
  /\ v.ramp = "none"
  /\ v.pos >= v.stop \/ deadlineReached

PauseIfDue(v, deadlineReached) ==
  IF PauseDue(v, deadlineReached)
  THEN Acknowledge([v EXCEPT !.pause = 0, !.state = "PAUSED_BUFFERED"],
                   v.pause, FALSE)
  ELSE v

(* reportCrossedBoundaries: a word is reported when the next one begins. *)
ReportCrossed(v) ==
  LET begun == Smaller(v.words, v.pos \div WordLength + 1)
  IN  IF v.started /\ v.state \notin Terminal /\ begun > v.reported + 1
      THEN LET u == [v EXCEPT !.reported = @ + 1]
           IN  Post(u, Report("progress", u))
      ELSE v

CompleteIfDrained(v) ==
  IF v.ended /\ v.queue = 0 /\ v.state \notin Terminal
  THEN LET u == [Settle(v) EXCEPT !.state = "COMPLETED", !.ended = FALSE]
       IN  Post(u, Report("complete", u))
  ELSE v

ApplyDuck(v, c) ==
  IF v.state \notin {"SPEAKING", "QUEUED", "DUCKING"}
  THEN Acknowledge(v, c.seq, FALSE)
  ELSE LET u == BeginGainRamp([v EXCEPT !.state = "DUCKING", !.duck = c.seq],
                              "ducked")
       IN  IF u.ramp = "none" THEN FinishDuck(u) ELSE u

ApplyPause(v, c) ==
  IF v.state \notin {"DUCKING", "SPEAKING", "QUEUED", "DRAINING_TO_BOUNDARY"}
  THEN Acknowledge(v, c.seq, FALSE)
  ELSE PauseIfDue([v EXCEPT !.state = "DRAINING_TO_BOUNDARY", !.pause = c.seq,
                            !.stop = c.boundary], FALSE)

ApplyResume(v, c, tooOld) ==
  IF v.state \notin {"PAUSED_BUFFERED", "DUCKING", "DRAINING_TO_BOUNDARY"}
  THEN Acknowledge(v, c.seq, TRUE)
  ELSE IF v.state = "PAUSED_BUFFERED" /\ tooOld
  THEN Acknowledge([v EXCEPT !.queue = 0, !.state = "CANCELLED",
                             !.closed = TRUE], c.seq, TRUE)
  ELSE LET u == IF v.pause = 0 THEN v
                ELSE Acknowledge([v EXCEPT !.pause = 0], v.pause, FALSE)
       IN  BeginGainRamp([u EXCEPT !.state = "RESUMING", !.resume = c.seq],
                         "full")

ApplyCancel_KeepsAudio(v, c) ==
  BeginGainRamp([Settle(v) EXCEPT !.closed = TRUE, !.ended = FALSE,
                                  !.state = "DUCKING"], "silent")

ApplyCancel(v, c) ==
  LET shouldFade ==
        /\ v.queue > 0
        /\ v.state \in {"SPEAKING", "DUCKING", "RESUMING",
                        "DRAINING_TO_BOUNDARY"}
      u == BeginGainRamp([Settle([v EXCEPT !.closed = TRUE, !.ended = FALSE])
                            EXCEPT !.cancel = c.seq, !.state = "DUCKING"],
                         "silent")
  IN  IF shouldFade /\ u.ramp # "none" THEN u ELSE FinishCancel(u)

(* applyCommand: a command for another answer, or for one that has ended,  *)
(* is dropped without an acknowledgement.                                  *)
ApplyCommand(v, c, tooOld) ==
  IF c.gen # v.gen \/ v.closed \/ v.state \in Terminal THEN v
  ELSE IF c.action = "duck" THEN ApplyDuck(v, c)
  ELSE IF c.action = "pause" THEN ApplyPause(v, c)
  ELSE IF c.action = "resume" THEN ApplyResume(v, c, tooOld)
  ELSE ApplyCancel(v, c)

(* replaceGeneration: what was pending for the old answer is forgotten. *)
ReplaceProcessor(v, g) ==
  IF g <= v.gen THEN v ELSE [Processor(g) EXCEPT !.out = FinishCancel(v).out]

(* registerBoundary and enqueueAudio for one word. *)
Enqueue(v, word) ==
  LET start == (word - 1) * WordLength
      u == [v EXCEPT
              !.words = word,
              !.stop = IF v.pause # 0 /\ @ = NoBoundary /\ start >= v.pos
                       THEN start ELSE @]
      r == PauseIfDue(ReportCrossed(u), FALSE)
  IN  IF v.closed \/ v.state \in Terminal THEN v
      ELSE IF start # v.pos + v.queue THEN r
      ELSE [r EXCEPT !.queue = @ + WordLength,
                     !.state = IF @ = "IDLE" THEN "QUEUED" ELSE @]

(* nextGain: the ramp goes on, or ends with this sample. *)
NextGain(v, rampEnds) ==
  IF v.ramp = "none" THEN v
  ELSE IF ~rampEnds THEN [v EXCEPT !.gain = "between"]
  ELSE LET u == FinishCancel(FinishDuck([v EXCEPT !.gain = v.ramp,
                                                  !.ramp = "none"]))
       IN  IF u.state = "RESUMING" /\ u.resume = 0
           THEN [u EXCEPT !.state = "SPEAKING"] ELSE u

FinishResume(v) ==
  IF v.resume = 0 THEN v
  ELSE LET u == Acknowledge([v EXCEPT !.resume = 0], v.resume, FALSE)
       IN  IF u.ramp = "none" THEN [u EXCEPT !.state = "SPEAKING"] ELSE u

(* reportPlaybackClockIfDue: at once when the queue has run dry. *)
ClockDue_IntervalOnly(v) == v.pos - v.clocked >= ClockInterval
ClockDue(v) == v.queue = 0 \/ v.pos - v.clocked >= ClockInterval

ReportClock(v) ==
  IF v.pos # v.clocked /\ ClockDue(v)
  THEN Post([v EXCEPT !.clocked = v.pos], Report("clock", v))
  ELSE v

(* consumeSourceSamples *)
Consume_BeyondQueue(v) == [v EXCEPT !.pos = @ + 1, !.queue = @ - 1]
Consume(v) ==
  IF v.queue = 0 THEN v ELSE [v EXCEPT !.pos = @ + 1, !.queue = @ - 1]

(* process, for a quantum that renders one sample. *)
Rendered(v, rampEnds) ==
  LET r == FinishResume(Consume(NextGain(v, rampEnds)))
      f == IF r.queue = 0 THEN FinishCancel(r) ELSE r
      s == [f EXCEPT !.state = IF @ = "QUEUED" THEN "SPEAKING" ELSE @,
                     !.started = TRUE]
      p == IF f.started THEN s ELSE Post(s, Report("started", s))
  IN  CompleteIfDrained(ReportClock(ReportCrossed(p)))

-----------------------------------------------------------------------------
Init ==
  /\ active = NoGen
  /\ cancelled = [g \in GenId |-> FALSE]
  /\ accepts = [g \in GenId |-> TRUE]
  /\ heard = [g \in GenId |-> 0]
  /\ published = [g \in GenId |-> 0]
  /\ publishing = FALSE
  /\ endSent = FALSE
  /\ overlap = NoGen
  /\ overlaps = 0
  /\ outbox = <<>>
  /\ ctl = [gen |-> NoGen, state |-> "IDLE", browser |-> FALSE, pos |-> 0,
            rate |-> FALSE, seq |-> 1, acked |-> 0]
  /\ flow = [gen |-> NoGen, pos |-> 0]
  /\ down = <<>>
  /\ up = <<>>
  /\ pageCancelled = 0
  /\ w = Processor(NoGen)
  /\ rendered = [g \in GenId |-> 0]

(* The worklet's next state v: its posts go out, its cursor is recorded. *)
Becomes(v) ==
  /\ w' = [v EXCEPT !.out = <<>>]
  /\ up' = up \o v.out
  /\ rendered' = IF v.gen = NoGen THEN rendered
                 ELSE [rendered EXCEPT ![v.gen] = v.pos]

-----------------------------------------------------------------------------
(* The browser. *)

Delivered(kind) == down # <<>> /\ Head(down).kind = kind /\ down' = Tail(down)

DeliverWord ==
  /\ Delivered("word")
  /\ LET m == Head(down)
     IN  Becomes(IF m.gen <= pageCancelled THEN w
                 ELSE LET v == ReplaceProcessor(w, m.gen)
                      IN  IF m.gen = v.gen THEN Enqueue(v, m.word) ELSE v)
  /\ UNCHANGED <<serverVars, pageCancelled>>

DeliverEnd ==
  /\ Delivered("end")
  /\ IF Head(down).gen = w.gen /\ w.state \notin Terminal
     THEN Becomes(CompleteIfDrained([w EXCEPT !.ended = TRUE]))
     ELSE UNCHANGED <<w, up, rendered>>
  /\ UNCHANGED <<serverVars, pageCancelled>>

DeliverCommand ==
  /\ Delivered("command")
  /\ LET c == Head(down)
     IN  /\ pageCancelled' = IF c.action = "cancel"
                             THEN Larger(pageCancelled, c.gen)
                             ELSE pageCancelled
         /\ \E tooOld \in BOOLEAN : Becomes(ApplyCommand(w, c, tooOld))
  /\ UNCHANGED serverVars

Sounding == w.state \notin Terminal \cup {"IDLE", "PAUSED_BUFFERED"}

MustRender == Sounding /\ w.queue > 0 /\ ~PauseDue(w, FALSE)

Render ==
  /\ MustRender
  /\ \E rampEnds \in BOOLEAN :
       /\ rampEnds => w.ramp # "none"
       /\ Becomes(Rendered(w, rampEnds))
  /\ UNCHANGED <<serverVars, down, pageCancelled>>

(* A quantum that begins with the pause. *)
TakePause ==
  /\ Sounding
  /\ PauseDue(w, TRUE)
  /\ Becomes(PauseIfDue(w, TRUE))
  /\ UNCHANGED <<serverVars, down, pageCancelled>>

-----------------------------------------------------------------------------
(* The controller and the recognition loop. *)

(* estimate_state, and the estimate every command leaves behind. *)
Estimated(c, state) == [c EXCEPT !.state = state, !.browser = FALSE]

Command(action, seq, boundary) ==
  [kind |-> "command", gen |-> ctl.gen, action |-> action, seq |-> seq,
   boundary |-> boundary, word |-> 0]

(* replace_generation *)
ReplaceGeneration_KeepsCursor(g) ==
  [ctl EXCEPT !.gen = g, !.state = "QUEUED", !.browser = FALSE, !.seq = 1,
              !.acked = 0]

ReplaceGeneration(g) ==
  [ctl EXCEPT !.gen = g, !.state = "QUEUED", !.pos = 0, !.browser = FALSE,
              !.seq = 1, !.acked = 0]

(* Playback turns to a new answer once earlier ones stopped or timed out. *)
StartAnswer ==
  /\ active = NoGen
  /\ outbox = <<>>
  /\ overlap = NoGen
  /\ ctl.gen < MaxGenerations   \* bound
  /\ \A g \in GenId : cancelled[g] => ~accepts[g]
  /\ active' = ctl.gen + 1
  /\ ctl' = ReplaceGeneration(active')
  /\ flow' = [gen |-> active', pos |-> 0]
  /\ publishing' = FALSE
  /\ endSent' = FALSE
  /\ UNCHANGED <<cancelled, accepts, heard, published, overlap, overlaps,
                 outbox, down, up, browserVars>>

(* _finalize_cancelled_playback gives up waiting for the browser. *)
StopTimeout(g) ==
  /\ active = NoGen
  /\ cancelled[g]
  /\ accepts[g]
  /\ accepts' = [accepts EXCEPT ![g] = FALSE]
  /\ UNCHANGED <<active, cancelled, heard, published, publishing, endSent,
                 overlap, overlaps, outbox, ctl, flow, down, up, browserVars>>

(* _stream_speech takes the next word from the synthesizer. *)
SynthesizeWord ==
  /\ active # NoGen
  /\ ~cancelled[active]
  /\ ~publishing
  /\ published[active] < Words
  /\ publishing' = TRUE
  /\ published' = [published EXCEPT ![active] = @ + 1]
  /\ UNCHANGED <<active, cancelled, accepts, heard, endSent, overlap, overlaps,
                 outbox, ctl, flow, down, up, browserVars>>

(* wait_until_send_allowed, then the send.  The task is cancelled when its *)
(* answer stops being the active one, not before.                          *)
CreditAllows_FromStart(word) == (word - 1) * WordLength <= flow.pos + Window
CreditAllows(word) == word * WordLength <= flow.pos + Window

SendWord ==
  /\ publishing
  /\ active # NoGen
  /\ flow.gen = active
  /\ CreditAllows(published[active])
  /\ publishing' = FALSE
  /\ down' = Append(down, [kind |-> "word", gen |-> active, action |-> "none",
                           seq |-> 0, boundary |-> 0, word |-> published[active]])
  /\ UNCHANGED <<active, cancelled, accepts, heard, published, endSent, overlap,
                 overlaps, outbox, ctl, flow, up, browserVars>>

SendEnd ==
  /\ active # NoGen
  /\ ~publishing
  /\ published[active] = Words
  /\ ~endSent
  /\ endSent' = TRUE
  /\ down' = Append(down, [kind |-> "end", gen |-> active, action |-> "none",
                           seq |-> 0, boundary |-> 0, word |-> 0])
  /\ UNCHANGED <<active, cancelled, accepts, heard, published, publishing,
                 overlap, overlaps, outbox, ctl, flow, up, browserVars>>

(* _start_user_overlap: duck and pause, if the browser's rate is known. *)
NextBoundary ==
  LET begun == ctl.pos \div WordLength + 1
  IN  IF begun < published[active] THEN begun * WordLength
      ELSE NoBoundary

StartOverlap ==
  /\ active # NoGen
  /\ outbox = <<>>
  /\ overlap = NoGen
  /\ overlaps < MaxOverlaps
  /\ ~cancelled[active]
  /\ accepts[active]
  /\ overlap' = active
  /\ overlaps' = overlaps + 1
  /\ IF ctl.rate
     THEN /\ outbox' = <<Command("duck", ctl.seq, 0),
                         Command("pause", ctl.seq + 1, NextBoundary)>>
          /\ ctl' = [Estimated(ctl, "DRAINING_TO_BOUNDARY") EXCEPT !.seq = @ + 2]
     ELSE UNCHANGED <<outbox, ctl>>
  /\ UNCHANGED <<active, cancelled, accepts, heard, published, publishing,
                 endSent, flow, down, up, browserVars>>

(* can_resume; whether the pause has become too old is a free choice. *)
Resumable ==
  ctl.state \in {"DUCKING", "DRAINING_TO_BOUNDARY", "PAUSED_BUFFERED"}

(* The overlap was feedback: _resume_provisional_overlap. *)
ResumeOverlap ==
  /\ overlap # NoGen
  /\ outbox = <<>>
  /\ overlap' = NoGen
  /\ \/ /\ ctl.gen = overlap   \* active when it was looked at, perhaps not now
        /\ Resumable
        /\ outbox' = <<Command("resume", ctl.seq, 0)>>
        /\ ctl' = [Estimated(ctl, "RESUMING") EXCEPT !.seq = @ + 1]
     \/ /\ active = overlap /\ Resumable => ctl.state = "PAUSED_BUFFERED"
        /\ UNCHANGED <<outbox, ctl>>
  /\ UNCHANGED <<active, cancelled, accepts, heard, published, publishing,
                 endSent, overlaps, flow, down, up, browserVars>>

(* The overlap takes the floor, or the user speaks to an answer that no    *)
(* overlap can begin on.                                                   *)
CancelAnswer ==
  /\ outbox = <<>>
  /\ overlap' = NoGen
  /\ IF active = NoGen
     THEN overlap # NoGen /\ UNCHANGED <<cancelled, outbox, ctl>>
     ELSE /\ cancelled' = [cancelled EXCEPT ![active] = TRUE]
          /\ outbox' = <<Command("cancel", ctl.seq, 0)>>
          /\ ctl' = [Estimated(ctl, "CANCELLED") EXCEPT !.seq = @ + 1]
  /\ UNCHANGED <<active, accepts, heard, published, publishing, endSent,
                 overlaps, flow, down, up, browserVars>>

(* _send_event of the loop; after playback.cancel the answer is dropped. *)
SendCommand ==
  /\ outbox # <<>>
  /\ down' = Append(down, Head(outbox))
  /\ outbox' = Tail(outbox)
  /\ IF Head(outbox).action = "cancel"
     THEN /\ active' = NoGen
          /\ flow' = [flow EXCEPT !.gen = NoGen]
     ELSE UNCHANGED <<active, flow>>
  /\ UNCHANGED <<cancelled, accepts, heard, published, publishing, endSent,
                 overlap, overlaps, ctl, up, browserVars>>

-----------------------------------------------------------------------------
(* The receive loop. *)

Received(kind) == up # <<>> /\ Head(up).kind = kind /\ up' = Tail(up)

FromBrowser(state) ==
  [ctl EXCEPT !.state = state, !.pos = Head(up).pos, !.browser = TRUE]

Credited == IF Head(up).gen = flow.gen /\ Head(up).pos >= flow.pos
            THEN [flow EXCEPT !.pos = Head(up).pos] ELSE flow

(* _text_boundary_is_fully_played and _played_text_offset: a word counts   *)
(* once a known next word has begun.                                       *)
FullyPlayed(g, pos) ==
  IF published[g] = 0 THEN 0
  ELSE Smaller(published[g] - 1, pos \div WordLength)

ReceiveStarted ==
  /\ Received("started")
  /\ IF Head(up).gen = ctl.gen
     THEN /\ ctl' = [FromBrowser("SPEAKING") EXCEPT !.rate = TRUE]
          /\ flow' = Credited
     ELSE UNCHANGED <<ctl, flow>>
  /\ UNCHANGED <<sessionVars, outbox, down, browserVars>>

ReceiveClock ==
  /\ Received("clock")
  /\ LET m == Head(up)
     IN  IF /\ accepts[m.gen] /\ m.gen = ctl.gen
            /\ ctl.state \notin Terminal
            /\ m.pos >= ctl.pos
         THEN /\ ctl' = IF ctl.browser THEN FromBrowser(m.state)
                        ELSE [ctl EXCEPT !.pos = m.pos]
              /\ flow' = Credited
         ELSE UNCHANGED <<ctl, flow>>
  /\ UNCHANGED <<sessionVars, outbox, down, browserVars>>

ReceiveProgress ==
  /\ Received("progress")
  /\ LET m == Head(up)
     IN  IF /\ accepts[m.gen] /\ m.gen = ctl.gen
            /\ m.word <= FullyPlayed(m.gen, m.pos)
            /\ ctl.state \notin Terminal
         THEN /\ ctl' = FromBrowser(IF ctl.state = "QUEUED" THEN "SPEAKING"
                                    ELSE ctl.state)
              /\ flow' = Credited
              /\ heard' = [heard EXCEPT ![m.gen] = Larger(@, m.word)]
         ELSE UNCHANGED <<ctl, flow, heard>>
  /\ UNCHANGED <<active, cancelled, accepts, published, publishing, endSent,
                 overlap, overlaps, outbox, down, browserVars>>

(* _complete_playback: an answer heard to its end enters the history whole. *)
ReceiveComplete ==
  /\ Received("complete")
  /\ LET g == Head(up).gen
     IN  IF g = active
         THEN /\ ctl' = FromBrowser("COMPLETED")
              /\ flow' = Credited
              /\ heard' = [heard EXCEPT ![g] = Words]
              /\ accepts' = [accepts EXCEPT ![g] = FALSE]
              /\ active' = NoGen
         ELSE UNCHANGED <<ctl, flow, heard, accepts, active>>
  /\ UNCHANGED <<cancelled, published, publishing, endSent, overlap, overlaps,
                 outbox, down, browserVars>>

(* acknowledge: an acknowledgement of an answer that was replaced, or one  *)
(* overtaken by a later one, is stale.                                     *)
AckApplies_AnyGeneration == Head(up).seq >= ctl.acked /\ Head(up).pos >= ctl.pos
AckApplies ==
  LET m == Head(up)
  IN  m.gen = ctl.gen /\ m.seq >= ctl.acked /\ m.pos >= ctl.pos

(* _acknowledge_playback_command.  A rejected resume cancels the answer    *)
(* without a command; a cancelled worklet settles what was heard.          *)
ReceiveAck ==
  /\ Received("ack")
  /\ LET m == Head(up)
         g == m.gen
         rejects == m.rejected /\ active = g /\ ~cancelled[g]
         stops == m.state = "CANCELLED" /\ (cancelled[g] \/ rejects) /\ accepts[g]
         acked == [ctl EXCEPT !.acked = Larger(@, m.seq)]
         applied == [acked EXCEPT !.state = m.state, !.pos = m.pos,
                                  !.browser = TRUE]
     IN  IF AckApplies
         THEN /\ ctl' = IF rejects THEN Estimated(applied, "CANCELLED")
                        ELSE applied
              /\ cancelled' = [cancelled EXCEPT ![g] = @ \/ rejects]
              /\ active' = IF rejects THEN NoGen ELSE active
              /\ flow' = IF rejects THEN [Credited EXCEPT !.gen = NoGen]
                         ELSE Credited
              /\ heard' = IF stops
                          THEN [heard EXCEPT ![g] = Larger(@, FullyPlayed(g, m.pos))]
                          ELSE heard
              /\ accepts' = [accepts EXCEPT ![g] = @ /\ ~stops]
         ELSE /\ ctl' = IF g = ctl.gen THEN acked ELSE ctl
              /\ UNCHANGED <<cancelled, active, flow, heard, accepts>>
  /\ UNCHANGED <<published, publishing, endSent, overlap, overlaps, outbox,
                 down, browserVars>>

-----------------------------------------------------------------------------
Deliver == DeliverWord \/ DeliverEnd \/ DeliverCommand

Browser == Deliver \/ Render \/ TakePause

Receive == ReceiveStarted \/ ReceiveClock \/ ReceiveProgress
             \/ ReceiveComplete \/ ReceiveAck

Sending == SynthesizeWord \/ SendWord \/ SendEnd

User == StartAnswer \/ StartOverlap \/ ResumeOverlap \/ CancelAnswer

Next ==
  \/ Browser \/ Receive \/ Sending \/ User \/ SendCommand
  \/ \E g \in GenId : StopTimeout(g)

Spec == Init /\ [][Next]_vars
(* What always comes: messages travel, the worklet is called for every     *)
(* quantum while it has samples to render, the synthesizer delivers, an    *)
(* overlap is resolved.  The user may stay quiet.  Weak fairness is        *)
(* written out where the guard is all that enables the action.             *)
FairSpec ==
  /\ Spec
  /\ ([]<>(down = <<>>) \/ []<><<Deliver>>_vars)
  /\ ([]<>(up = <<>>) \/ []<><<Receive>>_vars)
  /\ ([]<>~MustRender \/ []<><<Render>>_vars)
  /\ ([]<>~(Sounding /\ PauseDue(w, FALSE)) \/ []<><<TakePause>>_vars)
  /\ WF_vars(Sending)
  /\ WF_vars(SendCommand)
  /\ WF_vars(ResumeOverlap)

-----------------------------------------------------------------------------
(* What playback guarantees.                                               *)

Message ==
  [kind : {"started", "progress", "clock", "complete", "ack"}, gen : GenId,
   pos : 0 .. Samples, state : PlaybackState, word : 0 .. Words, seq : Nat,
   rejected : BOOLEAN]

(* Every variable has its type. *)
TypeOK ==
  /\ active \in GenId \cup {NoGen}
  /\ cancelled \in [GenId -> BOOLEAN]
  /\ accepts \in [GenId -> BOOLEAN]
  /\ heard \in [GenId -> 0 .. Words]
  /\ published \in [GenId -> 0 .. Words]
  /\ overlap \in GenId \cup {NoGen}
  /\ ctl.gen \in GenId \cup {NoGen}
  /\ ctl.state \in PlaybackState
  /\ ctl.pos \in 0 .. Samples
  /\ w.state \in PlaybackState
  /\ w.gen \in GenId \cup {NoGen}
  /\ w.queue \in 0 .. Samples
  /\ rendered \in [GenId -> 0 .. Samples]
  /\ \A i \in 1 .. Len(up) : up[i] \in Message

(* The controller's cursor, on which boundaries, credit and history are    *)
(* decided, never runs ahead of what the browser rendered of that answer.  *)
CursorTrails == ctl.gen # NoGen => ctl.pos <= rendered[ctl.gen]

(* Whatever commands cross its reports, the cursor of an answer never goes *)
(* back, though record_started, record_progress and record_complete do not *)
(* compare positions.                                                      *)
CursorMonotone ==
  [][ctl'.gen = ctl.gen => ctl'.pos >= ctl.pos]_vars

(* The session never has more than Window samples of the active answer     *)
(* between it and the loudspeaker, though credit travels with the reports. *)
TransportBounded ==
  active # NoGen =>
    LET sent == published[active] - (IF publishing THEN 1 ELSE 0)
    IN  sent * WordLength <= rendered[active] + Window

(* An answer sounds until it is complete, cancelled or replaced, never     *)
(* again afterwards, and only words rendered to their last sample enter    *)
(* the history: the protocol implements AudibleAnswers.                    *)
Ended(g) ==
  \/ g < w.gen
  \/ g = w.gen /\ w.state \in Terminal
  \/ g > w.gen /\ g <= pageCancelled

Silent ==
  {g \in GenId : Ended(g) \/ (g = w.gen /\ w.closed /\ w.cancel = 0)}

Audible == INSTANCE AudibleAnswers WITH sounding <- w.gen, silent <- Silent

AudibleSpec == Audible!Spec

(* A cancel command reaches its end: whatever crosses it on the wire, a    *)
(* moment always comes when no answer whose cancel is on the wire or has   *)
(* been delivered can sound any more.                                      *)
CancelSilences ==
  []<>(\A g \in GenId :
         (\/ g <= pageCancelled
          \/ \E i \in 1 .. Len(down) : down[i].action = "cancel" /\ down[i].gen = g)
           => Ended(g))

(* An answer the user leaves alone is played to its end: credit, clock     *)
(* reports and the transport window never wait for one another.  Once an   *)
(* overlap has begun nothing is claimed: a resume can be lost.             *)
AnswerEnds == []<>(active = NoGen \/ overlaps > 0)

=============================================================================
