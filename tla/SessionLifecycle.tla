--------------------------- MODULE SessionLifecycle ---------------------------
(***************************************************************************)
(* The life of a voice session: the /v1/voice route and its admission      *)
(* (app/compute/main.py, voice/admission.py), VoiceSession.run with its    *)
(* receive, recognition and deadline tasks (voice/session.py), and the     *)
(* closing of speech understanding (voice/speech_understanding.py,         *)
(* voice/nemotron_client.py).                                              *)
(*                                                                         *)
(* asyncio switches tasks at awaits only, so every action runs from one    *)
(* await to the next.  A cancelled task learns of it at its own next step. *)
(* What a chunk of audio makes the session do is a free choice; of a       *)
(* generation only its task is kept, and time is left out: a deadline may  *)
(* pass at any moment.  The client may send, stop or vanish at any time.   *)
(***************************************************************************)
EXTENDS Naturals, Sequences

CONSTANTS
  Clients,      \* connections to the route
  NoClient,
  QueueSize,    \* AUDIO_QUEUE_MAX_CHUNKS
  Backlog,      \* received messages the server buffers for the receive loop
  MaxMessages   \* bound: messages of every client

ASSUME LifecycleAssumption ==
  /\ NoClient \notin Clients
  /\ QueueSize \in Nat
  /\ Backlog \in Nat
  /\ Backlog < QueueSize
  /\ MaxMessages \in [Clients -> Nat]

VARIABLES
  lease,   \* client of the active lease
  s        \* the session of every client

vars == <<lease, s>>

Ended == {"returned", "disconnected", "failed", "cancelled"}

SessionClosureReason ==
  {"NONE", "CLIENT_STOPPED", "CLIENT_DISCONNECTED", "START_TIMEOUT",
   "INACTIVITY_TIMEOUT", "MAXIMUM_DURATION", "SESSION_FAILURE"}

(* Tasks of generations that _close_generation_tasks knows of, and work    *)
(* nobody waits for: an overlap's finalization that was left to itself and *)
(* a generation begun after the others were closed.                        *)
GenerationWork == {"active", "cancelling", "failing", "teardown"}
Unawaited == {"finalization", "late"}

Session ==
  [run : {"waiting", "rejected", "gather", "report", "teardown", "tasks",
          "understanding", "closing", "join", "capture", "done"},
   lifecycle : {"CREATED", "CONNECTED", "READY", "FAILED", "STOPPING", "CLOSED"},
   started : BOOLEAN,
   reason : SessionClosureReason,
   socket : {"open", "gone", "closed"},  \* gone: client, closed: server
   inbox : Seq({"start", "audio", "stop", "disconnect"}),
   messages : Nat,
   queue : Seq({"audio", "none"}),
   receive : {"receive", "putAudio", "putNone"} \cup Ended,
   recognition : {"get", "handle", "cancelSend", "stopping", "commit",
                  "finalizing", "closing", "interrupted"} \cup Ended,
   swallowed : BOOLEAN,                  \* its cancellation has been swallowed
   fate : Ended,                         \* of the recognition task once closed
   deadline : {"watch", "closing", "put"} \cup Ended,
   work : SUBSET (GenerationWork \cup Unawaited),  \* tasks that still run
   closed : BOOLEAN,                     \* speech understanding
   asr : {"idle", "streaming", "dead", "finished"},
   captured : BOOLEAN]

Init ==
  /\ lease = NoClient
  /\ s = [c \in Clients |->
           [run |-> "waiting", lifecycle |-> "CREATED", started |-> FALSE,
            reason |-> "NONE", socket |-> "open", inbox |-> <<>>, messages |-> 0,
            queue |-> <<>>, receive |-> "receive", recognition |-> "get",
            swallowed |-> FALSE, fate |-> "returned", deadline |-> "watch", work |-> {},
            closed |-> FALSE, asr |-> "idle", captured |-> FALSE]]

Running(c) == s[c].run \notin {"waiting", "rejected", "done"}

(* The finally block of run has cancelled the three tasks. *)
Stopped(r) == r.run \notin {"waiting", "rejected", "gather", "report"}
DeadlineCancelled_Never(r) == FALSE
DeadlineCancelled(r) == Stopped(r)

(* The recognition loop has a cancellation before it, or behind it.        *)
Cancelled(r) == Stopped(r) /\ ~r.swallowed

Becomes(c, r) == s' = [s EXCEPT ![c] = r] /\ UNCHANGED lease

-----------------------------------------------------------------------------
(* The route. *)

(* try_acquire *)
LeaseIsFree_Always == TRUE
LeaseIsFree == lease = NoClient

Connect(c) ==
  /\ s[c].run = "waiting"
  /\ IF LeaseIsFree
     THEN /\ lease' = c
          /\ s' = [s EXCEPT ![c].run = "gather", ![c].lifecycle = "CONNECTED"]
     ELSE /\ s' = [s EXCEPT ![c].run = "rejected"]
          /\ UNCHANGED lease

(* run returns or raises; the route releases the lease in any case.  Nobody *)
(* reads the socket, the queue or the reason of a session that has ended,  *)
(* or how its tasks ended.                                                 *)
Settled(task) == IF task \in Ended THEN "returned" ELSE task

LeaveRoute(c, r) ==
  /\ s' = [s EXCEPT ![c] = [r EXCEPT
             !.run = "done", !.socket = "gone", !.inbox = <<>>, !.queue = <<>>,
             !.messages = 0, !.fate = "returned", !.asr = "finished",
             !.reason = "NONE", !.receive = Settled(@), !.recognition = Settled(@),
             !.deadline = Settled(@)]]
  /\ lease' = NoClient

-----------------------------------------------------------------------------
(* The client and the socket. *)

ClientSends(c, m) ==
  LET r == s[c]
  IN  /\ Running(c)
      /\ r.socket = "open" \/ r.deadline = "closing"
      /\ Len(r.inbox) < Backlog
      /\ r.messages < MaxMessages[c]
      /\ Becomes(c, [r EXCEPT !.inbox = Append(@, m), !.messages = @ + 1])

ClientLeaves(c) ==
  /\ Running(c)
  /\ s[c].socket = "open"
  /\ Becomes(c, [s[c] EXCEPT !.socket = "gone", !.inbox = Append(@, "disconnect")])

(* A send on a socket the server closed raises RuntimeError; on one the    *)
(* client left it is lost or raises WebSocketDisconnect, and once the      *)
(* disconnect has been received it always raises.                          *)
SendOutcomes(r) ==
  IF r.socket = "open" THEN {"sent"}
  ELSE IF r.socket = "closed" THEN {"failed"}
  ELSE IF r.receive = "disconnected" THEN {"disconnected", "failed"}
  ELSE {"sent", "disconnected"}

-----------------------------------------------------------------------------
(* The receive loop. *)

ReceiveStart(r, outcome) ==
  IF r.started THEN [r EXCEPT !.receive = "failed"]
  ELSE IF r.lifecycle # "CONNECTED"   \* _transition_session refuses
  THEN [r EXCEPT !.started = TRUE, !.receive = "failed"]
  ELSE [r EXCEPT !.started = TRUE, !.lifecycle = "READY",
                 !.receive = IF outcome = "sent" THEN "receive" ELSE outcome]

Received(r, m, outcome) ==
  IF m = "disconnect" THEN [r EXCEPT !.receive = "disconnected"]
  ELSE IF m = "start" THEN ReceiveStart(r, outcome)
  ELSE IF m = "stop"
  THEN [r EXCEPT !.reason = "CLIENT_STOPPED", !.receive = "putNone"]
  ELSE [r EXCEPT !.receive = IF r.started THEN "putAudio" ELSE "failed"]

Receive(c) ==
  LET r == s[c]
  IN  /\ Running(c) /\ ~Stopped(r)
      /\ r.receive = "receive"
      /\ r.inbox # <<>>
      /\ \E outcome \in SendOutcomes(r) :
           Becomes(c, Received([r EXCEPT !.inbox = Tail(@)], Head(r.inbox), outcome))

(* audio_queue.put: full while the recognition loop is behind. *)
HasRoom_Always(r) == TRUE
HasRoom(r) == Len(r.queue) < QueueSize

ReceivePuts(c) ==
  LET r == s[c]
  IN  /\ ~Stopped(r)
      /\ HasRoom(r)
      /\ \/ /\ r.receive = "putAudio"
            /\ Becomes(c, [r EXCEPT !.queue = Append(@, "audio"), !.receive = "receive"])
         \/ /\ r.receive = "putNone"
            /\ Becomes(c, [r EXCEPT !.queue = Append(@, "none"), !.receive = "returned"])

ReceiveCancelled(c) ==
  /\ Stopped(s[c])
  /\ s[c].receive \notin Ended
  /\ Becomes(c, [s[c] EXCEPT !.receive = "cancelled"])

-----------------------------------------------------------------------------
(* The recognition loop. *)

(* Its finally block closes speech understanding, unless run has. *)
Finally(r, fate) ==
  IF r.closed THEN [r EXCEPT !.recognition = fate]
  ELSE [r EXCEPT !.closed = TRUE, !.recognition = "closing", !.fate = fate]

Take(c) ==
  LET r == [s[c] EXCEPT !.queue = Tail(@)]
  IN  /\ ~Cancelled(s[c])
      /\ s[c].recognition = "get"
      /\ s[c].queue # <<>>
      /\ Becomes(c, IF Head(s[c].queue) = "none" THEN Finally(r, "returned")
                    ELSE [r EXCEPT !.recognition = "handle"])

(* A server event. *)
Sent(r, outcome, then) ==
  IF outcome = "sent" THEN then ELSE Finally(r, outcome)

(* Audio goes to the speech recogniser and a finished turn is taken from   *)
(* it, with a wait for the predictor if that is at work; a worker that     *)
(* died, or does not answer, or speech understanding that run has closed,  *)
(* fails the session.                                                      *)
Recognised(r) ==
  IF r.asr = "dead" \/ r.closed
  THEN {Finally([r EXCEPT !.asr = "finished"], "failed")}
  ELSE {[r EXCEPT !.asr = "streaming", !.recognition = "get"],
        [r EXCEPT !.asr = "idle", !.recognition = "get"]}
       \cup (IF r.asr = "streaming" THEN {[r EXCEPT !.recognition = "stopping"]}
             ELSE {})

(* A new generation waits for the teardown of the one before.  When the    *)
(* session has stopped, its tasks have been closed before.                 *)
Answered(r) ==
  IF r.work \cap {"active", "teardown", "late"} # {} THEN {}
  ELSE {[r EXCEPT !.work = @ \cup {IF Stopped(r) THEN "late" ELSE "active"},
                  !.recognition = "get"]}

CancelBegun(r) ==
  IF "active" \notin r.work THEN {}
  ELSE {[r EXCEPT !.work = (@ \ {"active"}) \cup {"cancelling"},
                  !.recognition = "cancelSend"]}

(* The transcript of feedback is finalized by a task of its own. *)
OverlapFinalizing(r) ==
  IF r.asr # "streaming" \/ r.closed THEN {}
  ELSE {[r EXCEPT !.asr = "finished", !.work = @ \cup {"finalization"},
                  !.recognition = "finalizing"]}

(* A commit sends before it answers; what else the audio leads to may be   *)
(* done without a send.                                                    *)
Handle(c) ==
  LET r == s[c]
  IN  /\ ~Cancelled(r)
      /\ \/ /\ r.recognition = "handle"
            /\ \E q \in Recognised(r) \cup Answered(r) \cup CancelBegun(r)
                        \cup OverlapFinalizing(r) : Becomes(c, q)
         \/ /\ r.recognition \in {"handle", "commit"}
            /\ \E outcome \in SendOutcomes(r),
                 q \in Answered(r) \cup {[r EXCEPT !.recognition = "get"]} :
                 Becomes(c, Sent(r, outcome, q))

(* The cancelled predictor has ended.  _stop_optional_predictor suppresses *)
(* its CancelledError, and with it a cancellation of the loop: the turn is *)
(* finalized as if there had been none.                                    *)
PredictorStopped(c) ==
  LET r == [s[c] EXCEPT !.swallowed = Stopped(s[c])]
  IN  /\ r.recognition = "stopping"
      /\ \/ /\ r.asr = "streaming"
            /\ Becomes(c, [r EXCEPT !.asr = "idle", !.recognition = "commit"])
         \/ /\ r.asr = "dead" \/ r.closed
            /\ Becomes(c, Finally([r EXCEPT !.asr = "finished"], "failed"))

(* _request_generation_cancellation, after the playback.cancel event. *)
CancelSent(c) ==
  LET r == s[c]
  IN  /\ ~Cancelled(r)
      /\ r.recognition = "cancelSend"
      /\ \E outcome \in SendOutcomes(r) :
           Becomes(c, Sent(r, outcome,
             [r EXCEPT !.recognition = "get",
                       !.work = (@ \ {"cancelling"}) \cup {"teardown"}]))

(* The task ends, which is sent, or fails; or the grace passes, the loop   *)
(* resumes the answer and that send raises, which leaves the task to       *)
(* itself.                                                                 *)
OverlapFinalized(c) ==
  LET r == s[c]
      finalized == [r EXCEPT !.work = @ \ {"finalization"}]
      resolved == [finalized EXCEPT !.asr = "idle"]
  IN  /\ ~Cancelled(r)
      /\ r.recognition = "finalizing"
      /\ \/ \E outcome \in SendOutcomes(r) :
              Becomes(c, Sent(resolved, outcome,
                              [resolved EXCEPT !.recognition = "get"]))
         \/ Becomes(c, Finally(finalized, "failed"))
         \/ /\ SendOutcomes(r) # {"sent"}
            /\ Becomes(c, Finally(r, "failed"))

(* close: the worker is asked for the rest of the transcript. *)
UnderstandingClosed(c) ==
  LET r == s[c]
  IN  /\ r.recognition = "closing"
      /\ Becomes(c, [r EXCEPT
           !.recognition = IF r.asr = "dead" THEN "failed" ELSE r.fate])

(* Once the grace has passed the loop awaits the finalization itself, whose *)
(* wait for the predictor can swallow the cancellation as well.            *)
RecognitionCancelled(c) ==
  LET r == s[c]
  IN  /\ Cancelled(r)
      /\ \/ /\ r.recognition \in {"get", "handle", "cancelSend", "commit"}
            /\ Becomes(c, Finally(r, "cancelled"))
         \/ /\ r.recognition = "finalizing"
            /\ \/ Becomes(c, Finally([r EXCEPT !.work = @ \ {"finalization"}],
                                     "cancelled"))
               \/ Becomes(c, [r EXCEPT !.swallowed = TRUE])
         \/ /\ r.recognition = "interrupted"
            /\ Becomes(c, [r EXCEPT !.recognition = "cancelled"])

WorkerDies(c) ==
  /\ Running(c)
  /\ s[c].asr = "streaming"
  /\ Becomes(c, [s[c] EXCEPT !.asr = "dead"])

-----------------------------------------------------------------------------
(* Generation tasks, and a finalization nobody waits for. *)

GenerationEnds(c, t) ==
  /\ t \in s[c].work
  /\ t = "finalization" => s[c].recognition # "finalizing"
  /\ Becomes(c, [s[c] EXCEPT !.work = @ \ {t}])

(* _handle_generation_failure gives the answer up before it has reported. *)
GenerationFails(c) ==
  /\ "active" \in s[c].work
  /\ Becomes(c, [s[c] EXCEPT !.work = (@ \ {"active"}) \cup {"failing"}])

-----------------------------------------------------------------------------
(* _enforce_session_deadlines *)

DeadlineReason(r) ==
  IF r.started THEN {"INACTIVITY_TIMEOUT", "MAXIMUM_DURATION"}
  ELSE {"START_TIMEOUT", "MAXIMUM_DURATION"}

(* websocket.close; on a socket the client left it may raise. *)
SocketClosed_NotAtAll(r) == {[r EXCEPT !.deadline = "closing"]}
SocketClosed(r) ==
  IF r.socket = "open"
  THEN {[r EXCEPT !.socket = "closed", !.deadline = "closing"]}
  ELSE {[r EXCEPT !.deadline = "put"], [r EXCEPT !.deadline = "failed"]}

DeadlineReached(c) ==
  LET r == s[c]
  IN  /\ Running(c) /\ ~DeadlineCancelled(r)
      /\ r.deadline = "watch"
      /\ \E reason \in DeadlineReason(r) :
           \E q \in SocketClosed([r EXCEPT !.reason = reason]) : Becomes(c, q)

(* The closing handshake: what the client sent before is still delivered. *)
SocketDown(c) ==
  LET r == s[c]
  IN  /\ ~DeadlineCancelled(r)
      /\ r.deadline = "closing"
      /\ Becomes(c, [r EXCEPT !.deadline = "put",
           !.inbox = IF r.socket = "closed" THEN Append(@, "disconnect") ELSE @])

DeadlinePuts(c) ==
  LET r == s[c]
  IN  /\ ~DeadlineCancelled(r)
      /\ r.deadline = "put"
      /\ HasRoom(r)
      /\ Becomes(c, [r EXCEPT !.queue = Append(@, "none"), !.deadline = "returned"])

DeadlineTaskCancelled(c) ==
  /\ DeadlineCancelled(s[c])
  /\ s[c].deadline \notin Ended
  /\ Becomes(c, [s[c] EXCEPT !.deadline = "cancelled"])

-----------------------------------------------------------------------------
(* run: gather, the except clauses and the finally block. *)

(* The finally block up to its first await. *)
Stopping(r) ==
  [r EXCEPT !.lifecycle = "STOPPING", !.run = "teardown",
            !.recognition = IF @ = "closing" THEN "interrupted" ELSE @,
            !.work = IF "active" \in @ THEN (@ \ {"active"}) \cup {"teardown"} ELSE @]

Disconnected(r) ==
  [r EXCEPT !.reason = IF @ = "NONE" THEN "CLIENT_DISCONNECTED" ELSE @]

GatherEnds(c) ==
  LET r == s[c]
      tasks == {r.receive, r.recognition}
  IN  /\ r.run = "gather"
      /\ \/ tasks = {"returned"} /\ Becomes(c, Stopping(r))
         \/ "disconnected" \in tasks /\ Becomes(c, Stopping(Disconnected(r)))
         \/ /\ "failed" \in tasks
            /\ Becomes(c, [r EXCEPT !.lifecycle = "FAILED",
                                    !.reason = "SESSION_FAILURE", !.run = "report"])

Reported(c) == s[c].run = "report" /\ Becomes(c, Stopping(s[c]))

TeardownEnds(c) ==
  /\ s[c].run = "teardown"
  /\ "teardown" \notin s[c].work
  /\ Becomes(c, [s[c] EXCEPT !.run = "tasks"])

(* _close_generation_tasks *)
TasksClosed_Unawaited(r) == TRUE
TasksClosed(r) == r.work \cap GenerationWork = {}

GenerationTasksEnd(c) ==
  /\ s[c].run = "tasks"
  /\ TasksClosed(s[c])
  /\ Becomes(c, [s[c] EXCEPT !.run = "understanding"])

CloseUnderstanding(c) ==
  LET r == s[c]
  IN  /\ r.run = "understanding"
      /\ Becomes(c, IF r.closed THEN [r EXCEPT !.run = "join"]
                    ELSE [r EXCEPT !.closed = TRUE, !.run = "closing"])

(* An error of the close leaves the finally block. *)
RunCloses(c) ==
  LET r == s[c]
  IN  /\ r.run = "closing"
      /\ IF r.asr = "dead" THEN LeaveRoute(c, r)
         ELSE Becomes(c, [r EXCEPT !.run = "join"])

Joined_WithoutRecognition(r) == r.receive \in Ended /\ r.deadline \in Ended
Joined(r) ==
  /\ r.receive \in Ended
  /\ r.recognition \in Ended
  /\ r.deadline \in Ended

TasksJoined(c) ==
  /\ s[c].run = "join"
  /\ Joined(s[c])
  /\ Becomes(c, [s[c] EXCEPT !.run = "capture"])

(* _save_session_capture swallows its own errors; then run returns. *)
SaveCapture(c) ==
  /\ s[c].run = "capture"
  /\ LeaveRoute(c, [s[c] EXCEPT !.captured = s[c].started, !.lifecycle = "CLOSED"])

-----------------------------------------------------------------------------
ClientStep(c) ==
  ClientLeaves(c) \/ \E m \in {"start", "audio", "stop"} : ClientSends(c, m)

ReceiveTask(c) == Receive(c) \/ ReceivePuts(c) \/ ReceiveCancelled(c)

RecognitionTask(c) ==
  Take(c) \/ Handle(c) \/ PredictorStopped(c) \/ CancelSent(c)
    \/ OverlapFinalized(c) \/ UnderstandingClosed(c) \/ RecognitionCancelled(c)

GenerationTask(c) ==
  GenerationFails(c)
    \/ \E t \in GenerationWork \cup Unawaited : GenerationEnds(c, t)

DeadlineTask(c) ==
  DeadlineReached(c) \/ SocketDown(c) \/ DeadlinePuts(c) \/ DeadlineTaskCancelled(c)

RunTask(c) ==
  GatherEnds(c) \/ Reported(c) \/ TeardownEnds(c) \/ GenerationTasksEnd(c)
    \/ CloseUnderstanding(c) \/ RunCloses(c) \/ TasksJoined(c) \/ SaveCapture(c)

Next ==
  \E c \in Clients :
    \/ Connect(c) \/ ClientStep(c) \/ WorkerDies(c)
    \/ ReceiveTask(c) \/ RecognitionTask(c) \/ GenerationTask(c)
    \/ DeadlineTask(c) \/ RunTask(c)

Spec == Init /\ [][Next]_vars

(* The event loop runs every task that is ready, every generation task     *)
(* ends, and the maximum duration passes.                                  *)
FairSpec ==
  /\ Spec
  /\ \A c \in Clients :
       /\ WF_vars(ReceiveTask(c))
       /\ WF_vars(RecognitionTask(c))
       /\ WF_vars(GenerationTask(c))
       /\ WF_vars(DeadlineTask(c))
       /\ WF_vars(RunTask(c))

-----------------------------------------------------------------------------
(* What the lifecycle guarantees.                                          *)

(* Every variable has its type; the audio queue keeps its bound whichever  *)
(* of the receive and deadline tasks fills it.                             *)
TypeOK ==
  /\ lease \in Clients \cup {NoClient}
  /\ s \in [Clients -> Session]
  /\ \A c \in Clients : Len(s[c].queue) <= QueueSize

(* Two sessions never run at once, and a session never runs on a lease     *)
(* that the route of another has released.                                 *)
OneSession == \A c \in Clients : Running(c) => lease = c

(* A session is admitted only when the models are free again: whatever     *)
(* ended the one before, its generation tasks have ended and its speech    *)
(* understanding is closed, even if the close failed and run raised, or    *)
(* the loop went on after its cancellation was swallowed.  Only the        *)
(* unawaited may outlive it: the finalization of an overlap, and the       *)
(* answer to a turn that such a loop committed.                            *)
HoldsModels(r) ==
  \/ r.work \cap GenerationWork # {}
  \/ r.recognition \in {"closing", "interrupted", "finalizing"}
  \/ ~r.closed

ModelsAreFree ==
  \A c, d \in Clients : Running(c) /\ s[d].run = "done" => ~HoldsModels(s[d])

(* A session that is CLOSED has left no task of its own or of a generation *)
(* behind, and its capture was written after the last of them.             *)
ClosedIsQuiet ==
  \A c \in Clients :
    s[c].lifecycle = "CLOSED" =>
      /\ {s[c].receive, s[c].recognition, s[c].deadline} \subseteq Ended
      /\ s[c].work \cap GenerationWork = {}
      /\ s[c].captured = s[c].started

(* The closure reason that the capture and the log carry is settled when   *)
(* shutdown begins: a deadline that passes during it changes nothing.      *)
ReasonIsFinal ==
  [][\A c \in Clients :
       s[c].lifecycle = "STOPPING" /\ s'[c].run # "done" =>
         s'[c].reason = s[c].reason]_vars

(* A loop whose cancellation was swallowed listens to a client that        *)
(* nobody receives from any more; run has joined it, or raised before.     *)
Stranded(c) ==
  /\ s[c].run \in {"join", "done"}
  /\ s[c].swallowed
  /\ s[c].recognition = "get"
  /\ s[c].queue = <<>>

(* Every session ends, and all its tasks with it, unless it is stranded:   *)
(* the deadline reaches a receive loop that waits for the client, a        *)
(* recognition loop that waits for audio and one that waits for room in    *)
(* the queue.                                                              *)
SessionEnds ==
  \A c \in Clients :
    s[c].run = "gather" ~>
      \/ /\ s[c].run = "done"
         /\ {s[c].receive, s[c].recognition, s[c].deadline} \subseteq Ended
      \/ Stranded(c)

(* docs/streaming-voice-agent-prototype.md: "Admission is released in the  *)
(* route's finally block on normal stop, disconnect, or failure."  Once    *)
(* run has begun to stop the session, the lease is released.               *)
AdmissionReleased == \A c \in Clients : Stopped(s[c]) ~> lease # c
=============================================================================
