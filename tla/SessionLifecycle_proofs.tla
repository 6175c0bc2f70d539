------------------------ MODULE SessionLifecycle_proofs ------------------------
(***************************************************************************)
(* One session at a time, and none that has ended still holds the models,  *)
(* for any number of clients, messages and queue lengths.                  *)
(*                                                                         *)
(* Every action replaces one session record, so the proof is about the     *)
(* record it puts there.  OneSession is inductive with the types: Keeps,   *)
(* when a task's step leaves run alone, and Good, when the step is run's   *)
(* own.  The models and the tasks are then followed by Phase, which says   *)
(* what each place of run implies about them.                              *)
(***************************************************************************)
EXTENDS SessionLifecycle, TLAPS

IInv == TypeOK /\ OneSession

Good(r) == r \in Session /\ Len(r.queue) <= QueueSize

Keeps(r, q) == Good(q) /\ q.run = r.run

-----------------------------------------------------------------------------
(* What is enough for a step that changes one session. *)

LEMMA SessionIsGood ==
  ASSUME NEW c \in Clients, IInv
  PROVE  Good(s[c])
  BY DEF IInv, TypeOK, Good

LEMMA TaskStep ==
  ASSUME NEW c \in Clients, NEW q, IInv, Keeps(s[c], q), Becomes(c, q)
  PROVE  IInv'
  BY DEF IInv, TypeOK, OneSession, Keeps, Good, Becomes, Running

LEMMA RunStep ==
  ASSUME NEW c \in Clients, NEW q, IInv, Running(c), Good(q), Becomes(c, q)
  PROVE  IInv'
  BY DEF IInv, TypeOK, OneSession, Good, Becomes, Running

LEMMA KeepsChains ==
  ASSUME NEW r, NEW p, NEW q, Keeps(r, p), Keeps(p, q)
  PROVE  Keeps(r, q)
  BY DEF Keeps

LEMMA FinallyKeeps ==
  ASSUME NEW r, Good(r), NEW fate \in Ended
  PROVE  Keeps(r, Finally(r, fate))
<1>1. CASE r.closed
  BY <1>1 DEF Finally, Keeps, Good, Session
<1>2. CASE ~r.closed
  BY <1>2 DEF Finally, Keeps, Good, Session
<1> QED
  BY <1>1, <1>2

LEMMA SentKeeps ==
  ASSUME NEW r, Good(r), NEW outcome \in {"sent", "disconnected", "failed"},
         NEW then, Keeps(r, then)
  PROVE  Keeps(r, Sent(r, outcome, then))
  BY FinallyKeeps DEF Sent, Ended

LEMMA OutcomesOfSend ==
  ASSUME NEW r
  PROVE  SendOutcomes(r) \subseteq {"sent", "disconnected", "failed"}
  BY DEF SendOutcomes

-----------------------------------------------------------------------------
(* The client, the receive loop and the audio queue. *)

Inbox == Seq({"start", "audio", "stop", "disconnect"})

LEMMA ClientKeepsOneSession ==
  ASSUME NEW c \in Clients, IInv, ClientStep(c)
  PROVE  IInv'
<1> DEFINE r == s[c]
<1>1. Good(r)
  BY SessionIsGood
<1>2. CASE ClientLeaves(c)
  <2> DEFINE i == Append(r.inbox, "disconnect")
  <2>1. i \in Inbox
    BY <1>1 DEF Good, Session, Inbox
  <2> HIDE DEF i
  <2>2. Keeps(r, [r EXCEPT !.socket = "gone", !.inbox = i])
    BY <1>1, <2>1 DEF Keeps, Good, Session, Inbox
  <2> QED
    BY <1>2, <2>2, TaskStep DEF ClientLeaves, i
<1>3. ASSUME NEW m \in {"start", "audio", "stop"}, ClientSends(c, m)
      PROVE  IInv'
  <2> DEFINE i == Append(r.inbox, m)
             n == r.messages + 1
  <2>1. i \in Inbox /\ n \in Nat
    BY <1>1 DEF Good, Session, Inbox
  <2> HIDE DEF i, n
  <2>2. Keeps(r, [r EXCEPT !.inbox = i, !.messages = n])
    BY <1>1, <2>1 DEF Keeps, Good, Session, Inbox
  <2> QED
    BY <1>3, <2>2, TaskStep DEF ClientSends, i, n
<1> QED
  BY <1>2, <1>3 DEF ClientStep

LEMMA ReadyKeeps ==
  ASSUME NEW r, Good(r), NEW then \in {"receive"} \cup Ended
  PROVE  Keeps(r, [r EXCEPT !.started = TRUE, !.lifecycle = "READY", !.receive = then])
  BY DEF Keeps, Good, Session

LEMMA ReceivedKeeps ==
  ASSUME NEW r, Good(r), NEW m \in {"start", "audio", "stop", "disconnect"},
         NEW outcome \in {"sent", "disconnected", "failed"}
  PROVE  Keeps(r, Received(r, m, outcome))
<1>1. CASE m = "start"
  <2>1. Keeps(r, [r EXCEPT !.receive = "failed"])
    BY DEF Keeps, Good, Session, Ended
  <2>2. Keeps(r, [r EXCEPT !.started = TRUE, !.receive = "failed"])
    BY DEF Keeps, Good, Session, Ended
  <2> DEFINE then == IF outcome = "sent" THEN "receive" ELSE outcome
  <2>3. then \in {"receive"} \cup Ended
    BY DEF Ended
  <2> HIDE DEF then
  <2>4. Keeps(r, [r EXCEPT !.started = TRUE, !.lifecycle = "READY", !.receive = then])
    BY <2>3, ReadyKeeps
  <2> QED
    BY <1>1, <2>1, <2>2, <2>4 DEF Received, ReceiveStart, then
<1>2. CASE m = "disconnect"
  BY <1>2 DEF Received, Keeps, Good, Session, Ended
<1>3. CASE m = "stop"
  BY <1>3 DEF Received, Keeps, Good, Session, SessionClosureReason
<1>4. CASE m = "audio"
  <2> DEFINE then == IF r.started THEN "putAudio" ELSE "failed"
  <2>1. then \in {"putAudio", "failed"}
    OBVIOUS
  <2> HIDE DEF then
  <2>2. Keeps(r, [r EXCEPT !.receive = then])
    BY <2>1 DEF Keeps, Good, Session, Ended
  <2> QED
    BY <1>4, <2>2 DEF Received, then
<1> QED
  BY <1>1, <1>2, <1>3, <1>4

(* A task that puts into the queue has found room. *)
LEMMA PutKeeps ==
  ASSUME NEW r, Good(r), HasRoom(r), NEW item \in {"audio", "none"}
  PROVE  Keeps(r, [r EXCEPT !.queue = Append(@, item)])
<1> DEFINE items == Append(r.queue, item)
<1>1. items \in Seq({"audio", "none"}) /\ Len(items) <= QueueSize
  BY LifecycleAssumption DEF Good, HasRoom, Session
<1> HIDE DEF items
<1>2. Keeps(r, [r EXCEPT !.queue = items])
  BY <1>1 DEF Keeps, Good, Session
<1> QED
  BY <1>2 DEF items

LEMMA ReceiveMoves ==
  ASSUME NEW r, Good(r), NEW then \in {"receive", "returned", "cancelled"}
  PROVE  Keeps(r, [r EXCEPT !.receive = then])
  BY DEF Keeps, Good, Session, Ended

LEMMA ReceiveKeepsOneSession ==
  ASSUME NEW c \in Clients, IInv, ReceiveTask(c)
  PROVE  IInv'
<1> DEFINE r == s[c]
<1>1. Good(r)
  BY SessionIsGood
<1>2. CASE Receive(c)
  <2> DEFINE t == Tail(r.inbox)
             p == [r EXCEPT !.inbox = t]
  <2>1. r.inbox \in Inbox /\ r.inbox # <<>>
    BY <1>1, <1>2 DEF Receive, Good, Session, Inbox
  <2>2. t \in Inbox /\ Head(r.inbox) \in {"start", "audio", "stop", "disconnect"}
    BY <2>1 DEF Inbox
  <2>3. Keeps(r, p)
    <3> HIDE DEF t
    <3> QED
      BY <1>1, <2>2 DEF Keeps, Good, Session, Inbox
  <2>4. PICK outcome \in SendOutcomes(r) : Becomes(c, Received(p, Head(r.inbox), outcome))
    BY <1>2 DEF Receive
  <2>5. Keeps(p, Received(p, Head(r.inbox), outcome))
    BY <2>2, <2>3, ReceivedKeeps, OutcomesOfSend DEF Keeps
  <2> QED
    BY <2>3, <2>4, <2>5, KeepsChains, TaskStep
<1>3. CASE ReceivePuts(c)
  <2>1. ASSUME NEW item \in {"audio", "none"}, NEW then \in {"receive", "returned"},
               Becomes(c, [r EXCEPT !.queue = Append(@, item), !.receive = then])
        PROVE  IInv'
    <3> DEFINE p == [r EXCEPT !.queue = Append(@, item)]
    <3>1. Keeps(r, p)
      BY <1>1, <1>3, PutKeeps DEF ReceivePuts
    <3>2. Keeps(p, [p EXCEPT !.receive = then])
      BY <3>1, ReceiveMoves DEF Keeps
    <3> QED
      BY <2>1, <3>1, <3>2, KeepsChains, TaskStep
  <2> QED
    BY <1>3, <2>1 DEF ReceivePuts
<1>4. CASE ReceiveCancelled(c)
  <2>1. Keeps(r, [r EXCEPT !.receive = "cancelled"])
    BY <1>1, ReceiveMoves
  <2> QED
    BY <1>4, <2>1, TaskStep DEF ReceiveCancelled
<1> QED
  BY <1>2, <1>3, <1>4 DEF ReceiveTask

-----------------------------------------------------------------------------
(* The recognition loop and the tasks it starts. *)

Work == SUBSET (GenerationWork \cup Unawaited)
Recognition ==
  {"get", "handle", "cancelSend", "stopping", "commit", "finalizing", "closing",
   "interrupted"} \cup Ended

LEMMA RecognitionMoves ==
  ASSUME NEW r, Good(r), NEW then \in Recognition
  PROVE  Keeps(r, [r EXCEPT !.recognition = then])
  BY DEF Keeps, Good, Session, Recognition

LEMMA WorkKeeps ==
  ASSUME NEW r, Good(r), NEW tasks \in Work
  PROVE  Keeps(r, [r EXCEPT !.work = tasks])
  BY DEF Keeps, Good, Session, Work

LEMMA WorkMoves ==
  ASSUME NEW r, Good(r), NEW tasks \in Work, NEW then \in Recognition
  PROVE  Keeps(r, [r EXCEPT !.work = tasks, !.recognition = then])
  BY DEF Keeps, Good, Session, Work, Recognition

LEMMA SwallowedKeeps ==
  ASSUME NEW r, Good(r), NEW swallowed \in BOOLEAN
  PROVE  Keeps(r, [r EXCEPT !.swallowed = swallowed])
  BY DEF Keeps, Good, Session

LEMMA AsrKeeps ==
  ASSUME NEW r, Good(r), NEW asr \in {"idle", "streaming", "dead", "finished"}
  PROVE  Keeps(r, [r EXCEPT !.asr = asr])
<1> DEFINE q == [r EXCEPT !.asr = asr]
<1>1. q \in Session
  BY Z3 DEF Good, Session
<1>2. q.queue = r.queue /\ q.run = r.run
  BY DEF Good, Session
<1> HIDE DEF q
<1>3. Keeps(r, q)
  BY <1>1, <1>2 DEF Keeps, Good
<1> QED
  BY <1>3 DEF q

LEMMA AsrMoves ==
  ASSUME NEW r, Good(r), NEW asr \in {"idle", "streaming", "dead", "finished"},
         NEW then \in Recognition
  PROVE  Keeps(r, [r EXCEPT !.asr = asr, !.recognition = then])
<1> DEFINE p == [r EXCEPT !.asr = asr]
<1>1. Keeps(r, p)
  BY AsrKeeps
<1>2. Keeps(p, [p EXCEPT !.recognition = then])
  BY <1>1, RecognitionMoves DEF Keeps
<1> QED
  BY <1>1, <1>2, KeepsChains

LEMMA FinalizationKeeps ==
  ASSUME NEW r, Good(r), NEW tasks \in Work
  PROVE  Keeps(r, [r EXCEPT !.asr = "finished", !.work = tasks,
                            !.recognition = "finalizing"])
<1> DEFINE p == [r EXCEPT !.asr = "finished"]
<1>1. Keeps(r, p)
  BY AsrKeeps
<1>2. Keeps(p, [p EXCEPT !.work = tasks, !.recognition = "finalizing"])
  BY <1>1, WorkMoves DEF Keeps, Recognition
<1> QED
  BY <1>1, <1>2, KeepsChains

LEMMA WorkOf ==
  ASSUME NEW r, Good(r)
  PROVE  r.work \in Work
  BY DEF Good, Session, Work

LEMMA HandledKeeps ==
  ASSUME NEW r, Good(r),
         NEW q \in Recognised(r) \cup Answered(r) \cup CancelBegun(r)
                    \cup OverlapFinalizing(r)
  PROVE  Keeps(r, q)
<1>1. CASE q \in Recognised(r)
  <2>1. Keeps(r, [r EXCEPT !.asr = "finished"])
    BY AsrKeeps
  <2>2. Keeps(r, Finally([r EXCEPT !.asr = "finished"], "failed"))
    BY <2>1, FinallyKeeps, KeepsChains DEF Keeps, Ended
  <2>3. /\ Keeps(r, [r EXCEPT !.asr = "streaming", !.recognition = "get"])
        /\ Keeps(r, [r EXCEPT !.asr = "idle", !.recognition = "get"])
        /\ Keeps(r, [r EXCEPT !.recognition = "stopping"])
    BY AsrMoves, RecognitionMoves DEF Recognition
  <2> QED
    BY <1>1, <2>2, <2>3 DEF Recognised
<1>2. CASE q \in Answered(r)
  <2> DEFINE task == IF Stopped(r) THEN "late" ELSE "active"
  <2>1. r.work \cup {task} \in Work
    BY WorkOf DEF Work, GenerationWork, Unawaited
  <2> HIDE DEF task
  <2>2. Keeps(r, [r EXCEPT !.work = r.work \cup {task}, !.recognition = "get"])
    BY <2>1, WorkMoves DEF Recognition
  <2> QED
    BY <1>2, <2>2 DEF Answered, task
<1>3. CASE q \in CancelBegun(r)
  <2>1. (r.work \ {"active"}) \cup {"cancelling"} \in Work
    BY WorkOf DEF Work, GenerationWork
  <2>2. Keeps(r, [r EXCEPT !.work = (@ \ {"active"}) \cup {"cancelling"},
                           !.recognition = "cancelSend"])
    BY <2>1, WorkMoves DEF Recognition
  <2> QED
    BY <1>3, <2>2 DEF CancelBegun
<1>4. CASE q \in OverlapFinalizing(r)
  <2>1. r.work \cup {"finalization"} \in Work
    BY WorkOf DEF Work, Unawaited
  <2>2. Keeps(r, [r EXCEPT !.asr = "finished", !.work = @ \cup {"finalization"},
                           !.recognition = "finalizing"])
    BY <2>1, FinalizationKeeps
  <2> QED
    BY <1>4, <2>2 DEF OverlapFinalizing
<1> QED
  BY <1>1, <1>2, <1>3, <1>4

LEMMA RecognitionKeepsOneSession ==
  ASSUME NEW c \in Clients, IInv, RecognitionTask(c)
  PROVE  IInv'
<1> DEFINE r == s[c]
<1>1. Good(r)
  BY SessionIsGood
<1>2. CASE Take(c)
  <2> DEFINE items == Tail(r.queue)
             p == [r EXCEPT !.queue = items]
  <2>1. r.queue \in Seq({"audio", "none"}) /\ r.queue # <<>> /\ Len(r.queue) <= QueueSize
    BY <1>1, <1>2 DEF Take, Good, Session
  <2>2. items \in Seq({"audio", "none"}) /\ Len(items) <= QueueSize
    BY <2>1, LifecycleAssumption
  <2>3. Keeps(r, p)
    <3> HIDE DEF items
    <3> QED
      BY <1>1, <2>2 DEF Keeps, Good, Session
  <2>4. /\ Keeps(p, Finally(p, "returned"))
        /\ Keeps(p, [p EXCEPT !.recognition = "handle"])
    BY <2>3, FinallyKeeps, RecognitionMoves DEF Keeps, Ended, Recognition
  <2> QED
    BY <1>2, <2>3, <2>4, KeepsChains, TaskStep DEF Take
<1>3. CASE Handle(c)
  <2>1. ASSUME NEW q \in Recognised(r) \cup Answered(r) \cup CancelBegun(r)
                          \cup OverlapFinalizing(r), Becomes(c, q)
        PROVE  IInv'
    BY <1>1, <2>1, HandledKeeps, TaskStep
  <2>2. ASSUME NEW outcome \in SendOutcomes(r),
               NEW q \in Answered(r) \cup {[r EXCEPT !.recognition = "get"]},
               Becomes(c, Sent(r, outcome, q))
        PROVE  IInv'
    <3>1. Keeps(r, [r EXCEPT !.recognition = "get"])
      BY <1>1, RecognitionMoves DEF Recognition
    <3>2. Keeps(r, q)
      BY <1>1, <2>2, <3>1, HandledKeeps
    <3> QED
      BY <1>1, <2>2, <3>2, SentKeeps, OutcomesOfSend, TaskStep
  <2> QED
    BY <1>3, <2>1, <2>2 DEF Handle
<1>4. CASE CancelSent(c)
  <2> DEFINE q == [r EXCEPT !.recognition = "get",
                            !.work = (@ \ {"cancelling"}) \cup {"teardown"}]
  <2>1. (r.work \ {"cancelling"}) \cup {"teardown"} \in Work
    BY <1>1, WorkOf DEF Work, GenerationWork
  <2>2. Keeps(r, q)
    <3> DEFINE p == [r EXCEPT !.recognition = "get"]
    <3>1. Keeps(r, p) /\ p.work = r.work
      BY <1>1, RecognitionMoves DEF Recognition, Good, Session
    <3>2. Keeps(p, [p EXCEPT !.work = (@ \ {"cancelling"}) \cup {"teardown"}])
      BY <2>1, <3>1, WorkKeeps DEF Keeps
    <3> QED
      BY <3>1, <3>2, KeepsChains
  <2>3. PICK outcome \in SendOutcomes(r) : Becomes(c, Sent(r, outcome, q))
    BY <1>4 DEF CancelSent
  <2> QED
    BY <1>1, <2>2, <2>3, SentKeeps, OutcomesOfSend, TaskStep
<1>5. CASE OverlapFinalized(c)
  <2> DEFINE p == [r EXCEPT !.work = @ \ {"finalization"}]
             d == [p EXCEPT !.asr = "idle"]
             g == [d EXCEPT !.recognition = "get"]
  <2>1. r.work \ {"finalization"} \in Work
    BY <1>1, WorkOf DEF Work
  <2>2. Keeps(r, p)
    BY <1>1, <2>1, WorkKeeps
  <2>3. \/ \E outcome \in SendOutcomes(r) : Becomes(c, Sent(d, outcome, g))
        \/ Becomes(c, Finally(p, "failed"))
        \/ Becomes(c, Finally(r, "failed"))
    BY <1>5 DEF OverlapFinalized
  <2> HIDE DEF p
  <2>4. Keeps(r, d)
    BY <2>2, AsrKeeps, KeepsChains DEF Keeps
  <2> HIDE DEF d
  <2>5. Keeps(d, g)
    BY <2>4, RecognitionMoves DEF Keeps, Recognition
  <2> HIDE DEF g
  <2>6. ASSUME NEW outcome \in SendOutcomes(r)
        PROVE  Keeps(r, Sent(d, outcome, g))
    BY <2>4, <2>5, SentKeeps, OutcomesOfSend, KeepsChains DEF Keeps
  <2>7. Keeps(r, Finally(p, "failed")) /\ Keeps(r, Finally(r, "failed"))
    BY <1>1, <2>2, FinallyKeeps, KeepsChains DEF Keeps, Ended
  <2> QED
    BY <2>3, <2>6, <2>7, TaskStep
<1>6. CASE UnderstandingClosed(c)
  <2> DEFINE then == IF r.asr = "dead" THEN "failed" ELSE r.fate
  <2>1. then \in Recognition
    BY <1>1 DEF Good, Session, Recognition, Ended
  <2> HIDE DEF then
  <2>2. Keeps(r, [r EXCEPT !.recognition = then])
    BY <1>1, <2>1, RecognitionMoves
  <2> QED
    BY <1>6, <2>2, TaskStep DEF UnderstandingClosed, then
<1>7. CASE RecognitionCancelled(c)
  <2> DEFINE p == [r EXCEPT !.work = @ \ {"finalization"}]
  <2>1. r.work \ {"finalization"} \in Work
    BY <1>1, WorkOf DEF Work
  <2>2. Keeps(r, p)
    BY <1>1, <2>1, WorkKeeps
  <2>3. /\ Keeps(p, Finally(p, "cancelled"))
        /\ Keeps(r, Finally(r, "cancelled"))
        /\ Keeps(r, [r EXCEPT !.recognition = "cancelled"])
        /\ Keeps(r, [r EXCEPT !.swallowed = TRUE])
    BY <1>1, <2>2, RecognitionMoves, SwallowedKeeps, FinallyKeeps
    DEF Keeps, Recognition, Ended
  <2> QED
    BY <1>7, <2>2, <2>3, KeepsChains, TaskStep DEF RecognitionCancelled
<1>8. CASE PredictorStopped(c)
  <2> DEFINE swallowed == Stopped(r)
             p == [r EXCEPT !.swallowed = swallowed]
             d == [p EXCEPT !.asr = "finished"]
  <2>1. Keeps(r, p)
    <3>1. swallowed \in BOOLEAN
      BY DEF Stopped
    <3> HIDE DEF swallowed
    <3> QED
      BY <1>1, <3>1, SwallowedKeeps
  <2>2. \/ Becomes(c, [p EXCEPT !.asr = "idle", !.recognition = "commit"])
        \/ Becomes(c, Finally(d, "failed"))
    BY <1>8 DEF PredictorStopped
  <2> HIDE DEF p
  <2>3. Keeps(r, [p EXCEPT !.asr = "idle", !.recognition = "commit"])
    BY <2>1, AsrMoves, KeepsChains DEF Keeps, Recognition
  <2>4. Keeps(r, d)
    BY <2>1, AsrKeeps, KeepsChains DEF Keeps
  <2> HIDE DEF d
  <2>5. Keeps(r, Finally(d, "failed"))
    BY <2>4, FinallyKeeps, KeepsChains DEF Keeps, Ended
  <2> QED
    BY <2>2, <2>3, <2>5, TaskStep
<1> QED
  BY <1>2, <1>3, <1>4, <1>5, <1>6, <1>7, <1>8 DEF RecognitionTask

-----------------------------------------------------------------------------
(* The worker, the generation tasks and the deadlines. *)

LEMMA WorkersKeepOneSession ==
  ASSUME NEW c \in Clients, IInv, WorkerDies(c) \/ GenerationTask(c)
  PROVE  IInv'
<1> DEFINE r == s[c]
<1>1. Good(r)
  BY SessionIsGood
<1>2. CASE WorkerDies(c)
  <2>1. Keeps(r, [r EXCEPT !.asr = "dead"])
    BY <1>1, AsrKeeps
  <2> QED
    BY <1>2, <2>1, TaskStep DEF WorkerDies
<1>3. ASSUME NEW t, GenerationEnds(c, t)
      PROVE  IInv'
  <2>1. r.work \ {t} \in Work
    BY <1>1, WorkOf DEF Work
  <2>2. Keeps(r, [r EXCEPT !.work = @ \ {t}])
    BY <1>1, <2>1, WorkKeeps
  <2> QED
    BY <1>3, <2>2, TaskStep DEF GenerationEnds
<1>4. CASE GenerationFails(c)
  <2>1. (r.work \ {"active"}) \cup {"failing"} \in Work
    BY <1>1, WorkOf DEF Work, GenerationWork
  <2>2. Keeps(r, [r EXCEPT !.work = (@ \ {"active"}) \cup {"failing"}])
    BY <1>1, <2>1, WorkKeeps
  <2> QED
    BY <1>4, <2>2, TaskStep DEF GenerationFails
<1> QED
  BY <1>2, <1>3, <1>4 DEF GenerationTask

LEMMA DeadlineMoves ==
  ASSUME NEW r, Good(r), NEW then \in {"watch", "closing", "put"} \cup Ended
  PROVE  Keeps(r, [r EXCEPT !.deadline = then])
  BY DEF Keeps, Good, Session

LEMMA SocketKeeps ==
  ASSUME NEW r, Good(r)
  PROVE  Keeps(r, [r EXCEPT !.socket = "closed"])
  BY DEF Keeps, Good, Session

LEMMA SocketClosedKeeps ==
  ASSUME NEW r, Good(r), NEW q \in SocketClosed(r)
  PROVE  Keeps(r, q)
<1> DEFINE p == [r EXCEPT !.socket = "closed"]
<1>1. Keeps(r, p)
  BY SocketKeeps
<1>2. Keeps(p, [p EXCEPT !.deadline = "closing"])
  BY <1>1, DeadlineMoves DEF Keeps
<1>3. Keeps(r, [r EXCEPT !.socket = "closed", !.deadline = "closing"])
  BY <1>1, <1>2, KeepsChains
<1>4. /\ Keeps(r, [r EXCEPT !.deadline = "put"])
      /\ Keeps(r, [r EXCEPT !.deadline = "failed"])
  BY DeadlineMoves DEF Ended
<1> QED
  BY <1>3, <1>4 DEF SocketClosed

LEMMA ReasonKeeps ==
  ASSUME NEW r, Good(r), NEW reason \in SessionClosureReason
  PROVE  Keeps(r, [r EXCEPT !.reason = reason])
  BY DEF Keeps, Good, Session

LEMMA InboxKeeps ==
  ASSUME NEW r, Good(r), NEW items \in Inbox
  PROVE  Keeps(r, [r EXCEPT !.inbox = items])
  BY DEF Keeps, Good, Session, Inbox

LEMMA DeadlineKeepsOneSession ==
  ASSUME NEW c \in Clients, IInv, DeadlineTask(c)
  PROVE  IInv'
<1> DEFINE r == s[c]
<1>1. Good(r)
  BY SessionIsGood
<1>2. CASE DeadlineReached(c)
  <2>1. PICK reason \in DeadlineReason(r) :
          \E q \in SocketClosed([r EXCEPT !.reason = reason]) : Becomes(c, q)
    BY <1>2 DEF DeadlineReached
  <2> DEFINE p == [r EXCEPT !.reason = reason]
  <2>2. Keeps(r, p)
    BY <1>1, <2>1, ReasonKeeps DEF DeadlineReason, SessionClosureReason
  <2>3. \A q \in SocketClosed(p) : Keeps(p, q)
    BY <2>2, SocketClosedKeeps DEF Keeps
  <2> QED
    BY <2>1, <2>2, <2>3, KeepsChains, TaskStep
<1>3. CASE SocketDown(c)
  <2> DEFINE p == [r EXCEPT !.deadline = "put"]
             items == IF r.socket = "closed" THEN Append(r.inbox, "disconnect") ELSE r.inbox
  <2>1. Keeps(r, p) /\ p.inbox = r.inbox
    BY <1>1, DeadlineMoves DEF Good, Session
  <2>2. items \in Inbox
    BY <1>1 DEF Good, Session, Inbox
  <2>3. Becomes(c, [p EXCEPT !.inbox = items])
    BY <1>3, <2>1 DEF SocketDown
  <2> HIDE DEF items
  <2>4. Keeps(p, [p EXCEPT !.inbox = items])
    BY <2>1, <2>2, InboxKeeps DEF Keeps
  <2> QED
    BY <2>1, <2>3, <2>4, KeepsChains, TaskStep
<1>4. CASE DeadlinePuts(c)
  <2> DEFINE p == [r EXCEPT !.queue = Append(@, "none")]
  <2>1. Keeps(r, p)
    BY <1>1, <1>4, PutKeeps DEF DeadlinePuts
  <2>2. Keeps(p, [p EXCEPT !.deadline = "returned"])
    BY <2>1, DeadlineMoves DEF Keeps, Ended
  <2> QED
    BY <1>4, <2>1, <2>2, KeepsChains, TaskStep DEF DeadlinePuts
<1>5. CASE DeadlineTaskCancelled(c)
  <2>1. Keeps(r, [r EXCEPT !.deadline = "cancelled"])
    BY <1>1, DeadlineMoves DEF Ended
  <2> QED
    BY <1>5, <2>1, TaskStep DEF DeadlineTaskCancelled
<1> QED
  BY <1>2, <1>3, <1>4, <1>5 DEF DeadlineTask

-----------------------------------------------------------------------------
(* The route and run: only here does run change, and with it the lease. *)

LEMMA RunMoves ==
  ASSUME NEW r, Good(r),
         NEW then \in {"gather", "report", "teardown", "tasks", "understanding",
                       "closing", "join", "capture"}
  PROVE  Good([r EXCEPT !.run = then])
  BY DEF Good, Session

LEMMA LifecycleKeeps ==
  ASSUME NEW r, Good(r),
         NEW state \in {"CREATED", "CONNECTED", "READY", "FAILED", "STOPPING", "CLOSED"}
  PROVE  Keeps(r, [r EXCEPT !.lifecycle = state])
  BY DEF Keeps, Good, Session

LEMMA ConnectKeepsOneSession ==
  ASSUME NEW c \in Clients, IInv, Connect(c)
  PROVE  IInv'
<1> DEFINE r == s[c]
<1>1. Good(r)
  BY SessionIsGood
<1>2. CASE LeaseIsFree
  <2> DEFINE q == [r EXCEPT !.run = "gather", !.lifecycle = "CONNECTED"]
  <2>1. Good(q) /\ q.run = "gather"
    <3> DEFINE p == [r EXCEPT !.run = "gather"]
    <3>1. Good(p) /\ p.run = "gather"
      BY <1>1 DEF Good, Session
    <3>2. Keeps(p, [p EXCEPT !.lifecycle = "CONNECTED"])
      BY <3>1, LifecycleKeeps
    <3> QED
      BY <3>1, <3>2 DEF Keeps
  <2>2. s' = [s EXCEPT ![c] = q] /\ lease' = c
    BY <1>2 DEF Connect
  <2>3. \A d \in Clients : ~Running(d)
    BY <1>2, LifecycleAssumption DEF IInv, OneSession, LeaseIsFree
  <2> HIDE DEF q
  <2> QED
    BY <2>1, <2>2, <2>3 DEF IInv, TypeOK, OneSession, Good, Running
<1>3. CASE ~LeaseIsFree
  <2> DEFINE q == [r EXCEPT !.run = "rejected"]
  <2>1. Good(q) /\ q.run = "rejected"
    BY <1>1 DEF Good, Session
  <2>2. Becomes(c, q)
    BY <1>3 DEF Connect, Becomes
  <2> HIDE DEF q
  <2> QED
    BY <2>1, <2>2 DEF IInv, TypeOK, OneSession, Good, Becomes, Running
<1> QED
  BY <1>2, <1>3

(* What LeaveRoute empties. *)
LEMMA EmptiesKeep ==
  ASSUME NEW r, Good(r)
  PROVE  /\ Good([r EXCEPT !.run = "done"])
         /\ Good([r EXCEPT !.socket = "gone"])
         /\ Good([r EXCEPT !.inbox = <<>>])
         /\ Good([r EXCEPT !.queue = <<>>])
         /\ Good([r EXCEPT !.messages = 0])
         /\ Good([r EXCEPT !.fate = "returned"])
<1>1. Good([r EXCEPT !.run = "done"])
  BY DEF Good, Session
<1>2. Good([r EXCEPT !.socket = "gone"])
  BY DEF Good, Session
<1>3. Good([r EXCEPT !.inbox = <<>>])
  <2>1. <<>> \in Inbox
    BY DEF Inbox
  <2> QED
    BY <2>1, InboxKeeps DEF Keeps
<1>4. Good([r EXCEPT !.queue = <<>>])
  <2> DEFINE q == [r EXCEPT !.queue = <<>>]
  <2>1. q.queue = <<>>
    BY DEF Good, Session
  <2>2. ASSUME NEW items \in Seq({"audio", "none"})
        PROVE  [r EXCEPT !.queue = items] \in Session
    BY DEF Good, Session
  <2>3. q \in Session
    <3>1. <<>> \in Seq({"audio", "none"})
      OBVIOUS
    <3> QED
      BY <2>2, <3>1
  <2> HIDE DEF q
  <2>4. Good(q)
    BY <2>1, <2>3, LifecycleAssumption DEF Good
  <2> QED
    BY <2>4 DEF q
<1>5. Good([r EXCEPT !.messages = 0])
  <2>1. ASSUME NEW n \in Nat
        PROVE  Good([r EXCEPT !.messages = n])
    BY DEF Good, Session
  <2> QED
    BY <2>1
<1>6. Good([r EXCEPT !.fate = "returned"])
  BY DEF Good, Session, Ended
<1> QED
  BY <1>1, <1>2, <1>3, <1>4, <1>5, <1>6

LEMMA ReceiveKeeps ==
  ASSUME NEW r, Good(r), NEW then \in {"receive", "putAudio", "putNone"} \cup Ended
  PROVE  Good([r EXCEPT !.receive = then])
  BY DEF Good, Session

(* The lease that a route releases is its own: no other session runs.      *)
LEMMA LeavingKeepsOneSession ==
  ASSUME NEW c \in Clients, NEW r, IInv, Running(c), Good(r), LeaveRoute(c, r)
  PROVE  IInv'
<1> DEFINE q == [r EXCEPT
             !.run = "done", !.socket = "gone", !.inbox = <<>>, !.queue = <<>>,
             !.messages = 0, !.fate = "returned", !.asr = "finished",
             !.reason = "NONE", !.receive = Settled(@), !.recognition = Settled(@),
             !.deadline = Settled(@)]
<1>1. /\ Settled(r.receive) \in {"receive", "putAudio", "putNone"} \cup Ended
      /\ Settled(r.recognition) \in Recognition
      /\ Settled(r.deadline) \in {"watch", "closing", "put"} \cup Ended
  BY DEF Good, Session, Settled, Recognition, Ended
<1>2. Good(q)
  <2> DEFINE a == [r EXCEPT !.run = "done"]
             b == [a EXCEPT !.socket = "gone"]
             d == [b EXCEPT !.inbox = <<>>]
             e == [d EXCEPT !.queue = <<>>]
             f == [e EXCEPT !.messages = 0]
             g == [f EXCEPT !.fate = "returned"]
             h == [g EXCEPT !.asr = "finished"]
             i == [h EXCEPT !.reason = "NONE"]
             j == [i EXCEPT !.receive = Settled(r.receive)]
             k == [j EXCEPT !.recognition = Settled(r.recognition)]
             l == [k EXCEPT !.deadline = Settled(r.deadline)]
  <2>1. Good(a)
    BY EmptiesKeep
  <2>2. Good(b)
    <3> HIDE DEF a
    <3> QED
      BY <2>1, EmptiesKeep
  <2>3. Good(d)
    <3> HIDE DEF b
    <3> QED
      BY <2>2, EmptiesKeep
  <2>4. Good(e)
    <3> HIDE DEF d
    <3> QED
      BY <2>3, EmptiesKeep
  <2>5. Good(f)
    <3> HIDE DEF e
    <3> QED
      BY <2>4, EmptiesKeep
  <2>6. Good(g)
    <3> HIDE DEF f
    <3> QED
      BY <2>5, EmptiesKeep
  <2>7. Good(h)
    <3> HIDE DEF g
    <3> QED
      BY <2>6, AsrKeeps DEF Keeps
  <2>8. Good(i)
    <3> HIDE DEF h
    <3> QED
      BY <2>7, ReasonKeeps DEF Keeps, SessionClosureReason
  <2>9. Good(j)
    <3> HIDE DEF i
    <3> QED
      BY <1>1, <2>8, ReceiveKeeps
  <2>10. Good(k)
    <3> HIDE DEF j
    <3> QED
      BY <1>1, <2>9, RecognitionMoves DEF Keeps
  <2>11. Good(l)
    <3> HIDE DEF k
    <3> QED
      BY <1>1, <2>10, DeadlineMoves DEF Keeps
  <2> QED
    BY <2>11
<1>3. q.run = "done"
  BY DEF Good, Session
<1>4. s' = [s EXCEPT ![c] = q] /\ lease' = NoClient
  BY DEF LeaveRoute
<1>5. \A d \in Clients : Running(d) => d = c
  BY DEF IInv, OneSession
<1> HIDE DEF q
<1> QED
  BY <1>2, <1>3, <1>4, <1>5 DEF IInv, TypeOK, OneSession, Good, Running

LEMMA StoppingIsGood ==
  ASSUME NEW r, Good(r)
  PROVE  Good(Stopping(r))
<1> DEFINE recognition == IF r.recognition = "closing" THEN "interrupted" ELSE r.recognition
           work == IF "active" \in r.work THEN (r.work \ {"active"}) \cup {"teardown"}
                   ELSE r.work
           p == [r EXCEPT !.lifecycle = "STOPPING"]
           t == [p EXCEPT !.run = "teardown"]
<1>1. recognition \in Recognition /\ work \in Work
  BY DEF Good, Session, Recognition, Work, GenerationWork
<1>2. Good(p)
  BY LifecycleKeeps DEF Keeps
<1>3. Good(t)
  BY <1>2, RunMoves
<1>4. t.recognition = r.recognition /\ t.work = r.work
  BY DEF Good, Session
<1>5. Stopping(r) = [t EXCEPT !.recognition = recognition, !.work = work]
  BY <1>4 DEF Stopping
<1> HIDE DEF t, recognition, work
<1>6. Good([t EXCEPT !.work = work, !.recognition = recognition])
  BY <1>1, <1>3, WorkMoves DEF Keeps
<1> QED
  BY <1>5, <1>6

LEMMA RunKeepsOneSession ==
  ASSUME NEW c \in Clients, IInv, RunTask(c)
  PROVE  IInv'
<1> DEFINE r == s[c]
<1>1. Good(r)
  BY SessionIsGood
<1>2. Running(c)
  BY DEF RunTask, GatherEnds, Reported, TeardownEnds, GenerationTasksEnd,
         CloseUnderstanding, RunCloses, TasksJoined, SaveCapture, Running
<1>3. ASSUME NEW then \in {"gather", "report", "teardown", "tasks", "understanding",
                           "closing", "join", "capture"},
             Becomes(c, [r EXCEPT !.run = then])
      PROVE  IInv'
  BY <1>1, <1>2, <1>3, RunMoves, RunStep
<1>4. CASE GatherEnds(c)
  <2>1. Good(Disconnected(r))
    <3> DEFINE reason == IF r.reason = "NONE" THEN "CLIENT_DISCONNECTED" ELSE r.reason
    <3>1. reason \in SessionClosureReason
      BY <1>1 DEF Good, Session, SessionClosureReason
    <3> HIDE DEF reason
    <3>2. Good([r EXCEPT !.reason = reason])
      BY <1>1, <3>1, ReasonKeeps DEF Keeps
    <3> QED
      BY <3>2 DEF Disconnected, reason
  <2>2. Good(Stopping(r)) /\ Good(Stopping(Disconnected(r)))
    BY <1>1, <2>1, StoppingIsGood
  <2>3. Good([r EXCEPT !.lifecycle = "FAILED", !.reason = "SESSION_FAILURE",
                       !.run = "report"])
    <3> DEFINE p == [r EXCEPT !.lifecycle = "FAILED"]
               q == [p EXCEPT !.reason = "SESSION_FAILURE"]
    <3>1. Good(p)
      BY <1>1, LifecycleKeeps DEF Keeps
    <3>2. Good(q)
      BY <3>1, ReasonKeeps DEF Keeps, SessionClosureReason
    <3>3. Good([q EXCEPT !.run = "report"])
      BY <3>2, RunMoves
    <3> QED
      BY <3>3
  <2> QED
    BY <1>2, <1>4, <2>2, <2>3, RunStep DEF GatherEnds
<1>5. CASE Reported(c)
  BY <1>1, <1>2, <1>5, StoppingIsGood, RunStep DEF Reported
<1>6. CASE TeardownEnds(c) \/ GenerationTasksEnd(c) \/ TasksJoined(c)
  BY <1>3, <1>6 DEF TeardownEnds, GenerationTasksEnd, TasksJoined
<1>7. CASE CloseUnderstanding(c)
  <2>1. Good([r EXCEPT !.closed = TRUE])
    BY <1>1 DEF Good, Session
  <2>2. Good([r EXCEPT !.closed = TRUE, !.run = "closing"])
    <3> DEFINE p == [r EXCEPT !.closed = TRUE]
    <3>1. Good([p EXCEPT !.run = "closing"])
      BY <2>1, RunMoves
    <3> QED
      BY <3>1
  <2> QED
    BY <1>2, <1>3, <1>7, <2>2, RunStep DEF CloseUnderstanding
<1>8. CASE RunCloses(c)
  BY <1>1, <1>2, <1>3, <1>8, LeavingKeepsOneSession DEF RunCloses
<1>9. CASE SaveCapture(c)
  <2> DEFINE p == [r EXCEPT !.captured = r.started]
             q == [p EXCEPT !.lifecycle = "CLOSED"]
  <2>1. Good(p)
    BY <1>1 DEF Good, Session
  <2>2. Good(q)
    BY <2>1, LifecycleKeeps DEF Keeps
  <2>3. LeaveRoute(c, q)
    BY <1>9 DEF SaveCapture
  <2> QED
    BY <1>2, <2>2, <2>3, LeavingKeepsOneSession
<1> QED
  BY <1>4, <1>5, <1>6, <1>7, <1>8, <1>9 DEF RunTask

-----------------------------------------------------------------------------
LEMMA InitInvariant == Init => IInv
<1> SUFFICES ASSUME Init PROVE IInv
  OBVIOUS
<1>1. s \in [Clients -> Session]
  BY DEF Init, Session, Ended, SessionClosureReason
<1>2. \A c \in Clients : s[c].queue = <<>> /\ s[c].run = "waiting"
  BY DEF Init
<1> QED
  BY <1>1, <1>2, LifecycleAssumption DEF Init, IInv, TypeOK, OneSession, Running

LEMMA StepInvariant == IInv /\ [Next]_vars => IInv'
<1> SUFFICES ASSUME IInv, [Next]_vars PROVE IInv'
  OBVIOUS
<1>1. CASE UNCHANGED vars
  BY <1>1 DEF IInv, TypeOK, OneSession, Running, vars
<1>2. CASE Next
  BY <1>2, ConnectKeepsOneSession, ClientKeepsOneSession, WorkersKeepOneSession,
     ReceiveKeepsOneSession, RecognitionKeepsOneSession, DeadlineKeepsOneSession,
     RunKeepsOneSession
  DEF Next
<1> QED
  BY <1>1, <1>2

(* Whatever the clients and the tasks do, the sessions keep their type and *)
(* no session runs without the lease.                                      *)
THEOREM Invariance == Spec => []IInv
  BY InitInvariant, StepInvariant, PTL DEF Spec

(* Every field of a session keeps its type, and its audio queue stays      *)
(* within AUDIO_QUEUE_MAX_CHUNKS whichever task puts into it.              *)
THEOREM TypeCorrect == Spec => []TypeOK
<1>1. IInv => TypeOK
  BY DEF IInv
<1> QED
  BY <1>1, Invariance, PTL

(* The route admits one session at a time and releases no lease but its    *)
(* own, for any number of connections.                                     *)
THEOREM SessionsAreAlone == Spec => []OneSession
<1>1. IInv => OneSession
  BY DEF IInv
<1> QED
  BY <1>1, Invariance, PTL

-----------------------------------------------------------------------------
(* What the models and the tasks of a session are doing, by the phase that *)
(* run is in.  A loop that lost its cancellation has nothing to cancel any *)
(* more (2, 3), so it brings back no task that run has waited for.  One    *)
(* that closes speech understanding is never joined with a close of run's  *)
(* own (5), and one that waits for a finalization leaves no worker that    *)
(* could fail that close (6): so a close that raises cannot return from    *)
(* run past either of them (8).                                            *)
Phase(r) ==
  /\ r.run \in {"understanding", "closing", "join", "capture", "done"} =>
       r.work \cap GenerationWork = {}
  /\ Stopped(r) => "active" \notin r.work
  /\ r.swallowed => Stopped(r) /\ r.recognition # "cancelSend"
  /\ r.run \in {"closing", "join", "capture", "done"} => r.closed
  /\ r.recognition \in {"closing", "interrupted"} => r.closed /\ r.run # "closing"
  /\ r.recognition = "finalizing" => r.asr = "finished"
  /\ r.run = "capture" => Joined(r)
  /\ r.run = "done" => r.recognition \notin {"closing", "interrupted", "finalizing"}
  /\ r.lifecycle = "STOPPING" => Stopped(r)
  /\ r.lifecycle = "CLOSED" =>
       r.run = "done" /\ Joined(r) /\ r.captured = r.started

PhaseInv == \A c \in Clients : Phase(s[c])

LEMMA PhaseStep ==
  ASSUME NEW c \in Clients, NEW q, IInv, PhaseInv, Phase(q), Becomes(c, q)
  PROVE  PhaseInv'
  BY DEF IInv, TypeOK, PhaseInv, Becomes

(* Before run stops its tasks only three parts of Phase say something, and *)
(* the receive and deadline tasks disturb none of them.                    *)
Awake(r, q) ==
  /\ q.run = r.run
  /\ q.lifecycle \in {r.lifecycle, "READY"}
  /\ q.swallowed = r.swallowed
  /\ q.recognition \in {"closing", "interrupted"} => q.closed
  /\ q.recognition = "finalizing" => q.asr = "finished"

LEMMA AwakeStep ==
  ASSUME NEW c \in Clients, NEW q, IInv, PhaseInv, ~Stopped(s[c]),
         Awake(s[c], q), Becomes(c, q)
  PROVE  PhaseInv'
<1>1. Phase(s[c])
  BY DEF PhaseInv
<1>2. Phase(q)
  BY <1>1 DEF Phase, Awake, Stopped
<1> QED
  BY <1>2, PhaseStep

(* Awake depends on the run and the lifecycle of the record before only.   *)
LEMMA AwakeChains ==
  ASSUME NEW r, NEW p, NEW q, p.run = r.run, p.lifecycle = r.lifecycle,
         p.swallowed = r.swallowed, Awake(p, q)
  PROVE  Awake(r, q)
  BY DEF Awake

(* The recognition loop may go on after run has stopped it: it opens       *)
(* nothing that run has closed, begins nothing that run has waited for and *)
(* leaves the reason alone.                                                *)
Loops(r, q) ==
  /\ q.run = r.run /\ q.lifecycle = r.lifecycle /\ q.reason = r.reason
  /\ r.closed => q.closed
  /\ q.recognition \in {"closing", "interrupted"} => q.closed /\ ~r.closed
  /\ q.recognition = "finalizing" => q.asr = "finished" /\ ~r.closed
  /\ q.swallowed => Stopped(q) /\ q.recognition # "cancelSend"
  /\ Stopped(r) => q.work \cap GenerationWork \subseteq r.work

Continues(c) == \E q : Becomes(c, q) /\ Phase(q) /\ q.reason = s[c].reason

LEMMA LoopStep ==
  ASSUME NEW c \in Clients, NEW q, PhaseInv, s[c].recognition \notin Ended,
         Loops(s[c], q), Becomes(c, q)
  PROVE  Continues(c)
<1> DEFINE r == s[c]
<1>1. Phase(r) /\ ~Joined(r)
  BY DEF PhaseInv, Joined
<1>2. Stopped(q) <=> Stopped(r)
  BY DEF Loops, Stopped
<1>3. /\ r.work \cap GenerationWork = {} /\ Stopped(r) => q.work \cap GenerationWork = {}
      /\ "active" \notin r.work /\ Stopped(r) => "active" \notin q.work
  BY DEF Loops, GenerationWork
<1>4. r.run \in {"understanding", "closing", "join", "capture", "done"} => Stopped(r)
  BY DEF Stopped
<1>5. Phase(q)
  BY <1>1, <1>2, <1>3, <1>4 DEF Phase, Loops
<1> QED
  BY <1>5 DEF Continues, Loops

LEMMA FinallyLoops ==
  ASSUME NEW r, Good(r), NEW fate \in Ended, r.swallowed => Stopped(r)
  PROVE  Loops(r, Finally(r, fate))
<1>1. CASE r.closed
  BY <1>1 DEF Finally, Loops, Stopped, Good, Session, Ended
<1>2. CASE ~r.closed
  BY <1>2 DEF Finally, Loops, Stopped, Good, Session, Ended
<1> QED
  BY <1>1, <1>2

LEMMA LoopsChain ==
  ASSUME NEW r, NEW p, NEW q, p.run = r.run, p.lifecycle = r.lifecycle,
         p.reason = r.reason, p.closed = r.closed, p.work \subseteq r.work, Loops(p, q)
  PROVE  Loops(r, q)
  BY DEF Loops, Stopped

LEMMA SentLoops ==
  ASSUME NEW r, Good(r), r.swallowed => Stopped(r),
         NEW outcome \in {"sent", "disconnected", "failed"},
         NEW then, Loops(r, then)
  PROVE  Loops(r, Sent(r, outcome, then))
  BY FinallyLoops DEF Sent, Ended

-----------------------------------------------------------------------------
(* The tasks of a session keep its phase. *)

LEMMA ClientKeepsPhase ==
  ASSUME NEW c \in Clients, IInv, PhaseInv, ClientStep(c)
  PROVE  PhaseInv'
<1> DEFINE r == s[c]
<1>1. r \in Session /\ Phase(r)
  BY SessionIsGood DEF Good, PhaseInv
<1>2. ASSUME NEW socket, NEW inbox, NEW messages
      PROVE  Phase([r EXCEPT !.socket = socket, !.inbox = inbox, !.messages = messages])
  BY <1>1 DEF Phase, Stopped, Joined, Session
<1>3. CASE ClientLeaves(c)
  <2> DEFINE q == [r EXCEPT !.socket = "gone", !.inbox = Append(@, "disconnect")]
  <2>1. q = [r EXCEPT !.socket = "gone", !.inbox = Append(r.inbox, "disconnect"),
                      !.messages = r.messages]
    BY <1>1 DEF Session
  <2>2. Phase(q)
    BY <1>2, <2>1
  <2> QED
    BY <1>3, <2>2, PhaseStep DEF ClientLeaves
<1>4. ASSUME NEW m \in {"start", "audio", "stop"}, ClientSends(c, m)
      PROVE  PhaseInv'
  <2> DEFINE q == [r EXCEPT !.inbox = Append(@, m), !.messages = @ + 1]
  <2>1. q = [r EXCEPT !.socket = r.socket, !.inbox = Append(r.inbox, m),
                      !.messages = r.messages + 1]
    BY <1>1 DEF Session
  <2>2. Phase(q)
    BY <1>2, <2>1
  <2> QED
    BY <1>4, <2>2, PhaseStep DEF ClientSends
<1> QED
  BY <1>3, <1>4 DEF ClientStep

LEMMA ReceivedIsAwake ==
  ASSUME NEW r, Good(r), Phase(r), ~Stopped(r), NEW m, NEW outcome, NEW inbox \in Inbox
  PROVE  Awake(r, Received([r EXCEPT !.inbox = inbox], m, outcome))
<1> DEFINE p == [r EXCEPT !.inbox = inbox]
<1>1. /\ p \in Session
      /\ p.run = r.run /\ p.lifecycle = r.lifecycle /\ p.swallowed = r.swallowed
      /\ p.recognition \in {"closing", "interrupted"} => p.closed
      /\ p.recognition = "finalizing" => p.asr = "finished"
  BY InboxKeeps DEF Phase, Good, Keeps, Session
<1> HIDE DEF p
<1>2. ASSUME NEW then, NEW started
      PROVE  /\ Awake(p, [p EXCEPT !.receive = then])
             /\ Awake(p, [p EXCEPT !.started = started, !.receive = then])
             /\ Awake(p, [p EXCEPT !.started = started, !.lifecycle = "READY",
                                   !.receive = then])
             /\ Awake(p, [p EXCEPT !.reason = started, !.receive = then])
  BY <1>1 DEF Awake, Session
<1>3. Awake(p, ReceiveStart(p, outcome))
  BY <1>2 DEF ReceiveStart
<1>4. Awake(p, Received(p, m, outcome))
  BY <1>2, <1>3 DEF Received
<1>5. Awake(r, Received(p, m, outcome))
  BY <1>1, <1>4, AwakeChains
<1> QED
  BY <1>5 DEF p

LEMMA ReceiveKeepsPhase ==
  ASSUME NEW c \in Clients, IInv, PhaseInv, ReceiveTask(c)
  PROVE  PhaseInv'
<1> DEFINE r == s[c]
<1>1. Good(r) /\ r \in Session /\ Phase(r)
  BY SessionIsGood DEF Good, PhaseInv
<1>2. CASE Receive(c)
  <2>1. Tail(r.inbox) \in Inbox /\ ~Stopped(r)
    BY <1>1, <1>2 DEF Receive, Session, Inbox
  <2>2. PICK outcome \in SendOutcomes(r) :
          Becomes(c, Received([r EXCEPT !.inbox = Tail(@)], Head(r.inbox), outcome))
    BY <1>2 DEF Receive
  <2> QED
    BY <1>1, <2>1, <2>2, ReceivedIsAwake, AwakeStep
<1>3. CASE ReceivePuts(c)
  <2>1. ASSUME NEW queue, NEW then
        PROVE  Awake(r, [r EXCEPT !.queue = queue, !.receive = then])
    BY <1>1 DEF Awake, Phase, Session
  <2> QED
    BY <1>3, <2>1, AwakeStep DEF ReceivePuts
<1>4. CASE ReceiveCancelled(c)
  <2>1. Phase([r EXCEPT !.receive = "cancelled"])
    BY <1>1 DEF Phase, Stopped, Joined, Session, Ended
  <2> QED
    BY <1>4, <2>1, PhaseStep DEF ReceiveCancelled
<1> QED
  BY <1>2, <1>3, <1>4 DEF ReceiveTask

LEMMA DeadlineKeepsPhase ==
  ASSUME NEW c \in Clients, IInv, PhaseInv, DeadlineTask(c)
  PROVE  PhaseInv'
<1> DEFINE r == s[c]
<1>1. r \in Session /\ Phase(r)
  BY SessionIsGood DEF Good, PhaseInv
<1>2. ASSUME NEW reason, NEW socket, NEW then, NEW inbox, NEW queue
      PROVE  /\ Awake(r, [[r EXCEPT !.reason = reason] EXCEPT
                            !.socket = socket, !.deadline = then])
             /\ Awake(r, [[r EXCEPT !.reason = reason] EXCEPT !.deadline = then])
             /\ Awake(r, [r EXCEPT !.deadline = then, !.inbox = inbox])
             /\ Awake(r, [r EXCEPT !.queue = queue, !.deadline = then])
  BY <1>1 DEF Awake, Phase, Session
<1>3. CASE DeadlineReached(c)
  <2>1. PICK reason \in DeadlineReason(r) :
          \E q \in SocketClosed([r EXCEPT !.reason = reason]) : Becomes(c, q)
    BY <1>3 DEF DeadlineReached
  <2> DEFINE p == [r EXCEPT !.reason = reason]
  <2>2. ASSUME NEW q \in SocketClosed(p)
        PROVE  Awake(r, q)
    <3>1. /\ Awake(r, [p EXCEPT !.socket = "closed", !.deadline = "closing"])
          /\ Awake(r, [p EXCEPT !.deadline = "put"])
          /\ Awake(r, [p EXCEPT !.deadline = "failed"])
      BY <1>2
    <3>2. \/ q = [p EXCEPT !.socket = "closed", !.deadline = "closing"]
          \/ q = [p EXCEPT !.deadline = "put"]
          \/ q = [p EXCEPT !.deadline = "failed"]
      <4> HIDE DEF p
      <4> QED
        BY DEF SocketClosed
    <3> QED
      BY <3>1, <3>2
  <2>3. ~Stopped(r)
    BY <1>3 DEF DeadlineReached, DeadlineCancelled
  <2> QED
    BY <2>1, <2>2, <2>3, AwakeStep
<1>4. CASE SocketDown(c)
  BY <1>2, <1>4, AwakeStep DEF SocketDown, DeadlineCancelled
<1>5. CASE DeadlinePuts(c)
  BY <1>2, <1>5, AwakeStep DEF DeadlinePuts, DeadlineCancelled
<1>6. CASE DeadlineTaskCancelled(c)
  <2>1. Phase([r EXCEPT !.deadline = "cancelled"])
    BY <1>1 DEF Phase, Stopped, Joined, Session, Ended
  <2> QED
    BY <1>6, <2>1, PhaseStep DEF DeadlineTaskCancelled
<1> QED
  BY <1>3, <1>4, <1>5, <1>6 DEF DeadlineTask

LEMMA WorkersKeepPhase ==
  ASSUME NEW c \in Clients, IInv, PhaseInv, WorkerDies(c) \/ GenerationTask(c)
  PROVE  PhaseInv'
<1> DEFINE r == s[c]
<1>1. r \in Session /\ Phase(r)
  BY SessionIsGood DEF Good, PhaseInv
<1>2. CASE WorkerDies(c)
  <2>1. Phase([r EXCEPT !.asr = "dead"])
    BY <1>1, <1>2 DEF WorkerDies, Phase, Stopped, Joined, Session
  <2> QED
    BY <1>2, <2>1, PhaseStep DEF WorkerDies
<1>3. ASSUME NEW work, r.work \cap GenerationWork = {} => work \cap GenerationWork = {},
             "active" \in work => "active" \in r.work
      PROVE  Phase([r EXCEPT !.work = work])
  BY <1>1, <1>3 DEF Phase, Stopped, Joined, Session
<1>4. ASSUME NEW t, GenerationEnds(c, t)
      PROVE  PhaseInv'
  <2>1. Phase([r EXCEPT !.work = r.work \ {t}])
    BY <1>3
  <2> QED
    BY <1>4, <2>1, PhaseStep DEF GenerationEnds
<1>5. CASE GenerationFails(c)
  <2>1. r.work \cap GenerationWork # {}
    BY <1>5 DEF GenerationFails, GenerationWork
  <2>2. Phase([r EXCEPT !.work = (r.work \ {"active"}) \cup {"failing"}])
    BY <1>3, <2>1
  <2> QED
    BY <1>5, <2>2, PhaseStep DEF GenerationFails
<1> QED
  BY <1>2, <1>4, <1>5 DEF GenerationTask

-----------------------------------------------------------------------------
(* Its recognition loop. *)

LEMMA HandledLoops ==
  ASSUME NEW r, Good(r), Phase(r),
         NEW q \in Recognised(r) \cup Answered(r) \cup CancelBegun(r)
                    \cup OverlapFinalizing(r)
  PROVE  Loops(r, q)
<1>1. r \in Session
  BY DEF Good
<1>2. /\ r.swallowed => Stopped(r)
      /\ Stopped(r) => "active" \notin r.work
  BY DEF Phase
<1>3. ASSUME NEW asr, NEW then \in {"get", "stopping"}
      PROVE  /\ Loops(r, [r EXCEPT !.asr = asr, !.recognition = then])
             /\ Loops(r, [r EXCEPT !.recognition = then])
  BY <1>1, <1>2 DEF Loops, Stopped, Session
<1>4. ASSUME NEW work, Stopped(r) => work \cap GenerationWork \subseteq r.work
      PROVE  Loops(r, [r EXCEPT !.work = work, !.recognition = "get"])
  BY <1>1, <1>2, <1>4 DEF Loops, Stopped, Session
<1>5. CASE q \in Recognised(r)
  <2> DEFINE p == [r EXCEPT !.asr = "finished"]
  <2>1. /\ Good(p) /\ p.run = r.run /\ p.lifecycle = r.lifecycle
        /\ p.reason = r.reason /\ p.closed = r.closed /\ p.work = r.work /\ p.swallowed = r.swallowed
    BY <1>1, AsrKeeps DEF Keeps, Session
  <2>2. Loops(r, Finally(p, "failed"))
    <3> HIDE DEF p
    <3>1. Loops(p, Finally(p, "failed"))
      BY <1>2, <2>1, FinallyLoops DEF Ended, Stopped
    <3> QED
      BY <2>1, <3>1, LoopsChain
  <2> QED
    BY <1>3, <1>5, <2>2 DEF Recognised
<1>6. CASE q \in Answered(r)
  <2> DEFINE work == r.work \cup {IF Stopped(r) THEN "late" ELSE "active"}
  <2>1. Stopped(r) => work \cap GenerationWork \subseteq r.work
    BY DEF GenerationWork
  <2>2. q = [r EXCEPT !.work = work, !.recognition = "get"]
    BY <1>6 DEF Answered
  <2> QED
    BY <1>4, <2>1, <2>2
<1>7. CASE q \in CancelBegun(r)
  <2> DEFINE work == (r.work \ {"active"}) \cup {"cancelling"}
  <2>1. ~Stopped(r) /\ q = [r EXCEPT !.work = work, !.recognition = "cancelSend"]
    BY <1>2, <1>7 DEF CancelBegun
  <2> HIDE DEF work
  <2> QED
    BY <1>1, <1>2, <2>1 DEF Loops, Stopped, Session
<1>8. CASE q \in OverlapFinalizing(r)
  <2> DEFINE work == r.work \cup {"finalization"}
  <2>1. /\ ~r.closed
        /\ q = [r EXCEPT !.asr = "finished", !.work = work,
                         !.recognition = "finalizing"]
        /\ work \cap GenerationWork \subseteq r.work
    BY <1>8 DEF OverlapFinalizing, GenerationWork
  <2> HIDE DEF work
  <2> QED
    BY <1>1, <1>2, <2>1 DEF Loops, Stopped, Session
<1> QED
  BY <1>5, <1>6, <1>7, <1>8

LEMMA RecognitionContinues ==
  ASSUME NEW c \in Clients, IInv, PhaseInv, RecognitionTask(c)
  PROVE  Continues(c)
<1> DEFINE r == s[c]
<1>1. Good(r) /\ r \in Session /\ Phase(r)
  BY SessionIsGood DEF Good, PhaseInv
<1>2. r.swallowed => Stopped(r)
  BY <1>1 DEF Phase
<1>3. CASE Take(c)
  <2> DEFINE items == Tail(r.queue)
             p == [r EXCEPT !.queue = items]
  <2>1. r.queue \in Seq({"audio", "none"}) /\ r.queue # <<>> /\ Len(r.queue) <= QueueSize
    BY <1>1, <1>3 DEF Take, Good, Session
  <2>2. items \in Seq({"audio", "none"}) /\ Len(items) <= QueueSize
    BY <2>1, LifecycleAssumption
  <2>3. /\ Good(p) /\ p.run = r.run /\ p.lifecycle = r.lifecycle
        /\ p.reason = r.reason /\ p.closed = r.closed /\ p.work = r.work /\ p.swallowed = r.swallowed
    <3> HIDE DEF items
    <3> QED
      BY <1>1, <2>2 DEF Good, Session
  <2>4. \/ Becomes(c, Finally(p, "returned"))
        \/ Becomes(c, [p EXCEPT !.recognition = "handle"])
    BY <1>3 DEF Take
  <2> HIDE DEF p
  <2>5. Loops(p, Finally(p, "returned")) /\ Loops(p, [p EXCEPT !.recognition = "handle"])
    <3>1. p.swallowed => Stopped(p)
      BY <1>2, <2>3 DEF Stopped
    <3>2. Loops(p, [p EXCEPT !.recognition = "handle"])
      BY <2>3, <3>1 DEF Loops, Stopped, Good, Session
    <3> QED
      BY <2>3, <3>1, <3>2, FinallyLoops DEF Ended
  <2>6. r.recognition \notin Ended
    BY <1>3 DEF Take, Ended
  <2> QED
    BY <2>3, <2>4, <2>5, <2>6, LoopsChain, LoopStep
<1>4. CASE Handle(c)
  <2>1. r.recognition \notin Ended
    BY <1>4 DEF Handle, Ended
  <2>2. ASSUME NEW outcome \in SendOutcomes(r),
               NEW q \in Answered(r) \cup {[r EXCEPT !.recognition = "get"]}
        PROVE  Loops(r, Sent(r, outcome, q))
    <3>1. Loops(r, [r EXCEPT !.recognition = "get"])
      BY <1>1, <1>2 DEF Loops, Stopped, Session
    <3>2. Loops(r, q)
      BY <1>1, <2>2, <3>1, HandledLoops
    <3> QED
      BY <1>1, <1>2, <3>2, SentLoops, OutcomesOfSend
  <2>3. \E q : Loops(r, q) /\ Becomes(c, q)
    BY <1>1, <1>4, <2>2, HandledLoops DEF Handle
  <2> QED
    BY <2>1, <2>3, LoopStep
<1>5. CASE PredictorStopped(c)
  <2> DEFINE swallowed == Stopped(r)
             p == [r EXCEPT !.swallowed = swallowed]
             d == [p EXCEPT !.asr = "finished"]
  <2>1. /\ Good(p) /\ p.run = r.run /\ p.lifecycle = r.lifecycle
        /\ p.reason = r.reason /\ p.closed = r.closed /\ p.work = r.work /\ p.swallowed = Stopped(r)
    <3>1. swallowed \in BOOLEAN
      BY DEF Stopped
    <3>2. swallowed = Stopped(r)
      OBVIOUS
    <3> HIDE DEF swallowed
    <3>3. Good(p)
      BY <1>1, <3>1, SwallowedKeeps DEF Keeps
    <3> QED
      BY <1>1, <3>2, <3>3 DEF Session
  <2>2. \/ Becomes(c, [p EXCEPT !.asr = "idle", !.recognition = "commit"])
        \/ Becomes(c, Finally(d, "failed"))
    BY <1>5 DEF PredictorStopped
  <2>3. r.recognition \notin Ended
    <3>1. r.recognition = "stopping"
      BY <1>1, <1>5 DEF PredictorStopped, Session
    <3> QED
      BY <3>1 DEF Ended
  <2> HIDE DEF p
  <2>4. p.swallowed => Stopped(p)
    BY <2>1 DEF Stopped
  <2>5. Loops(p, [p EXCEPT !.asr = "idle", !.recognition = "commit"])
    BY <2>1, <2>4 DEF Loops, Stopped, Good, Session
  <2>6. /\ Good(d) /\ d.run = r.run /\ d.lifecycle = r.lifecycle
        /\ d.reason = r.reason /\ d.closed = r.closed /\ d.work = r.work /\ d.swallowed = p.swallowed
    <3>1. d.run = p.run /\ d.lifecycle = p.lifecycle /\ d.reason = p.reason
      BY <2>1 DEF Good, Session
    <3>2. d.closed = p.closed /\ d.work = p.work /\ d.swallowed = p.swallowed
      BY <2>1 DEF Good, Session
    <3>3. Good(d)
      BY <2>1, AsrKeeps DEF Keeps
    <3> HIDE DEF d
    <3> QED
      BY <2>1, <3>1, <3>2, <3>3
  <2> HIDE DEF d
  <2>7. Loops(d, Finally(d, "failed"))
    BY <2>1, <2>4, <2>6, FinallyLoops DEF Ended, Stopped
  <2> QED
    BY <2>1, <2>2, <2>3, <2>5, <2>6, <2>7, LoopsChain, LoopStep
<1>6. CASE CancelSent(c)
  <2> DEFINE work == (r.work \ {"cancelling"}) \cup {"teardown"}
             q == [r EXCEPT !.recognition = "get", !.work = work]
  <2>1. /\ r.recognition = "cancelSend"
        /\ ~Stopped(r)
    BY <1>1, <1>6 DEF CancelSent, Cancelled, Phase
  <2>2. Loops(r, q)
    <3> HIDE DEF work
    <3> QED
      BY <1>1, <1>2, <2>1 DEF Loops, Stopped, Session
  <2>3. PICK outcome \in SendOutcomes(r) : Becomes(c, Sent(r, outcome, q))
    BY <1>6 DEF CancelSent
  <2>4. Loops(r, Sent(r, outcome, q))
    BY <1>1, <1>2, <2>2, SentLoops, OutcomesOfSend
  <2> QED
    BY <2>1, <2>3, <2>4, LoopStep DEF Ended
<1>7. ASSUME NEW p, p = [r EXCEPT !.work = @ \ {"finalization"}]
      PROVE  /\ Good(p) /\ p.run = r.run /\ p.lifecycle = r.lifecycle
             /\ p.reason = r.reason /\ p.closed = r.closed /\ p.swallowed = r.swallowed
             /\ p.work \subseteq r.work
             /\ p.swallowed => Stopped(p)
  <2>1. r.work \ {"finalization"} \in Work
    BY <1>1, WorkOf DEF Work
  <2>2. Good(p)
    BY <1>1, <1>7, <2>1, WorkKeeps DEF Keeps
  <2> QED
    BY <1>1, <1>2, <1>7, <2>2 DEF Session, Stopped
<1>8. CASE OverlapFinalized(c)
  <2> DEFINE p == [r EXCEPT !.work = @ \ {"finalization"}]
             d == [p EXCEPT !.asr = "idle"]
             g == [d EXCEPT !.recognition = "get"]
  <2>1. /\ Good(p) /\ p.run = r.run /\ p.lifecycle = r.lifecycle
        /\ p.reason = r.reason /\ p.closed = r.closed /\ p.swallowed = r.swallowed
        /\ p.work \subseteq r.work
        /\ p.swallowed => Stopped(p)
    BY <1>7
  <2>2. /\ r.recognition \notin Ended
        /\ \/ \E outcome \in SendOutcomes(r) : Becomes(c, Sent(d, outcome, g))
           \/ Becomes(c, Finally(p, "failed"))
           \/ Becomes(c, Finally(r, "failed"))
    BY <1>8 DEF OverlapFinalized, Ended
  <2> HIDE DEF p
  <2>3. /\ Good(d) /\ d.run = r.run /\ d.lifecycle = r.lifecycle
        /\ d.reason = r.reason /\ d.closed = r.closed /\ d.swallowed = r.swallowed
        /\ d.work \subseteq r.work
        /\ d.swallowed => Stopped(d)
    <3>1. Good(d)
      BY <2>1, AsrKeeps DEF Keeps
    <3> QED
      BY <2>1, <3>1 DEF Good, Session, Stopped
  <2> HIDE DEF d
  <2>4. Loops(d, g)
    BY <2>3 DEF Loops, Stopped, Good, Session
  <2> HIDE DEF g
  <2>5. ASSUME NEW outcome \in SendOutcomes(r)
        PROVE  Loops(d, Sent(d, outcome, g))
    BY <2>3, <2>4, SentLoops, OutcomesOfSend
  <2>6. Loops(p, Finally(p, "failed")) /\ Loops(r, Finally(r, "failed"))
    BY <1>1, <1>2, <2>1, FinallyLoops DEF Ended
  <2>7. \E q : Loops(r, q) /\ Becomes(c, q)
    BY <2>1, <2>2, <2>3, <2>5, <2>6, LoopsChain
  <2> QED
    BY <2>2, <2>7, LoopStep
<1>9. CASE UnderstandingClosed(c)
  <2> DEFINE then == IF r.asr = "dead" THEN "failed" ELSE r.fate
  <2>1. then \in Ended
    BY <1>1 DEF Session, Ended
  <2> HIDE DEF then
  <2> DEFINE q == [r EXCEPT !.recognition = then]
  <2>2. Phase(q) /\ q.reason = r.reason
    BY <1>1, <2>1 DEF Phase, Joined, Stopped, Session, Ended
  <2> QED
    BY <1>9, <2>2 DEF UnderstandingClosed, then, Continues
<1>10. CASE RecognitionCancelled(c)
  <2> DEFINE p == [r EXCEPT !.work = @ \ {"finalization"}]
  <2>1. /\ Good(p) /\ p.run = r.run /\ p.lifecycle = r.lifecycle
        /\ p.reason = r.reason /\ p.closed = r.closed /\ p.swallowed = r.swallowed
        /\ p.work \subseteq r.work
        /\ p.swallowed => Stopped(p)
    BY <1>7
  <2>2. /\ Stopped(r)
        /\ r.recognition \notin Ended
        /\ \/ Becomes(c, Finally(r, "cancelled"))
           \/ Becomes(c, Finally(p, "cancelled"))
           \/ /\ r.recognition = "finalizing"
              /\ Becomes(c, [r EXCEPT !.swallowed = TRUE])
           \/ Becomes(c, [r EXCEPT !.recognition = "cancelled"])
    BY <1>10 DEF RecognitionCancelled, Cancelled, Ended
  <2> HIDE DEF p
  <2>3. /\ Loops(r, Finally(r, "cancelled"))
        /\ Loops(p, Finally(p, "cancelled"))
    BY <1>1, <1>2, <2>1, FinallyLoops DEF Ended
  <2> DEFINE f == [r EXCEPT !.recognition = "cancelled"]
             g == [r EXCEPT !.swallowed = TRUE]
  <2>4. Phase(f) /\ f.reason = r.reason
    BY <1>1 DEF Phase, Joined, Stopped, Session, Ended
  <2>5. r.recognition = "finalizing" => Phase(g) /\ g.reason = r.reason
    BY <1>1, <2>2 DEF Phase, Joined, Stopped, Session
  <2> HIDE DEF f, g
  <2>6. /\ Becomes(c, f) => Continues(c)
        /\ r.recognition = "finalizing" /\ Becomes(c, g) => Continues(c)
    BY <2>4, <2>5 DEF Continues
  <2> QED
    BY <2>1, <2>2, <2>3, <2>6, LoopsChain, LoopStep DEF f, g
<1> QED
  BY <1>3, <1>4, <1>5, <1>6, <1>8, <1>9, <1>10 DEF RecognitionTask

LEMMA RecognitionKeepsPhase ==
  ASSUME NEW c \in Clients, IInv, PhaseInv, RecognitionTask(c)
  PROVE  PhaseInv'
  BY RecognitionContinues, PhaseStep DEF Continues

-----------------------------------------------------------------------------
(* The route and run take a session from one phase to the next. *)

LEMMA ConnectKeepsPhase ==
  ASSUME NEW c \in Clients, IInv, PhaseInv, Connect(c)
  PROVE  PhaseInv'
<1> DEFINE r == s[c]
<1>1. r \in Session /\ Phase(r) /\ r.run = "waiting"
  BY SessionIsGood DEF Good, PhaseInv, Connect
<1>2. /\ Phase([r EXCEPT !.run = "gather", !.lifecycle = "CONNECTED"])
      /\ Phase([r EXCEPT !.run = "rejected"])
  BY <1>1 DEF Phase, Stopped, Session
<1>3. \E q : Phase(q) /\ s' = [s EXCEPT ![c] = q]
  BY <1>2 DEF Connect
<1> QED
  BY <1>3 DEF IInv, TypeOK, PhaseInv

LEMMA StoppingKeepsPhase ==
  ASSUME NEW r, Good(r), Phase(r), r.run \in {"gather", "report"}
  PROVE  Phase(Stopping(r))
<1> DEFINE recognition == IF r.recognition = "closing" THEN "interrupted" ELSE r.recognition
           work == IF "active" \in r.work THEN (r.work \ {"active"}) \cup {"teardown"}
                   ELSE r.work
<1>1. /\ recognition \in {"closing", "interrupted"} => r.closed
      /\ recognition = "finalizing" => r.asr = "finished"
      /\ "active" \notin work
      /\ ~r.swallowed
  BY DEF Phase, Stopped
<1> HIDE DEF recognition, work
<1>2. Phase([r EXCEPT !.lifecycle = "STOPPING", !.run = "teardown",
                      !.recognition = recognition, !.work = work])
  BY <1>1 DEF Phase, Stopped, Good, Session
<1> QED
  BY <1>2 DEF Stopping, recognition, work

LEMMA LeavingKeepsPhase ==
  ASSUME NEW c \in Clients, NEW r, IInv, PhaseInv, LeaveRoute(c, r), r \in Session,
         r.work \cap GenerationWork = {}, r.closed,
         r.recognition \notin {"closing", "interrupted", "finalizing"},
         r.swallowed => r.recognition # "cancelSend",
         r.lifecycle = "CLOSED" => Joined(r) /\ r.captured = r.started
  PROVE  PhaseInv'
<1> DEFINE receive == Settled(r.receive)
           recognition == Settled(r.recognition)
           deadline == Settled(r.deadline)
           q == [r EXCEPT
             !.run = "done", !.socket = "gone", !.inbox = <<>>, !.queue = <<>>,
             !.messages = 0, !.fate = "returned", !.asr = "finished",
             !.reason = "NONE", !.receive = receive, !.recognition = recognition,
             !.deadline = deadline]
<1>1. /\ recognition \notin {"closing", "interrupted", "finalizing"}
      /\ r.swallowed => recognition # "cancelSend"
      /\ "active" \notin r.work
      /\ r.lifecycle = "CLOSED" =>
           /\ {receive, recognition, deadline} \subseteq Ended
           /\ r.captured = r.started
  BY DEF Settled, Joined, Ended, GenerationWork
<1>2. Phase(q)
  <2> HIDE DEF receive, recognition, deadline
  <2> QED
    BY <1>1 DEF Phase, Stopped, Joined, Session
<1>3. s' = [s EXCEPT ![c] = q]
  BY DEF LeaveRoute, Session
<1> HIDE DEF q
<1> QED
  BY <1>2, <1>3 DEF IInv, TypeOK, PhaseInv

LEMMA RunKeepsPhase ==
  ASSUME NEW c \in Clients, IInv, PhaseInv, RunTask(c)
  PROVE  PhaseInv'
<1> DEFINE r == s[c]
<1>1. Good(r) /\ r \in Session /\ Phase(r)
  BY SessionIsGood DEF Good, PhaseInv
<1>2. CASE GatherEnds(c)
  <2>1. r.run = "gather"
    BY <1>2 DEF GatherEnds
  <2> DEFINE reason == IF r.reason = "NONE" THEN "CLIENT_DISCONNECTED" ELSE r.reason
             d == [r EXCEPT !.reason = reason]
  <2>2. Good(d) /\ Phase(d) /\ d.run = "gather"
    <3>1. reason \in SessionClosureReason
      BY <1>1 DEF Session, SessionClosureReason
    <3> HIDE DEF reason
    <3>2. Keeps(r, d)
      BY <1>1, <3>1, ReasonKeeps
    <3> QED
      BY <1>1, <2>1, <3>2 DEF Keeps, Phase, Stopped, Joined, Session
  <2>3. Phase(Stopping(r)) /\ Phase(Stopping(d))
    BY <1>1, <2>1, <2>2, StoppingKeepsPhase
  <2>4. Phase([r EXCEPT !.lifecycle = "FAILED", !.reason = "SESSION_FAILURE",
                        !.run = "report"])
    BY <1>1, <2>1 DEF Phase, Stopped, Session
  <2> QED
    BY <1>2, <2>3, <2>4, PhaseStep DEF GatherEnds, Disconnected
<1>3. CASE Reported(c)
  BY <1>1, <1>3, StoppingKeepsPhase, PhaseStep DEF Reported
<1>4. CASE TeardownEnds(c)
  <2>1. Phase([r EXCEPT !.run = "tasks"])
    BY <1>1, <1>4 DEF TeardownEnds, Phase, Stopped, Session
  <2> QED
    BY <1>4, <2>1, PhaseStep DEF TeardownEnds
<1>5. CASE GenerationTasksEnd(c)
  <2>1. Phase([r EXCEPT !.run = "understanding"])
    BY <1>1, <1>5 DEF GenerationTasksEnd, TasksClosed, Phase, Stopped, Session
  <2> QED
    BY <1>5, <2>1, PhaseStep DEF GenerationTasksEnd
<1>6. CASE CloseUnderstanding(c)
  <2>1. r.run = "understanding"
    BY <1>6 DEF CloseUnderstanding
  <2>2. r.closed => Phase([r EXCEPT !.run = "join"])
    BY <1>1, <2>1 DEF Phase, Stopped, Session
  <2>3. ~r.closed => Phase([r EXCEPT !.closed = TRUE, !.run = "closing"])
    BY <1>1, <2>1 DEF Phase, Stopped, Session
  <2> QED
    BY <1>6, <2>2, <2>3, PhaseStep DEF CloseUnderstanding
<1>7. CASE RunCloses(c)
  <2>1. r.run = "closing"
    BY <1>7 DEF RunCloses
  <2>2. CASE r.asr = "dead"
    <3>1. /\ r.work \cap GenerationWork = {}
          /\ r.closed
          /\ r.recognition \notin {"closing", "interrupted", "finalizing"}
          /\ r.swallowed => r.recognition # "cancelSend"
          /\ r.lifecycle # "CLOSED"
      BY <1>1, <2>1, <2>2 DEF Phase
    <3>2. LeaveRoute(c, r)
      BY <1>7, <2>2 DEF RunCloses
    <3> QED
      BY <1>1, <3>1, <3>2, LeavingKeepsPhase
  <2>3. CASE r.asr # "dead"
    <3>1. Phase([r EXCEPT !.run = "join"])
      BY <1>1, <2>1 DEF Phase, Stopped, Session
    <3> QED
      BY <1>7, <2>3, <3>1, PhaseStep DEF RunCloses
  <2> QED
    BY <2>2, <2>3
<1>8. CASE TasksJoined(c)
  <2>1. Phase([r EXCEPT !.run = "capture"])
    BY <1>1, <1>8 DEF TasksJoined, Phase, Stopped, Joined, Session
  <2> QED
    BY <1>8, <2>1, PhaseStep DEF TasksJoined
<1>9. CASE SaveCapture(c)
  <2> DEFINE q == [r EXCEPT !.captured = r.started, !.lifecycle = "CLOSED"]
  <2>1. r.run = "capture" /\ LeaveRoute(c, q)
    BY <1>9 DEF SaveCapture
  <2>2. /\ q \in Session
        /\ q.work = r.work /\ q.closed = r.closed
        /\ q.receive = r.receive /\ q.recognition = r.recognition
        /\ q.deadline = r.deadline
        /\ q.captured = q.started
    BY <1>1 DEF Session
  <2>3. /\ q.work \cap GenerationWork = {}
        /\ q.closed
        /\ Joined(q)
        /\ q.recognition # "cancelSend"
        /\ q.recognition \notin {"closing", "interrupted", "finalizing"}
    <3> HIDE DEF q
    <3> QED
      BY <1>1, <2>1, <2>2 DEF Phase, Joined, Ended
  <2> HIDE DEF q
  <2> QED
    BY <2>1, <2>2, <2>3, LeavingKeepsPhase
<1> QED
  BY <1>2, <1>3, <1>4, <1>5, <1>6, <1>7, <1>8, <1>9 DEF RunTask

-----------------------------------------------------------------------------
LEMMA InitPhase == Init => PhaseInv
<1> SUFFICES ASSUME Init, NEW c \in Clients PROVE Phase(s[c])
  BY DEF PhaseInv
<1>1. /\ s[c].run = "waiting" /\ s[c].recognition = "get" /\ s[c].lifecycle = "CREATED"
      /\ s[c].swallowed = FALSE
  BY DEF Init
<1> QED
  BY <1>1 DEF Phase, Stopped

LEMMA StepPhase == IInv /\ PhaseInv /\ [Next]_vars => PhaseInv'
<1> SUFFICES ASSUME IInv, PhaseInv, [Next]_vars PROVE PhaseInv'
  OBVIOUS
<1>1. CASE UNCHANGED vars
  BY <1>1 DEF PhaseInv, vars
<1>2. CASE Next
  BY <1>2, ConnectKeepsPhase, ClientKeepsPhase, WorkersKeepPhase, ReceiveKeepsPhase,
     RecognitionKeepsPhase, DeadlineKeepsPhase, RunKeepsPhase
  DEF Next
<1> QED
  BY <1>1, <1>2

LEMMA PhaseHolds == Spec => []PhaseInv
  BY InitPhase, StepPhase, Invariance, PTL DEF Spec

(* When a session runs, every session that has ended has given the models  *)
(* back, whichever way it ended: the finally block of run is passed only   *)
(* once its generation tasks have ended and speech understanding is closed.*)
THEOREM ModelsFree == Spec => []ModelsAreFree
<1>1. PhaseInv => ModelsAreFree
  BY DEF PhaseInv, Phase, ModelsAreFree, HoldsModels
<1> QED
  BY <1>1, PhaseHolds, PTL

(* A session that reports CLOSED has joined its three tasks, closed the    *)
(* tasks of its generations and then written its capture.                  *)
THEOREM ClosedQuiet == Spec => []ClosedIsQuiet
<1>1. PhaseInv => ClosedIsQuiet
  BY DEF PhaseInv, Phase, Joined, ClosedIsQuiet
<1> QED
  BY <1>1, PhaseHolds, PTL

-----------------------------------------------------------------------------
(* From STOPPING on the reason changes in LeaveRoute only. *)

KeepsReason(c) ==
  s[c].lifecycle = "STOPPING" /\ s'[c].run # "done" => s'[c].reason = s[c].reason

LEMMA ReasonStep ==
  ASSUME NEW c \in Clients, NEW q, IInv, Becomes(c, q), q.reason = s[c].reason
  PROVE  KeepsReason(c)
  BY DEF IInv, TypeOK, Becomes, KeepsReason

LEMMA TasksKeepReason ==
  ASSUME NEW c \in Clients, IInv, PhaseInv,
         ReceiveTask(c) \/ DeadlineTask(c) \/ RecognitionTask(c)
  PROVE  KeepsReason(c)
<1> DEFINE r == s[c]
<1> SUFFICES ASSUME r.lifecycle = "STOPPING" PROVE KeepsReason(c)
  BY DEF KeepsReason
<1>1. Good(r) /\ r \in Session /\ Stopped(r)
  BY SessionIsGood DEF Good, PhaseInv, Phase, Stopped
<1>2. CASE ReceiveTask(c)
  <2>1. [r EXCEPT !.receive = "cancelled"].reason = r.reason
    BY <1>1 DEF Session
  <2> QED
    BY <1>1, <1>2, <2>1, ReasonStep DEF ReceiveTask, Receive, ReceivePuts, ReceiveCancelled
<1>3. CASE DeadlineTask(c)
  <2>1. [r EXCEPT !.deadline = "cancelled"].reason = r.reason
    BY <1>1 DEF Session
  <2> QED
    BY <1>1, <1>3, <2>1, ReasonStep
    DEF DeadlineTask, DeadlineReached, SocketDown, DeadlinePuts, DeadlineTaskCancelled,
        DeadlineCancelled
<1>4. CASE RecognitionTask(c)
  BY <1>4, RecognitionContinues, ReasonStep DEF Continues
<1> QED
  BY <1>2, <1>3, <1>4

LEMMA OthersKeepReason ==
  ASSUME NEW c \in Clients, IInv, PhaseInv,
         Connect(c) \/ ClientStep(c) \/ WorkerDies(c) \/ GenerationTask(c)
  PROVE  KeepsReason(c)
<1> DEFINE r == s[c]
<1>1. r \in Session /\ Phase(r)
  BY SessionIsGood DEF Good, PhaseInv
<1>2. ASSUME NEW a, NEW b
      PROVE  /\ [r EXCEPT !.socket = a, !.inbox = b].reason = r.reason
             /\ [r EXCEPT !.inbox = a, !.messages = b].reason = r.reason
             /\ [r EXCEPT !.asr = a].reason = r.reason
             /\ [r EXCEPT !.work = a].reason = r.reason
  BY <1>1 DEF Session
<1>3. CASE Connect(c)
  BY <1>1, <1>3 DEF Connect, Phase, Stopped, KeepsReason
<1>4. CASE ClientStep(c)
  BY <1>2, <1>4, ReasonStep DEF ClientStep, ClientLeaves, ClientSends
<1>5. CASE WorkerDies(c)
  BY <1>2, <1>5, ReasonStep DEF WorkerDies
<1>6. CASE GenerationTask(c)
  BY <1>2, <1>6, ReasonStep DEF GenerationTask, GenerationFails, GenerationEnds
<1> QED
  BY <1>3, <1>4, <1>5, <1>6

LEMMA RunKeepsReason ==
  ASSUME NEW c \in Clients, IInv, PhaseInv, RunTask(c)
  PROVE  KeepsReason(c)
<1> DEFINE r == s[c]
<1>1. r \in Session /\ Phase(r)
  BY SessionIsGood DEF Good, PhaseInv
<1>2. CASE GatherEnds(c) \/ Reported(c)
  BY <1>1, <1>2 DEF GatherEnds, Reported, Phase, Stopped, KeepsReason
<1>3. ASSUME NEW closed, NEW place
      PROVE  /\ [r EXCEPT !.run = place].reason = r.reason
             /\ [r EXCEPT !.closed = closed, !.run = place].reason = r.reason
  BY <1>1 DEF Session
<1>4. CASE TeardownEnds(c) \/ GenerationTasksEnd(c) \/ CloseUnderstanding(c) \/ TasksJoined(c)
  BY <1>3, <1>4, ReasonStep
  DEF TeardownEnds, GenerationTasksEnd, CloseUnderstanding, TasksJoined
<1>5. ASSUME NEW q \in Session, LeaveRoute(c, q)
      PROVE  KeepsReason(c)
  <2>1. s'[c].run = "done"
    BY <1>5 DEF LeaveRoute, IInv, TypeOK, Session
  <2> QED
    BY <2>1 DEF KeepsReason
<1>6. CASE RunCloses(c)
  BY <1>1, <1>3, <1>5, <1>6, ReasonStep DEF RunCloses
<1>7. CASE SaveCapture(c)
  <2>1. [r EXCEPT !.captured = r.started, !.lifecycle = "CLOSED"] \in Session
    BY <1>1 DEF Session
  <2> QED
    BY <1>5, <1>7, <2>1 DEF SaveCapture
<1> QED
  BY <1>2, <1>4, <1>6, <1>7 DEF RunTask

LEMMA StepReason ==
  IInv /\ PhaseInv /\ [Next]_vars =>
    [\A c \in Clients :
       s[c].lifecycle = "STOPPING" /\ s'[c].run # "done" =>
         s'[c].reason = s[c].reason]_vars
<1> SUFFICES ASSUME IInv, PhaseInv, Next, NEW d \in Clients
             PROVE  KeepsReason(d)
  BY DEF KeepsReason
<1>1. PICK c \in Clients :
        \/ Connect(c) \/ ClientStep(c) \/ WorkerDies(c)
        \/ ReceiveTask(c) \/ RecognitionTask(c) \/ GenerationTask(c)
        \/ DeadlineTask(c) \/ RunTask(c)
  BY DEF Next
<1>2. KeepsReason(c)
  BY <1>1, TasksKeepReason, OthersKeepReason, RunKeepsReason
<1>3. \E q : s' = [s EXCEPT ![c] = q]
  BY <1>1
  DEF Connect, ClientStep, ClientLeaves, ClientSends, WorkerDies,
      ReceiveTask, Receive, ReceivePuts, ReceiveCancelled,
      RecognitionTask, Take, Handle, PredictorStopped, CancelSent, OverlapFinalized, UnderstandingClosed,
      RecognitionCancelled, GenerationTask, GenerationFails, GenerationEnds,
      DeadlineTask, DeadlineReached, SocketDown, DeadlinePuts, DeadlineTaskCancelled,
      RunTask, GatherEnds, Reported, TeardownEnds, GenerationTasksEnd,
      CloseUnderstanding, RunCloses, TasksJoined, SaveCapture, LeaveRoute, Becomes
<1>4. d # c => s'[d] = s[d]
  BY <1>3 DEF IInv, TypeOK
<1> QED
  BY <1>2, <1>4 DEF KeepsReason

(* The reason that the capture and the log carry is not overwritten once   *)
(* the shutdown has begun, whichever deadline or message is still pending. *)
THEOREM ReasonSettled == Spec => ReasonIsFinal
  BY StepReason, Invariance, PhaseHolds, PTL DEF Spec, ReasonIsFinal
=============================================================================
