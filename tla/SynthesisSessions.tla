------------------------- MODULE SynthesisSessions -------------------------
(***************************************************************************)
(* Speech synthesis of the answers: the sequence of synthesis sessions of  *)
(* a generation (app/compute/voice/synthesis_sequence.py), the sessions    *)
(* that share one worker process through the lease of its manager          *)
(* (subprocess_tts.py), the command and the event pipe of the process, and *)
(* the programs that run in it (kyutai_tts_worker.py,                      *)
(* voxtream_tts_worker.py).                                                *)
(*                                                                         *)
(* A generation's task has two children.  "text" gives words to the        *)
(* current session and finishes it, several times when there are tool      *)
(* rounds; "audio" listens to the sessions one after the other.  Behind    *)
(* them each session has a reader of the event pipe and a watchdog.  When  *)
(* the children are over, or one has failed, the generation's task cancels *)
(* what is left.  Every action is the code between two awaits.             *)
(*                                                                         *)
(* Time is left out: a timeout may expire whenever its task waits.  A      *)
(* process is terminated when its replacement begins.  The audio of a word *)
(* and its acknowledgement are one event of the pipe.                      *)
(***************************************************************************)
EXTENDS Naturals, Sequences, FiniteSets

CONSTANTS
  MaxSessions,  \* bound on the synthesis sessions of one behaviour
  MaxWords,     \* bound on the words of one behaviour
  MaxFaults     \* bound on what goes wrong in the worker processes

ASSUME SynthesisAssumption ==
  /\ MaxSessions \in Nat \ {0}
  /\ MaxWords \in Nat \ {0}
  /\ MaxFaults \in Nat

VARIABLES
  generation,  \* where the generation's task is
  interrupted, \* whether its end was asked for, and told to the task
  child,       \* where its two children are
  cancels,     \* children that were cancelled and have not yet been told
  abandoned,   \* sessions left in the middle of their cancellation
  current,     \* current_session of the sequence, 0 for None
  inputEnded,  \* the END marker is in the sequence's queue
  base,        \* sessions made for earlier generations
  made,        \* sessions made
  hearing,     \* the session the audio task listens to
  heard,       \* the words it has yielded
  session,     \* the state of each session
  owner,       \* the session that holds the lease, 0 for none
  worker,      \* the manager's process, 0 for None
  process,     \* the newest process: what it does and its pipes
  faults

task == <<generation, interrupted, child, cancels, abandoned>>
sequence == <<current, inputEnded, base, made, hearing, heard>>
manager == <<owner, worker>>
vars == <<task, sequence, session, manager, process, faults>>

Session == 1 .. MaxSessions
Child == {"text", "audio"}
Over == {"done", "failed"}

Fresh == [worker |-> 0, finalized |-> FALSE, error |-> FALSE,
          finalizer |-> "none", output |-> <<>>, sent |-> 0, pending |-> {},
          finishing |-> FALSE, reader |-> "none", watchdog |-> "none"]

Message(do, s, w) == [do |-> do, of |-> s, word |-> w]

(* What a process has sent before it died can still be read.               *)
Dead == [process EXCEPT !.state = "dead", !.commands = <<>>]

(* The session's process can be written to.                                *)
Reachable(s) ==
  /\ session[s].worker = process.id
  /\ process.state # "dead"

(* Nothing is left that follows without another await, or in the next pass *)
(* of the event loop: a failed child is gathered, the sessions are         *)
(* cancelled, and a child is told of its cancellation.                     *)
Settled ==
  /\ generation # "cancel"
  /\ \A c \in Child : child[c] # "failed"
  /\ cancels = {}

Runs(c, place) == Settled /\ child[c] = place

Become(c, place) == child' = [child EXCEPT ![c] = place]

-----------------------------------------------------------------------------
(* _finalize_worker.  Its lock admits one task t at a time, recorded in    *)
(* finalizer while a replacement terminates the process in a thread; the   *)
(* lease ends after that.                                                  *)

(* What a finalized session is still asked for: nobody takes what it has   *)
(* queued once the audio task is over or has failed.                       *)
Queued(items) ==
  IF child.audio \in Over \cup {"failing"} THEN <<>> ELSE items

Finalized(r) ==
  [Fresh EXCEPT !.finalized = TRUE, !.sent = r.sent,
                !.output = Queued(r.output)]

Release(s, r) ==
  /\ session' = [session EXCEPT ![s] = Finalized(r)]
  /\ owner' = 0

(* Mutant: without the lock.                                               *)
Fail_Unlocked(s, t, r) ==
  /\ session' = [session EXCEPT ![s] = [r EXCEPT !.error = TRUE, !.finalizer = t]]
  /\ worker' = 0
  /\ process' = Dead

(* _fail_worker, and replace.  When another task is at it, or was, this    *)
(* one waits for it.                                                       *)
Fail(s, t, r) ==
  IF r.finalizer = "none" /\ ~r.finalized
  THEN /\ session' = [session EXCEPT ![s] =
                        [r EXCEPT !.error = TRUE, !.finalizer = t]]
       /\ worker' = 0
       /\ process' = Dead
  ELSE /\ session' = [session EXCEPT ![s] = r]
       /\ UNCHANGED <<worker, process>>

-----------------------------------------------------------------------------
(* _ensure_started, for a child at "start": the audio task before it       *)
(* listens, the text task before it sends the first word.                  *)

Target(c) == IF c = "audio" THEN hearing ELSE current

(* Mutant: the number is taken before it is counted up.                    *)
WithWord_OffByOne(r) == [r EXCEPT !.sent = @ + 1, !.pending = @ \cup {r.sent}]

WithWord(r) == [r EXCEPT !.sent = @ + 1, !.pending = @ \cup {r.sent + 1}]

(* The child c goes on with session s in state r and process p.            *)
Proceed(c, s, r, p) ==
  IF c = "audio"
  THEN /\ session' = [session EXCEPT ![s] = r]
       /\ process' = p
       /\ Become(c, "read")
  ELSE /\ session' = [session EXCEPT ![s] = WithWord(r)]
       /\ process' = [p EXCEPT !.commands =
                        Append(@, Message("word", s, r.sent + 1))]
       /\ Become(c, "write")

(* The start command is written and the session's tasks are created.       *)
Begin(c, s, p) ==
  Proceed(c, s,
          [session[s] EXCEPT !.worker = p.id, !.reader = "reading",
                             !.watchdog = "watching"],
          [p EXCEPT !.commands = Append(@, Message("start", s, 0))])

FindStarted(c) ==
  LET s == Target(c)
  IN  /\ Runs(c, "start")
      /\ session[s].worker # 0
      /\ IF Reachable(s) \/ c = "audio"
         THEN Proceed(c, s, session[s], process) /\ UNCHANGED worker
         ELSE Fail(s, c, session[s]) /\ Become(c, "failing")
      /\ UNCHANGED <<generation, interrupted, cancels, abandoned,
                     sequence, owner, faults>>

(* "The session has already ended."                                        *)
FindEnded(c) ==
  /\ Runs(c, "start")
  /\ session[Target(c)].finalized
  /\ Become(c, "failed")
  /\ UNCHANGED <<generation, interrupted, cancels, abandoned,
                 sequence, session, manager, process, faults>>

CanAcquire(c) ==
  /\ Runs(c, "start")
  /\ session[Target(c)].worker = 0
  /\ ~session[Target(c)].finalized
  /\ owner = 0

(* The manager has a process; it may have died since.                      *)
Acquire(c) ==
  LET s == Target(c)
  IN  /\ CanAcquire(c)
      /\ worker # 0
      /\ owner' = s
      /\ IF process.state # "dead"
         THEN Begin(c, s, process) /\ UNCHANGED worker
         ELSE /\ Fail(s, c, [session[s] EXCEPT !.worker = worker])
              /\ Become(c, "failing")
      /\ UNCHANGED <<generation, interrupted, cancels, abandoned,
                     sequence, faults>>

(* It has none: one is started in a thread.                                *)
AcquireAndStart(c) ==
  /\ CanAcquire(c)
  /\ worker = 0
  /\ owner' = Target(c)
  /\ Become(c, "starting")
  /\ UNCHANGED <<generation, interrupted, cancels, abandoned,
                 sequence, session, worker, process, faults>>

WorkerStarts(c) ==
  LET p == [id |-> process.id + 1, state |-> "idle",
            commands |-> <<>>, events |-> <<>>]
  IN  /\ Runs(c, "starting")
      /\ worker' = p.id
      /\ Begin(c, Target(c), p)
      /\ UNCHANGED <<generation, interrupted, cancels, abandoned,
                     sequence, owner, faults>>

(* No ready event in time, or another sample rate.                         *)
WorkerDoesNotStart(c) ==
  /\ Runs(c, "starting")
  /\ faults < MaxFaults
  /\ faults' = faults + 1
  /\ owner' = 0
  /\ Become(c, "failed")
  /\ UNCHANGED <<generation, interrupted, cancels, abandoned,
                 sequence, session, worker, process>>

(* The worker is gone and the error goes to the caller.                    *)
FailureEnds(c) ==
  LET s == Target(c)
  IN  /\ Runs(c, "failing")
      /\ IF session[s].finalizer = c
         THEN Release(s, session[s])
         ELSE session[s].finalized /\ UNCHANGED <<session, owner>>
      /\ Become(c, "failed")
      /\ UNCHANGED <<generation, interrupted, cancels, abandoned,
                     sequence, worker, process, faults>>

-----------------------------------------------------------------------------
(* The text task: words, the end of an utterance, the end of the input.    *)

(* The words so far.                                                       *)
Written ==
  {h \in (1 .. made) \X (1 .. MaxWords) : h[2] <= session[h[1]].sent}

OpenSession ==
  /\ Runs("text", "write")
  /\ current = 0
  /\ made < MaxSessions
  /\ Cardinality(Written) < MaxWords
  /\ made' = made + 1
  /\ current' = made'
  /\ Become("text", "start")
  /\ UNCHANGED <<generation, interrupted, cancels, abandoned,
                 inputEnded, base, hearing, heard, session, manager, process,
                 faults>>

Send(message, r) ==
  /\ Runs("text", "write")
  /\ current # 0
  /\ Reachable(current)
  /\ process' = [process EXCEPT !.commands = Append(@, message)]
  /\ session' = [session EXCEPT ![current] = r]

AddWord ==
  LET r == session[current]
  IN  /\ current # 0
      /\ Cardinality(Written) < MaxWords
      /\ Send(Message("word", current, r.sent + 1), WithWord(r))
      /\ UNCHANGED <<task, sequence, manager, faults>>

(* finish_utterance, before a tool runs.                                   *)
FinishUtterance ==
  /\ current # 0
  /\ Send(Message("finish", current, 0),
          [session[current] EXCEPT !.finishing = TRUE])
  /\ current' = 0
  /\ UNCHANGED <<task, inputEnded, base, made, hearing, heard,
                 manager, faults>>

(* finish_input, when the answer is complete; the last utterance may be    *)
(* finished already.                                                       *)
FinishInput ==
  /\ \/ /\ current # 0
        /\ Send(Message("finish", current, 0),
                [session[current] EXCEPT !.finishing = TRUE])
     \/ /\ Runs("text", "write")
        /\ current = 0
        /\ UNCHANGED <<session, process>>
  /\ current' = 0
  /\ inputEnded' = TRUE
  /\ Become("text", "done")
  /\ UNCHANGED <<generation, interrupted, cancels, abandoned, base,
                 made, hearing, heard, manager, faults>>

(* The pipe is broken, or the session has been finalized meanwhile.        *)
SendFails ==
  /\ Runs("text", "write")
  /\ current # 0
  /\ ~Reachable(current)
  /\ IF session[current].finalized
     THEN Become("text", "failed") /\ UNCHANGED <<session, worker, process>>
     ELSE Become("text", "failing") /\ Fail(current, "text", session[current])
  /\ UNCHANGED <<generation, interrupted, cancels, abandoned,
                 sequence, owner, faults>>

(* The language model or a tool round fails.                               *)
TextFails ==
  /\ Runs("text", "write")
  /\ Become("text", "failed")
  /\ UNCHANGED <<generation, interrupted, cancels, abandoned,
                 sequence, session, manager, process, faults>>

-----------------------------------------------------------------------------
(* The audio task.                                                         *)

(* Mutant: the end marker is looked at before the sessions.                *)
NextSession_EndsEarly ==
  /\ Runs("audio", "next")
  /\ IF inputEnded
     THEN Become("audio", "done")
     ELSE hearing <= made /\ Become("audio", "start")
  /\ UNCHANGED <<generation, interrupted, cancels, abandoned,
                 sequence, session, manager, process, faults>>

NextSession ==
  /\ Runs("audio", "next")
  /\ IF hearing <= made
     THEN Become("audio", "start")
     ELSE inputEnded /\ Become("audio", "done")
  /\ UNCHANGED <<generation, interrupted, cancels, abandoned,
                 sequence, session, manager, process, faults>>

(* It takes an item from the session's output queue.                       *)
Hears(what) ==
  /\ Runs("audio", "read")
  /\ session[hearing].output # <<>>
  /\ Head(session[hearing].output).is = what

Taken == [session[hearing] EXCEPT !.output = Tail(@)]

HearWord ==
  LET e == Head(session[hearing].output)
  IN  /\ Hears("word")
      /\ heard' = Append(heard, <<e.of, e.word>>)
      /\ session' = [session EXCEPT ![hearing] = Taken]
      /\ UNCHANGED <<task, current, inputEnded, base, made, hearing,
                     manager, process, faults>>

(* The END marker: the lease is returned with the worker unharmed.  All    *)
(* words have been acknowledged then and nobody else finalizes the         *)
(* session; if one did, the audio task would be stuck here.                *)
HearEnd ==
  /\ Hears("end")
  /\ session[hearing].finalizer = "none"
  /\ ~session[hearing].finalized
  /\ Release(hearing, Taken)
  /\ hearing' = hearing + 1
  /\ Become("audio", "next")
  /\ UNCHANGED <<generation, interrupted, cancels, abandoned,
                 current, inputEnded, base, made, heard, worker, process,
                 faults>>

HearFailure ==
  /\ Hears("failure")
  /\ Fail(hearing, "audio", [Taken EXCEPT !.output = <<>>])
  /\ Become("audio", "failing")
  /\ UNCHANGED <<generation, interrupted, cancels, abandoned,
                 sequence, owner, faults>>

-----------------------------------------------------------------------------
(* The tasks of a session.                                                 *)

WithFailure(r) ==
  [r EXCEPT !.error = TRUE,
            !.output = Queued(@ \o <<[is |-> "failure"], [is |-> "end"]>>)]

(* _read_output takes one event from the pipe of its process: a word, the  *)
(* end, or an error.                                                       *)
ReadEvent(s) ==
  LET r == session[s]
      e == Head(process.events)
  IN  /\ Settled
      /\ r.reader = "reading"
      /\ r.worker = process.id
      /\ process.events # <<>>
      /\ process' = [process EXCEPT !.events = Tail(@)]
      /\ session' = [session EXCEPT ![s] =
           CASE e.is = "word" ->
                  [r EXCEPT !.output = Queued(Append(@, e)), !.pending = @ \ {e.word}]
             [] e.is = "end" ->
                  [r EXCEPT !.output = Queued(Append(@, [is |-> "end"])),
                            !.finishing = FALSE, !.reader = "done"]
             [] OTHER ->
                  [WithFailure(r) EXCEPT !.reader = "done"]]
      /\ UNCHANGED <<task, sequence, manager, faults>>

(* Its process is gone: the pipe has an end.                               *)
ReadNothing(s) ==
  /\ Settled
  /\ session[s].reader = "reading"
  /\ process.state = "dead"
  /\ process.events = <<>>
  /\ session' = [session EXCEPT ![s] =
                   [WithFailure(@) EXCEPT !.reader = "done"]]
  /\ UNCHANGED <<task, sequence, manager, process, faults>>

(* Mutant: only words are watched, not the end.                            *)
WatchdogStrikes_WordsOnly(s) ==
  /\ session[s].watchdog = "watching"
  /\ session[s].pending # {}
  /\ ~(generation = "wait" /\ s > base)
  /\ Fail(s, "watchdog", [WithFailure(session[s]) EXCEPT !.watchdog = "done"])
  /\ UNCHANGED <<task, sequence, owner, faults>>

(* _watch_progress finds a word or the end outstanding for too long.  A    *)
(* cancellation that is waited for has the shorter timeout.                *)
WatchdogStrikes(s) ==
  /\ session[s].watchdog = "watching"
  /\ session[s].pending # {} \/ session[s].finishing
  /\ ~(generation = "wait" /\ s > base)
  /\ Fail(s, "watchdog", [WithFailure(session[s]) EXCEPT !.watchdog = "done"])
  /\ UNCHANGED <<task, sequence, owner, faults>>

WatchdogDone(s) ==
  /\ Settled
  /\ session[s].finalizer = "watchdog"
  /\ Release(s, session[s])
  /\ UNCHANGED <<task, sequence, worker, process, faults>>

-----------------------------------------------------------------------------
(* The generation's task (_generate_response).                             *)

(* What is left of the sessions of earlier generations is of no more use,  *)
(* but for one that still holds the lease.                                 *)
StartGeneration ==
  /\ Settled
  /\ generation \in {"none", "spoken"}
  /\ made < MaxSessions
  /\ generation' = "gather"
  /\ interrupted' = "no"
  /\ child' = [text |-> "write", audio |-> "next"]
  /\ current' = 0
  /\ inputEnded' = FALSE
  /\ base' = made
  /\ hearing' = made + 1
  /\ heard' = <<>>
  /\ session' = [s \in Session |->
       IF session[s].worker # 0 THEN session[s]
       ELSE [Fresh EXCEPT !.sent = session[s].sent]]
  /\ UNCHANGED <<cancels, abandoned, made, manager, process, faults>>

Unheard == [s \in Session |-> [session[s] EXCEPT !.output = <<>>]]

(* Mutant: a cancelled start of a process keeps the lease.                 *)
ChildCancelled_KeepsLease(c) ==
  /\ generation # "cancel"
  /\ c \in cancels
  /\ cancels' = cancels \ {c}
  /\ Become(c, "done")
  /\ LET s == Target(c)
     IN  IF child[c] = "failing" /\ session[s].finalizer = c
         THEN Release(s, session[s])
         ELSE /\ session' = IF c = "audio" THEN Unheard ELSE session
              /\ UNCHANGED owner
  /\ UNCHANGED <<generation, interrupted, abandoned, sequence,
                 worker, process, faults>>

(* A child that was cancelled is told at its await.  One that was starting *)
(* a process gives the lease back: the thread goes on with a process that  *)
(* nobody will know of.  One that was replacing its worker does so too.    *)
ChildCancelled(c) ==
  LET s == Target(c)
  IN  /\ generation # "cancel"
      /\ c \in cancels
      /\ cancels' = cancels \ {c}
      /\ Become(c, "done")
      /\ IF child[c] = "failing" /\ session[s].finalizer = c
         THEN Release(s, session[s])
         ELSE /\ owner' = IF child[c] = "starting" THEN 0 ELSE owner
              /\ session' = IF c = "audio" THEN Unheard ELSE session
      /\ UNCHANGED <<generation, interrupted, abandoned, sequence,
                     worker, process, faults>>

(* The session marks a generation as cancelled before it tells the browser *)
(* and tears it down.                                                      *)
AskToStop ==
  /\ Settled
  /\ generation = "gather"
  /\ interrupted = "no"
  /\ interrupted' = "asked"
  /\ UNCHANGED <<generation, child, cancels, abandoned, sequence,
                 session, manager, process, faults>>

(* A child that sees the mark returns in the middle of its work.           *)
ReturnEarly(c) ==
  /\ interrupted = "asked"
  /\ \/ c = "text" /\ Runs(c, "write") /\ UNCHANGED session
     \/ c = "audio" /\ Hears("word") /\ session' = Unheard
  /\ Become(c, "done")
  /\ UNCHANGED <<generation, interrupted, cancels, abandoned,
                 sequence, manager, process, faults>>

(* Both children are over: spoken, or asked or told to stop.               *)
ChildrenEnd ==
  /\ Settled
  /\ generation = "gather"
  /\ \A c \in Child : child[c] = "done"
  /\ generation' = IF interrupted = "no" THEN "spoken" ELSE "cancel"
  /\ UNCHANGED <<interrupted, child, cancels, abandoned, sequence,
                 session, manager, process, faults>>

(* One has failed: the other is cancelled.                                 *)
ChildFails ==
  /\ generation = "gather"
  /\ \E c \in Child : child[c] = "failed"
  /\ cancels' = {c \in Child : child[c] \notin Over}
  /\ child' = [c \in Child |-> IF child[c] = "failed" THEN "done" ELSE child[c]]
  /\ generation' = "cancel"
  /\ UNCHANGED <<interrupted, abandoned, sequence, session,
                 manager, process, faults>>

(* SpeechSynthesisSequence.cancel goes through the sessions; those without *)
(* a worker, or done with it, have nothing to cancel.                      *)
Open(s) == s \in base + 1 .. made /\ session[s].worker # 0

CancelSession(s) ==
  LET r == [session[s] EXCEPT !.finishing = TRUE]
  IN  /\ generation = "cancel"
      /\ Open(s)
      /\ IF Reachable(s)
         THEN /\ process' = [process EXCEPT !.commands =
                               Append(@, Message("cancel", s, 0))]
              /\ session' = [session EXCEPT ![s] = r]
              /\ generation' = "wait"
              /\ UNCHANGED worker
         ELSE /\ Fail(s, "generation", r)
              /\ generation' = "failing"
      /\ UNCHANGED <<interrupted, child, cancels, abandoned,
                     sequence, owner, faults>>

NothingToCancel ==
  /\ generation = "cancel"
  /\ \A s \in Session : ~Open(s)
  /\ generation' = "none"
  /\ UNCHANGED <<interrupted, child, cancels, abandoned, sequence,
                 session, manager, process, faults>>

(* Mutant: the lease is returned without waiting for the end.              *)
CancelEnds_NoWait(s) ==
  /\ generation = "wait"
  /\ Open(s)
  /\ Release(s, session[s])
  /\ generation' = "cancel"
  /\ UNCHANGED <<interrupted, child, cancels, abandoned,
                 sequence, worker, process, faults>>

(* The reader has come to the end of the session.                          *)
CancelEnds(s) ==
  LET r == session[s]
  IN  /\ Settled
      /\ generation = "wait"
      /\ Open(s)
      /\ r.reader = "done"
      /\ IF r.error
         THEN /\ Fail(s, "generation", r)
              /\ generation' = "replace"
              /\ UNCHANGED owner
         ELSE /\ Release(s, r)
              /\ generation' = "cancel"
              /\ UNCHANGED <<worker, process>>
      /\ UNCHANGED <<interrupted, child, cancels, abandoned,
                     sequence, faults>>

CancelTimesOut(s) ==
  /\ Settled
  /\ generation = "wait"
  /\ Open(s)
  /\ session[s].reader # "done"
  /\ Fail(s, "generation", session[s])
  /\ generation' = "failing"
  /\ UNCHANGED <<interrupted, child, cancels, abandoned, sequence,
                 owner, faults>>

(* A failure leaves the sequence's loop, a replacement goes on in it.      *)
CancelSettles ==
  /\ Settled
  /\ generation \in {"failing", "replace"}
  /\ \/ \E s \in Session : /\ session[s].finalizer = "generation"
                           /\ Release(s, session[s])
     \/ /\ \A s \in Session : ~Open(s)
        /\ UNCHANGED <<session, owner>>
  /\ generation' = IF generation = "failing" THEN "none" ELSE "cancel"
  /\ UNCHANGED <<interrupted, child, cancels, abandoned, sequence,
                 worker, process, faults>>

(* The teardown cancels the task.  While it gathers, its children end      *)
(* first and are cleaned up after.  In the clean-up itself a replacement   *)
(* returns the lease, but what waits for the reader is left as it is.      *)
Interrupt ==
  /\ Settled
  /\ \/ generation = "gather" /\ interrupted = "asked"
     \/ generation \in {"wait", "failing", "replace"} /\ interrupted # "told"
  /\ interrupted' = "told"
  /\ IF generation = "gather"
     THEN /\ cancels' = {c \in Child : child[c] \notin Over}
          /\ UNCHANGED <<generation, session, owner, abandoned>>
     ELSE /\ generation' = "none"
          /\ abandoned' = IF generation = "wait"
                          THEN abandoned \cup {owner} ELSE abandoned
          /\ \/ \E s \in Session : /\ session[s].finalizer = "generation"
                                   /\ Release(s, session[s])
             \/ /\ \A s \in Session : session[s].finalizer # "generation"
                /\ UNCHANGED <<session, owner>>
          /\ UNCHANGED cancels
  /\ UNCHANGED <<child, sequence, worker, process, faults>>

-----------------------------------------------------------------------------
(* The worker program.  Its command loop reads the pipe and fills a queue  *)
(* that the generation's thread empties; both are "commands" here.         *)

Serve(events, state) ==
  process' = [process EXCEPT !.commands = Tail(@), !.events = @ \o events,
                             !.state = state]

Event(is, c) == [is |-> is, of |-> c.of, word |-> c.word]

(* VoXtream refuses to start while the thread of the last session is there, *)
(* Kyutai when it is still there after a tenth of a second.                *)
ServeStart ==
  LET c == Head(process.commands)
  IN  /\ process.commands # <<>>
      /\ c.do = "start"
      /\ \/ /\ process.state = "idle"
            /\ Serve(<<>>, "busy")
         \/ /\ process.state \in {"busy", "ending"}
            /\ Serve(<<Event("error", c)>>, process.state)
      /\ UNCHANGED <<task, sequence, session, manager, faults>>

ServeInput ==
  LET c == Head(process.commands)
  IN  /\ process.commands # <<>>
      /\ process.state = "busy"
      /\ \/ c.do = "word" /\ Serve(<<Event("word", c)>>, "busy")
         \/ c.do = "finish" /\ Serve(<<Event("end", c)>>, "ending")
      /\ UNCHANGED <<task, sequence, session, manager, faults>>

(* The cancellation flag overtakes the words that wait in the queue.       *)
ServeCancel ==
  /\ process.state = "busy"
  /\ \E i \in 1 .. Len(process.commands) :
       LET c == process.commands[i]
       IN  /\ c.do = "cancel"
           /\ process' = [process EXCEPT
                !.commands = SubSeq(@, i + 1, Len(@)),
                !.events = Append(@, Event("end", c)),
                !.state = "ending"]
  /\ UNCHANGED <<task, sequence, session, manager, faults>>

(* Nothing is going on that the command could reach.                       *)
IgnoreCommand ==
  /\ process.commands # <<>>
  /\ process.state \in {"idle", "ending"}
  /\ Head(process.commands).do # "start"
  /\ Serve(<<>>, process.state)
  /\ UNCHANGED <<task, sequence, session, manager, faults>>

(* The thread of a session that has sent its end goes away.                *)
ThreadEnds ==
  /\ process.state = "ending"
  /\ process' = [process EXCEPT !.state = "idle"]
  /\ UNCHANGED <<task, sequence, session, manager, faults>>

(* An exception while it generates: Kyutai sends an end after the error.   *)
GenerationRaises ==
  LET e == [is |-> "error", of |-> owner, word |-> 0]
  IN  /\ process.state = "busy"
      /\ faults < MaxFaults
      /\ faults' = faults + 1
      /\ \E events \in {<<e>>, <<e, [e EXCEPT !.is = "end"]>>} :
           process' = [process EXCEPT !.state = "ending", !.events = @ \o events]
      /\ UNCHANGED <<task, sequence, session, manager>>

WorkerDies ==
  /\ process.state # "dead"
  /\ faults < MaxFaults
  /\ faults' = faults + 1
  /\ process' = Dead
  /\ UNCHANGED <<task, sequence, session, manager>>

-----------------------------------------------------------------------------
Init ==
  /\ generation = "none"
  /\ interrupted = "no"
  /\ child = [c \in Child |-> "done"]
  /\ cancels = {}
  /\ abandoned = {}
  /\ current = 0
  /\ inputEnded = FALSE
  /\ base = 0
  /\ made = 0
  /\ hearing = 1
  /\ heard = <<>>
  /\ session = [s \in Session |-> Fresh]
  /\ owner = 0
  /\ worker = 1
  /\ process = [id |-> 1, state |-> "idle", commands |-> <<>>, events |-> <<>>]
  /\ faults = 0

(* What asyncio and the timeouts bring about; a language model ends.       *)
Progress ==
  \/ \E c \in Child :
       \/ FindStarted(c) \/ FindEnded(c) \/ Acquire(c) \/ AcquireAndStart(c)
       \/ WorkerStarts(c) \/ FailureEnds(c)
  \/ FinishInput \/ SendFails
  \/ NextSession \/ HearWord \/ HearEnd \/ HearFailure
  \/ \E s \in Session :
       \/ ReadEvent(s) \/ ReadNothing(s) \/ WatchdogStrikes(s) \/ WatchdogDone(s)
       \/ CancelEnds(s) \/ CancelTimesOut(s)
  \/ \E c \in Child : ReturnEarly(c)
  \/ ChildrenEnd \/ CancelSettles
  \/ interrupted = "asked" /\ Interrupt

(* What has to be over before anything else of the event loop goes on.     *)
Immediate ==
  \/ ChildFails
  \/ NothingToCancel \/ \E s \in Session : CancelSession(s)
  \/ \E c \in Child : ChildCancelled(c)

(* What the session, its user and the language model may do.               *)
Demand ==
  \/ StartGeneration \/ OpenSession \/ AddWord \/ FinishUtterance \/ TextFails
  \/ AskToStop \/ Interrupt

WorkerProgram ==
  ServeStart \/ ServeInput \/ ServeCancel \/ IgnoreCommand \/ ThreadEnds

Next ==
  \/ Immediate
  \/ Progress
  \/ Demand
  \/ \E c \in Child : WorkerDoesNotStart(c)
  \/ WorkerProgram
  \/ GenerationRaises \/ WorkerDies

Spec == Init /\ [][Next]_vars

(* asyncio runs what is ready and timeouts expire; no worker is trusted.   *)
FairSpec == Spec /\ WF_vars(Progress \/ Immediate)

-----------------------------------------------------------------------------
(* The type invariant.  A word is outstanding only after it was written.   *)
TypeOK ==
  /\ generation \in {"none", "gather", "cancel", "wait", "failing", "replace",
                     "spoken"}
  /\ interrupted \in {"no", "asked", "told"}
  /\ child \in [Child -> Over \cup {"start", "starting", "write", "next", "read",
                                   "failing"}]
  /\ cancels \subseteq Child
  /\ abandoned \subseteq Session
  /\ current \in 0 .. made
  /\ inputEnded \in BOOLEAN
  /\ base \in 0 .. made
  /\ made \in 0 .. MaxSessions
  /\ hearing \in 1 .. made + 1
  /\ heard \in Seq(Session \X (1 .. MaxWords))
  /\ \A s \in Session :
       /\ session[s].worker \in 0 .. process.id
       /\ session[s].finalizer \in {"none", "watchdog", "generation"} \cup Child
       /\ session[s].sent \in 0 .. MaxWords
       /\ session[s].pending \subseteq 1 .. session[s].sent
       /\ session[s].reader \in {"none", "reading", "done"}
       /\ session[s].watchdog \in {"none", "watching", "done"}
  /\ owner \in 0 .. made
  /\ worker \in 0 .. process.id
  /\ process.state \in {"idle", "busy", "ending", "dead"}
  /\ faults \in 0 .. MaxFaults

(* What is heard are the words that were written, in their order, over all *)
(* the sessions of the answer, without a gap; and all of them when the     *)
(* answer was spoken to its end.  It is the hand-over from the queue of    *)
(* sessions to the pipe and to the output queue of each session            *)
(* (SpeechSynthesisSequence.audio) that could lose or repeat one.          *)
HeardAfter(h, i) ==
  IF h[2] > 1 THEN i > 1 /\ heard[i - 1] = <<h[1], h[2] - 1>>
  ELSE IF i = 1 THEN h[1] = base + 1
  ELSE heard[i - 1] = <<h[1] - 1, session[h[1] - 1].sent>>

SpokenInOrder ==
  /\ \A i \in 1 .. Len(heard) :
       heard[i] \in Written /\ HeardAfter(heard[i], i)
  /\ generation = "spoken" =>
       \A h \in Written : h[1] > base => \E i \in 1 .. Len(heard) : heard[i] = h

(* A session that has a worker holds the lease, and until somebody         *)
(* replaces it the worker is the manager's: whoever replaces or returns    *)
(* one, the reader's failure, a send, the watchdog or the clean-up, does   *)
(* it for the session that owns it and once (the assertions of replace and *)
(* release).                                                               *)
LeaseIsSound ==
  \A s \in Session :
    session[s].worker # 0 =>
      /\ owner = s
      /\ session[s].finalizer = "none" => worker = session[s].worker

(* A worker that goes back to the manager for the next session has said    *)
(* all it had to say and generates nothing.                                *)
ReturnsClean ==
  [][owner # 0 /\ owner' = 0 /\ worker' # 0
       => process.events = <<>> /\ process.state # "busy"]_vars

(* A generation that is over, spoken, failed or cancelled, holds no lease, *)
(* with two exceptions: its watchdog is replacing the worker, or the       *)
(* teardown has interrupted the cancellation of its session.               *)
LeaseEndsWithGeneration ==
  /\ owner # 0
  /\ owner <= base \/ (generation \in {"none", "spoken"} /\ cancels = {})
  => owner \in abandoned \/ session[owner].finalizer = "watchdog"

(* Such a session, when nothing of it is outstanding, is out of the reach  *)
(* of its watchdog as well.                                                *)
LeaseLost ==
  /\ owner \in abandoned
  /\ session[owner].pending = {}
  /\ ~session[owner].finishing

(* Every generation that begins to speak ends, whatever the worker         *)
(* programs do or fail to do, unless a lease is lost; then the first       *)
(* session that asks for it waits for ever.                                *)
StreamsEnd ==
  generation \notin {"none", "spoken"} ~>
    generation \in {"none", "spoken"} \/ LeaseLost

(* docs/streaming-voice-agent-prototype.md: "A normal terminal event       *)
(* releases the reusable worker."  Once a session's reader has read its    *)
(* end, the session gives its worker back.                                 *)
TerminalEventReleases ==
  \A s \in Session :
    session[s].reader = "done" /\ ~session[s].error ~> session[s].worker = 0
=============================================================================
