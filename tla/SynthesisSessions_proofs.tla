---------------------- MODULE SynthesisSessions_proofs ----------------------
(***************************************************************************)
(* Proofs about SynthesisSessions, for any number of sessions, words and   *)
(* faults.                                                                 *)
(*                                                                         *)
(* First the lease: whoever has the worker process holds it, and a         *)
(* generation that is over has given it back, with the two exceptions that *)
(* LeaseEndsWithGeneration names.  The inductive invariant says what the   *)
(* state is made of (Shape), where the children and the sequence are       *)
(* together (PlacesInv), who uses the worker (LeaseInv) and who may still  *)
(* hold the lease when its generation ends (EndInv).  What the helpers     *)
(* Release, Fail and Proceed do to a lease is stated once; a step of an    *)
(* action then only says which of them it is.                              *)
(*                                                                         *)
(* Then what the pipes and the queues hold.  Each step is of one of a few  *)
(* Kinds, as far as sessions and process go, and every later lemma goes    *)
(* through the kinds instead of the actions.  TypesInv has the types of    *)
(* all that is sent; PipeInv says when a start may be in the command pipe, *)
(* when the process is quiet and that an end is the last event, so that a  *)
(* worker is returned clean.  OrderInv says that the words of a session    *)
(* are in their order in what is heard, the output queue, the event pipe   *)
(* and the command pipe together; with HeardInv and Worded this is         *)
(* SpokenInOrder.                                                          *)
(***************************************************************************)
EXTENDS SynthesisSessions, SequenceTheorems, FiniteSetTheorems, TLAPS

(* The fields of the records, and the process that the manager knows.      *)
Shape ==
  /\ DOMAIN session = Session
  /\ \A s \in Session : DOMAIN session[s] = DOMAIN Fresh
  /\ DOMAIN process = {"id", "state", "commands", "events"}
  /\ process.id \in Nat \ {0}
  /\ worker \in {0, process.id}
  /\ DOMAIN child = Child

(* Where the children and the sequence are together.                       *)
PlacesInv ==
  /\ made \in 0 .. MaxSessions
  /\ base \in 0 .. made
  /\ current \in 0 .. made
  /\ hearing \in 1 .. made + 1
  /\ cancels \subseteq Child
  /\ child.text \in {"start", "starting", "failing"} => current # 0
  /\ child.audio \in {"start", "starting", "read", "failing"} => hearing <= made
  /\ generation # "gather" => \A c \in Child : child[c] = "done" \/ c \in cancels

(* Served: it has a worker, or had one.  Awaits: a child is starting one   *)
(* for it.                                                                 *)
Served(x) == session[x].worker # 0 \/ session[x].finalized

Awaits(x) == owner = x /\ worker = 0 /\ session[x].worker = 0 /\ ~session[x].finalized

(* One session has the worker at most, and its lease; it is the manager's  *)
(* until somebody finalizes the session.                                   *)
Leases ==
  \A s \in Session :
    /\ session[s].worker # 0 =>
         /\ owner = s
         /\ session[s].finalizer = "none" => worker = session[s].worker
    /\ session[s].finalizer # "none" \/ session[s].watchdog = "watching"
         => session[s].worker # 0
    /\ session[s].finalized => session[s].worker = 0

(* A child uses a session that has, or had, the worker.                    *)
Users ==
  /\ child.text = "write" /\ current # 0 => Served(current)
  /\ child.audio = "read" => Served(hearing)
  /\ child.text = "starting" => Awaits(current)
  /\ child.audio = "starting" => Awaits(hearing)
  /\ ~(child.text = "starting" /\ child.audio = "starting")

LeaseInv == Leases /\ Users

(* The watchdog replaces its worker, or its cancellation was interrupted.  *)
Excused(x) == x \in abandoned \/ session[x].finalizer = "watchdog"

(* The children work on sessions of their own generation.                  *)
EndPlaces ==
  /\ base < hearing
  /\ current # 0 => base < current
  /\ owner \in 0 .. made

(* The lease is a session's, or a child starts a worker for one.           *)
Owned ==
  \A s \in Session :
    owner = s => \/ session[s].worker # 0
                 \/ child.text = "starting" /\ current = s
                 \/ child.audio = "starting" /\ hearing = s

(* A child that finalizes a session is replacing its worker.               *)
Finalizers ==
  \A s \in Session :
    /\ session[s].finalizer \in {"none", "watchdog", "generation"} \cup Child
    /\ session[s].finalizer = "text" => child.text = "failing" /\ current = s
    /\ session[s].finalizer = "audio" => child.audio = "failing" /\ hearing = s

(* The sessions that were heard to their end are finalized, and an answer  *)
(* that was not stopped is over when all of them are.                      *)
AnswerEnds ==
  /\ \A s \in base + 1 .. hearing - 1 : session[s].finalized
  /\ generation = "gather" /\ cancels # {} => interrupted = "told"
  /\ generation = "gather" /\ inputEnded => child.text = "done"
  /\ generation = "gather" /\ interrupted = "no" /\ child.audio = "done" =>
       inputEnded /\ hearing = made + 1

(* A clean-up that failed is replacing the worker; a lease that outlives   *)
(* its generation has one of the two excuses.                              *)
Excuses ==
  \A s \in Session :
    session[s].worker # 0 =>
      /\ generation \in {"failing", "replace"} /\ base < s =>
           session[s].finalizer # "none"
      /\ s <= base \/ generation \in {"none", "spoken"} => Excused(s)

EndInv == EndPlaces /\ Owned /\ Finalizers /\ AnswerEnds /\ Excuses

(* The shape of the sessions after a step, the sessions a step leaves      *)
(* alone, and the part of a session that concerns its lease.               *)
Framed ==
  /\ DOMAIN session' = Session
  /\ \A x \in Session : DOMAIN session'[x] = DOMAIN Fresh

Others(s) == \A x \in Session \ {s} : session'[x] = session[x]

SameLease(r, q) ==
  /\ r.worker = q.worker /\ r.finalizer = q.finalizer
  /\ r.finalized = q.finalized /\ r.watchdog = q.watchdog

IsProcess(p) == DOMAIN p = {"id", "state", "commands", "events"}

(* What Release does to the lease of session s.                            *)
Released(s) ==
  /\ Others(s) /\ owner' = 0
  /\ session'[s].worker = 0 /\ session'[s].finalizer = "none"
  /\ session'[s].watchdog = "none" /\ session'[s].finalized

(* What Fail does to it.                                                   *)
Failed(s, t) ==
  LET first == session[s].finalizer = "none" /\ ~session[s].finalized
  IN  /\ Framed /\ Others(s)
      /\ IsProcess(process') /\ process'.id = process.id
      /\ session'[s].worker = session[s].worker
      /\ session'[s].finalized = session[s].finalized
      /\ session'[s].watchdog \in {session[s].watchdog, "done"}
      /\ session'[s].finalizer = IF first THEN t ELSE session[s].finalizer
      /\ worker' = IF first THEN 0 ELSE worker

(* The leases are sound after the step, and nobody loses a session.        *)
LeasesKept ==
  /\ Leases'
  /\ \A x \in Session : (Served(x) => Served(x)') /\ (Awaits(x) => Awaits(x)')

(* What a release and a failure do to the leases.                          *)
LEMMA ReleaseIs ==
  ASSUME Shape, NEW s \in Session, NEW r, Release(s, r)
  PROVE  Framed /\ Released(s)
  BY DEF Shape, Release, Finalized, Framed, Others, Fresh, Released

(* A failure of a session whose state has become r: whoever is first is the*)
(* finalizer and the worker is gone, later ones change only the state.     *)
LEMMA FailEffect ==
  ASSUME Shape, NEW s \in Session, NEW t, t # "none",
         NEW r, DOMAIN r = DOMAIN Fresh, Fail(s, t, r)
  PROVE  /\ Framed /\ Others(s)
         /\ session'[s].worker = r.worker /\ session'[s].watchdog = r.watchdog
         /\ session'[s].finalized = r.finalized
         /\ ~r.finalized => session'[s].finalizer # "none"
         /\ session'[s].finalizer \in {r.finalizer, t}
         /\ r.finalizer # "none" \/ r.finalized =>
              session'[s].finalizer = r.finalizer /\ worker' = worker
         /\ r.finalizer = "none" /\ ~r.finalized => worker' = 0
         /\ IsProcess(process') /\ process'.id = process.id
  <1> USE DEF Shape, Framed, Others, IsProcess, Fresh
  <1>1. CASE r.finalizer = "none" /\ ~r.finalized
    <2> DEFINE q == [r EXCEPT !.error = TRUE, !.finalizer = t]
    <2>1. /\ DOMAIN q = DOMAIN r /\ q.finalizer = t /\ q.worker = r.worker
          /\ q.watchdog = r.watchdog /\ q.finalized = r.finalized
      OBVIOUS
    <2>2. session' = [session EXCEPT ![s] = q] /\ worker' = 0 /\ process' = Dead
      BY <1>1 DEF Fail
    <2>3. IsProcess(process') /\ process'.id = process.id
      BY <2>2 DEF Dead
    <2> HIDE DEF q
    <2> QED
      BY <1>1, <2>1, <2>2, <2>3
  <1>2. CASE ~(r.finalizer = "none" /\ ~r.finalized)
    BY <1>2 DEF Fail
  <1> QED
    BY <1>1, <1>2

(* Going on with a session leaves its lease as it is.                      *)
LEMMA ProceedEffect ==
  ASSUME Shape, NEW c \in Child, NEW s \in Session,
         NEW r, DOMAIN r = DOMAIN Fresh, NEW p, IsProcess(p), Proceed(c, s, r, p)
  PROVE  /\ Framed /\ Others(s) /\ SameLease(session'[s], r)
         /\ IsProcess(process') /\ process'.id = p.id
         /\ child' = [child EXCEPT ![c] = IF c = "audio" THEN "read" ELSE "write"]
  <1> USE DEF Shape, Framed, Others, IsProcess, Fresh, SameLease
  <1>1. CASE c = "audio"
    BY <1>1 DEF Proceed, Become
  <1>2. CASE c # "audio"
    <2> DEFINE q == WithWord(r)
    <2>1. DOMAIN q = DOMAIN r /\ SameLease(q, r)
      BY DEF WithWord
    <2>2. /\ session' = [session EXCEPT ![s] = q]
          /\ child' = [child EXCEPT ![c] = "write"]
          /\ process' = [p EXCEPT !.commands = Append(@, Message("word", s, r.sent + 1))]
      BY <1>2 DEF Proceed, Become
    <2>3. IsProcess(process') /\ process'.id = p.id
      BY <2>2
    <2> HIDE DEF q
    <2> QED
      BY <1>2, <2>1, <2>2, <2>3
  <1> QED
    BY <1>1, <1>2

(* The start of a session gives it the worker.                             *)
LEMMA BeginEffect ==
  ASSUME Shape, NEW c \in Child, NEW s \in Session, NEW p, IsProcess(p), Begin(c, s, p)
  PROVE  /\ Framed /\ Others(s) /\ IsProcess(process') /\ process'.id = p.id
         /\ session'[s].worker = p.id /\ session'[s].watchdog = "watching"
         /\ session'[s].finalizer = session[s].finalizer
         /\ session'[s].finalized = session[s].finalized
         /\ child' = [child EXCEPT ![c] = IF c = "audio" THEN "read" ELSE "write"]
  <1> DEFINE r == [session[s] EXCEPT !.worker = p.id, !.reader = "reading",
                                     !.watchdog = "watching"]
             q == [p EXCEPT !.commands = Append(@, Message("start", s, 0))]
  <1>1. /\ DOMAIN r = DOMAIN Fresh /\ IsProcess(q) /\ q.id = p.id
        /\ r.worker = p.id /\ r.watchdog = "watching"
        /\ r.finalizer = session[s].finalizer /\ r.finalized = session[s].finalized
    BY DEF Shape, IsProcess, Fresh
  <1>2. Proceed(c, s, r, q)
    BY DEF Begin
  <1> HIDE DEF r, q
  <1> QED
    BY <1>1, <1>2, ProceedEffect DEF SameLease

(* The failure that the reader or the watchdog queues does not touch the   *)
(* lease.                                                                  *)
LEMMA FailureKept ==
  ASSUME NEW r, DOMAIN r = DOMAIN Fresh
  PROVE  /\ DOMAIN WithFailure(r) = DOMAIN Fresh
         /\ SameLease(WithFailure(r), r)
  BY DEF WithFailure, SameLease, Fresh

(* Dropping the output queues neither.                                     *)
LEMMA UnheardKept ==
  ASSUME Shape
  PROVE  /\ DOMAIN Unheard = Session
         /\ \A x \in Session : DOMAIN Unheard[x] = DOMAIN Fresh /\ SameLease(Unheard[x], session[x])
  BY DEF Shape, Unheard, SameLease, Fresh

(* A child that starts a session, or fails with one, has one.              *)
LEMMA TargetIn ==
  ASSUME PlacesInv, NEW c \in Child, child[c] \in {"start", "starting", "failing"}
  PROVE  Target(c) \in Session
  BY SynthesisAssumption DEF PlacesInv, Target, Child, Session

(* The leases are sound after a step that leaves all of them as they are.  *)
LEMMA LeasesSame ==
  ASSUME Leases, UNCHANGED <<owner, worker>>,
         \A x \in Session : SameLease(session'[x], session[x])
  PROVE  LeasesKept
  BY DEF Leases, LeasesKept, Served, Awaits, SameLease

(* A failure that keeps the lease in the session's state.                  *)
LEMMA FailIs ==
  ASSUME Shape, NEW s \in Session, NEW t, t # "none",
         NEW r, DOMAIN r = DOMAIN Fresh, Fail(s, t, r),
         r.worker = session[s].worker, r.finalizer = session[s].finalizer,
         r.finalized = session[s].finalized,
         r.watchdog \in {session[s].watchdog, "done"}
  PROVE  Failed(s, t)
  BY FailEffect DEF Failed

(* What the audio task's failure does (subprocess_tts.py:324-327).         *)
LEMMA HearFailureIs ==
  ASSUME Shape, PlacesInv, HearFailure
  PROVE  hearing \in Session /\ Failed(hearing, "audio")
  <1> DEFINE r == [Taken EXCEPT !.output = <<>>]
  <1>1. hearing \in Session
    BY SynthesisAssumption DEF HearFailure, Hears, Runs, PlacesInv, Session
  <1>2. DOMAIN r = DOMAIN Fresh /\ SameLease(r, session[hearing])
    BY <1>1 DEF Taken, Shape, Fresh, SameLease
  <1>3. Fail(hearing, "audio", r)
    BY DEF HearFailure
  <1> HIDE DEF r
  <1> QED
    BY <1>1, <1>2, <1>3, FailIs DEF SameLease

(* What the watchdog's failure does (subprocess_tts.py:446-459).           *)
LEMMA WatchdogStrikesIs ==
  ASSUME Shape, NEW s \in Session, WatchdogStrikes(s)
  PROVE  Failed(s, "watchdog")
  <1> DEFINE r == [WithFailure(session[s]) EXCEPT !.watchdog = "done"]
  <1>1. /\ DOMAIN r = DOMAIN Fresh /\ r.worker = session[s].worker
        /\ r.finalizer = session[s].finalizer
        /\ r.finalized = session[s].finalized /\ r.watchdog = "done"
    BY FailureKept DEF Shape, Fresh, SameLease
  <1>2. Fail(s, "watchdog", r)
    BY DEF WatchdogStrikes
  <1> HIDE DEF r
  <1> QED
    BY <1>1, <1>2, FailIs

(* A cancellation writes its command or fails (subprocess_tts.py:338-360). *)
LEMMA CancelSessionIs ==
  ASSUME Shape, NEW s \in Session, CancelSession(s)
  PROVE  \/ Failed(s, "generation") /\ generation' = "failing"
         \/ /\ Framed /\ \A x \in Session : SameLease(session'[x], session[x])
            /\ IsProcess(process') /\ process'.id = process.id
            /\ generation' = "wait" /\ UNCHANGED worker
  <1> DEFINE r == [session[s] EXCEPT !.finishing = TRUE]
  <1>1. DOMAIN r = DOMAIN Fresh /\ SameLease(r, session[s])
    BY DEF Shape, Fresh, SameLease
  <1>2. \/ Fail(s, "generation", r) /\ generation' = "failing"
        \/ /\ session' = [session EXCEPT ![s] = r]
           /\ IsProcess(process') /\ process'.id = process.id
           /\ generation' = "wait" /\ UNCHANGED worker
    BY DEF CancelSession, Shape, IsProcess
  <1> HIDE DEF r
  <1>3. CASE Fail(s, "generation", r) /\ generation' = "failing"
    BY <1>1, <1>3, FailIs DEF SameLease
  <1>4. CASE session' = [session EXCEPT ![s] = r] /\ generation' = "wait"
    <2>1. Framed /\ \A x \in Session : SameLease(session'[x], session[x])
      BY <1>1, <1>4 DEF SameLease, Shape, Framed, Fresh
    <2> QED
      BY <1>2, <1>4, <2>1
  <1> QED
    BY <1>2, <1>3, <1>4

(* Reading an event leaves the leases as they are.                         *)
LEMMA ReadEventIs ==
  ASSUME Shape, NEW s \in Session, ReadEvent(s)
  PROVE  /\ Framed /\ \A x \in Session : SameLease(session'[x], session[x])
         /\ IsProcess(process') /\ process'.id = process.id
  <1> DEFINE r == session[s]
             e == Head(process.events)
             q1 == [r EXCEPT !.output = Queued(Append(@, e)), !.pending = @ \ {e.word}]
             q2 == [r EXCEPT !.output = Queued(Append(@, [is |-> "end"])),
                             !.finishing = FALSE, !.reader = "done"]
             q3 == [WithFailure(r) EXCEPT !.reader = "done"]
  <1>1. /\ DOMAIN q1 = DOMAIN Fresh /\ SameLease(q1, r)
        /\ DOMAIN q2 = DOMAIN Fresh /\ SameLease(q2, r)
    BY DEF SameLease, Fresh, Shape
  <1>2. DOMAIN q3 = DOMAIN Fresh /\ SameLease(q3, r)
    BY FailureKept DEF SameLease, Fresh, Shape
  <1>3. session' = [session EXCEPT ![s] = CASE e.is = "word" -> q1 [] e.is = "end" -> q2 [] OTHER -> q3]
    BY DEF ReadEvent
  <1>4. IsProcess(process') /\ process'.id = process.id
    BY DEF ReadEvent, IsProcess, Shape
  <1> HIDE DEF q1, q2, q3
  <1> QED
    BY <1>1, <1>2, <1>3, <1>4 DEF SameLease, Shape, Framed, Fresh

(* The leases are sound after the session that holds the worker is         *)
(* released.                                                               *)
LEMMA LeaseReleased ==
  ASSUME Leases, NEW s \in Session, Released(s), session[s].worker # 0,
         UNCHANGED worker
  PROVE  LeasesKept
  <1>1. owner = s /\ \A x \in Session \ {s} : session[x].worker = 0
    BY DEF Leases
  <1> QED
    BY <1>1 DEF Leases, LeasesKept, Served, Awaits, Others, Released

(* They are after a session fails that has, or had, a worker.              *)
LEMMA LeaseFailed ==
  ASSUME Leases, NEW s \in Session, NEW t, t # "none", Failed(s, t), Served(s),
         UNCHANGED owner
  PROVE  LeasesKept
  <1>1. CASE session[s].finalized
    BY <1>1 DEF Leases, LeasesKept, Served, Awaits, Others, Failed
  <1>2. CASE ~session[s].finalized
    <2>1. session[s].worker # 0 /\ owner = s
      BY <1>2 DEF Served, Leases
    <2>2. \A x \in Session \ {s} : session[x].worker = 0
      BY <2>1 DEF Leases
    <2> QED
      BY <1>2, <2>1, <2>2 DEF Leases, LeasesKept, Served, Awaits, Others,
         Failed
  <1> QED
    BY <1>1, <1>2

(* A child that finds its session started leaves the leases as they are.   *)
LEMMA LeaseGoesOn ==
  ASSUME Shape, NEW c \in Child, NEW s \in Session,
         Proceed(c, s, session[s], process), UNCHANGED <<owner, worker>>
  PROVE  /\ \A x \in Session : SameLease(session'[x], session[x])
         /\ child' = [child EXCEPT ![c] = IF c = "audio" THEN "read" ELSE "write"]
  <1> DEFINE r == session[s]
  <1>1. DOMAIN r = DOMAIN Fresh /\ IsProcess(process) /\ Proceed(c, s, r, process)
    BY DEF Shape, IsProcess
  <1>2. r = session[s]
    OBVIOUS
  <1> HIDE DEF r
  <1>3. /\ Others(s) /\ SameLease(session'[s], r)
        /\ child' = [child EXCEPT ![c] = IF c = "audio" THEN "read" ELSE "write"]
    BY <1>1, ProceedEffect
  <1> QED
    BY <1>2, <1>3 DEF Others, SameLease

(* The leases are sound after a session without a worker gets one, when    *)
(* nobody else held the lease.                                             *)
LEMMA LeaseBegun ==
  ASSUME Leases, NEW s \in Session, Others(s),
         session[s].worker = 0, ~session[s].finalized, owner \in {0, s},
         session'[s].worker # 0, ~session'[s].finalized, owner' = s,
         session'[s].finalizer = "none" => worker' = session'[s].worker
  PROVE  /\ Leases' /\ Served(s)'
         /\ \A x \in Session : Served(x) => Served(x)'
  <1>1. \A x \in Session : session[x].worker = 0
    BY DEF Leases, Session
  <1> QED
    BY <1>1 DEF Leases, Served, Others

(* What Acquire does: the worker is the session's, or is being replaced by *)
(* the child.                                                              *)
LEMMA AcquireIs ==
  ASSUME Shape, Leases, NEW c \in Child, Acquire(c), NEW s \in Session, s = Target(c)
  PROVE  /\ Framed /\ IsProcess(process')
         /\ process'.id = process.id
         /\ Others(s) /\ session'[s].worker = worker /\ ~session'[s].finalized
         /\ \/ /\ session'[s].finalizer = "none" /\ UNCHANGED worker
               /\ child' = [child EXCEPT ![c] = IF c = "audio" THEN "read" ELSE "write"]
            \/ /\ session'[s].finalizer = c
               /\ child' = [child EXCEPT ![c] = "failing"]
  <1>1. /\ session[s].worker = 0 /\ ~session[s].finalized /\ session[s].finalizer = "none"
        /\ worker # 0 /\ worker = process.id /\ IsProcess(process)
    BY DEF Acquire, CanAcquire, Leases, Shape, IsProcess
  <1>2. CASE Begin(c, s, process) /\ UNCHANGED worker
    BY <1>1, <1>2, BeginEffect
  <1>3. CASE Fail(s, c, [session[s] EXCEPT !.worker = worker]) /\ Become(c, "failing")
    <2> DEFINE r == [session[s] EXCEPT !.worker = worker]
    <2>1. /\ DOMAIN r = DOMAIN Fresh /\ r.worker = worker
          /\ r.finalizer = "none" /\ ~r.finalized
      BY <1>1 DEF Shape, Fresh
    <2>2. Fail(s, c, r) /\ c # "none"
      BY <1>3 DEF Child
    <2> HIDE DEF r
    <2> QED
      BY <1>3, <2>1, <2>2, FailEffect DEF Become
  <1> QED
    BY <1>2, <1>3 DEF Acquire

(* What WorkerStarts does: the new worker is the session's.                *)
LEMMA WorkerStartsIs ==
  ASSUME Shape, NEW c \in Child, WorkerStarts(c), NEW s \in Session, s = Target(c)
  PROVE  /\ Framed /\ IsProcess(process')
         /\ process'.id = worker'
         /\ Others(s) /\ session'[s].worker = worker' /\ worker' # 0
         /\ session'[s].finalized = session[s].finalized
         /\ session'[s].finalizer = session[s].finalizer
         /\ child' = [child EXCEPT ![c] = IF c = "audio" THEN "read" ELSE "write"]
  <1> DEFINE p == [id |-> process.id + 1, state |-> "idle", commands |-> <<>>, events |-> <<>>]
  <1>1. Begin(c, s, p) /\ worker' = p.id
    BY DEF WorkerStarts
  <1>2. IsProcess(p) /\ p.id # 0
    BY DEF IsProcess, Shape
  <1> HIDE DEF p
  <1> QED
    BY <1>1, <1>2, BeginEffect

(* The worker programs touch no lease.                                     *)
LEMMA LeasesLeftAlone ==
  ASSUME LeaseInv, EndInv, UNCHANGED <<task, sequence, session, manager>>
  PROVE  LeaseInv' /\ EndInv'
  BY DEF LeaseInv, EndInv, Leases, Users, Served, Awaits, EndPlaces, Owned,
         Finalizers, AnswerEnds, Excuses, Excused, task, sequence, manager

(* Every step keeps the shape of the state.                                *)
LEMMA ShapeStep ==
  ASSUME Shape, PlacesInv, Leases, [Next]_vars
  PROVE  Shape'
  <1> USE DEF Shape, PlacesInv, Fresh, Child, Session, task, sequence, manager
  <1> USE SynthesisAssumption
  <1>1. ASSUME NEW c \in Child, FindStarted(c)
        PROVE  Shape'
    <2> DEFINE s == Target(c)
    <2>0. s \in Session /\ session[s].worker # 0 /\ c # "none" /\ DOMAIN session[s] = DOMAIN Fresh
          /\ IsProcess(process)
      BY <1>1, TargetIn DEF FindStarted, Runs, Shape, Child, IsProcess
    <2>1. CASE Proceed(c, s, session[s], process) /\ UNCHANGED <<worker, owner>>
      <3> DEFINE q == session[s]
      <3>2. s \in Session /\ DOMAIN q = DOMAIN Fresh /\ IsProcess(process) /\ Proceed(c, s, q, process)
        BY <2>0, <2>1
      <3> HIDE DEF s, q
      <3>1. Framed /\ IsProcess(process') /\ process'.id = process.id
            /\ child' = [child EXCEPT ![c] = IF c = "audio" THEN "read" ELSE "write"]
        BY <3>2, ProceedEffect
      <3> QED
        BY <2>1, <3>1 DEF Framed, IsProcess
      \* ceedEffect DEF Framed, IsProcess, Become
    <2>2. CASE Fail(s, c, session[s]) /\ Become(c, "failing") /\ UNCHANGED owner
      BY <2>0, <2>2, FailEffect DEF Framed, IsProcess, Become
    <2> QED
      BY <1>1, <2>1, <2>2 DEF FindStarted
  <1>2. ASSUME NEW c \in Child, FindEnded(c)
        PROVE  Shape'
    BY <1>2 DEF FindEnded, Settled, Runs, Become, Target
  <1>3. ASSUME NEW c \in Child, Acquire(c)
        PROVE  Shape'
    <2>1. PICK s \in Session : s = Target(c)
      BY <1>3, TargetIn DEF Acquire, CanAcquire, Runs
    <2>2. worker' \in {0, worker}
      BY <1>3 DEF Acquire, Fail
    <2> QED
      BY <1>3, <2>1, <2>2, AcquireIs DEF Framed, IsProcess, Become
  <1>4. ASSUME NEW c \in Child, AcquireAndStart(c)
        PROVE  Shape'
    BY <1>4 DEF AcquireAndStart, CanAcquire, Settled, Runs, Become, Target
  <1>5. ASSUME NEW c \in Child, WorkerStarts(c)
        PROVE  Shape'
    <2>1. PICK s \in Session : s = Target(c)
      BY <1>5, TargetIn DEF WorkerStarts, Runs
    <2>2. worker' = process.id + 1
      BY <1>5 DEF WorkerStarts
    <2> QED
      BY <1>5, <2>1, <2>2, WorkerStartsIs DEF Framed, IsProcess
  <1>6. ASSUME NEW c \in Child, WorkerDoesNotStart(c)
        PROVE  Shape'
    BY <1>6 DEF WorkerDoesNotStart, Settled, Runs, Become
  <1>7. ASSUME NEW c \in Child, FailureEnds(c)
        PROVE  Shape'
    BY <1>7 DEF FailureEnds, Settled, Runs, Become, Release, Finalized,
       Queued, Target
  <1>8. CASE OpenSession
    BY <1>8 DEF OpenSession, Settled, Runs, Become
  <1>9. CASE AddWord
    BY <1>9 DEF AddWord, Send, WithWord, Settled, Runs, Become, Reachable
  <1>10. CASE FinishUtterance
    BY <1>10 DEF FinishUtterance, Send, Settled, Runs, Become, Reachable
  <1>11. CASE FinishInput
    BY <1>11 DEF FinishInput, Send, Settled, Runs, Become, Reachable
  <1>12. CASE SendFails
    <2>1. current \in Session /\ DOMAIN session[current] = DOMAIN Fresh
      BY <1>12 DEF SendFails
    <2>2. CASE UNCHANGED <<session, worker, process>>
      BY <1>12, <2>2 DEF SendFails, Become
    <2>3. CASE Fail(current, "text", session[current])
      BY <1>12, <2>1, <2>3, FailEffect DEF SendFails, Become, Framed, IsProcess
    <2> QED
      BY <1>12, <2>2, <2>3 DEF SendFails
  <1>13. CASE TextFails
    BY <1>13 DEF TextFails, Settled, Runs, Become
  <1>14. CASE NextSession
    BY <1>14 DEF NextSession, Settled, Runs, Become
  <1>15. CASE HearWord
    BY <1>15 DEF HearWord, Hears, Taken, Settled, Runs, Become
  <1>16. CASE HearEnd
    <2>1. hearing \in Session
      BY <1>16 DEF HearEnd, Hears, Runs
    <2>2. Release(hearing, Taken) /\ UNCHANGED <<worker, process>> /\ child' = [child EXCEPT !["audio"] = "next"]
      BY <1>16 DEF HearEnd, Become
    <2> QED
      BY <2>1, <2>2, ReleaseIs DEF Framed
  <1>17. CASE HearFailure
    BY <1>17, HearFailureIs DEF HearFailure, Become, Failed, Framed, IsProcess
  <1>18. ASSUME NEW s \in Session, ReadEvent(s)
        PROVE  Shape'
    BY <1>18, ReadEventIs DEF ReadEvent, Framed, IsProcess
  <1>19. ASSUME NEW s \in Session, ReadNothing(s)
        PROVE  Shape'
    <2>1. DOMAIN session' = Session
      BY <1>19 DEF ReadNothing
    <2>2. \A x \in Session \ {s} : session'[x] = session[x]
      BY <1>19 DEF ReadNothing
    <2>3. DOMAIN session'[s] = DOMAIN Fresh /\ SameLease(session'[s], session[s])
      BY <1>19, FailureKept DEF ReadNothing, SameLease, Fresh
    <2>4. UNCHANGED <<child, owner, worker, current, hearing>> /\ IsProcess(process') /\ process'.id = process.id
      BY <1>19 DEF ReadNothing, IsProcess
    <2> QED
      BY <2>1, <2>2, <2>3, <2>4 DEF SameLease, IsProcess
  <1>20. ASSUME NEW s \in Session, WatchdogStrikes(s)
        PROVE  Shape'
    BY <1>20, WatchdogStrikesIs DEF WatchdogStrikes, Failed, Framed, IsProcess
  <1>21. ASSUME NEW s \in Session, WatchdogDone(s)
        PROVE  Shape'
    BY <1>21 DEF WatchdogDone, Release, Finalized, Queued
  <1>22. CASE StartGeneration
    BY <1>22 DEF StartGeneration, Settled
  <1>23. ASSUME NEW c \in Child, ChildCancelled(c)
        PROVE  Shape'
    <2>1. child' = [child EXCEPT ![c] = "done"] /\ UNCHANGED <<worker, process>>
      BY <1>23 DEF ChildCancelled, Become
    <2>2. CASE child[c] = "failing" /\ Release(Target(c), session[Target(c)])
      BY <2>1, <2>2, TargetIn, ReleaseIs DEF Framed
    <2>3. CASE session' \in {session, Unheard}
      BY <2>1, <2>3, UnheardKept
    <2> QED
      BY <1>23, <2>2, <2>3 DEF ChildCancelled
  <1>24. CASE AskToStop
    BY <1>24 DEF AskToStop
  <1>25. ASSUME NEW c \in Child, ReturnEarly(c)
        PROVE  Shape'
    <2>1. child' = [child EXCEPT ![c] = "done"] /\ UNCHANGED <<worker, owner, process>>
      BY <1>25 DEF ReturnEarly, Become
    <2>2. CASE UNCHANGED session
      BY <2>1, <2>2
    <2>3. CASE session' = Unheard
      BY <2>1, <2>3, UnheardKept
    <2> QED
      BY <1>25, <2>2, <2>3 DEF ReturnEarly
  <1>26. CASE ChildrenEnd
    BY <1>26 DEF ChildrenEnd, Settled
  <1>27. CASE ChildFails
    BY <1>27 DEF ChildFails, Over
  <1>28. ASSUME NEW s \in Session, CancelSession(s)
        PROVE  Shape'
    BY <1>28, CancelSessionIs DEF CancelSession, Failed, Framed, IsProcess
  <1>29. CASE NothingToCancel
    BY <1>29 DEF NothingToCancel
  <1>30. ASSUME NEW s \in Session, CancelEnds(s)
        PROVE  Shape'
    <2>1. CASE Fail(s, "generation", session[s]) /\ UNCHANGED <<child, owner>>
      BY <2>1, FailEffect DEF Framed, IsProcess
    <2>2. CASE Release(s, session[s]) /\ UNCHANGED <<child, worker, process>>
      BY <2>2, ReleaseIs DEF Framed
    <2> QED
      BY <1>30, <2>1, <2>2 DEF CancelEnds
  <1>31. ASSUME NEW s \in Session, CancelTimesOut(s)
        PROVE  Shape'
    BY <1>31, FailIs DEF CancelTimesOut, Failed, Framed, IsProcess
  <1>32. CASE CancelSettles
    <2>0. UNCHANGED <<child, worker, process>>
      BY <1>32 DEF CancelSettles
    <2>1. CASE \E s \in Session : session[s].finalizer = "generation" /\ Release(s, session[s])
      <3>1. PICK s \in Session : session[s].finalizer = "generation" /\ Release(s, session[s])
        BY <2>1
      <3> QED
        BY <2>0, <3>1, ReleaseIs DEF Framed
    <2>2. CASE UNCHANGED <<session, owner>>
      BY <1>32, <2>0, <2>2 DEF CancelSettles
    <2> QED
      BY <1>32, <2>1, <2>2 DEF CancelSettles
  <1>33. CASE Interrupt
    <2>0. UNCHANGED <<child, worker, process>>
      BY <1>33 DEF Interrupt
    <2>1. CASE \E s \in Session : session[s].finalizer = "generation" /\ Release(s, session[s])
      <3>1. PICK s \in Session : session[s].finalizer = "generation" /\ Release(s, session[s])
        BY <2>1
      <3> QED
        BY <2>0, <3>1, ReleaseIs DEF Framed
    <2>2. CASE UNCHANGED <<session, owner>>
      BY <1>33, <2>0, <2>2 DEF Interrupt
    <2> QED
      BY <1>33, <2>1, <2>2 DEF Interrupt
  <1>34. CASE ServeStart
    BY <1>34 DEF ServeStart, Serve
  <1>35. CASE ServeInput
    BY <1>35 DEF ServeInput, Serve
  <1>36. CASE ServeCancel
    BY <1>36 DEF ServeCancel
  <1>37. CASE IgnoreCommand
    BY <1>37 DEF IgnoreCommand, Serve
  <1>38. CASE ThreadEnds
    BY <1>38 DEF ThreadEnds
  <1>39. CASE GenerationRaises
    BY <1>39 DEF GenerationRaises
  <1>40. CASE WorkerDies
    BY <1>40 DEF WorkerDies, Dead
  <1>41. CASE UNCHANGED vars
    BY <1>41 DEF vars
  <1>42. QED
    BY <1>1, <1>2, <1>3, <1>4, <1>5, <1>6, <1>7, <1>8, <1>9, <1>10, <1>11,
       <1>12, <1>13, <1>14, <1>15, <1>16, <1>17, <1>18, <1>19, <1>20, <1>21,
       <1>22, <1>23, <1>24, <1>25, <1>26, <1>27, <1>28, <1>29, <1>30, <1>31,
       <1>32, <1>33, <1>34, <1>35, <1>36, <1>37, <1>38, <1>39, <1>40, <1>41
       DEF Next, Immediate, Progress, Demand, WorkerProgram

(* Every step keeps the children and the sequence where they can be        *)
(* together.                                                               *)
LEMMA PlacesStep ==
  ASSUME Shape, PlacesInv, [Next]_vars
  PROVE  PlacesInv'
  <1> USE DEF Shape, PlacesInv, Fresh, Child, Session, Over, task, sequence,
     manager
  <1> USE SynthesisAssumption
  <1>1. ASSUME NEW c \in Child, FindStarted(c)
        PROVE  PlacesInv'
    BY <1>1 DEF FindStarted, Settled, Runs, Become, Proceed, WithWord, Fail,
       Dead, Reachable, Target
  <1>2. ASSUME NEW c \in Child, FindEnded(c)
        PROVE  PlacesInv'
    BY <1>2 DEF FindEnded, Settled, Runs, Become, Target
  <1>3. ASSUME NEW c \in Child, Acquire(c)
        PROVE  PlacesInv'
    BY <1>3 DEF Acquire, CanAcquire, Settled, Runs, Become, Proceed, WithWord,
       Begin, Fail, Dead, Target
  <1>4. ASSUME NEW c \in Child, AcquireAndStart(c)
        PROVE  PlacesInv'
    BY <1>4 DEF AcquireAndStart, CanAcquire, Settled, Runs, Become, Target
  <1>5. ASSUME NEW c \in Child, WorkerStarts(c)
        PROVE  PlacesInv'
    BY <1>5 DEF WorkerStarts, Settled, Runs, Become, Proceed, WithWord, Begin,
       Target
  <1>6. ASSUME NEW c \in Child, WorkerDoesNotStart(c)
        PROVE  PlacesInv'
    BY <1>6 DEF WorkerDoesNotStart, Settled, Runs, Become
  <1>7. ASSUME NEW c \in Child, FailureEnds(c)
        PROVE  PlacesInv'
    BY <1>7 DEF FailureEnds, Settled, Runs, Become, Release, Finalized,
       Queued, Target
  <1>8. CASE OpenSession
    BY <1>8 DEF OpenSession, Settled, Runs, Become
  <1>9. CASE AddWord
    BY <1>9 DEF AddWord, Send, WithWord, Settled, Runs, Become, Reachable
  <1>10. CASE FinishUtterance
    BY <1>10 DEF FinishUtterance, Send, Settled, Runs, Become, Reachable
  <1>11. CASE FinishInput
    BY <1>11 DEF FinishInput, Send, Settled, Runs, Become, Reachable
  <1>12. CASE SendFails
    BY <1>12 DEF SendFails, Fail, Dead, Settled, Runs, Become, Reachable
  <1>13. CASE TextFails
    BY <1>13 DEF TextFails, Settled, Runs, Become
  <1>14. CASE NextSession
    BY <1>14 DEF NextSession, Settled, Runs, Become
  <1>15. CASE HearWord
    BY <1>15 DEF HearWord, Hears, Taken, Settled, Runs, Become
  <1>16. CASE HearEnd
    BY <1>16 DEF HearEnd, Hears, Taken, Release, Finalized, Queued, Settled,
       Runs, Become
  <1>17. CASE HearFailure
    BY <1>17 DEF HearFailure, Hears, Taken, Fail, Dead, Settled, Runs, Become
  <1>18. ASSUME NEW s \in Session, ReadEvent(s)
        PROVE  PlacesInv'
    BY <1>18 DEF ReadEvent, WithFailure, Queued
  <1>19. ASSUME NEW s \in Session, ReadNothing(s)
        PROVE  PlacesInv'
    BY <1>19 DEF ReadNothing, WithFailure, Queued
  <1>20. ASSUME NEW s \in Session, WatchdogStrikes(s)
        PROVE  PlacesInv'
    BY <1>20 DEF WatchdogStrikes, WithFailure, Fail, Dead
  <1>21. ASSUME NEW s \in Session, WatchdogDone(s)
        PROVE  PlacesInv'
    BY <1>21 DEF WatchdogDone, Release, Finalized, Queued
  <1>22. CASE StartGeneration
    BY <1>22 DEF StartGeneration, Settled
  <1>23. ASSUME NEW c \in Child, ChildCancelled(c)
        PROVE  PlacesInv'
    BY <1>23 DEF ChildCancelled, Unheard, Become, Release, Finalized, Queued,
       Target
  <1>24. CASE AskToStop
    BY <1>24 DEF AskToStop
  <1>25. ASSUME NEW c \in Child, ReturnEarly(c)
        PROVE  PlacesInv'
    BY <1>25 DEF ReturnEarly, Hears, Unheard, Settled, Runs, Become
  <1>26. CASE ChildrenEnd
    BY <1>26 DEF ChildrenEnd, Settled
  <1>27. CASE ChildFails
    BY <1>27 DEF ChildFails, Over
  <1>28. ASSUME NEW s \in Session, CancelSession(s)
        PROVE  PlacesInv'
    BY <1>28 DEF CancelSession, Open, Reachable, Fail, Dead
  <1>29. CASE NothingToCancel
    BY <1>29 DEF NothingToCancel
  <1>30. ASSUME NEW s \in Session, CancelEnds(s)
        PROVE  PlacesInv'
    BY <1>30 DEF CancelEnds, Open, Fail, Dead, Release, Finalized, Queued
  <1>31. ASSUME NEW s \in Session, CancelTimesOut(s)
        PROVE  PlacesInv'
    BY <1>31 DEF CancelTimesOut, Open, Fail, Dead
  <1>32. CASE CancelSettles
    BY <1>32 DEF CancelSettles, Release, Finalized, Queued
  <1>33. CASE Interrupt
    BY <1>33 DEF Interrupt, Settled, Over, Release, Finalized, Queued
  <1>34. CASE ServeStart
    BY <1>34 DEF ServeStart, Serve
  <1>35. CASE ServeInput
    BY <1>35 DEF ServeInput, Serve
  <1>36. CASE ServeCancel
    BY <1>36 DEF ServeCancel
  <1>37. CASE IgnoreCommand
    BY <1>37 DEF IgnoreCommand, Serve
  <1>38. CASE ThreadEnds
    BY <1>38 DEF ThreadEnds
  <1>39. CASE GenerationRaises
    BY <1>39 DEF GenerationRaises
  <1>40. CASE WorkerDies
    BY <1>40 DEF WorkerDies, Dead
  <1>41. CASE UNCHANGED vars
    BY <1>41 DEF vars
  <1>42. QED
    BY <1>1, <1>2, <1>3, <1>4, <1>5, <1>6, <1>7, <1>8, <1>9, <1>10, <1>11,
       <1>12, <1>13, <1>14, <1>15, <1>16, <1>17, <1>18, <1>19, <1>20, <1>21,
       <1>22, <1>23, <1>24, <1>25, <1>26, <1>27, <1>28, <1>29, <1>30, <1>31,
       <1>32, <1>33, <1>34, <1>35, <1>36, <1>37, <1>38, <1>39, <1>40, <1>41
       DEF Next, Immediate, Progress, Demand, WorkerProgram

(* Every step keeps the leases sound and, once a generation is over,       *)
(* excused.                                                                *)
LEMMA LeaseStep ==
  ASSUME Shape, PlacesInv, LeaseInv, EndInv, [Next]_vars
  PROVE  (LeaseInv /\ EndInv)'
  <1> USE DEF Shape, PlacesInv, LeaseInv, EndInv, Child, Session, Over, task,
     sequence, manager
  <1> USE SynthesisAssumption
  <1>1. ASSUME NEW c \in Child, FindStarted(c)
        PROVE  (LeaseInv /\ EndInv)'
    <2>1. PICK s \in Session : s = Target(c) /\ session[s].worker # 0
      BY <1>1, TargetIn DEF FindStarted, Runs
    <2>2. /\ child[c] = "start" /\ generation = "gather"
          /\ UNCHANGED <<generation, interrupted, cancels, abandoned, sequence, owner>>
      BY <1>1 DEF FindStarted, Runs, Settled
    <2>3. CASE Proceed(c, s, session[s], process) /\ UNCHANGED worker
      <3>2. /\ \A x \in Session : SameLease(session'[x], session[x])
            /\ child' = [child EXCEPT ![c] = IF c = "audio" THEN "read" ELSE "write"]
        BY <2>2, <2>3, LeaseGoesOn
      <3>1. LeaseInv'
        BY <2>1, <2>2, <2>3, <3>2, LeasesSame DEF Target, LeasesKept, Users,
           Served, Awaits
      <3>9. EndInv'
        BY <2>1, <2>2, <2>3, <3>2 DEF EndPlaces, Owned, Finalizers,
           AnswerEnds, Excuses, Excused, Target, SameLease
      <3> QED
        BY <3>1, <3>9
    <2>4. CASE Fail(s, c, session[s]) /\ Become(c, "failing")
      <3>2. Failed(s, c) /\ Served(s) /\ c # "none"
        BY <2>1, <2>4, FailIs DEF Served
      <3>1. LeaseInv'
        BY <2>2, <2>4, <3>2, LeaseFailed DEF Become, LeasesKept, Users, Served,
           Awaits
      <3>9. EndInv'
        BY <2>1, <2>2, <2>4, <3>2 DEF EndPlaces, Owned, Finalizers,
           AnswerEnds, Excuses, Excused, Become, Target, Failed, Others,
           Served
      <3> QED
        BY <3>1, <3>9
    <2> QED
      BY <1>1, <2>1, <2>3, <2>4 DEF FindStarted
  <1>2. ASSUME NEW c \in Child, FindEnded(c)
        PROVE  (LeaseInv /\ EndInv)'
    <2>1. /\ \A x \in Session : SameLease(session'[x], session[x])
          /\ UNCHANGED <<owner, worker>>
      BY <1>2 DEF SameLease, FindEnded, Settled, Runs, Become, Target
    <2>2. LeaseInv'
      BY <1>2, <2>1, LeasesSame DEF LeasesKept, Users, Served, Awaits,
         FindEnded, Settled, Runs, Become, Target
    <2>9. EndInv'
      BY <1>2, <2>1 DEF EndPlaces, Owned, Finalizers, AnswerEnds, Excuses,
         Excused, SameLease, FindEnded, Settled, Runs, Become, Target
    <2> QED
      BY <2>2, <2>9
  <1>3. ASSUME NEW c \in Child, Acquire(c)
        PROVE  (LeaseInv /\ EndInv)'
    <2>1. PICK s \in Session : s = Target(c)
      BY <1>3, TargetIn DEF Acquire, CanAcquire, Runs
    <2>2. /\ session[s].worker = 0 /\ ~session[s].finalized /\ owner = 0 /\ owner' = s
          /\ worker # 0 /\ child[c] = "start" /\ generation = "gather"
          /\ UNCHANGED <<generation, interrupted, cancels, abandoned, sequence>>
      BY <1>3, <2>1 DEF Acquire, CanAcquire, Runs, Settled
    <2>3. /\ Others(s) /\ session'[s].worker = worker /\ ~session'[s].finalized
          /\ \/ /\ session'[s].finalizer = "none" /\ UNCHANGED worker
                /\ child' = [child EXCEPT ![c] = IF c = "audio" THEN "read" ELSE "write"]
             \/ /\ session'[s].finalizer = c /\ c # "none"
                /\ child' = [child EXCEPT ![c] = "failing"]
      BY <1>3, <2>1, AcquireIs
    <2>4. /\ Leases' /\ Served(s)'
          /\ \A x \in Session : (Served(x) => Served(x)') /\ ~Awaits(x)
      BY <2>2, <2>3, LeaseBegun DEF Awaits
    <2>5. LeaseInv'
      BY <2>1, <2>2, <2>3, <2>4 DEF Target, Users, Served, Awaits
    <2>9. EndInv'
      BY <2>1, <2>2, <2>3, <2>4 DEF EndPlaces, Owned, Finalizers, AnswerEnds,
         Excuses, Excused, Leases, Target, Others
    <2> QED
      BY <2>5, <2>9
  <1>4. ASSUME NEW c \in Child, AcquireAndStart(c)
        PROVE  (LeaseInv /\ EndInv)'
    <2>1. PICK s \in Session : s = Target(c)
      BY <1>4, TargetIn DEF AcquireAndStart, CanAcquire, Runs
    <2>2. /\ session[s].worker = 0 /\ ~session[s].finalized /\ owner = 0 /\ owner' = s
          /\ worker = 0 /\ child[c] = "start" /\ child' = [child EXCEPT ![c] = "starting"]
          /\ generation = "gather"
          /\ UNCHANGED <<generation, interrupted, cancels, abandoned, sequence, session, worker>>
      BY <1>4, <2>1 DEF AcquireAndStart, CanAcquire, Runs, Become, Settled
    <2>3. \A x \in Session : session[x].worker = 0 /\ ~Awaits(x)
      BY <2>2 DEF Awaits, Leases
    <2>4. Leases' /\ Awaits(s)' /\ \A x \in Session : Served(x) => Served(x)'
      BY <2>2, <2>3 DEF Leases, Served, Awaits
    <2>5. LeaseInv'
      BY <2>1, <2>2, <2>3, <2>4 DEF Target, Users, Served, Awaits
    <2>9. EndInv'
      BY <2>1, <2>2, <2>3 DEF EndPlaces, Owned, Finalizers, AnswerEnds,
         Excuses, Excused, Target
    <2> QED
      BY <2>5, <2>9
  <1>5. ASSUME NEW c \in Child, WorkerStarts(c)
        PROVE  (LeaseInv /\ EndInv)'
    <2>1. PICK s \in Session : s = Target(c)
      BY <1>5, TargetIn DEF WorkerStarts, Runs
    <2>2. /\ child[c] = "starting" /\ generation = "gather"
          /\ UNCHANGED <<generation, interrupted, cancels, abandoned, sequence, owner>>
      BY <1>5 DEF WorkerStarts, Runs, Settled
    <2>3. Awaits(s) /\ session[s].finalizer = "none"
      BY <2>1, <2>2 DEF Target, Users, Awaits, Leases
    <2>4. /\ Others(s) /\ session'[s].worker = worker' /\ worker' # 0
          /\ session'[s].finalized = session[s].finalized
          /\ session'[s].finalizer = session[s].finalizer
          /\ child' = [child EXCEPT ![c] = IF c = "audio" THEN "read" ELSE "write"]
      BY <1>5, <2>1, WorkerStartsIs
    <2>5. /\ Leases' /\ Served(s)'
          /\ \A x \in Session : Served(x) => Served(x)'
      BY <2>2, <2>3, <2>4, LeaseBegun DEF Awaits
    <2>6. LeaseInv'
      BY <2>1, <2>2, <2>4, <2>5 DEF Target, Users, Served, Awaits
    <2>9. EndInv'
      BY <2>1, <2>2, <2>3, <2>4 DEF EndPlaces, Owned, Finalizers, AnswerEnds,
         Excuses, Excused, Leases, Target, Others, Awaits
    <2> QED
      BY <2>6, <2>9
  <1>6. ASSUME NEW c \in Child, WorkerDoesNotStart(c)
        PROVE  (LeaseInv /\ EndInv)'
    <2>1. /\ child[c] = "starting" /\ child' = [child EXCEPT ![c] = "failed"] /\ owner' = 0
          /\ UNCHANGED <<generation, interrupted, cancels, abandoned, sequence, session, worker>>
      BY <1>6 DEF WorkerDoesNotStart, Runs, Become
    <2>2. LeaseInv'
      BY <2>1 DEF Leases, Users, Served, Awaits
    <2>9. EndInv'
      BY <2>1 DEF EndPlaces, Owned, Finalizers, AnswerEnds, Excuses, Excused
    <2> QED
      BY <2>2, <2>9
  <1>7. ASSUME NEW c \in Child, FailureEnds(c)
        PROVE  (LeaseInv /\ EndInv)'
    <2>1. PICK s \in Session : s = Target(c)
      BY <1>7, TargetIn DEF FailureEnds, Runs
    <2>2. /\ child[c] = "failing" /\ child' = [child EXCEPT ![c] = "failed"]
          /\ UNCHANGED <<generation, interrupted, cancels, abandoned, sequence, worker>>
      BY <1>7 DEF FailureEnds, Become, Runs
    <2>3. CASE session[s].finalizer = c /\ Release(s, session[s])
      <3>2. session[s].worker # 0 /\ Released(s)
        BY <2>3, ReleaseIs DEF Leases
      <3>1. LeaseInv'
        BY <2>2, <3>2, LeaseReleased DEF LeasesKept, Users, Served, Awaits
      <3>9. EndInv'
        BY <2>1, <2>2, <3>2 DEF EndPlaces, Owned, Finalizers, AnswerEnds,
           Excuses, Excused, Target, Released, Others
      <3> QED
        BY <3>1, <3>9
    <2>4. CASE session[s].finalized /\ UNCHANGED <<session, owner>>
      <3>2. session[s].finalizer # c
        BY <2>4 DEF Leases
      <3>1. LeaseInv'
        BY <2>2, <2>4 DEF Leases, Users, Served, Awaits
      <3>9. EndInv'
        BY <2>1, <2>2, <2>4, <3>2 DEF EndPlaces, Owned, Finalizers,
           AnswerEnds, Excuses, Excused, Target
      <3> QED
        BY <3>1, <3>9
    <2> QED
      BY <1>7, <2>1, <2>3, <2>4 DEF FailureEnds
  <1>8. CASE OpenSession
    <2>1. /\ \A x \in Session : SameLease(session'[x], session[x])
          /\ UNCHANGED <<owner, worker>>
      BY <1>8 DEF SameLease, OpenSession, Settled, Runs, Become
    <2>2. LeaseInv'
      BY <1>8, <2>1, LeasesSame DEF LeasesKept, Users, Served, Awaits,
         OpenSession, Settled, Runs, Become
    <2>9. EndInv'
      BY <1>8, <2>1 DEF EndPlaces, Owned, Finalizers, AnswerEnds, Excuses,
         Excused, SameLease, OpenSession, Settled, Runs, Become
    <2> QED
      BY <2>2, <2>9
  <1>9. CASE AddWord
    <2>1. /\ \A x \in Session : SameLease(session'[x], session[x])
          /\ UNCHANGED <<owner, worker>>
      BY <1>9 DEF SameLease, AddWord, Send, WithWord, Settled, Runs, Become,
         Reachable
    <2>2. LeaseInv'
      BY <1>9, <2>1, LeasesSame DEF LeasesKept, Users, Served, Awaits, AddWord,
         Send, WithWord, Settled, Runs, Become, Reachable
    <2>9. EndInv'
      BY <1>9, <2>1 DEF EndPlaces, Owned, Finalizers, AnswerEnds, Excuses,
         Excused, SameLease, AddWord, Send, WithWord, Settled, Runs, Become,
         Reachable
    <2> QED
      BY <2>2, <2>9
  <1>10. CASE FinishUtterance
    <2>1. /\ child.text = "write" /\ current' = 0
          /\ UNCHANGED <<task, inputEnded, base, made, hearing, owner, worker>>
      BY <1>10 DEF FinishUtterance, Send, Runs
    <2>3. \A x \in Session : SameLease(session'[x], session[x])
      BY <1>10 DEF FinishUtterance, Send, SameLease
    <2>2. LeaseInv'
      BY <2>1, <2>3, LeasesSame DEF LeasesKept, Users, Served, Awaits
    <2>a. EndPlaces'
      BY <2>1, <2>3 DEF EndPlaces, SameLease
    <2>b. Owned'
      BY <2>1, <2>3 DEF Owned, SameLease
    <2>c. Finalizers'
      BY <2>1, <2>3 DEF Finalizers, SameLease
    <2>d. AnswerEnds'
      BY <2>1, <2>3 DEF AnswerEnds, SameLease
    <2>e. Excuses'
      BY <2>1, <2>3 DEF Excuses, Excused, SameLease
    <2> QED
      BY <2>2, <2>a, <2>b, <2>c, <2>d, <2>e
  <1>11. CASE FinishInput
    <2>1. /\ child.text = "write" /\ child' = [child EXCEPT !["text"] = "done"]
          /\ current' = 0 /\ inputEnded'
          /\ UNCHANGED <<generation, interrupted, cancels, abandoned, base, made, hearing, owner, worker>>
      BY <1>11 DEF FinishInput, Become, Send, Runs
    <2> DEFINE q == [session[current] EXCEPT !.finishing = TRUE]
    <2>4. UNCHANGED session \/ session' = [session EXCEPT ![current] = q]
      BY <1>11 DEF FinishInput, Send
    <2>5. SameLease(q, session[current])
      BY DEF SameLease
    <2> HIDE DEF q
    <2>3. \A x \in Session : SameLease(session'[x], session[x])
      BY <2>4, <2>5 DEF SameLease
    <2>2. LeaseInv'
      BY <2>1, <2>3, LeasesSame DEF LeasesKept, Users, Served, Awaits
    <2>9. EndInv'
      BY <2>1, <2>3 DEF EndPlaces, Owned, Finalizers, AnswerEnds, Excuses,
         Excused, SameLease
    <2> QED
      BY <2>2, <2>9
  <1>12. CASE SendFails
    <2>1. /\ current \in Session /\ current # 0 /\ child.text = "write"
          /\ UNCHANGED <<generation, interrupted, cancels, abandoned, sequence, owner>>
      BY <1>12 DEF SendFails, Runs
    <2>2. CASE Become("text", "failed") /\ UNCHANGED <<session, worker>>
      <3>1. LeaseInv'
        BY <2>1, <2>2 DEF Become, Leases, Users, Served, Awaits
      <3>9. EndInv'
        BY <2>1, <2>2 DEF EndPlaces, Owned, Finalizers, AnswerEnds, Excuses,
           Excused, Become
      <3> QED
        BY <3>1, <3>9
    <2>3. CASE Fail(current, "text", session[current]) /\ Become("text", "failing")
      <3>2. Failed(current, "text") /\ Served(current)
        BY <2>1, <2>3, FailIs DEF Users
      <3>1. LeaseInv'
        BY <2>1, <2>3, <3>2, LeaseFailed DEF Become, LeasesKept, Users, Served,
           Awaits
      <3>9. EndInv'
        BY <2>1, <2>3, <3>2 DEF EndPlaces, Owned, Finalizers, AnswerEnds,
           Excuses, Excused, Become, Failed, Others, Served
      <3> QED
        BY <3>1, <3>9
    <2> QED
      BY <1>12, <2>2, <2>3 DEF SendFails
  <1>13. CASE TextFails
    <2>1. /\ \A x \in Session : SameLease(session'[x], session[x])
          /\ UNCHANGED <<owner, worker>>
      BY <1>13 DEF SameLease, TextFails, Settled, Runs, Become
    <2>2. LeaseInv'
      BY <1>13, <2>1, LeasesSame DEF LeasesKept, Users, Served, Awaits,
         TextFails, Settled, Runs, Become
    <2>9. EndInv'
      BY <1>13, <2>1 DEF EndPlaces, Owned, Finalizers, AnswerEnds, Excuses,
         Excused, SameLease, TextFails, Settled, Runs, Become
    <2> QED
      BY <2>2, <2>9
  <1>14. CASE NextSession
    <2>1. /\ \A x \in Session : SameLease(session'[x], session[x])
          /\ UNCHANGED <<owner, worker>>
      BY <1>14 DEF SameLease, NextSession, Settled, Runs, Become
    <2>2. LeaseInv'
      BY <1>14, <2>1, LeasesSame DEF LeasesKept, Users, Served, Awaits,
         NextSession, Settled, Runs, Become
    <2>9. EndInv'
      BY <1>14, <2>1 DEF EndPlaces, Owned, Finalizers, AnswerEnds, Excuses,
         Excused, SameLease, NextSession, Settled, Runs, Become
    <2> QED
      BY <2>2, <2>9
  <1>15. CASE HearWord
    <2>1. UNCHANGED <<task, current, inputEnded, base, made, hearing, owner, worker>>
      BY <1>15 DEF HearWord
    <2>3. \A x \in Session : SameLease(session'[x], session[x])
      BY <1>15 DEF HearWord, Hears, Taken, SameLease
    <2>2. LeaseInv'
      BY <2>1, <2>3, LeasesSame DEF LeasesKept, Users, Served, Awaits
    <2>9. EndInv'
      BY <2>1, <2>3 DEF EndPlaces, Owned, Finalizers, AnswerEnds, Excuses,
         Excused, SameLease
    <2> QED
      BY <2>2, <2>9
  <1>16. CASE HearEnd
    <2>1. /\ hearing \in Session /\ session[hearing].worker # 0 /\ Release(hearing, Taken)
          /\ child.audio = "read" /\ child' = [child EXCEPT !["audio"] = "next"]
          /\ hearing' = hearing + 1
          /\ UNCHANGED <<generation, interrupted, cancels, abandoned, current, inputEnded, base, made, worker>>
      BY <1>16 DEF HearEnd, Hears, Runs, Become, Users, Served
    <2>2. Released(hearing)
      BY <2>1, ReleaseIs
    <2>8. LeaseInv'
      BY <2>1, <2>2, LeaseReleased DEF LeasesKept, Users, Served, Awaits
    <2>9. EndInv'
      BY <2>1, <2>2 DEF EndPlaces, Owned, Finalizers, AnswerEnds, Excuses,
         Excused, Released, Others
    <2> QED
      BY <2>8, <2>9
  <1>17. CASE HearFailure
    <2>1. /\ hearing \in Session /\ Failed(hearing, "audio")
      BY <1>17, HearFailureIs
    <2>2. /\ Served(hearing) /\ child.audio = "read" /\ child' = [child EXCEPT !["audio"] = "failing"]
          /\ UNCHANGED <<generation, interrupted, cancels, abandoned, sequence, owner>>
      BY <1>17 DEF HearFailure, Hears, Runs, Users, Become
    <2>8. LeaseInv'
      BY <2>1, <2>2, LeaseFailed DEF LeasesKept, Users, Served, Awaits
    <2>9. EndInv'
      BY <2>1, <2>2 DEF EndPlaces, Owned, Finalizers, AnswerEnds, Excuses,
         Excused, Failed, Others, Served
    <2> QED
      BY <2>8, <2>9
  <1>18. ASSUME NEW s \in Session, ReadEvent(s)
        PROVE  (LeaseInv /\ EndInv)'
    <2>1. UNCHANGED <<task, sequence, owner, worker>>
      BY <1>18 DEF ReadEvent
    <2>3. \A x \in Session : SameLease(session'[x], session[x])
      BY <1>18, ReadEventIs
    <2>2. LeaseInv'
      BY <2>1, <2>3, LeasesSame DEF LeasesKept, Users, Served, Awaits
    <2>a. EndPlaces'
      BY <2>1, <2>3 DEF EndPlaces, SameLease
    <2>b. Owned'
      BY <2>1, <2>3 DEF Owned, SameLease
    <2>c. Finalizers'
      BY <2>1, <2>3 DEF Finalizers, SameLease
    <2>d. AnswerEnds'
      BY <2>1, <2>3 DEF AnswerEnds, SameLease
    <2>e. Excuses'
      BY <2>1, <2>3 DEF Excuses, Excused, SameLease
    <2> QED
      BY <2>2, <2>a, <2>b, <2>c, <2>d, <2>e
  <1>19. ASSUME NEW s \in Session, ReadNothing(s)
        PROVE  (LeaseInv /\ EndInv)'
    <2>1. /\ \A x \in Session : SameLease(session'[x], session[x])
          /\ UNCHANGED <<owner, worker>>
      BY <1>19 DEF SameLease, ReadNothing, WithFailure, Queued
    <2>2. LeaseInv'
      BY <1>19, <2>1, LeasesSame DEF LeasesKept, Users, Served, Awaits,
         ReadNothing, WithFailure, Queued
    <2>9. EndInv'
      BY <1>19, <2>1 DEF EndPlaces, Owned, Finalizers, AnswerEnds, Excuses,
         Excused, SameLease, ReadNothing, WithFailure, Queued
    <2> QED
      BY <2>2, <2>9
  <1>20. ASSUME NEW s \in Session, WatchdogStrikes(s)
        PROVE  (LeaseInv /\ EndInv)'
    <2>1. Failed(s, "watchdog")
      BY <1>20, WatchdogStrikesIs
    <2>2. Served(s) /\ UNCHANGED <<task, sequence, owner>>
      BY <1>20 DEF WatchdogStrikes, Served, Leases
    <2>8. LeaseInv'
      BY <2>1, <2>2, LeaseFailed DEF LeasesKept, Users, Served, Awaits
    <2>9. EndInv'
      BY <2>1, <2>2 DEF EndPlaces, Owned, Finalizers, AnswerEnds, Excuses,
         Excused, Failed, Others, Served
    <2> QED
      BY <2>8, <2>9
  <1>21. ASSUME NEW s \in Session, WatchdogDone(s)
        PROVE  (LeaseInv /\ EndInv)'
    <2>1. session[s].worker # 0 /\ Release(s, session[s]) /\ UNCHANGED <<task, sequence, worker>>
      BY <1>21 DEF WatchdogDone, Leases
    <2>2. Released(s)
      BY <2>1, ReleaseIs
    <2>8. LeaseInv'
      BY <2>1, <2>2, LeaseReleased DEF LeasesKept, Users, Served, Awaits
    <2>9. EndInv'
      BY <2>1, <2>2 DEF EndPlaces, Owned, Finalizers, AnswerEnds, Excuses,
         Excused, Released, Others
    <2> QED
      BY <2>8, <2>9
  <1>22. CASE StartGeneration
    <2>1. /\ generation \in {"none", "spoken"} /\ cancels = {} /\ generation' = "gather"
          /\ child' = [text |-> "write", audio |-> "next"] /\ current' = 0 /\ inputEnded' = FALSE
          /\ base' = made /\ hearing' = made + 1 /\ interrupted' = "no"
          /\ UNCHANGED <<cancels, abandoned, made, owner, worker>>
      BY <1>22 DEF StartGeneration, Settled
    <2> DEFINE q(x) == [Fresh EXCEPT !.sent = session[x].sent]
    <2>2. \A x \in Session : session'[x] = IF session[x].worker # 0 THEN session[x] ELSE q(x)
      BY <1>22 DEF StartGeneration
    <2>3. \A x \in Session : /\ q(x).worker = 0 /\ q(x).finalizer = "none"
                              /\ q(x).watchdog = "none" /\ ~q(x).finalized
      BY DEF Fresh
    <2> HIDE DEF q
    <2>4. LeaseInv'
      BY <2>1, <2>2, <2>3 DEF Leases, Users
    <2>9. EndInv'
      BY <2>1, <2>2, <2>3 DEF EndPlaces, Owned, Finalizers, AnswerEnds,
         Excuses, Excused, Leases
    <2> QED
      BY <2>4, <2>9
  <1>23. ASSUME NEW c \in Child, ChildCancelled(c)
        PROVE  (LeaseInv /\ EndInv)'
    <2>1. /\ c \in cancels /\ cancels' = cancels \ {c}
          /\ child' = [child EXCEPT ![c] = "done"] /\ generation # "cancel"
          /\ UNCHANGED <<generation, interrupted, abandoned, sequence, worker>>
      BY <1>23 DEF ChildCancelled, Become
    <2>2. CASE child[c] = "failing" /\ session[Target(c)].finalizer = c /\ Release(Target(c), session[Target(c)])
      <3>2. PICK s \in Session : s = Target(c) /\ session[s].worker # 0 /\ Released(s)
        BY <2>2, TargetIn, ReleaseIs DEF Leases
      <3>1. LeaseInv'
        BY <2>1, <2>2, <3>2, LeaseReleased DEF LeasesKept, Users, Served,
           Awaits
      <3>9. EndInv'
        BY <2>1, <2>2, <3>2 DEF EndPlaces, Owned, Finalizers, AnswerEnds,
           Excuses, Excused, Target, Released, Others
      <3> QED
        BY <3>1, <3>9
    <2>3. CASE /\ child[c] # "starting" /\ owner' = owner /\ session' \in {session, Unheard}
               /\ ~(child[c] = "failing" /\ session[Target(c)].finalizer = c)
      <3>2. \A x \in Session : SameLease(session'[x], session[x])
        BY <2>3, UnheardKept DEF SameLease
      <3>1. LeaseInv'
        BY <2>1, <2>3, <3>2, LeasesSame DEF LeasesKept, Users, Served, Awaits
      <3>9. EndInv'
        BY <2>1, <2>3, <3>2 DEF EndPlaces, Owned, Finalizers, AnswerEnds,
           Excuses, Excused, Target, SameLease
      <3> QED
        BY <3>1, <3>9
    <2>4. CASE child[c] = "starting" /\ owner' = 0 /\ session' \in {session, Unheard}
      <3>2. \A x \in Session : SameLease(session'[x], session[x])
        BY <2>4, UnheardKept DEF SameLease
      <3>3. \A x \in Session : session[x].worker = 0
        BY <2>4 DEF Users, Awaits, Leases
      <3>1. LeaseInv'
        BY <2>1, <2>4, <3>2, <3>3 DEF Leases, SameLease, Users, Served, Awaits
      <3>9. EndInv'
        BY <2>1, <2>4, <3>2, <3>3 DEF EndPlaces, Owned, Finalizers,
           AnswerEnds, Excuses, Excused, SameLease
      <3> QED
        BY <3>1, <3>9
    <2> QED
      BY <1>23, <2>2, <2>3, <2>4 DEF ChildCancelled
  <1>24. CASE AskToStop
    <2>1. /\ \A x \in Session : SameLease(session'[x], session[x])
          /\ UNCHANGED <<owner, worker>>
      BY <1>24 DEF SameLease, AskToStop
    <2>2. LeaseInv'
      BY <1>24, <2>1, LeasesSame DEF LeasesKept, Users, Served, Awaits,
         AskToStop
    <2>9. EndInv'
      BY <1>24, <2>1 DEF EndPlaces, Owned, Finalizers, AnswerEnds, Excuses,
         Excused, SameLease, AskToStop
    <2> QED
      BY <2>2, <2>9
  <1>25. ASSUME NEW c \in Child, ReturnEarly(c)
        PROVE  (LeaseInv /\ EndInv)'
    <2>1. /\ interrupted = "asked" /\ child' = [child EXCEPT ![c] = "done"]
          /\ child[c] \in {"write", "read"}
          /\ UNCHANGED <<generation, interrupted, cancels, abandoned, sequence, owner, worker>>
      BY <1>25 DEF ReturnEarly, Become, Hears, Runs
    <2>3. \A x \in Session : SameLease(session'[x], session[x])
      BY <1>25, UnheardKept DEF ReturnEarly, SameLease
    <2>2. LeaseInv'
      BY <2>1, <2>3, LeasesSame DEF LeasesKept, Users, Served, Awaits
    <2>9. EndInv'
      BY <2>1, <2>3 DEF EndPlaces, Owned, Finalizers, AnswerEnds, Excuses,
         Excused, SameLease
    <2> QED
      BY <2>2, <2>9
  <1>26. CASE ChildrenEnd
    <2>1. /\ \A x \in Session : SameLease(session'[x], session[x])
          /\ UNCHANGED <<owner, worker>>
      BY <1>26 DEF SameLease, ChildrenEnd, Settled
    <2>2. LeaseInv'
      BY <1>26, <2>1, LeasesSame DEF LeasesKept, Users, Served, Awaits,
         ChildrenEnd, Settled
    <2>9. EndInv'
      BY <1>26, <2>1 DEF EndPlaces, Owned, Finalizers, AnswerEnds, Excuses,
         Excused, Leases, SameLease, ChildrenEnd, Settled
    <2> QED
      BY <2>2, <2>9
  <1>27. CASE ChildFails
    <2>1. /\ \A x \in Session : SameLease(session'[x], session[x])
          /\ UNCHANGED <<owner, worker>>
      BY <1>27 DEF SameLease, ChildFails, Over
    <2>2. LeaseInv'
      BY <1>27, <2>1, LeasesSame DEF LeasesKept, Users, Served, Awaits,
         ChildFails, Over
    <2>9. EndInv'
      BY <1>27, <2>1 DEF EndPlaces, Owned, Finalizers, AnswerEnds, Excuses,
         Excused, SameLease, ChildFails, Over
    <2> QED
      BY <2>2, <2>9
  <1>28. ASSUME NEW s \in Session, CancelSession(s)
        PROVE  (LeaseInv /\ EndInv)'
    <2>1. /\ session[s].worker # 0 /\ Served(s) /\ generation = "cancel"
          /\ UNCHANGED <<interrupted, child, cancels, abandoned, sequence, owner>>
      BY <1>28 DEF CancelSession, Open, Served
    <2>2. CASE Failed(s, "generation") /\ generation' = "failing"
      <3>1. LeaseInv'
        BY <2>1, <2>2, LeaseFailed DEF LeasesKept, Users, Served, Awaits
      <3>9. EndInv'
        BY <2>1, <2>2 DEF EndPlaces, Owned, Finalizers, AnswerEnds, Excuses,
           Excused, Leases, Failed, Others, Served
      <3> QED
        BY <3>1, <3>9
    <2>3. CASE /\ \A x \in Session : SameLease(session'[x], session[x])
               /\ generation' = "wait" /\ UNCHANGED worker
      <3>1. LeaseInv'
        BY <2>1, <2>3, LeasesSame DEF LeasesKept, Users, Served, Awaits
      <3>9. EndInv'
        BY <2>1, <2>3 DEF EndPlaces, Owned, Finalizers, AnswerEnds, Excuses,
           Excused, Leases, SameLease
      <3> QED
        BY <3>1, <3>9
    <2> QED
      BY <1>28, <2>2, <2>3, CancelSessionIs
  <1>29. CASE NothingToCancel
    <2>1. /\ \A x \in Session : SameLease(session'[x], session[x])
          /\ UNCHANGED <<owner, worker>>
      BY <1>29 DEF SameLease, NothingToCancel
    <2>2. LeaseInv'
      BY <1>29, <2>1, LeasesSame DEF LeasesKept, Users, Served, Awaits,
         NothingToCancel
    <2>9. EndInv'
      BY <1>29, <2>1 DEF EndPlaces, Owned, Finalizers, AnswerEnds, Excuses,
         Excused, Leases, Open, SameLease, NothingToCancel
    <2> QED
      BY <2>2, <2>9
  <1>30. ASSUME NEW s \in Session, CancelEnds(s)
        PROVE  (LeaseInv /\ EndInv)'
    <2>1. /\ session[s].worker # 0 /\ Served(s)
          /\ UNCHANGED <<interrupted, child, cancels, abandoned, sequence>>
      BY <1>30 DEF CancelEnds, Open, Served
    <2>2. CASE Fail(s, "generation", session[s]) /\ generation' = "replace" /\ UNCHANGED owner
      <3>2. Failed(s, "generation")
        BY <2>2, FailIs
      <3>1. LeaseInv'
        BY <2>1, <2>2, <3>2, LeaseFailed DEF LeasesKept, Users, Served, Awaits
      <3>9. EndInv'
        BY <2>1, <2>2, <3>2 DEF EndPlaces, Owned, Finalizers, AnswerEnds,
           Excuses, Excused, Leases, Failed, Others, Served
      <3> QED
        BY <3>1, <3>9
    <2>3. CASE Release(s, session[s]) /\ generation' = "cancel" /\ UNCHANGED worker
      <3>2. Released(s)
        BY <2>3, ReleaseIs
      <3>1. LeaseInv'
        BY <2>1, <2>3, <3>2, LeaseReleased DEF LeasesKept, Users, Served,
           Awaits
      <3>9. EndInv'
        BY <2>1, <2>3, <3>2 DEF EndPlaces, Owned, Finalizers, AnswerEnds,
           Excuses, Excused, Leases, Released, Others
      <3> QED
        BY <3>1, <3>9
    <2> QED
      BY <1>30, <2>2, <2>3 DEF CancelEnds
  <1>31. ASSUME NEW s \in Session, CancelTimesOut(s)
        PROVE  (LeaseInv /\ EndInv)'
    <2>1. /\ session[s].worker # 0 /\ Served(s) /\ generation' = "failing"
          /\ UNCHANGED <<interrupted, child, cancels, abandoned, sequence, owner>>
          /\ Fail(s, "generation", session[s])
      BY <1>31 DEF CancelTimesOut, Open, Served
    <2>2. Failed(s, "generation")
      BY <2>1, FailIs
    <2>8. LeaseInv'
      BY <2>1, <2>2, LeaseFailed DEF LeasesKept, Users, Served, Awaits
    <2>9. EndInv'
      BY <2>1, <2>2 DEF EndPlaces, Owned, Finalizers, AnswerEnds, Excuses,
         Excused, Leases, Failed, Others, Served
    <2> QED
      BY <2>8, <2>9
  <1>32. CASE CancelSettles
    <2>1. /\ generation \in {"failing", "replace"}
          /\ generation' \in {"none", "cancel"} /\ cancels = {}
          /\ UNCHANGED <<interrupted, child, cancels, abandoned, sequence, worker>>
      BY <1>32 DEF CancelSettles, Settled
    <2>2. CASE \E s \in Session : session[s].finalizer = "generation" /\ Release(s, session[s])
      <3>2. PICK s \in Session : session[s].worker # 0 /\ Released(s)
        BY <2>2, ReleaseIs DEF Leases
      <3>1. LeaseInv'
        BY <2>1, <3>2, LeaseReleased DEF LeasesKept, Users, Served, Awaits
      <3>9. EndInv'
        BY <2>1, <3>2 DEF EndPlaces, Owned, Finalizers, AnswerEnds, Excuses,
           Excused, Leases, Released, Others
      <3> QED
        BY <3>1, <3>9
    <2>3. CASE (\A s \in Session : ~Open(s)) /\ UNCHANGED <<session, owner>>
      <3>1. LeaseInv'
        BY <2>1, <2>3 DEF Leases, Users, Served, Awaits
      <3>9. EndInv'
        BY <2>1, <2>3 DEF EndPlaces, Owned, Finalizers, AnswerEnds, Excuses,
           Excused, Leases, Open
      <3> QED
        BY <3>1, <3>9
    <2> QED
      BY <1>32, <2>2, <2>3 DEF CancelSettles
  <1>33. CASE Interrupt
    <2>1. /\ interrupted' = "told" /\ cancels = {} /\ UNCHANGED <<child, sequence, worker>>
      BY <1>33 DEF Interrupt, Settled
    <2>2. CASE UNCHANGED <<generation, session, owner, abandoned>>
      <3>1. LeaseInv'
        BY <2>1, <2>2 DEF Leases, Users, Served, Awaits
      <3>9. EndInv'
        BY <1>33, <2>1, <2>2 DEF EndPlaces, Owned, Finalizers, AnswerEnds,
           Excuses, Excused, Leases, Interrupt
      <3> QED
        BY <3>1, <3>9
    <2>3. CASE /\ generation \in {"wait", "failing", "replace"} /\ generation' = "none"
               /\ abandoned' = IF generation = "wait" THEN abandoned \cup {owner} ELSE abandoned
               /\ \A s \in Session : session[s].finalizer # "generation"
               /\ UNCHANGED <<session, owner, cancels>>
      <3>1. LeaseInv'
        BY <2>1, <2>3 DEF Leases, Users, Served, Awaits
      <3>9. EndInv'
        BY <2>1, <2>3 DEF EndPlaces, Owned, Finalizers, AnswerEnds, Excuses,
           Excused, Leases
      <3> QED
        BY <3>1, <3>9
    <2>4. CASE /\ generation' = "none" /\ UNCHANGED cancels
               /\ \E s \in Session : session[s].finalizer = "generation" /\ Release(s, session[s])
      <3>2. PICK s \in Session : session[s].worker # 0 /\ Released(s)
        BY <2>4, ReleaseIs DEF Leases
      <3>1. LeaseInv'
        BY <2>1, <2>4, <3>2, LeaseReleased DEF LeasesKept, Users, Served,
           Awaits
      <3>9. EndInv'
        BY <2>1, <2>4, <3>2 DEF EndPlaces, Owned, Finalizers, AnswerEnds,
           Excuses, Excused, Leases, Released, Others
      <3> QED
        BY <3>1, <3>9
    <2> QED
      BY <1>33, <2>2, <2>3, <2>4 DEF Interrupt
  <1>34. CASE ServeStart
    BY <1>34, LeasesLeftAlone DEF ServeStart
  <1>35. CASE ServeInput
    BY <1>35, LeasesLeftAlone DEF ServeInput
  <1>36. CASE ServeCancel
    BY <1>36, LeasesLeftAlone DEF ServeCancel
  <1>37. CASE IgnoreCommand
    BY <1>37, LeasesLeftAlone DEF IgnoreCommand
  <1>38. CASE ThreadEnds
    BY <1>38, LeasesLeftAlone DEF ThreadEnds
  <1>39. CASE GenerationRaises
    BY <1>39, LeasesLeftAlone DEF GenerationRaises
  <1>40. CASE WorkerDies
    BY <1>40, LeasesLeftAlone DEF WorkerDies
  <1>41. CASE UNCHANGED vars
    BY <1>41, LeasesLeftAlone DEF vars
  <1>42. QED
    BY <1>1, <1>2, <1>3, <1>4, <1>5, <1>6, <1>7, <1>8, <1>9, <1>10, <1>11,
       <1>12, <1>13, <1>14, <1>15, <1>16, <1>17, <1>18, <1>19, <1>20, <1>21,
       <1>22, <1>23, <1>24, <1>25, <1>26, <1>27, <1>28, <1>29, <1>30, <1>31,
       <1>32, <1>33, <1>34, <1>35, <1>36, <1>37, <1>38, <1>39, <1>40, <1>41
       DEF Next, Immediate, Progress, Demand, WorkerProgram

(* The inductive invariant.                                                *)
SynthesisInv == Shape /\ PlacesInv /\ LeaseInv /\ EndInv

(* The initial state satisfies the invariant.                              *)
LEMMA InitHolds == Init => SynthesisInv
  <1> USE DEF Init, SynthesisInv, Session, Child
  <1> SUFFICES ASSUME Init PROVE SynthesisInv
    OBVIOUS
  <1> USE SynthesisAssumption
  <1>1. \A s \in Session : session[s] = Fresh
    OBVIOUS
  <1>2. /\ Fresh.worker = 0 /\ Fresh.finalizer = "none" /\ Fresh.watchdog = "none"
        /\ Fresh.finalized = FALSE
    BY DEF Fresh
  <1>3. Shape
    BY <1>1 DEF Shape
  <1>4. PlacesInv
    BY DEF PlacesInv
  <1>5. LeaseInv
    BY <1>1, <1>2 DEF LeaseInv, Leases, Users
  <1>6. EndInv
    BY <1>1, <1>2 DEF EndInv, EndPlaces, Owned, Finalizers, AnswerEnds, Excuses
  <1> QED
    BY <1>3, <1>4, <1>5, <1>6

(* The invariant holds of every behaviour, for any number of sessions,     *)
(* words and faults.                                                       *)
THEOREM InvHolds == Spec => []SynthesisInv
  <1>1. SynthesisInv /\ [Next]_vars => SynthesisInv'
    <2> SUFFICES ASSUME SynthesisInv, [Next]_vars PROVE SynthesisInv'
      OBVIOUS
    <2>1. Shape /\ PlacesInv /\ LeaseInv /\ EndInv
      BY DEF SynthesisInv
    <2>2. Shape'
      BY <2>1, ShapeStep DEF LeaseInv
    <2>3. PlacesInv'
      BY <2>1, PlacesStep
    <2>4. LeaseInv' /\ EndInv'
      BY <2>1, LeaseStep
    <2> QED
      BY <2>2, <2>3, <2>4 DEF SynthesisInv
  <1> QED
    BY <1>1, InitHolds, PTL DEF Spec

(* A session that has a worker holds the lease, and until somebody replaces*)
(* the worker it is the manager's, so the assertions of replace and release*)
(* hold (subprocess_tts.py:189-203), however the reader, the watchdog, the *)
(* children and the clean-up of a generation interleave.                   *)
THEOREM LeaseHolds == Spec => []LeaseIsSound
  <1>1. SynthesisInv => LeaseIsSound
    BY DEF SynthesisInv, LeaseInv, Leases, LeaseIsSound
  <1> QED
    BY <1>1, InvHolds, PTL

(* A generation that is over holds no lease, unless the watchdog replaces  *)
(* its worker or the teardown interrupted the cancellation of its session  *)
(* (subprocess_tts.py:338-360, 461-476).                                   *)
THEOREM LeaseEnds == Spec => []LeaseEndsWithGeneration
  <1>1. SynthesisInv => LeaseEndsWithGeneration
    <2> SUFFICES ASSUME SynthesisInv, owner # 0,
                        \/ owner <= base
                        \/ generation \in {"none", "spoken"} /\ cancels = {}
                 PROVE  owner \in abandoned \/ session[owner].finalizer = "watchdog"
      BY DEF LeaseEndsWithGeneration
    <2> USE SynthesisAssumption DEF SynthesisInv, PlacesInv, EndInv, EndPlaces
    <2>1. owner \in Session
      BY DEF Session
    <2>2. session[owner].worker # 0
      BY <2>1 DEF Owned, Child, Session
    <2> QED
      BY <2>1, <2>2 DEF Excuses, Excused, Session
  <1> QED
    BY <1>1, InvHolds, PTL


-----------------------------------------------------------------------------
(* What is in the pipes of the process and in the output queue of a        *)
(* session.                                                                *)
Words == 1 .. MaxWords

Commands ==
  [do : {"word"}, of : Session, word : Words]
    \cup [do : {"start", "finish", "cancel"}, of : Session, word : {0}]

Events ==
  [is : {"word"}, of : Session, word : Words]
    \cup [is : {"end", "error"}, of : Nat, word : {0}]

Items ==
  [is : {"word"}, of : Session, word : Words] \cup [is : {"failure", "end"}]

AllWords(q) == \A i \in 1 .. Len(q) : q[i].is = "word"

(* The parts of the type invariant that are inductive by themselves, and   *)
(* what the values of a step come from: the words of a session that a child*)
(* is about to start are still to come, and a cancellation that is waited  *)
(* for is of a session that nobody finalizes.                              *)
Places ==
  /\ generation \in {"none", "gather", "cancel", "wait", "failing", "replace",
                     "spoken"}
  /\ interrupted \in {"no", "asked", "told"}
  /\ child \in [Child -> Over \cup {"start", "starting", "write", "next", "read",
                                   "failing"}]
  /\ abandoned \subseteq Session
  /\ inputEnded \in BOOLEAN
  /\ faults \in 0 .. MaxFaults

Waits ==
  generation = "wait" =>
    /\ owner \in base + 1 .. made
    /\ session[owner].worker # 0 /\ session[owner].finalizer = "none"

Records ==
  \A s \in Session :
    /\ session[s].worker \in {0, process.id}
    /\ session[s].reader \in {"none", "reading", "done"}
    /\ session[s].watchdog \in {"none", "watching", "done"}
    /\ session[s].finalized \in BOOLEAN
    /\ session[s].error \in BOOLEAN
    /\ session[s].sent \in 0 .. MaxWords
    /\ session[s].pending \subseteq 1 .. session[s].sent
    /\ session[s].output \in Seq(Items)

Pipes ==
  /\ process.state \in {"idle", "busy", "ending", "dead"}
  /\ process.commands \in Seq(Commands)
  /\ process.events \in Seq(Events)
  /\ heard \in Seq(Session \X Words)

(* A session that has not been started is as it was made.                  *)
Unstarted ==
  \A s \in Session :
    /\ session[s].worker = 0 /\ ~session[s].finalized =>
         /\ session[s].reader = "none" /\ ~session[s].error
         /\ session[s].output = <<>>
         /\ s > base => session[s].sent = 0
    /\ session[s].finalized => s <= made

(* The text task sends the first word when it has started the session.     *)
FirstWords ==
  /\ child.text \in {"start", "starting"} => session[current].sent = 0
  /\ child.text = "write" /\ current # 0 => session[current].sent > 0

TypesInv == Places /\ Waits /\ Records /\ Pipes /\ Unstarted /\ FirstWords

-----------------------------------------------------------------------------
NoStart ==
  \A i \in 1 .. Len(process.commands) : process.commands[i].do # "start"

Quiet == process.events = <<>> /\ process.state # "busy" /\ NoStart

Gone ==
  /\ worker = 0 => process.state = "dead"
  /\ process.state = "dead" => process.commands = <<>>
  /\ \A s \in Session : session[s].finalizer # "none" => worker = 0

EndsLast ==
  /\ \A i \in 1 .. Len(process.events) :
       process.events[i].is = "end" => i = Len(process.events)
  /\ process.state = "busy" => AllWords(process.events)

StartPending ==
  \A i \in 1 .. Len(process.commands) :
    process.commands[i].do = "start" =>
      /\ owner # 0 /\ session[owner].worker # 0
      /\ session[owner].reader = "reading"
      /\ process.state # "busy" /\ process.events = <<>>
      /\ \A j \in 1 .. Len(process.commands) :
           process.commands[j].do = "start" => j = i

Drained ==
  /\ owner = 0 /\ worker # 0 => Quiet
  /\ \A s \in Session :
       session[s].worker # 0 /\ session[s].reader = "done" /\ ~session[s].error
         => Quiet

Outputs ==
  \A s \in Session :
    session[s].worker # 0 /\ session[s].finalizer = "none" =>
      /\ session[s].reader # "none"
      /\ session[s].reader = "reading" =>
           ~session[s].error /\ AllWords(session[s].output)
      /\ session[s].error =>
           \A i \in 1 .. Len(session[s].output) :
             session[s].output[i].is = "end" =>
               i > 1 /\ session[s].output[i - 1].is = "failure"

PipeInv == Gone /\ EndsLast /\ StartPending /\ Drained /\ Outputs

-----------------------------------------------------------------------------
(* The audio task listens: what is read is queued for it.                  *)
Listening == generation = "gather" /\ child.audio \notin Over \cup {"failing"}

-----------------------------------------------------------------------------
(* What the helpers of the actions do to each field of a session and to    *)
(* the process.                                                            *)

(* The fields of a record of a session that no helper changes but in place.*)
LEMMA ReleaseFields ==
  ASSUME Shape, NEW s \in Session, NEW r, Release(s, r)
  PROVE  /\ Framed /\ Others(s) /\ owner' = 0
         /\ session'[s].worker = 0 /\ session'[s].finalizer = "none"
         /\ session'[s].reader = "none" /\ session'[s].watchdog = "none"
         /\ session'[s].finalized = TRUE /\ session'[s].error = FALSE
         /\ session'[s].finishing = FALSE
         /\ session'[s].sent = r.sent /\ session'[s].pending = {}
         /\ session'[s].output = Queued(r.output)
  BY DEF Shape, Release, Finalized, Framed, Others, Fresh

(* The fields that a failure leaves to the caller.                         *)
Given(r, q) ==
  /\ r.worker = q.worker /\ r.finalized = q.finalized /\ r.sent = q.sent
  /\ r.pending = q.pending /\ r.finishing = q.finishing /\ r.reader = q.reader

LEMMA FailFields ==
  ASSUME Shape, NEW s \in Session, NEW t,
         NEW r, DOMAIN r = DOMAIN Fresh, Fail(s, t, r)
  PROVE  /\ Framed /\ Others(s) /\ Given(session'[s], r)
         /\ session'[s].output = r.output /\ session'[s].watchdog = r.watchdog
         /\ process'.id = process.id /\ process'.events = process.events
         /\ IF r.finalizer = "none" /\ ~r.finalized
            THEN /\ session'[s].finalizer = t /\ session'[s].error = TRUE
                 /\ worker' = 0
                 /\ process'.state = "dead" /\ process'.commands = <<>>
            ELSE /\ session'[s].finalizer = r.finalizer
                 /\ session'[s].error = r.error
                 /\ UNCHANGED <<worker, process>>
  <1> USE DEF Shape, Framed, Others, Given, Fresh
  <1>1. CASE r.finalizer = "none" /\ ~r.finalized
    <2> DEFINE q == [r EXCEPT !.error = TRUE, !.finalizer = t]
    <2>1. /\ DOMAIN q = DOMAIN r /\ Given(q, r) /\ q.output = r.output
          /\ q.watchdog = r.watchdog /\ q.error = TRUE /\ q.finalizer = t
      OBVIOUS
    <2>2. session' = [session EXCEPT ![s] = q] /\ worker' = 0 /\ process' = Dead
      BY <1>1 DEF Fail
    <2>3. /\ process'.id = process.id /\ process'.events = process.events
          /\ process'.state = "dead" /\ process'.commands = <<>>
      BY <2>2 DEF Dead
    <2> HIDE DEF q
    <2> QED
      BY <1>1, <2>1, <2>2, <2>3
  <1>2. CASE ~(r.finalizer = "none" /\ ~r.finalized)
    BY <1>2 DEF Fail
  <1> QED
    BY <1>1, <1>2

(* One word more.                                                          *)
LEMMA WithWordFields ==
  ASSUME NEW r, DOMAIN r = DOMAIN Fresh
  PROVE  LET q == WithWord(r)
         IN  /\ DOMAIN q = DOMAIN Fresh
             /\ q.sent = r.sent + 1 /\ q.pending = r.pending \cup {r.sent + 1}
             /\ q.worker = r.worker /\ q.finalized = r.finalized
             /\ q.error = r.error /\ q.finalizer = r.finalizer
             /\ q.output = r.output /\ q.finishing = r.finishing
             /\ q.reader = r.reader /\ q.watchdog = r.watchdog
  BY DEF WithWord, Fresh

(* A failure that is queued.                                               *)
LEMMA WithFailureFields ==
  ASSUME NEW r, DOMAIN r = DOMAIN Fresh
  PROVE  LET q == WithFailure(r)
         IN  /\ DOMAIN q = DOMAIN Fresh
             /\ Given(q, r) /\ q.error = TRUE
             /\ q.finalizer = r.finalizer /\ q.watchdog = r.watchdog
             /\ q.output = Queued(r.output \o <<[is |-> "failure"], [is |-> "end"]>>)
  BY DEF WithFailure, Fresh, Given

(* The pipes of a process that gets one more command.                      *)
Commanded(p, message) ==
  /\ DOMAIN process' = {"id", "state", "commands", "events"}
  /\ process'.id = p.id /\ process'.state = p.state
  /\ process'.events = p.events
  /\ process'.commands = Append(p.commands, message)

LEMMA ProceedFields ==
  ASSUME Shape, NEW c \in Child, NEW s \in Session,
         NEW r, DOMAIN r = DOMAIN Fresh, NEW p, IsProcess(p), Proceed(c, s, r, p)
  PROVE  /\ Framed /\ Others(s)
         /\ session'[s].worker = r.worker /\ session'[s].finalized = r.finalized
         /\ session'[s].error = r.error /\ session'[s].finalizer = r.finalizer
         /\ session'[s].output = r.output /\ session'[s].finishing = r.finishing
         /\ session'[s].reader = r.reader /\ session'[s].watchdog = r.watchdog
         /\ c = "audio" =>
              /\ session'[s].sent = r.sent /\ session'[s].pending = r.pending
              /\ process' = p /\ child' = [child EXCEPT !["audio"] = "read"]
         /\ c = "text" =>
              /\ session'[s].sent = r.sent + 1
              /\ session'[s].pending = r.pending \cup {r.sent + 1}
              /\ Commanded(p, Message("word", s, r.sent + 1))
              /\ child' = [child EXCEPT !["text"] = "write"]
  <1> USE DEF Shape, Framed, Others, IsProcess
  <1>1. CASE c = "audio"
    BY <1>1 DEF Proceed, Become
  <1>2. CASE c # "audio"
    <2>1. c = "text"
      BY <1>2 DEF Child
    <2> DEFINE q == WithWord(r)
    <2>2. /\ DOMAIN q = DOMAIN Fresh
          /\ q.sent = r.sent + 1 /\ q.pending = r.pending \cup {r.sent + 1}
          /\ q.worker = r.worker /\ q.finalized = r.finalized
          /\ q.error = r.error /\ q.finalizer = r.finalizer
          /\ q.output = r.output /\ q.finishing = r.finishing
          /\ q.reader = r.reader /\ q.watchdog = r.watchdog
      BY WithWordFields
    <2>3. /\ session' = [session EXCEPT ![s] = q]
          /\ child' = [child EXCEPT !["text"] = "write"]
          /\ process' = [p EXCEPT !.commands = Append(@, Message("word", s, r.sent + 1))]
      BY <2>1 DEF Proceed, Become
    <2>4. Commanded(p, Message("word", s, r.sent + 1))
      BY <2>3 DEF Commanded
    <2> HIDE DEF q
    <2> QED
      BY <1>2, <2>1, <2>2, <2>3, <2>4
  <1> QED
    BY <1>1, <1>2

(* What the start of session s by child c does, with process p.            *)
Started(c, s, p) ==
  LET start == Append(p.commands, Message("start", s, 0))
  IN  /\ Framed /\ Others(s)
      /\ session'[s].worker = p.id /\ session'[s].reader = "reading"
      /\ session'[s].watchdog = "watching"
      /\ session'[s].finalized = session[s].finalized
      /\ session'[s].error = session[s].error
      /\ session'[s].finalizer = session[s].finalizer
      /\ session'[s].output = session[s].output
      /\ session'[s].finishing = session[s].finishing
      /\ DOMAIN process' = {"id", "state", "commands", "events"}
      /\ process'.id = p.id /\ process'.state = p.state
      /\ process'.events = p.events
      /\ \/ /\ c = "audio" /\ child' = [child EXCEPT !["audio"] = "read"]
            /\ session'[s].sent = session[s].sent
            /\ session'[s].pending = session[s].pending
            /\ process'.commands = start
         \/ /\ c = "text" /\ child' = [child EXCEPT !["text"] = "write"]
            /\ session'[s].sent = session[s].sent + 1
            /\ session'[s].pending =
                 session[s].pending \cup {session[s].sent + 1}
            /\ process'.commands =
                 Append(start, Message("word", s, session[s].sent + 1))

LEMMA BeginFields ==
  ASSUME Shape, NEW c \in Child, NEW s \in Session, NEW p, IsProcess(p), Begin(c, s, p)
  PROVE  Started(c, s, p)
  <1> DEFINE r == [session[s] EXCEPT !.worker = p.id, !.reader = "reading",
                                     !.watchdog = "watching"]
             q == [p EXCEPT !.commands = Append(@, Message("start", s, 0))]
  <1>1. /\ DOMAIN r = DOMAIN Fresh
        /\ r.worker = p.id /\ r.reader = "reading" /\ r.watchdog = "watching"
        /\ r.finalizer = session[s].finalizer
        /\ r.finalized = session[s].finalized /\ r.error = session[s].error
        /\ r.output = session[s].output /\ r.finishing = session[s].finishing
        /\ r.sent = session[s].sent /\ r.pending = session[s].pending
    BY DEF Shape, Fresh
  <1>2. /\ IsProcess(q) /\ q.id = p.id /\ q.state = p.state /\ q.events = p.events
        /\ q.commands = Append(p.commands, Message("start", s, 0))
    BY DEF IsProcess
  <1>3. Proceed(c, s, r, q)
    BY DEF Begin
  <1> HIDE DEF r, q
  <1>4. c \in {"audio", "text"}
    BY DEF Child
  <1> QED
    BY <1>1, <1>2, <1>3, <1>4, ProceedFields DEF Started, Commanded, IsProcess

(* What a child does that finds the session started: nothing, or it writes *)
(* one word.                                                               *)
WordSent(s) ==
  LET w == session[s].sent + 1
  IN  /\ Framed /\ Others(s) /\ SameLease(session'[s], session[s])
      /\ session'[s].error = session[s].error
      /\ session'[s].output = session[s].output
      /\ session'[s].finishing = session[s].finishing
      /\ session'[s].reader = session[s].reader
      /\ session'[s].sent = w /\ session'[s].pending = session[s].pending \cup {w}
      /\ Commanded(process, Message("word", s, w))

LEMMA GoesOn ==
  ASSUME Shape, NEW c \in Child, NEW s \in Session,
         Proceed(c, s, session[s], process)
  PROVE  \/ /\ c = "audio" /\ child' = [child EXCEPT !["audio"] = "read"]
            /\ UNCHANGED process
            /\ Framed /\ \A x \in Session : session'[x] = session[x]
         \/ /\ c = "text" /\ child' = [child EXCEPT !["text"] = "write"]
            /\ WordSent(s)
  <1>1. CASE c = "audio"
    <2>1. session' = [session EXCEPT ![s] = session[s]] /\ process' = process
          /\ child' = [child EXCEPT !["audio"] = "read"]
      BY <1>1 DEF Proceed, Become
    <2>2. Framed /\ \A x \in Session : session'[x] = session[x]
      BY <2>1 DEF Shape, Framed
    <2> QED
      BY <1>1, <2>1, <2>2
  <1>2. CASE c = "text"
    <2> DEFINE r == session[s]
    <2>1. DOMAIN r = DOMAIN Fresh /\ IsProcess(process) /\ Proceed(c, s, r, process)
      BY DEF Shape, IsProcess
    <2>2. r = session[s]
      OBVIOUS
    <2> HIDE DEF r
    <2>3. /\ Framed /\ Others(s)
          /\ session'[s].worker = r.worker /\ session'[s].finalized = r.finalized
          /\ session'[s].error = r.error /\ session'[s].finalizer = r.finalizer
          /\ session'[s].output = r.output /\ session'[s].finishing = r.finishing
          /\ session'[s].reader = r.reader /\ session'[s].watchdog = r.watchdog
          /\ session'[s].sent = r.sent + 1
          /\ session'[s].pending = r.pending \cup {r.sent + 1}
          /\ Commanded(process, Message("word", s, r.sent + 1))
          /\ child' = [child EXCEPT !["text"] = "write"]
      BY <1>2, <2>1, ProceedFields
    <2> QED
      BY <1>2, <2>2, <2>3 DEF WordSent, SameLease
  <1> QED
    BY <1>1, <1>2 DEF Child

-----------------------------------------------------------------------------
(* What the actions do to the session they are about and to the process.   *)

Failure == <<[is |-> "failure"], [is |-> "end"]>>

(* A failure of a session that has, or had, a worker.                      *)
Fails(s, t) ==
  LET first == session[s].finalizer = "none" /\ ~session[s].finalized
  IN  /\ Framed /\ Others(s)
      /\ session'[s].worker = session[s].worker
      /\ session'[s].finalized = session[s].finalized
      /\ session'[s].sent = session[s].sent
      /\ session'[s].pending = session[s].pending
      /\ session'[s].reader = session[s].reader
      /\ session'[s].watchdog \in {session[s].watchdog, "done"}
      /\ session'[s].error \in {session[s].error, TRUE}
      /\ session'[s].output \in
           {session[s].output, session[s].output \o Failure, <<>>}
      /\ Listening /\ child'.audio # "failing" =>
           session'[s].output \in {session[s].output, session[s].output \o Failure}
      /\ process'.id = process.id /\ process'.events = process.events
      /\ IF first
         THEN /\ session'[s].finalizer = t /\ session'[s].error = TRUE
              /\ worker' = 0
              /\ process'.state = "dead" /\ process'.commands = <<>>
         ELSE /\ session'[s].finalizer = session[s].finalizer
              /\ UNCHANGED <<worker, process>>

(* A session that is released, with the rest of its output when somebody   *)
(* still listens.                                                          *)
Releases(s, rest) ==
  /\ Framed /\ Others(s) /\ owner' = 0
  /\ UNCHANGED <<worker, process>>
  /\ session'[s].worker = 0 /\ session'[s].finalizer = "none"
  /\ session'[s].reader = "none" /\ session'[s].watchdog = "none"
  /\ session'[s].finalized = TRUE /\ session'[s].error = FALSE
  /\ session'[s].sent = session[s].sent /\ session'[s].pending = {}
  /\ session'[s].output \in {rest, <<>>}
  /\ Listening => session'[s].output = rest

LEMMA QueuedIs ==
  ASSUME NEW q
  PROVE  Queued(q) \in {q, <<>>} /\ (Listening => Queued(q) = q)
  BY DEF Queued, Listening, Over

(* Nothing fails but the session and, when it is the first, the process.   *)
LEMMA FailsAlone ==
  ASSUME Shape, NEW s \in Session, NEW t, Fail(s, t, session[s])
  PROVE  Fails(s, t)
  <1> DEFINE r == session[s]
  <1>1. DOMAIN r = DOMAIN Fresh /\ Fail(s, t, r)
    BY DEF Shape
  <1>2. r = session[s]
    OBVIOUS
  <1> HIDE DEF r
  <1>3. /\ Framed /\ Others(s) /\ Given(session'[s], r)
        /\ session'[s].output = r.output /\ session'[s].watchdog = r.watchdog
        /\ process'.id = process.id /\ process'.events = process.events
        /\ IF r.finalizer = "none" /\ ~r.finalized
           THEN /\ session'[s].finalizer = t /\ session'[s].error = TRUE
                /\ worker' = 0
                /\ process'.state = "dead" /\ process'.commands = <<>>
           ELSE /\ session'[s].finalizer = r.finalizer
                /\ session'[s].error = r.error
                /\ UNCHANGED <<worker, process>>
    BY <1>1, FailFields
  <1> QED
    BY <1>2, <1>3 DEF Fails, Given

LEMMA ReleasesAlone ==
  ASSUME Shape, NEW s \in Session, Release(s, session[s]), UNCHANGED <<worker, process>>
  PROVE  Releases(s, session[s].output)
  BY ReleaseFields, QueuedIs DEF Releases

LEMMA HearFailureFields ==
  ASSUME Shape, PlacesInv, HearFailure
  PROVE  /\ hearing \in Session /\ Fails(hearing, "audio")
         /\ child' = [child EXCEPT !["audio"] = "failing"]
         /\ child.audio = "read"
  <1> DEFINE r == [Taken EXCEPT !.output = <<>>]
  <1>1. hearing \in Session /\ child.audio = "read"
    BY SynthesisAssumption DEF HearFailure, Hears, Runs, PlacesInv, Session
  <1>2. /\ DOMAIN r = DOMAIN Fresh /\ r.output = <<>> /\ Given(r, session[hearing])
        /\ r.watchdog = session[hearing].watchdog /\ r.error = session[hearing].error
        /\ r.finalizer = session[hearing].finalizer
    BY <1>1 DEF Taken, Shape, Fresh, Given
  <1>3. Fail(hearing, "audio", r) /\ child' = [child EXCEPT !["audio"] = "failing"]
    BY DEF HearFailure, Become
  <1> HIDE DEF r
  <1>4. child'.audio = "failing"
    BY <1>3 DEF Shape, Child
  <1>5. PICK s \in Session : s = hearing
    BY <1>1
  <1>6. Fail(s, "audio", r)
    BY <1>3, <1>5
  <1>7. /\ Framed /\ Others(s) /\ Given(session'[s], r)
        /\ session'[s].output = r.output
        /\ session'[s].watchdog = r.watchdog
        /\ process'.id = process.id /\ process'.events = process.events
        /\ IF r.finalizer = "none" /\ ~r.finalized
           THEN /\ session'[s].finalizer = "audio"
                /\ session'[s].error = TRUE /\ worker' = 0
                /\ process'.state = "dead" /\ process'.commands = <<>>
           ELSE /\ session'[s].finalizer = r.finalizer
                /\ session'[s].error = r.error
                /\ UNCHANGED <<worker, process>>
    BY <1>2, <1>6, FailFields
  <1>8. Fails(s, "audio")
    BY <1>2, <1>4, <1>5, <1>7 DEF Fails, Given
  <1> QED
    BY <1>1, <1>3, <1>5, <1>8

LEMMA WatchdogStrikesFields ==
  ASSUME Shape, NEW s \in Session, WatchdogStrikes(s)
  PROVE  /\ Fails(s, "watchdog") /\ session'[s].watchdog = "done"
         /\ session[s].watchdog = "watching"
         /\ Listening => session'[s].output = session[s].output \o Failure
  <1> DEFINE q == WithFailure(session[s])
             r == [q EXCEPT !.watchdog = "done"]
  <1>1. /\ DOMAIN q = DOMAIN Fresh
        /\ Given(q, session[s]) /\ q.error = TRUE
        /\ q.finalizer = session[s].finalizer
        /\ q.output = Queued(session[s].output \o Failure)
    BY WithFailureFields DEF Shape, Failure
  <1>2. Fail(s, "watchdog", r) /\ session[s].watchdog = "watching"
    BY DEF WatchdogStrikes
  <1> HIDE DEF q
  <1>3. /\ DOMAIN r = DOMAIN Fresh
        /\ Given(r, session[s]) /\ r.error = TRUE
        /\ r.finalizer = session[s].finalizer /\ r.watchdog = "done"
        /\ r.output = Queued(session[s].output \o Failure)
    BY <1>1 DEF Given, Fresh
  <1> HIDE DEF r
  <1>4. /\ Queued(session[s].output \o Failure) \in {session[s].output \o Failure, <<>>}
        /\ Listening => Queued(session[s].output \o Failure) = session[s].output \o Failure
    BY QueuedIs
  <1>6. /\ Framed /\ Others(s) /\ Given(session'[s], r)
        /\ session'[s].output = r.output /\ session'[s].watchdog = r.watchdog
        /\ process'.id = process.id /\ process'.events = process.events
        /\ IF r.finalizer = "none" /\ ~r.finalized
           THEN /\ session'[s].finalizer = "watchdog" /\ session'[s].error = TRUE
                /\ worker' = 0
                /\ process'.state = "dead" /\ process'.commands = <<>>
           ELSE /\ session'[s].finalizer = r.finalizer
                /\ session'[s].error = r.error
                /\ UNCHANGED <<worker, process>>
    BY <1>2, <1>3, FailFields
  <1> QED
    BY <1>2, <1>3, <1>4, <1>6 DEF Fails, Given

LEMMA CancelSessionFields ==
  ASSUME Shape, NEW s \in Session, CancelSession(s)
  PROVE  \/ Fails(s, "generation") /\ generation' = "failing"
         \/ /\ generation' = "wait" /\ UNCHANGED worker
            /\ Reachable(s)
            /\ Framed /\ Others(s)
            /\ SameLease(session'[s], session[s])
            /\ session'[s].error = session[s].error
            /\ session'[s].output = session[s].output
            /\ session'[s].reader = session[s].reader
            /\ session'[s].sent = session[s].sent
            /\ session'[s].pending = session[s].pending
            /\ Commanded(process, Message("cancel", s, 0))
  <1> DEFINE r == [session[s] EXCEPT !.finishing = TRUE]
  <1>1. /\ DOMAIN r = DOMAIN Fresh /\ SameLease(r, session[s])
        /\ r.error = session[s].error /\ r.output = session[s].output
        /\ r.reader = session[s].reader /\ r.sent = session[s].sent
        /\ r.pending = session[s].pending
    BY DEF Shape, Fresh, SameLease
  <1>2. CASE Reachable(s)
    <2>1. /\ session' = [session EXCEPT ![s] = r] /\ generation' = "wait"
          /\ UNCHANGED worker /\ Commanded(process, Message("cancel", s, 0))
      BY <1>2 DEF CancelSession, Commanded, Shape
    <2> HIDE DEF r
    <2> QED
      BY <1>1, <1>2, <2>1 DEF Shape, Framed, Others, SameLease
  <1>3. CASE ~Reachable(s)
    <2>1. Fail(s, "generation", r) /\ generation' = "failing"
      BY <1>3 DEF CancelSession
    <2> HIDE DEF r
    <2>2. /\ Framed /\ Others(s) /\ Given(session'[s], r)
          /\ session'[s].output = r.output /\ session'[s].watchdog = r.watchdog
          /\ process'.id = process.id /\ process'.events = process.events
          /\ IF r.finalizer = "none" /\ ~r.finalized
             THEN /\ session'[s].finalizer = "generation"
                  /\ session'[s].error = TRUE /\ worker' = 0
                  /\ process'.state = "dead" /\ process'.commands = <<>>
             ELSE /\ session'[s].finalizer = r.finalizer
                  /\ session'[s].error = r.error
                  /\ UNCHANGED <<worker, process>>
      BY <1>1, <2>1, FailFields
    <2> QED
      BY <1>1, <2>1, <2>2 DEF Fails, Given, SameLease
  <1> QED
    BY <1>2, <1>3

(* A child that gets the lease of a dead process fails with it.            *)
FailsAtStart(s, c) ==
  /\ Framed /\ Others(s)
  /\ session'[s].worker = worker /\ session'[s].finalizer = c
  /\ session'[s].finalized = FALSE /\ session'[s].error = TRUE
  /\ session'[s].reader = session[s].reader
  /\ session'[s].watchdog = session[s].watchdog
  /\ session'[s].output = session[s].output
  /\ session'[s].sent = session[s].sent
  /\ session'[s].pending = session[s].pending
  /\ worker' = 0 /\ process'.id = process.id /\ process'.events = process.events
  /\ process'.state = "dead" /\ process'.commands = <<>>
  /\ child' = [child EXCEPT ![c] = "failing"]

LEMMA AcquireFields ==
  ASSUME Shape, PlacesInv, Leases, NEW c \in Child, Acquire(c)
  PROVE  \E s \in Session :
           /\ s = Target(c) /\ child[c] = "start" /\ generation = "gather"
           /\ session[s].worker = 0 /\ ~session[s].finalized
           /\ session[s].finalizer = "none"
           /\ owner = 0 /\ owner' = s /\ worker # 0 /\ worker = process.id
           /\ \/ Started(c, s, process) /\ process.state # "dead" /\ UNCHANGED worker
              \/ FailsAtStart(s, c)
  <1>1. PICK s \in Session : s = Target(c)
    BY TargetIn DEF Acquire, CanAcquire, Runs
  <1>2. /\ session[s].worker = 0 /\ ~session[s].finalized /\ session[s].finalizer = "none"
        /\ worker # 0 /\ worker = process.id /\ IsProcess(process)
        /\ owner = 0 /\ owner' = s
        /\ child[c] = "start" /\ generation # "cancel"
    BY <1>1 DEF Acquire, CanAcquire, Runs, Settled, Leases, Shape, IsProcess
  <1>3. generation = "gather"
    BY <1>2 DEF Acquire, CanAcquire, Runs, Settled, PlacesInv
  <1>4. CASE process.state # "dead"
    <2>1. Begin(c, s, process) /\ UNCHANGED worker
      BY <1>1, <1>4 DEF Acquire
    <2> QED
      BY <1>1, <1>2, <1>3, <1>4, <2>1, BeginFields
  <1>5. CASE process.state = "dead"
    <2> DEFINE r == [session[s] EXCEPT !.worker = worker]
    <2>1. /\ DOMAIN r = DOMAIN Fresh /\ r.worker = worker
          /\ r.finalizer = "none" /\ r.finalized = session[s].finalized
          /\ r.reader = session[s].reader /\ r.watchdog = session[s].watchdog
          /\ r.output = session[s].output /\ r.sent = session[s].sent
          /\ r.pending = session[s].pending
      BY <1>2 DEF Shape, Fresh
    <2>2. Fail(s, c, r) /\ child' = [child EXCEPT ![c] = "failing"]
      BY <1>1, <1>5 DEF Acquire, Become
    <2> HIDE DEF r
    <2>3. /\ Framed /\ Others(s) /\ Given(session'[s], r)
          /\ session'[s].output = r.output /\ session'[s].watchdog = r.watchdog
          /\ process'.id = process.id /\ process'.events = process.events
          /\ session'[s].finalizer = c /\ session'[s].error = TRUE /\ worker' = 0
          /\ process'.state = "dead" /\ process'.commands = <<>>
      BY <1>2, <2>1, <2>2, FailFields
    <2>4. session'[s].worker = worker /\ session'[s].reader = session[s].reader
          /\ session'[s].sent = session[s].sent /\ session'[s].pending = session[s].pending
          /\ session'[s].watchdog = session[s].watchdog
          /\ session'[s].output = session[s].output
          /\ session'[s].finalized = session[s].finalized
      BY <2>1, <2>3 DEF Given
    <2> QED
      BY <1>1, <1>2, <1>3, <2>2, <2>3, <2>4 DEF FailsAtStart
  <1> QED
    BY <1>4, <1>5

LEMMA WorkerStartsFields ==
  ASSUME Shape, PlacesInv, LeaseInv, NEW c \in Child, WorkerStarts(c)
  PROVE  \E s \in Session, p \in {[id |-> process.id + 1, state |-> "idle",
                                   commands |-> <<>>, events |-> <<>>]} :
           /\ s = Target(c) /\ child[c] = "starting" /\ generation = "gather"
           /\ session[s].worker = 0 /\ ~session[s].finalized
           /\ session[s].finalizer = "none"
           /\ owner = s /\ owner' = s /\ worker = 0 /\ worker' = p.id
           /\ Started(c, s, p)
  <1> DEFINE p == [id |-> process.id + 1, state |-> "idle", commands |-> <<>>, events |-> <<>>]
  <1>1. PICK s \in Session : s = Target(c)
    BY TargetIn DEF WorkerStarts, Runs
  <1>2. /\ child[c] = "starting" /\ generation # "cancel" /\ cancels = {}
        /\ owner' = owner /\ worker' = p.id /\ Begin(c, s, p)
    BY <1>1 DEF WorkerStarts, Runs, Settled
  <1>3. Awaits(s) /\ session[s].finalizer = "none"
    BY <1>1, <1>2 DEF LeaseInv, Leases, Users, Target, Child, Awaits
  <1>4. generation = "gather"
    BY <1>2 DEF PlacesInv
  <1>5. IsProcess(p)
    BY DEF IsProcess
  <1>6. Started(c, s, p)
    BY <1>2, <1>5, BeginFields
  <1> QED
    BY <1>1, <1>2, <1>3, <1>4, <1>6 DEF Awaits

LEMMA FindStartedFields ==
  ASSUME Shape, PlacesInv, NEW c \in Child, FindStarted(c)
  PROVE  \E s \in Session :
           /\ s = Target(c) /\ child[c] = "start" /\ generation = "gather"
           /\ session[s].worker # 0
           /\ \/ /\ Fails(s, c) /\ child' = [child EXCEPT ![c] = "failing"]
                 /\ c = "text"
              \/ /\ c = "audio" /\ child' = [child EXCEPT !["audio"] = "read"]
                 /\ UNCHANGED <<worker, process>>
                 /\ Framed /\ \A x \in Session : session'[x] = session[x]
              \/ /\ c = "text" /\ child' = [child EXCEPT !["text"] = "write"]
                 /\ WordSent(s) /\ UNCHANGED worker /\ Reachable(s)
  <1>1. PICK s \in Session : s = Target(c)
    BY TargetIn DEF FindStarted, Runs
  <1>2. /\ session[s].worker # 0 /\ child[c] = "start" /\ generation = "gather"
    BY <1>1 DEF FindStarted, Runs, Settled, PlacesInv
  <1>3. CASE Reachable(s) \/ c = "audio"
    <2>1. Proceed(c, s, session[s], process) /\ UNCHANGED worker
      BY <1>1, <1>3 DEF FindStarted
    <2> QED
      BY <1>1, <1>2, <1>3, <2>1, GoesOn
  <1>4. CASE ~(Reachable(s) \/ c = "audio")
    <2>1. Fail(s, c, session[s]) /\ child' = [child EXCEPT ![c] = "failing"]
      BY <1>1, <1>4 DEF FindStarted, Become
    <2>2. c = "text"
      BY <1>4 DEF Child
    <2> QED
      BY <1>1, <1>2, <2>1, <2>2, FailsAlone
  <1> QED
    BY <1>3, <1>4

-----------------------------------------------------------------------------
(* Every step is one of a few kinds, as far as the sessions, the process   *)
(* and what is heard go.                                                   *)

SameSequence == UNCHANGED <<base, made, hearing, heard>>

SameSessions == Framed /\ \A x \in Session : session'[x] = session[x]

(* The fields of session s but the output, what is outstanding and the     *)
(* state of the reader.                                                    *)
SameBut(s) ==
  /\ Framed /\ Others(s) /\ SameLease(session'[s], session[s])
  /\ session'[s].sent = session[s].sent

Idle ==
  SameSequence /\ SameSessions /\ UNCHANGED <<process, worker, current, owner>>

(* The lease of a process that is not there is taken or given back.        *)
LeaseMoves ==
  /\ SameSequence /\ SameSessions /\ UNCHANGED <<process, worker, current>>
  /\ worker = 0 /\ \A x \in Session : session[x].worker = 0

Opens ==
  /\ UNCHANGED <<base, hearing, heard, process, worker, owner>> /\ SameSessions
  /\ made' = made + 1 /\ current = 0 /\ current' = made' /\ made' \in Session

Returned(s) ==
  /\ SameSequence /\ UNCHANGED current
  /\ session[s].worker # 0 /\ Releases(s, session[s].output)
  /\ \/ session[s].finalizer # "none"
     \/ session[s].reader = "done" /\ ~session[s].error

HeardToEnd(s) ==
  /\ UNCHANGED <<base, made, heard, current>> /\ hearing' = hearing + 1
  /\ s = hearing /\ session[s].worker # 0 /\ session[s].finalizer = "none"
  /\ session[s].output # <<>> /\ Head(session[s].output).is = "end"
  /\ Releases(s, Tail(session[s].output)) /\ Listening

Broken(s, t) ==
  /\ SameSequence /\ UNCHANGED <<current, owner>>
  /\ t # "none" /\ Served(s) /\ Fails(s, t)

(* A session that nobody has served gets the lease.                        *)
Unserved(s) ==
  /\ session[s].worker = 0 /\ ~session[s].finalized
  /\ session[s].finalizer = "none" /\ \A x \in Session : session[x].worker = 0

BrokenAtStart(s, c) ==
  /\ SameSequence /\ UNCHANGED current
  /\ Unserved(s) /\ owner = 0 /\ owner' = s /\ worker # 0 /\ worker = process.id
  /\ c # "none" /\ FailsAtStart(s, c)

Begins(s, c) ==
  /\ SameSequence /\ UNCHANGED <<current, worker>>
  /\ Unserved(s) /\ owner = 0 /\ owner' = s /\ worker # 0 /\ worker = process.id
  /\ process.state # "dead" /\ Started(c, s, process)
  /\ c = "text" => s = current /\ session[s].sent = 0 /\ child'.text = "write"

BeginsAnew(s, c) ==
  LET p == [id |-> process.id + 1, state |-> "idle", commands |-> <<>>, events |-> <<>>]
  IN  /\ SameSequence /\ UNCHANGED current
      /\ Unserved(s) /\ owner = s /\ owner' = s /\ worker = 0 /\ worker' = p.id
      /\ Started(c, s, p)
      /\ c = "text" => s = current /\ session[s].sent = 0 /\ child'.text = "write"

Speaks(s) ==
  /\ SameSequence /\ UNCHANGED <<current, owner, worker>>
  /\ s = current /\ Reachable(s) /\ session[s].sent + 1 \in Words
  /\ WordSent(s) /\ child'.text = "write"

SaysEnd(s) ==
  /\ SameSequence /\ UNCHANGED <<owner, worker>>
  /\ s = current /\ current' = 0 /\ Reachable(s) /\ session[s].sent > 0
  /\ SameBut(s)
  /\ session'[s].error = session[s].error
  /\ session'[s].output = session[s].output
  /\ session'[s].reader = session[s].reader
  /\ session'[s].pending = session[s].pending
  /\ Commanded(process, Message("finish", s, 0))

SaysCancel(s) ==
  /\ SameSequence /\ UNCHANGED <<current, owner, worker>>
  /\ Reachable(s) /\ ~Listening'
  /\ SameBut(s)
  /\ session'[s].error = session[s].error
  /\ session'[s].output = session[s].output
  /\ session'[s].reader = session[s].reader
  /\ session'[s].pending = session[s].pending
  /\ Commanded(process, Message("cancel", s, 0))

Hearkens(s) ==
  LET e == Head(session[s].output)
  IN  /\ UNCHANGED <<base, made, hearing, current, owner, worker, process>>
      /\ s = hearing /\ session[s].output # <<>> /\ e.is = "word" /\ Listening
      /\ heard' = Append(heard, <<e.of, e.word>>)
      /\ SameBut(s)
      /\ session'[s].error = session[s].error
      /\ session'[s].output = Tail(session[s].output)
      /\ session'[s].reader = session[s].reader
      /\ session'[s].pending = session[s].pending

(* The reader takes an event, which adds the items.                        *)
Takes(s, items) ==
  /\ SameSequence /\ UNCHANGED <<current, owner, worker>>
  /\ session[s].reader = "reading" /\ session[s].worker = process.id
  /\ process.events # <<>>
  /\ DOMAIN process' = {"id", "state", "commands", "events"}
  /\ process'.id = process.id /\ process'.state = process.state
  /\ process'.commands = process.commands /\ process'.events = Tail(process.events)
  /\ SameBut(s)
  /\ session'[s].output \in {session[s].output \o items, <<>>}
  /\ Listening => session'[s].output = session[s].output \o items

TakesWord(s) ==
  LET e == Head(process.events)
  IN  /\ Takes(s, <<e>>) /\ e.is = "word"
      /\ session'[s].pending = session[s].pending \ {e.word}
      /\ session'[s].reader = "reading" /\ session'[s].error = session[s].error

TakesEnd(s) ==
  /\ Takes(s, <<[is |-> "end"]>>) /\ Head(process.events).is = "end"
  /\ session'[s].pending = session[s].pending
  /\ session'[s].reader = "done" /\ session'[s].error = session[s].error

TakesError(s) ==
  /\ Takes(s, Failure) /\ Head(process.events).is = "error"
  /\ session'[s].pending = session[s].pending
  /\ session'[s].reader = "done" /\ session'[s].error = TRUE

TakesNothing(s) ==
  /\ SameSequence /\ UNCHANGED <<current, owner, worker, process>>
  /\ session[s].reader = "reading" /\ process.events = <<>>
  /\ process.state = "dead"
  /\ SameBut(s)
  /\ session'[s].pending = session[s].pending
  /\ session'[s].reader = "done" /\ session'[s].error = TRUE
  /\ session'[s].output \in {session[s].output \o Failure, <<>>}
  /\ Listening => session'[s].output = session[s].output \o Failure

(* Nobody listens any more.                                                *)
Drops ==
  /\ SameSequence /\ UNCHANGED <<current, worker, process>> /\ ~Listening'
  /\ UNCHANGED owner \/ (worker = 0 /\ \A x \in Session : session[x].worker = 0)
  /\ Framed
  /\ \A x \in Session :
       /\ SameLease(session'[x], session[x])
       /\ session'[x].sent = session[x].sent
       /\ session'[x].pending = session[x].pending
       /\ session'[x].reader = session[x].reader
       /\ session'[x].error = session[x].error
       /\ session'[x].output = <<>>

(* Only the process changes.                                               *)
Works ==
  SameSequence /\ SameSessions /\ UNCHANGED <<task, current, owner, worker>>

(* The process takes its first command and answers with events.            *)
Serves(events, state) ==
  /\ Works /\ process.commands # <<>>
  /\ DOMAIN process' = {"id", "state", "commands", "events"}
  /\ process'.id = process.id /\ process'.state = state
  /\ process'.commands = Tail(process.commands)
  /\ process'.events = process.events \o events

Answer(is) ==
  [is |-> is, of |-> Head(process.commands).of, word |-> Head(process.commands).word]

Accepts ==
  /\ process.state = "idle" /\ process.commands # <<>>
  /\ Head(process.commands).do = "start" /\ Serves(<<>>, "busy")

Refuses ==
  /\ process.state \in {"busy", "ending"} /\ process.commands # <<>>
  /\ Head(process.commands).do = "start"
  /\ Serves(<<Answer("error")>>, process.state)

Sounds ==
  /\ process.state = "busy" /\ process.commands # <<>>
  /\ Head(process.commands).do = "word" /\ Serves(<<Answer("word")>>, "busy")

Ends ==
  /\ process.state = "busy" /\ process.commands # <<>>
  /\ Head(process.commands).do = "finish" /\ Serves(<<Answer("end")>>, "ending")

Ignores ==
  /\ process.state \in {"idle", "ending"} /\ process.commands # <<>>
  /\ Head(process.commands).do # "start" /\ Serves(<<>>, process.state)

Stops ==
  /\ Works /\ process.state = "busy"
  /\ DOMAIN process' = {"id", "state", "commands", "events"}
  /\ process'.id = process.id /\ process'.state = "ending"
  /\ \E i \in 1 .. Len(process.commands) :
       LET c == process.commands[i]
       IN  /\ c.do = "cancel"
           /\ process'.commands = SubSeq(process.commands, i + 1, Len(process.commands))
           /\ process'.events =
                Append(process.events, [is |-> "end", of |-> c.of, word |-> c.word])

Rests ==
  /\ Works /\ process.state = "ending"
  /\ DOMAIN process' = {"id", "state", "commands", "events"}
  /\ process'.id = process.id /\ process'.state = "idle"
  /\ process'.commands = process.commands /\ process'.events = process.events

Raises ==
  LET e == [is |-> "error", of |-> owner, word |-> 0]
  IN  /\ Works /\ process.state = "busy"
      /\ DOMAIN process' = {"id", "state", "commands", "events"}
      /\ process'.id = process.id /\ process'.state = "ending"
      /\ process'.commands = process.commands
      /\ \E events \in {<<e>>, <<e, [is |-> "end", of |-> owner, word |-> 0]>>} :
           process'.events = process.events \o events

Dies ==
  /\ Works
  /\ DOMAIN process' = {"id", "state", "commands", "events"}
  /\ process'.id = process.id /\ process'.state = "dead"
  /\ process'.commands = <<>> /\ process'.events = process.events

OfSession(s) ==
  \/ Returned(s) \/ HeardToEnd(s)
  \/ \E t \in Child \cup {"watchdog", "generation"} : Broken(s, t)
  \/ \E c \in Child : BrokenAtStart(s, c) \/ Begins(s, c) \/ BeginsAnew(s, c)
  \/ Speaks(s) \/ SaysEnd(s) \/ SaysCancel(s) \/ Hearkens(s)
  \/ TakesWord(s) \/ TakesEnd(s) \/ TakesError(s) \/ TakesNothing(s)

OfProcess ==
  \/ Accepts \/ Refuses \/ Sounds \/ Ends \/ Ignores \/ Stops \/ Rests
  \/ Raises \/ Dies

Kinds ==
  \/ Idle \/ LeaseMoves \/ Opens \/ Drops \/ StartGeneration
  \/ \E s \in Session : OfSession(s)
  \/ OfProcess

(* The words of a session are not more than all of them.                   *)
LEMMA RoomForWord ==
  ASSUME NEW s \in 1 .. made, made \in Nat,
         session[s].sent \in 0 .. MaxWords, Cardinality(Written) < MaxWords
  PROVE  session[s].sent + 1 \in Words
  <1> USE SynthesisAssumption
  <1>1. session[s].sent # MaxWords
    <2> SUFFICES ASSUME session[s].sent = MaxWords PROVE FALSE
      OBVIOUS
    <2> DEFINE T == {s} \X Words
    <2>1. T \subseteq Written
      BY DEF Written, Words
    <2>2. /\ IsFiniteSet(1 .. made) /\ IsFiniteSet(1 .. MaxWords)
          /\ Cardinality(1 .. MaxWords) = MaxWords
      BY FS_Interval
    <2>3. IsFiniteSet((1 .. made) \X (1 .. MaxWords))
      BY <2>2, FS_Product
    <2>4. IsFiniteSet(Written)
      <3>1. Written \in SUBSET ((1 .. made) \X (1 .. MaxWords))
        BY DEF Written
      <3> QED
        BY <2>3, <3>1, FS_Subset
    <2>5. IsFiniteSet({s}) /\ Cardinality({s}) = 1
      BY FS_Singleton
    <2>6. Cardinality(T) = MaxWords
      <3>1. Cardinality(T) = Cardinality({s}) * Cardinality(Words)
        BY <2>2, <2>5, FS_Product DEF Words
      <3> QED
        BY <2>2, <2>5, <3>1 DEF Words
    <2>7. Cardinality(T) <= Cardinality(Written)
      BY <2>1, <2>4, FS_Subset
    <2>8. Cardinality(Written) \in Nat
      BY <2>4, FS_CardinalityType
    <2> QED
      BY <2>6, <2>7, <2>8
  <1> QED
    BY <1>1 DEF Words

(* Every step is of one of the kinds.                                      *)
LEMMA WordIsSent ==
  ASSUME Shape, PlacesInv, Records, Pipes, AddWord
  PROVE  current \in Session /\ Speaks(current)
  <1> USE SynthesisAssumption DEF PlacesInv
  <1>1. current \in Session /\ current \in 1 .. made
    BY DEF AddWord, Session
  <1>2. PICK s \in Session : s = current
    BY <1>1
  <1>3. session[s].sent + 1 \in Words
    BY <1>1, <1>2, RoomForWord DEF Records, AddWord
  <1> DEFINE r == session[s]
             q == WithWord(r)
  <1>4. /\ DOMAIN q = DOMAIN Fresh
        /\ q.sent = r.sent + 1 /\ q.pending = r.pending \cup {r.sent + 1}
        /\ q.worker = r.worker /\ q.finalized = r.finalized
        /\ q.error = r.error /\ q.finalizer = r.finalizer
        /\ q.output = r.output /\ q.finishing = r.finishing
        /\ q.reader = r.reader /\ q.watchdog = r.watchdog
    BY WithWordFields DEF Shape
  <1>5. /\ session' = [session EXCEPT ![s] = q] /\ Reachable(s)
        /\ process' = [process EXCEPT !.commands = Append(@, Message("word", s, r.sent + 1))]
        /\ UNCHANGED <<current, owner, worker>> /\ SameSequence
        /\ child'.text = "write"
    BY <1>2 DEF AddWord, Send, SameSequence, sequence, manager, Runs, task
  <1>6. Commanded(process, Message("word", s, r.sent + 1))
    BY <1>5 DEF Commanded, Shape
  <1> HIDE DEF q
  <1>7. WordSent(s)
    BY <1>4, <1>5, <1>6 DEF WordSent, Framed, Others, SameLease, Shape
  <1> HIDE DEF r
  <1> QED
    BY <1>1, <1>2, <1>3, <1>5, <1>7 DEF Speaks

LEMMA EndIsSent ==
  ASSUME Shape, PlacesInv, FirstWords, current # 0, current' = 0,
         Send(Message("finish", current, 0), [session[current] EXCEPT !.finishing = TRUE]),
         UNCHANGED <<base, made, hearing, heard, owner, worker>>
  PROVE  current \in Session /\ SaysEnd(current)
  <1> USE SynthesisAssumption DEF PlacesInv
  <1>1. PICK s \in Session : s = current
    BY DEF Session
  <1> DEFINE r == session[s]
             q == [r EXCEPT !.finishing = TRUE]
  <1>4. /\ DOMAIN q = DOMAIN Fresh /\ SameLease(q, r) /\ q.sent = r.sent
        /\ q.pending = r.pending /\ q.error = r.error
        /\ q.output = r.output /\ q.reader = r.reader
    BY DEF Shape, SameLease, Fresh
  <1>5. /\ session' = [session EXCEPT ![s] = q] /\ Reachable(s)
        /\ process' = [process EXCEPT !.commands = Append(@, Message("finish", s, 0))]
        /\ child.text = "write"
    BY <1>1 DEF Send, Runs
  <1>6. Commanded(process, Message("finish", s, 0))
    BY <1>5 DEF Commanded, Shape
  <1>8. session[s].sent > 0
    BY <1>1, <1>5 DEF FirstWords
  <1> HIDE DEF q
  <1>7. /\ SameBut(s)
        /\ session'[s].error = session[s].error
        /\ session'[s].output = session[s].output
        /\ session'[s].reader = session[s].reader
        /\ session'[s].pending = session[s].pending
    BY <1>4, <1>5, <1>6 DEF SameBut, Framed, Others, SameLease, Shape
  <1> HIDE DEF r
  <1> QED
    BY <1>1, <1>5, <1>6, <1>7, <1>8 DEF SaysEnd, SameSequence

LEMMA WordIsHeard ==
  ASSUME Shape, PlacesInv, HearWord
  PROVE  hearing \in Session /\ Hearkens(hearing)
  <1>1. PICK s \in Session : s = hearing
    BY SynthesisAssumption DEF HearWord, Hears, Runs, PlacesInv, Session
  <1>2. /\ session[s].output # <<>> /\ Head(session[s].output).is = "word"
        /\ child.audio = "read" /\ generation # "cancel" /\ cancels = {}
        /\ heard' = Append(heard, <<Head(session[s].output).of, Head(session[s].output).word>>)
        /\ session' = [session EXCEPT ![s] = [session[s] EXCEPT !.output = Tail(@)]]
        /\ UNCHANGED <<base, made, hearing, current, owner, worker, process>>
    BY <1>1 DEF HearWord, Hears, Runs, Settled, Taken, manager
  <1>3. Listening
    BY <1>2 DEF Listening, PlacesInv, Child, Over
  <1>4. /\ SameBut(s)
        /\ session'[s].error = session[s].error
        /\ session'[s].output = Tail(session[s].output)
        /\ session'[s].reader = session[s].reader
        /\ session'[s].pending = session[s].pending
    BY <1>2 DEF SameBut, Framed, Others, SameLease, Shape, Fresh
  <1> QED
    BY <1>1, <1>2, <1>3, <1>4 DEF Hearkens

LEMMA EndIsHeard ==
  ASSUME Shape, PlacesInv, LeaseInv, HearEnd
  PROVE  hearing \in Session /\ HeardToEnd(hearing)
  <1>1. PICK s \in Session : s = hearing
    BY SynthesisAssumption DEF HearEnd, Hears, Runs, PlacesInv, Session
  <1> DEFINE r == Taken
  <1>2. /\ session[s].output # <<>> /\ Head(session[s].output).is = "end"
        /\ child.audio = "read" /\ generation # "cancel" /\ cancels = {}
        /\ Release(s, r) /\ hearing' = hearing + 1
        /\ session[s].finalizer = "none" /\ ~session[s].finalized
        /\ UNCHANGED <<base, made, heard, current, worker, process>>
    BY <1>1 DEF HearEnd, Hears, Runs, Settled
  <1>3. Listening
    BY <1>2 DEF Listening, PlacesInv, Child, Over
  <1>4. session[s].worker # 0
    BY <1>1, <1>2 DEF LeaseInv, Users, Served
  <1>5. r.sent = session[s].sent /\ r.output = Tail(session[s].output)
    BY <1>1 DEF Taken, Shape, Fresh
  <1> HIDE DEF r
  <1> DEFINE o == Tail(session[s].output)
  <1>7. Queued(o) \in {o, <<>>} /\ (Listening => Queued(o) = o)
    BY QueuedIs
  <1>8. /\ Framed /\ Others(s) /\ owner' = 0
        /\ session'[s].worker = 0 /\ session'[s].finalizer = "none"
        /\ session'[s].reader = "none" /\ session'[s].watchdog = "none"
        /\ session'[s].finalized = TRUE /\ session'[s].error = FALSE
        /\ session'[s].sent = r.sent /\ session'[s].pending = {}
        /\ session'[s].output = Queued(r.output)
    BY <1>2, ReleaseFields
  <1>6. Releases(s, o)
    BY <1>2, <1>5, <1>7, <1>8 DEF Releases
  <1> QED
    BY <1>1, <1>2, <1>3, <1>4, <1>6 DEF HeardToEnd

LEMMA EventIsTaken ==
  ASSUME Shape, Records, Pipes, NEW s \in Session, ReadEvent(s)
  PROVE  TakesWord(s) \/ TakesEnd(s) \/ TakesError(s)
  <1> DEFINE r == session[s]
             e == Head(process.events)
             end == [is |-> "end"]
             q1 == [r EXCEPT !.output = Queued(Append(@, e)), !.pending = @ \ {e.word}]
             q2 == [r EXCEPT !.output = Queued(Append(@, end)),
                             !.finishing = FALSE, !.reader = "done"]
             f == WithFailure(r)
             q3 == [f EXCEPT !.reader = "done"]
             q == CASE e.is = "word" -> q1 [] e.is = "end" -> q2 [] OTHER -> q3
  <1>0. /\ session' = [session EXCEPT ![s] = q]
        /\ process' = [process EXCEPT !.events = Tail(@)]
        /\ r.reader = "reading" /\ r.worker = process.id /\ process.events # <<>>
        /\ SameSequence /\ UNCHANGED <<current, owner, worker>>
    BY DEF ReadEvent, SameSequence, sequence, manager
  <1>1. /\ DOMAIN process' = {"id", "state", "commands", "events"}
        /\ process'.id = process.id /\ process'.state = process.state
        /\ process'.commands = process.commands
        /\ process'.events = Tail(process.events)
    BY <1>0 DEF Shape
  <1>2. e \in Events /\ r.output \in Seq(Items)
    BY <1>0, HeadTailProperties DEF Pipes, Records
  <1>3. e.is \in {"word", "end", "error"}
    BY <1>2 DEF Events
  <1>4. CASE e.is = "word"
    <2>1. e \in Items
      BY <1>2, <1>4 DEF Events, Items
    <2>2. Append(r.output, e) = r.output \o <<e>>
      BY <1>2, <2>1, AppendIsConcat
    <2>3. /\ DOMAIN q1 = DOMAIN Fresh /\ SameLease(q1, r) /\ q1.sent = r.sent
          /\ q1.output = Queued(r.output \o <<e>>)
          /\ q1.pending = r.pending \ {e.word} /\ q1.reader = "reading"
          /\ q1.error = r.error
      BY <1>0, <2>2 DEF Shape, Fresh, SameLease
    <2>4. session' = [session EXCEPT ![s] = q1]
      BY <1>0, <1>4
    <2> HIDE DEF q1
    <2>5. /\ SameBut(s) /\ session'[s].output = Queued(r.output \o <<e>>)
          /\ session'[s].pending = r.pending \ {e.word}
          /\ session'[s].reader = "reading" /\ session'[s].error = r.error
      BY <2>3, <2>4 DEF SameBut, Framed, Others, SameLease, Shape
    <2> QED
      BY <1>0, <1>1, <1>4, <2>5, QueuedIs DEF TakesWord, Takes
  <1>5. CASE e.is = "end"
    <2>1. end \in Items
      BY DEF Items
    <2>2. Append(r.output, end) = r.output \o <<end>>
      BY <1>2, <2>1, AppendIsConcat
    <2>3. /\ DOMAIN q2 = DOMAIN Fresh /\ SameLease(q2, r) /\ q2.sent = r.sent
          /\ q2.output = Queued(r.output \o <<end>>)
          /\ q2.pending = r.pending /\ q2.reader = "done"
          /\ q2.error = r.error
      BY <2>2 DEF Shape, Fresh, SameLease
    <2>4. session' = [session EXCEPT ![s] = q2]
      BY <1>0, <1>5
    <2> HIDE DEF q2
    <2>5. /\ SameBut(s) /\ session'[s].output = Queued(r.output \o <<end>>)
          /\ session'[s].pending = r.pending
          /\ session'[s].reader = "done" /\ session'[s].error = r.error
      BY <2>3, <2>4 DEF SameBut, Framed, Others, SameLease, Shape
    <2> QED
      BY <1>0, <1>1, <1>5, <2>5, QueuedIs DEF TakesEnd, Takes
  <1>6. CASE e.is = "error"
    <2>1. /\ DOMAIN f = DOMAIN Fresh
          /\ Given(f, r) /\ f.error = TRUE
          /\ f.finalizer = r.finalizer /\ f.watchdog = r.watchdog
          /\ f.output = Queued(r.output \o Failure)
      BY WithFailureFields DEF Shape, Failure
    <2>3. /\ DOMAIN q3 = DOMAIN Fresh /\ SameLease(q3, r) /\ q3.sent = r.sent
          /\ q3.output = Queued(r.output \o Failure)
          /\ q3.pending = r.pending /\ q3.reader = "done"
          /\ q3.error = TRUE
      <3> HIDE DEF f
      <3> QED
        BY <2>1 DEF Fresh, SameLease, Given
    <2>4. session' = [session EXCEPT ![s] = q3]
      BY <1>0, <1>6
    <2> HIDE DEF q3
    <2>5. /\ SameBut(s) /\ session'[s].output = Queued(r.output \o Failure)
          /\ session'[s].pending = r.pending
          /\ session'[s].reader = "done" /\ session'[s].error = TRUE
      BY <2>3, <2>4 DEF SameBut, Framed, Others, SameLease, Shape
    <2> QED
      BY <1>0, <1>1, <1>6, <2>5, QueuedIs DEF TakesError, Takes
  <1> QED
    BY <1>3, <1>4, <1>5, <1>6

LEMMA NothingIsTaken ==
  ASSUME Shape, NEW s \in Session, ReadNothing(s)
  PROVE  TakesNothing(s)
  <1> DEFINE r == session[s]
             f == WithFailure(r)
             q3 == [f EXCEPT !.reader = "done"]
  <1>0. /\ session' = [session EXCEPT ![s] = q3]
        /\ r.reader = "reading" /\ process.events = <<>> /\ process.state = "dead"
        /\ SameSequence /\ UNCHANGED <<current, owner, worker, process>>
    BY DEF ReadNothing, SameSequence, sequence, manager
  <1>1. /\ DOMAIN f = DOMAIN Fresh
        /\ Given(f, r) /\ f.error = TRUE
        /\ f.finalizer = r.finalizer /\ f.watchdog = r.watchdog
        /\ f.output = Queued(r.output \o Failure)
    BY WithFailureFields DEF Shape, Failure
  <1>3. /\ DOMAIN q3 = DOMAIN Fresh /\ SameLease(q3, r) /\ q3.sent = r.sent
        /\ q3.output = Queued(r.output \o Failure)
        /\ q3.pending = r.pending /\ q3.reader = "done"
        /\ q3.error = TRUE
    <2> HIDE DEF f
    <2> QED
      BY <1>1 DEF Fresh, SameLease, Given
  <1> HIDE DEF q3
  <1>5. /\ SameBut(s) /\ session'[s].output = Queued(r.output \o Failure)
        /\ session'[s].pending = r.pending
        /\ session'[s].reader = "done" /\ session'[s].error = TRUE
    BY <1>0, <1>3 DEF SameBut, Framed, Others, SameLease, Shape
  <1> QED
    BY <1>0, <1>5, QueuedIs DEF TakesNothing

LEMMA KindStep ==
  ASSUME Shape, PlacesInv, LeaseInv, EndInv, Records, Pipes, FirstWords,
         [Next]_vars
  PROVE  Kinds
  <1> USE SynthesisAssumption DEF task, sequence, manager
  <1>0. \A s \in Session : OfSession(s) => Kinds
    BY DEF Kinds
  <1>I. ASSUME UNCHANGED <<base, made, hearing, heard, session, process, worker, current, owner>>
        PROVE  Kinds
    BY <1>I DEF Kinds, Idle, SameSequence, SameSessions, Framed, Shape
  <1>L. ASSUME UNCHANGED <<base, made, hearing, heard, session, process, worker, current>>,
               worker = 0, \A x \in Session : session[x].worker = 0
        PROVE  Kinds
    BY <1>L DEF Kinds, LeaseMoves, SameSequence, SameSessions, Framed, Shape
  <1>R. ASSUME NEW s \in Session, Release(s, session[s]), UNCHANGED <<base, made, hearing,
               heard, worker, process, current>>, session[s].worker # 0,
               \/ session[s].finalizer # "none"
               \/ session[s].reader = "done" /\ ~session[s].error
        PROVE  Kinds
    <2>1. Returned(s)
      BY <1>R, ReleasesAlone DEF Returned, SameSequence
    <2> QED
      BY <2>1 DEF Kinds, OfSession
  <1>B. ASSUME NEW s \in Session, NEW t \in Child \cup {"watchdog", "generation"}, Fails(s, t),
               UNCHANGED <<base, made, hearing, heard, owner, current>>, Served(s)
        PROVE  Kinds
    <2>1. Broken(s, t)
      BY <1>B DEF Broken, SameSequence, Child
    <2> QED
      BY <2>1 DEF Kinds, OfSession
  <1>1. ASSUME NEW c \in Child, FindStarted(c)
        PROVE  Kinds
    <2>1. PICK s \in Session :
           /\ s = Target(c) /\ child[c] = "start" /\ generation = "gather"
           /\ session[s].worker # 0
           /\ \/ /\ Fails(s, c) /\ child' = [child EXCEPT ![c] = "failing"]
                 /\ c = "text"
              \/ /\ c = "audio" /\ child' = [child EXCEPT !["audio"] = "read"]
                 /\ UNCHANGED <<worker, process>>
                 /\ Framed /\ \A x \in Session : session'[x] = session[x]
              \/ /\ c = "text" /\ child' = [child EXCEPT !["text"] = "write"]
                 /\ WordSent(s) /\ UNCHANGED worker /\ Reachable(s)
      BY <1>1, FindStartedFields
    <2>2. UNCHANGED <<base, made, hearing, heard, owner, current>>
      BY <1>1 DEF FindStarted
    <2>3. CASE Fails(s, c)
      BY <2>1, <2>2, <2>3, <1>B DEF Served
    <2>4. CASE UNCHANGED <<worker, process>> /\ Framed /\ \A x \in Session : session'[x] = session[x]
      BY <2>2, <2>4 DEF Kinds, Idle, SameSequence, SameSessions
    <2>5. CASE /\ c = "text" /\ child' = [child EXCEPT !["text"] = "write"]
               /\ WordSent(s) /\ UNCHANGED worker /\ Reachable(s)
      <3>1. s = current /\ session[s].sent = 0
        BY <2>1, <2>5 DEF Target, FirstWords
      <3>3. child'.text = "write"
        BY <2>1, <2>5 DEF Shape, Child
      <3>2. Speaks(s)
        BY <2>2, <2>5, <3>1, <3>3 DEF Speaks, SameSequence, Words
      <3> QED
        BY <3>2 DEF Kinds, OfSession
    <2> QED
      BY <2>1, <2>3, <2>4, <2>5
  <1>2. ASSUME NEW c \in Child, FindEnded(c)
        PROVE  Kinds
    BY <1>2, <1>I DEF FindEnded
  <1>3. ASSUME NEW c \in Child, Acquire(c)
        PROVE  Kinds
    <2>1. PICK s \in Session :
           /\ s = Target(c) /\ child[c] = "start" /\ generation = "gather"
           /\ session[s].worker = 0 /\ ~session[s].finalized
           /\ session[s].finalizer = "none"
           /\ owner = 0 /\ owner' = s /\ worker # 0 /\ worker = process.id
           /\ \/ Started(c, s, process) /\ process.state # "dead" /\ UNCHANGED worker
              \/ FailsAtStart(s, c)
      BY <1>3, AcquireFields DEF LeaseInv
    <2>2. UNCHANGED <<base, made, hearing, heard, current>>
      BY <1>3 DEF Acquire
    <2>3. Unserved(s)
      BY <2>1 DEF Unserved, LeaseInv, Leases, Session
    <2>4. CASE FailsAtStart(s, c)
      <3>1. BrokenAtStart(s, c)
        BY <2>1, <2>2, <2>3, <2>4 DEF BrokenAtStart, SameSequence, Child
      <3> QED
        BY <3>1 DEF Kinds, OfSession
    <2>5. CASE Started(c, s, process) /\ process.state # "dead" /\ UNCHANGED worker
      <3>1. c = "text" => s = current /\ session[s].sent = 0 /\ child'.text = "write"
        BY <2>1, <2>5 DEF Target, FirstWords, Started, Shape, Child
      <3>2. Begins(s, c)
        BY <2>1, <2>2, <2>3, <2>5, <3>1 DEF Begins, SameSequence
      <3> QED
        BY <3>2 DEF Kinds, OfSession
    <2> QED
      BY <2>1, <2>4, <2>5
  <1>4. ASSUME NEW c \in Child, AcquireAndStart(c)
        PROVE  Kinds
    <2>1. owner = 0 /\ worker = 0 /\ UNCHANGED <<base, made, hearing, heard, session, process,
                                                worker, current>>
      BY <1>4 DEF AcquireAndStart, CanAcquire
    <2>2. \A x \in Session : session[x].worker = 0
      BY <2>1 DEF LeaseInv, Leases, Session
    <2> QED
      BY <2>1, <2>2, <1>L
  <1>5. ASSUME NEW c \in Child, WorkerStarts(c)
        PROVE  Kinds
    <2> DEFINE p == [id |-> process.id + 1, state |-> "idle", commands |-> <<>>, events |-> <<>>]
    <2>1. PICK s \in Session :
           /\ s = Target(c) /\ child[c] = "starting" /\ generation = "gather"
           /\ session[s].worker = 0 /\ ~session[s].finalized
           /\ session[s].finalizer = "none"
           /\ owner = s /\ owner' = s /\ worker = 0 /\ worker' = p.id
           /\ Started(c, s, p)
      BY <1>5, WorkerStartsFields
    <2>2. UNCHANGED <<base, made, hearing, heard, current>>
      BY <1>5 DEF WorkerStarts
    <2>3. Unserved(s)
      BY <2>1 DEF Unserved, LeaseInv, Leases
    <2>4. c = "text" => s = current /\ session[s].sent = 0 /\ child'.text = "write"
      <3> HIDE DEF p
      <3> QED
        BY <2>1 DEF Target, FirstWords, Started, Shape, Child
    <2>5. BeginsAnew(s, c)
      <3> HIDE DEF p
      <3>1. SameSequence
        BY <2>2 DEF SameSequence
      <3> USE DEF p
      <3> QED
        BY ONLY <2>1, <2>2, <2>3, <2>4, <3>1 DEF BeginsAnew
    <2> QED
      BY <2>5 DEF Kinds, OfSession
  <1>6. ASSUME NEW c \in Child, WorkerDoesNotStart(c)
        PROVE  Kinds
    <2>1. /\ child[c] = "starting"
          /\ UNCHANGED <<base, made, hearing, heard, session, process, worker, current>>
      BY <1>6 DEF WorkerDoesNotStart, Runs
    <2>2. worker = 0 /\ owner = Target(c) /\ session[Target(c)].worker = 0
      BY <2>1 DEF LeaseInv, Users, Awaits, Target, Child
    <2>3. \A x \in Session : session[x].worker = 0
      BY <2>2 DEF LeaseInv, Leases
    <2> QED
      BY <2>1, <2>2, <2>3, <1>L
  <1>7. ASSUME NEW c \in Child, FailureEnds(c)
        PROVE  Kinds
    <2>1. UNCHANGED <<base, made, hearing, heard, worker, process, current>> /\ child[c] = "failing"
      BY <1>7 DEF FailureEnds, Runs
    <2>2. PICK s \in Session : s = Target(c)
      BY <2>1, TargetIn
    <2>3. CASE session[s].finalizer = c /\ Release(s, session[s])
      <3>1. session[s].worker # 0 /\ session[s].finalizer # "none"
        BY <2>3 DEF LeaseInv, Leases, Child
      <3> QED
        BY <2>1, <2>3, <3>1, <1>R
    <2>4. CASE UNCHANGED <<session, owner>>
      BY <2>1, <2>4, <1>I
    <2> QED
      BY <1>7, <2>2, <2>3, <2>4 DEF FailureEnds
  <1>8. CASE OpenSession
    <2>1. Opens
      BY <1>8 DEF OpenSession, Opens, SameSessions, Framed, Shape, PlacesInv, Session
    <2> QED
      BY <2>1 DEF Kinds
  <1>9. CASE AddWord
    BY <1>9, <1>0, WordIsSent DEF OfSession
  <1>10. CASE FinishUtterance
    <2>1. current \in Session /\ SaysEnd(current)
      BY <1>10, EndIsSent DEF FinishUtterance
    <2> QED
      BY <1>0, <2>1 DEF OfSession
  <1>11. CASE FinishInput
    <2>1. CASE current = 0 /\ UNCHANGED <<session, process>>
      BY <1>11, <2>1, <1>I DEF FinishInput
    <2>2. CASE current # 0 /\ Send(Message("finish", current, 0),
                                   [session[current] EXCEPT !.finishing = TRUE])
      <3>1. current \in Session /\ SaysEnd(current)
        BY <1>11, <2>2, EndIsSent DEF FinishInput
      <3> QED
        BY <1>0, <3>1 DEF OfSession
    <2> QED
      BY <1>11, <2>1, <2>2 DEF FinishInput
  <1>12. CASE SendFails
    <2>0. /\ current # 0 /\ child.text = "write"
          /\ UNCHANGED <<base, made, hearing, heard, owner, current>>
      BY <1>12 DEF SendFails, Runs
    <2>1. PICK s \in Session : s = current
      BY <2>0 DEF PlacesInv, Session
    <2>2. CASE UNCHANGED <<session, worker, process>>
      BY <2>0, <2>2, <1>I
    <2>3. CASE Fail(s, "text", session[s])
      <3>1. Fails(s, "text") /\ Served(s)
        BY <2>0, <2>1, <2>3, FailsAlone DEF LeaseInv, Users
      <3> QED
        BY <2>0, <3>1, <1>B DEF Child
    <2> QED
      BY <1>12, <2>1, <2>2, <2>3 DEF SendFails
  <1>13. CASE TextFails
    BY <1>13, <1>I DEF TextFails
  <1>14. CASE NextSession
    BY <1>14, <1>I DEF NextSession
  <1>15. CASE HearWord
    BY <1>15, <1>0, WordIsHeard DEF OfSession
  <1>16. CASE HearEnd
    BY <1>16, <1>0, EndIsHeard DEF OfSession
  <1>17. CASE HearFailure
    <2>1. /\ hearing \in Session /\ Fails(hearing, "audio") /\ child.audio = "read"
          /\ UNCHANGED <<base, made, hearing, heard, owner, current>>
      BY <1>17, HearFailureFields DEF HearFailure
    <2>2. Served(hearing)
      BY <2>1 DEF LeaseInv, Users
    <2> QED
      BY <2>1, <2>2, <1>B DEF Child
  <1>18. ASSUME NEW s \in Session, ReadEvent(s)
        PROVE  Kinds
    BY <1>18, <1>0, EventIsTaken DEF OfSession
  <1>19. ASSUME NEW s \in Session, ReadNothing(s)
        PROVE  Kinds
    BY <1>19, <1>0, NothingIsTaken DEF OfSession
  <1>20. ASSUME NEW s \in Session, WatchdogStrikes(s)
        PROVE  Kinds
    <2>1. Fails(s, "watchdog") /\ Served(s)
          /\ UNCHANGED <<base, made, hearing, heard, owner, current>>
      BY <1>20, WatchdogStrikesFields DEF WatchdogStrikes, LeaseInv, Leases, Served
    <2> QED
      BY <2>1, <1>B
  <1>21. ASSUME NEW s \in Session, WatchdogDone(s)
        PROVE  Kinds
    <2>1. /\ session[s].finalizer = "watchdog" /\ Release(s, session[s])
          /\ UNCHANGED <<base, made, hearing, heard, worker, process, current>>
      BY <1>21 DEF WatchdogDone
    <2>2. session[s].worker # 0
      BY <2>1 DEF LeaseInv, Leases
    <2> QED
      BY <2>1, <2>2, <1>R
  <1>22. CASE StartGeneration
    BY <1>22 DEF Kinds
  <1>D. ASSUME session' = Unheard, child'.audio = "done",
               UNCHANGED <<base, made, hearing, heard, owner, worker, process, current>>
        PROVE  Kinds
    <2>1. Framed /\ \A x \in Session :
           /\ SameLease(session'[x], session[x])
           /\ session'[x].sent = session[x].sent
           /\ session'[x].pending = session[x].pending
           /\ session'[x].reader = session[x].reader
           /\ session'[x].error = session[x].error
           /\ session'[x].output = <<>>
      BY <1>D DEF Unheard, Shape, Framed, Fresh, SameLease
    <2>2. Drops
      BY <1>D, <2>1 DEF Drops, Listening, Over, SameSequence
    <2> QED
      BY <2>2 DEF Kinds
  <1>23. ASSUME NEW c \in Child, ChildCancelled(c)
        PROVE  Kinds
    <2>0. /\ UNCHANGED <<base, made, hearing, heard, worker, process, current>>
          /\ child' = [child EXCEPT ![c] = "done"] /\ c \in cancels
      BY <1>23 DEF ChildCancelled, Become
    <2>1. CASE child[c] = "failing" /\ session[Target(c)].finalizer = c
      <3>1. PICK s \in Session : s = Target(c)
        BY <2>1, TargetIn
      <3>2. Release(s, session[s])
        BY <1>23, <2>1, <3>1 DEF ChildCancelled
      <3>3. session[s].worker # 0 /\ session[s].finalizer # "none"
        BY <2>1, <3>1 DEF LeaseInv, Leases, Child
      <3> QED
        BY <2>0, <3>2, <3>3, <1>R
    <2>2. CASE ~(child[c] = "failing" /\ session[Target(c)].finalizer = c)
      <3>1. /\ owner' = IF child[c] = "starting" THEN 0 ELSE owner
            /\ session' = IF c = "audio" THEN Unheard ELSE session
        BY <1>23, <2>2 DEF ChildCancelled
      <3>2. CASE child[c] = "starting"
        <4>1. worker = 0 /\ owner = Target(c) /\ session[Target(c)].worker = 0
          BY <3>2 DEF LeaseInv, Users, Awaits, Target, Child
        <4>2. \A x \in Session : session[x].worker = 0
          BY <4>1 DEF LeaseInv, Leases
        <4>3. CASE c # "audio"
          BY <2>0, <3>1, <4>1, <4>2, <4>3, <1>L
        <4>4. CASE c = "audio"
          <5>1. Framed /\ \A x \in Session :
             /\ SameLease(session'[x], session[x])
             /\ session'[x].sent = session[x].sent
             /\ session'[x].pending = session[x].pending
             /\ session'[x].reader = session[x].reader
             /\ session'[x].error = session[x].error
             /\ session'[x].output = <<>>
            BY <3>1, <4>4 DEF Unheard, Shape, Framed, Fresh, SameLease
          <5>2. child'.audio = "done"
            BY <2>0, <4>4 DEF Shape, Child
          <5>3. Drops
            BY <2>0, <3>1, <4>1, <4>2, <5>1, <5>2 DEF Drops, Listening, Over, SameSequence
          <5> QED
            BY <5>3 DEF Kinds
        <4> QED
          BY <4>3, <4>4
      <3>3. CASE child[c] # "starting" /\ c = "audio"
        <4>1. child'.audio = "done"
          BY <2>0, <3>3 DEF Shape, Child
        <4> QED
          BY <2>0, <3>1, <3>3, <4>1, <1>D
      <3>4. CASE child[c] # "starting" /\ c # "audio"
        BY <2>0, <3>1, <3>4, <1>I
      <3> QED
        BY <3>2, <3>3, <3>4
    <2> QED
      BY <2>1, <2>2
  <1>24. CASE AskToStop
    BY <1>24, <1>I DEF AskToStop
  <1>25. ASSUME NEW c \in Child, ReturnEarly(c)
        PROVE  Kinds
    <2>0. /\ UNCHANGED <<base, made, hearing, heard, owner, worker, process, current>>
          /\ child' = [child EXCEPT ![c] = "done"]
      BY <1>25 DEF ReturnEarly, Become
    <2>1. CASE UNCHANGED session
      BY <2>0, <2>1, <1>I
    <2>2. CASE c = "audio" /\ session' = Unheard
      <3>1. child'.audio = "done"
        BY <2>0, <2>2 DEF Shape, Child
      <3> QED
        BY <2>0, <2>2, <3>1, <1>D
    <2> QED
      BY <1>25, <2>1, <2>2 DEF ReturnEarly
  <1>26. CASE ChildrenEnd
    BY <1>26, <1>I DEF ChildrenEnd
  <1>27. CASE ChildFails
    BY <1>27, <1>I DEF ChildFails
  <1>28. ASSUME NEW s \in Session, CancelSession(s)
        PROVE  Kinds
    <2>0. UNCHANGED <<base, made, hearing, heard, owner, current>> /\ session[s].worker # 0
      BY <1>28 DEF CancelSession, Open
    <2>1. CASE Fails(s, "generation")
      BY <2>0, <2>1, <1>B DEF Served
    <2>2. CASE ~Fails(s, "generation")
      <3>1. /\ generation' = "wait" /\ UNCHANGED worker /\ Reachable(s)
            /\ Framed /\ Others(s) /\ SameLease(session'[s], session[s])
            /\ session'[s].error = session[s].error
            /\ session'[s].output = session[s].output
            /\ session'[s].reader = session[s].reader
            /\ session'[s].sent = session[s].sent
            /\ session'[s].pending = session[s].pending
            /\ Commanded(process, Message("cancel", s, 0))
        BY <1>28, <2>2, CancelSessionFields
      <3>2. SaysCancel(s)
        BY <2>0, <3>1 DEF SaysCancel, SameBut, SameSequence, Listening
      <3> QED
        BY <3>2 DEF Kinds, OfSession
    <2> QED
      BY <2>1, <2>2
  <1>29. CASE NothingToCancel
    BY <1>29, <1>I DEF NothingToCancel
  <1>30. ASSUME NEW s \in Session, CancelEnds(s)
        PROVE  Kinds
    <2>0. /\ UNCHANGED <<base, made, hearing, heard, current>>
          /\ session[s].worker # 0 /\ session[s].reader = "done"
      BY <1>30 DEF CancelEnds, Open
    <2>1. CASE session[s].error
      <3>1. Fail(s, "generation", session[s]) /\ UNCHANGED owner
        BY <1>30, <2>1 DEF CancelEnds
      <3> QED
        BY <2>0, <3>1, FailsAlone, <1>B DEF Served
    <2>2. CASE ~session[s].error
      <3>1. Release(s, session[s]) /\ UNCHANGED <<worker, process>>
        BY <1>30, <2>2 DEF CancelEnds
      <3> QED
        BY <2>0, <2>2, <3>1, <1>R
    <2> QED
      BY <2>1, <2>2
  <1>31. ASSUME NEW s \in Session, CancelTimesOut(s)
        PROVE  Kinds
    <2>1. /\ UNCHANGED <<base, made, hearing, heard, owner, current>> /\ session[s].worker # 0
          /\ Fail(s, "generation", session[s])
      BY <1>31 DEF CancelTimesOut, Open
    <2> QED
      BY <2>1, FailsAlone, <1>B DEF Served
  <1>32. CASE CancelSettles
    <2>0. UNCHANGED <<base, made, hearing, heard, worker, process, current>>
      BY <1>32 DEF CancelSettles
    <2>1. CASE \E s \in Session : session[s].finalizer = "generation" /\ Release(s, session[s])
      <3>1. PICK s \in Session : session[s].finalizer = "generation" /\ Release(s, session[s])
        BY <2>1
      <3>2. session[s].worker # 0
        BY <3>1 DEF LeaseInv, Leases
      <3> QED
        BY <2>0, <3>1, <3>2, <1>R
    <2>2. CASE UNCHANGED <<session, owner>>
      BY <2>0, <2>2, <1>I
    <2> QED
      BY <1>32, <2>1, <2>2 DEF CancelSettles
  <1>33. CASE Interrupt
    <2>0. UNCHANGED <<base, made, hearing, heard, worker, process, current>>
      BY <1>33 DEF Interrupt
    <2>1. CASE \E s \in Session : session[s].finalizer = "generation" /\ Release(s, session[s])
      <3>1. PICK s \in Session : session[s].finalizer = "generation" /\ Release(s, session[s])
        BY <2>1
      <3>2. session[s].worker # 0
        BY <3>1 DEF LeaseInv, Leases
      <3> QED
        BY <2>0, <3>1, <3>2, <1>R
    <2>2. CASE UNCHANGED <<session, owner>>
      BY <2>0, <2>2, <1>I
    <2> QED
      BY <1>33, <2>1, <2>2 DEF Interrupt
  <1>W. ASSUME UNCHANGED <<task, sequence, session, manager>>
        PROVE  Works
    BY <1>W DEF Works, SameSequence, SameSessions, Framed, Shape
  <1>34. CASE ServeStart
    <2>1. Works /\ process.commands # <<>> /\ Head(process.commands).do = "start"
      BY <1>34, <1>W DEF ServeStart
    <2>2. CASE process.state = "idle" /\ Serve(<<>>, "busy")
      BY <2>1, <2>2 DEF Kinds, OfProcess, Accepts, Serves, Serve, Shape
    <2>3. CASE process.state \in {"busy", "ending"} /\
               Serve(<<Event("error", Head(process.commands))>>, process.state)
      BY <2>1, <2>3 DEF Kinds, OfProcess, Refuses, Serves, Serve, Shape, Answer, Event
    <2> QED
      BY <1>34, <2>2, <2>3 DEF ServeStart
  <1>35. CASE ServeInput
    <2>1. Works /\ process.commands # <<>> /\ process.state = "busy"
      BY <1>35, <1>W DEF ServeInput
    <2>2. CASE Head(process.commands).do = "word" /\
               Serve(<<Event("word", Head(process.commands))>>, "busy")
      BY <2>1, <2>2 DEF Kinds, OfProcess, Sounds, Serves, Serve, Shape, Answer, Event
    <2>3. CASE Head(process.commands).do = "finish" /\
               Serve(<<Event("end", Head(process.commands))>>, "ending")
      BY <2>1, <2>3 DEF Kinds, OfProcess, Ends, Serves, Serve, Shape, Answer, Event
    <2> QED
      BY <1>35, <2>2, <2>3 DEF ServeInput
  <1>36. CASE ServeCancel
    <2>1. Works /\ process.state = "busy"
      BY <1>36, <1>W DEF ServeCancel
    <2>2. PICK i \in 1 .. Len(process.commands) :
            /\ process.commands[i].do = "cancel"
            /\ process' = [process EXCEPT
                 !.commands = SubSeq(@, i + 1, Len(@)),
                 !.events = Append(@, Event("end", process.commands[i])),
                 !.state = "ending"]
      BY <1>36 DEF ServeCancel
    <2>3. Stops
      BY <2>1, <2>2 DEF Stops, Shape, Event
    <2> QED
      BY <2>3 DEF Kinds, OfProcess
  <1>37. CASE IgnoreCommand
    <2>1. Works
      BY <1>37, <1>W DEF IgnoreCommand
    <2> QED
      BY <1>37, <2>1 DEF IgnoreCommand, Kinds, OfProcess, Ignores, Serves, Serve, Shape
  <1>38. CASE ThreadEnds
    <2>1. Works
      BY <1>38, <1>W DEF ThreadEnds
    <2> QED
      BY <1>38, <2>1 DEF ThreadEnds, Kinds, OfProcess, Rests, Shape
  <1>39. CASE GenerationRaises
    <2>1. Works
      BY <1>39, <1>W DEF GenerationRaises
    <2> DEFINE e == [is |-> "error", of |-> owner, word |-> 0]
               f == [is |-> "end", of |-> owner, word |-> 0]
    <2>2. [e EXCEPT !.is = "end"] = f
      OBVIOUS
    <2>3. PICK events \in {<<e>>, <<e, f>>} :
            process' = [process EXCEPT !.state = "ending", !.events = @ \o events]
      BY <1>39, <2>2 DEF GenerationRaises
    <2>4. process.state = "busy"
      BY <1>39 DEF GenerationRaises
    <2> HIDE DEF e, f
    <2>5. /\ DOMAIN process' = {"id", "state", "commands", "events"}
          /\ process'.id = process.id /\ process'.state = "ending"
          /\ process'.commands = process.commands
          /\ process'.events = process.events \o events
      BY <2>3 DEF Shape
    <2>6. Raises
      BY <2>1, <2>3, <2>4, <2>5 DEF Raises, e, f
    <2> QED
      BY <2>6 DEF Kinds, OfProcess
  <1>40. CASE WorkerDies
    <2>1. Works
      BY <1>40, <1>W DEF WorkerDies
    <2> QED
      BY <1>40, <2>1 DEF WorkerDies, Dead, Kinds, OfProcess, Dies, Shape
  <1>41. CASE UNCHANGED vars
    BY <1>41, <1>I DEF vars
  <1>42. QED
    BY <1>1, <1>2, <1>3, <1>4, <1>5, <1>6, <1>7, <1>8, <1>9, <1>10, <1>11,
       <1>12, <1>13, <1>14, <1>15, <1>16, <1>17, <1>18, <1>19, <1>20, <1>21,
       <1>22, <1>23, <1>24, <1>25, <1>26, <1>27, <1>28, <1>29, <1>30, <1>31,
       <1>32, <1>33, <1>34, <1>35, <1>36, <1>37, <1>38, <1>39, <1>40, <1>41
       DEF Next, Immediate, Progress, Demand, WorkerProgram

-----------------------------------------------------------------------------
(* The types of the sessions and of the pipes.                             *)

LEMMA FailureIs ==
  /\ Failure \in Seq(Items) /\ Len(Failure) = 2
  /\ Failure[1].is = "failure" /\ Failure[2].is = "end"
  BY DEF Failure, Items

(* What begins with a generation: the sessions without a worker are as if  *)
(* they were new, but their words were said.                               *)
LEMMA NewGenerationFields ==
  ASSUME Shape, StartGeneration
  PROVE  /\ Framed
         /\ \A x \in Session :
              IF session[x].worker # 0 THEN session'[x] = session[x]
              ELSE /\ session'[x].worker = 0 /\ session'[x].finalizer = "none"
                   /\ session'[x].reader = "none" /\ session'[x].watchdog = "none"
                   /\ session'[x].finalized = FALSE /\ session'[x].error = FALSE
                   /\ session'[x].pending = {} /\ session'[x].output = <<>>
                   /\ session'[x].sent = session[x].sent
         /\ base' = made /\ hearing' = made + 1 /\ heard' = <<>> /\ current' = 0
         /\ UNCHANGED <<made, owner, worker, process>>
  BY DEF StartGeneration, Shape, Framed, Fresh, manager

(* The types of one session.                                               *)
LEMMA RecordsKept ==
  ASSUME Records, NEW s \in Session, Others(s), process'.id = process.id,
         session'[s].worker \in {0, process.id},
         session'[s].reader \in {"none", "reading", "done"},
         session'[s].watchdog \in {"none", "watching", "done"},
         session'[s].finalized \in BOOLEAN, session'[s].error \in BOOLEAN,
         session'[s].sent \in 0 .. MaxWords,
         session'[s].pending \subseteq 1 .. session'[s].sent,
         session'[s].output \in Seq(Items)
  PROVE  Records'
  BY DEF Records, Others

LEMMA RecordsOfSession ==
  ASSUME Shape, PlacesInv, LeaseInv, EndInv, Records, Pipes, Unstarted,
         NEW s \in Session, OfSession(s)
  PROVE  Records'
  <1> USE SynthesisAssumption DEF SameSequence
  <1>0. /\ session[s].worker \in {0, process.id}
        /\ session[s].reader \in {"none", "reading", "done"}
        /\ session[s].watchdog \in {"none", "watching", "done"}
        /\ session[s].finalized \in BOOLEAN /\ session[s].error \in BOOLEAN
        /\ session[s].sent \in 0 .. MaxWords
        /\ session[s].pending \subseteq 1 .. session[s].sent
        /\ session[s].output \in Seq(Items)
    BY DEF Records
  <1>1. <<>> \in Seq(Items) /\ \A n : {} \subseteq 1 .. n
    OBVIOUS
  <1>2. session[s].output \o Failure \in Seq(Items)
    BY <1>0, FailureIs, ConcatProperties
  <1>3. CASE Returned(s)
    BY <1>0, <1>1, <1>3, RecordsKept DEF Returned, Releases
  <1>4. CASE HeardToEnd(s)
    <2>1. Tail(session[s].output) \in Seq(Items)
      BY <1>0, <1>4, HeadTailProperties DEF HeardToEnd
    <2> QED
      BY <1>0, <1>1, <1>4, <2>1, RecordsKept DEF HeardToEnd, Releases
  <1>5. ASSUME NEW t \in Child \cup {"watchdog", "generation"}, Broken(s, t)
        PROVE  Records'
    <2>1. Fails(s, t)
      BY <1>5 DEF Broken
    <2> QED
      BY <1>0, <1>1, <1>2, <2>1, RecordsKept DEF Fails
  <1>6. ASSUME NEW c \in Child, BrokenAtStart(s, c)
        PROVE  Records'
    BY <1>0, <1>1, <1>6, RecordsKept DEF BrokenAtStart, FailsAtStart
  <1>7. ASSUME NEW c \in Child, NEW p, Started(c, s, p), p.id = process'.id,
               session[s].finalized = FALSE, \A x \in Session : session[x].worker = 0,
               c = "text" => session[s].sent = 0
        PROVE  Records'
    <2>0. /\ Others(s) /\ session'[s].worker = process'.id
          /\ session'[s].reader = "reading" /\ session'[s].watchdog = "watching"
          /\ session'[s].finalized = session[s].finalized
          /\ session'[s].error = session[s].error
          /\ session'[s].output = session[s].output
      BY <1>7 DEF Started
    <2>1. session'[s].sent \in 0 .. MaxWords /\ session'[s].pending \subseteq 1 .. session'[s].sent
      <3>1. CASE c = "audio" /\ session'[s].sent = session[s].sent
                 /\ session'[s].pending = session[s].pending
        BY <1>0, <3>1
      <3>2. CASE c = "text" /\ session'[s].sent = session[s].sent + 1
                 /\ session'[s].pending = session[s].pending \cup {session[s].sent + 1}
        BY <1>0, <1>7, <3>2
      <3> QED
        BY <1>7, <3>1, <3>2 DEF Started
    <2> QED
      BY <1>0, <1>7, <2>0, <2>1 DEF Records, Others
  <1>8. ASSUME NEW c \in Child, Begins(s, c)
        PROVE  Records'
    <2>1. /\ Started(c, s, process) /\ session[s].finalized = FALSE
          /\ \A x \in Session : session[x].worker = 0
          /\ c = "text" => session[s].sent = 0
      BY <1>0, <1>8 DEF Begins, Unserved
    <2>2. process.id = process'.id
      BY <2>1 DEF Started
    <2> QED
      BY <1>7, <2>1, <2>2
  <1>9. ASSUME NEW c \in Child, BeginsAnew(s, c)
        PROVE  Records'
    <2> DEFINE p == [id |-> process.id + 1, state |-> "idle", commands |-> <<>>, events |-> <<>>]
    <2>1. /\ Started(c, s, p) /\ session[s].finalized = FALSE
          /\ \A x \in Session : session[x].worker = 0
          /\ c = "text" => session[s].sent = 0
      BY <1>0, <1>9 DEF BeginsAnew, Unserved
    <2> HIDE DEF p
    <2>2. p.id = process'.id
      BY <2>1 DEF Started
    <2> QED
      BY <1>7, <2>1, <2>2
  <1>10. CASE Speaks(s)
    <2>1. /\ Others(s) /\ SameLease(session'[s], session[s]) /\ process'.id = process.id
          /\ session'[s].error = session[s].error /\ session'[s].output = session[s].output
          /\ session'[s].reader = session[s].reader
          /\ session'[s].sent = session[s].sent + 1
          /\ session'[s].pending = session[s].pending \cup {session[s].sent + 1}
          /\ session[s].sent + 1 \in 1 .. MaxWords
      BY <1>10 DEF Speaks, WordSent, Commanded, Words
    <2> QED
      BY <1>0, <2>1, RecordsKept DEF SameLease
  <1>11. CASE SaysEnd(s)
    BY <1>0, <1>11, RecordsKept DEF SaysEnd, SameBut, SameLease, Commanded
  <1>12. CASE SaysCancel(s)
    BY <1>0, <1>12, RecordsKept DEF SaysCancel, SameBut, SameLease, Commanded
  <1>13. CASE Hearkens(s)
    <2>1. Tail(session[s].output) \in Seq(Items)
      BY <1>0, <1>13, HeadTailProperties DEF Hearkens
    <2> QED
      BY <1>0, <1>13, <2>1, RecordsKept DEF Hearkens, SameBut, SameLease
  <1>14. CASE TakesWord(s)
    <2> DEFINE e == Head(process.events)
    <2>1. e \in Events /\ e.is = "word"
      BY <1>14, HeadTailProperties DEF TakesWord, Takes, Pipes
    <2>2. e \in Items
      BY <2>1 DEF Events, Items
    <2> HIDE DEF e
    <2>3. session[s].output \o <<e>> \in Seq(Items)
      BY <1>0, <2>2, ConcatProperties
    <2> USE DEF e
    <2>4. /\ SameBut(s) /\ process'.id = process.id
          /\ session'[s].output \in {session[s].output \o <<e>>, <<>>}
          /\ session'[s].pending = session[s].pending \ {e.word}
          /\ session'[s].reader = "reading" /\ session'[s].error = session[s].error
      BY <1>14 DEF TakesWord, Takes
    <2> HIDE DEF e
    <2> QED
      BY <1>0, <1>1, <2>3, <2>4, RecordsKept DEF SameBut, SameLease
  <1>15. CASE TakesEnd(s)
    <2> DEFINE e == [is |-> "end"]
    <2>2. e \in Items
      BY DEF Items
    <2> HIDE DEF e
    <2>3. session[s].output \o <<e>> \in Seq(Items)
      BY <1>0, <2>2, ConcatProperties
    <2> USE DEF e
    <2>4. /\ SameBut(s) /\ process'.id = process.id
          /\ session'[s].output \in {session[s].output \o <<e>>, <<>>}
          /\ session'[s].pending = session[s].pending
          /\ session'[s].reader = "done" /\ session'[s].error = session[s].error
      BY <1>15 DEF TakesEnd, Takes
    <2> HIDE DEF e
    <2> QED
      BY <1>0, <1>1, <2>3, <2>4, RecordsKept DEF SameBut, SameLease
  <1>16. CASE TakesError(s)
    BY <1>0, <1>1, <1>2, <1>16, RecordsKept DEF TakesError, Takes, SameBut, SameLease
  <1>17. CASE TakesNothing(s)
    BY <1>0, <1>1, <1>2, <1>17, RecordsKept DEF TakesNothing, SameBut, SameLease
  <1> QED
    BY <1>3, <1>4, <1>5, <1>6, <1>8, <1>9, <1>10, <1>11, <1>12, <1>13, <1>14,
       <1>15, <1>16, <1>17 DEF OfSession

LEMMA RecordsStep ==
  ASSUME Shape, PlacesInv, LeaseInv, EndInv, Records, Pipes, Unstarted, Kinds
  PROVE  Records'
  <1>1. CASE Idle \/ LeaseMoves \/ Opens
    BY <1>1 DEF Idle, LeaseMoves, Opens, SameSessions, Records
  <1>2. CASE Drops
    <2>1. <<>> \in Seq(Items) /\ process'.id = process.id
      BY <1>2 DEF Drops
    <2>2. ASSUME NEW x \in Session
          PROVE  /\ session'[x].worker = session[x].worker
                 /\ session'[x].reader = session[x].reader
                 /\ session'[x].watchdog = session[x].watchdog
                 /\ session'[x].finalized = session[x].finalized
                 /\ session'[x].error = session[x].error
                 /\ session'[x].sent = session[x].sent
                 /\ session'[x].pending = session[x].pending
                 /\ session'[x].output = <<>>
      BY <1>2 DEF Drops, SameLease
    <2> QED
      BY <2>1, <2>2 DEF Records
  <1>3. CASE StartGeneration
    <2>1. <<>> \in Seq(Items) /\ \A n : {} \subseteq 1 .. n
      OBVIOUS
    <2>2. UNCHANGED process /\ \A x \in Session :
            IF session[x].worker # 0 THEN session'[x] = session[x]
            ELSE /\ session'[x].worker = 0
                 /\ session'[x].reader = "none" /\ session'[x].watchdog = "none"
                 /\ session'[x].finalized = FALSE /\ session'[x].error = FALSE
                 /\ session'[x].pending = {} /\ session'[x].output = <<>>
                 /\ session'[x].sent = session[x].sent
      BY <1>3, NewGenerationFields
    <2> QED
      BY <2>1, <2>2 DEF Records
  <1>4. ASSUME NEW s \in Session, OfSession(s)
        PROVE  Records'
    BY <1>4, RecordsOfSession
  <1>5. CASE OfProcess
    <2>1. Works /\ process'.id = process.id
      BY <1>5 DEF OfProcess, Accepts, Refuses, Sounds, Ends, Ignores, Stops, Rests, Raises, Dies,
                  Serves
    <2> QED
      BY <2>1 DEF Works, SameSessions, Records
  <1> QED
    BY <1>1, <1>2, <1>3, <1>4, <1>5 DEF Kinds

(* The pipes and what is heard.                                            *)
LEMMA EventsAre ==
  /\ \A c \in Commands :
       /\ c.do \in {"word", "start", "finish", "cancel"} /\ c.of \in Session
       /\ c.do = "word" => [is |-> "word", of |-> c.of, word |-> c.word] \in Events
       /\ c.do # "word" => \A is \in {"end", "error"} :
            [is |-> is, of |-> c.of, word |-> c.word] \in Events
  /\ \A n \in Nat : \A is \in {"end", "error"} :
       [is |-> is, of |-> n, word |-> 0] \in Events
  BY SynthesisAssumption DEF Commands, Events, Session

LEMMA CommandsAre ==
  ASSUME NEW s \in Session
  PROVE  /\ \A w \in Words : Message("word", s, w) \in Commands
         /\ \A do \in {"start", "finish", "cancel"} : Message(do, s, 0) \in Commands
  BY DEF Message, Commands

LEMMA PipesServed ==
  ASSUME Pipes, NEW events \in Seq(Events), Serves(events, process'.state),
         process'.state \in {"idle", "busy", "ending", "dead"}
  PROVE  Pipes'
  <1>0. process.commands \in Seq(Commands) /\ process.events \in Seq(Events)
    BY DEF Pipes
  <1>1. Tail(process.commands) \in Seq(Commands)
    BY <1>0, HeadTailProperties DEF Serves
  <1>2. process.events \o events \in Seq(Events)
    BY <1>0, ConcatProperties
  <1> QED
    BY <1>1, <1>2 DEF Serves, Pipes, Works, SameSequence

LEMMA PipesOfProcess ==
  ASSUME Shape, EndInv, PlacesInv, Pipes, OfProcess
  PROVE  Pipes'
  <1> USE DEF Pipes, Works, SameSequence
  <1>0. /\ process.commands \in Seq(Commands) /\ process.events \in Seq(Events)
        /\ process.state \in {"idle", "busy", "ending", "dead"}
        /\ <<>> \in Seq(Commands) /\ <<>> \in Seq(Events)
    OBVIOUS
  <1>2. process.commands # <<>> => Head(process.commands) \in Commands
    BY <1>0, HeadTailProperties
  <1>3. CASE Accepts \/ Ignores
    <2>1. Serves(<<>>, process'.state)
      BY <1>3 DEF Accepts, Ignores, Serves
    <2>2. process'.state \in {"idle", "busy", "ending", "dead"}
      BY <1>0, <1>3 DEF Accepts, Ignores, Serves
    <2> QED
      BY <1>0, <2>1, <2>2, PipesServed
  <1>4. CASE Refuses
    <2>1. Answer("error") \in Events
      BY <1>2, <1>4, EventsAre DEF Refuses, Answer
    <2>2. <<Answer("error")>> \in Seq(Events)
      BY <2>1
    <2>3. Serves(<<Answer("error")>>, process'.state)
      BY <1>4 DEF Refuses, Serves
    <2>4. process'.state \in {"idle", "busy", "ending", "dead"}
      BY <1>0, <1>4 DEF Refuses, Serves
    <2> QED
      BY <2>2, <2>3, <2>4, PipesServed
  <1>5. CASE Sounds
    <2>1. Answer("word") \in Events
      BY <1>2, <1>5, EventsAre DEF Sounds, Answer
    <2>2. <<Answer("word")>> \in Seq(Events)
      BY <2>1
    <2>3. Serves(<<Answer("word")>>, process'.state)
      BY <1>5 DEF Sounds, Serves
    <2>4. process'.state \in {"idle", "busy", "ending", "dead"}
      BY <1>0, <1>5 DEF Sounds, Serves
    <2> QED
      BY <2>2, <2>3, <2>4, PipesServed
  <1>6. CASE Ends
    <2>1. Answer("end") \in Events
      BY <1>2, <1>6, EventsAre DEF Ends, Answer
    <2>2. <<Answer("end")>> \in Seq(Events)
      BY <2>1
    <2>3. Serves(<<Answer("end")>>, process'.state)
      BY <1>6 DEF Ends, Serves
    <2>4. process'.state \in {"idle", "busy", "ending", "dead"}
      BY <1>0, <1>6 DEF Ends, Serves
    <2> QED
      BY <2>2, <2>3, <2>4, PipesServed
  <1>7. CASE Stops
    <2>1. PICK i \in 1 .. Len(process.commands) :
             /\ process.commands[i].do = "cancel"
             /\ process'.commands = SubSeq(process.commands, i + 1, Len(process.commands))
             /\ process'.events = Append(process.events,
                  [is |-> "end", of |-> process.commands[i].of, word |-> process.commands[i].word])
      BY <1>7 DEF Stops
    <2>2. process.commands[i] \in Commands
      BY <1>0, <2>1, ElementOfSeq
    <2>3. [is |-> "end", of |-> process.commands[i].of, word |-> process.commands[i].word] \in Events
      BY <2>1, <2>2, EventsAre
    <2>4. process'.events \in Seq(Events)
      BY <1>0, <2>1, <2>3, AppendProperties
    <2>5. process'.commands \in Seq(Commands)
      BY <1>0, <2>1, SubSeqProperties, LenProperties, ElementOfSeq
    <2> QED
      BY <1>7, <2>4, <2>5 DEF Stops
  <1>8. CASE Rests \/ Dies
    BY <1>0, <1>8 DEF Rests, Dies
  <1>9. CASE Raises
    <2> DEFINE e == [is |-> "error", of |-> owner, word |-> 0]
               f == [is |-> "end", of |-> owner, word |-> 0]
    <2>1. e \in Events /\ f \in Events
      BY EventsAre DEF EndInv, EndPlaces, PlacesInv
    <2>2. PICK events \in {<<e>>, <<e, f>>} : process'.events = process.events \o events
      BY <1>9 DEF Raises
    <2> HIDE DEF e, f
    <2>3. events \in Seq(Events)
      <3>1. <<e>> \in Seq(Events) /\ <<e, f>> \in Seq(Events)
        BY <2>1
      <3> QED
        BY <3>1
    <2>4. process'.events \in Seq(Events)
      BY <1>0, <2>2, <2>3, ConcatProperties
    <2> QED
      BY <1>0, <1>9, <2>4 DEF Raises
  <1> QED
    BY <1>3, <1>4, <1>5, <1>6, <1>7, <1>8, <1>9 DEF OfProcess

LEMMA PipesOfSession ==
  ASSUME Shape, Records, Pipes, NEW s \in Session, OfSession(s)
  PROVE  Pipes'
  <1> USE DEF SameSequence
  <1>0. /\ process.commands \in Seq(Commands) /\ process.events \in Seq(Events)
        /\ process.state \in {"idle", "busy", "ending", "dead"}
        /\ <<>> \in Seq(Commands) /\ <<>> \in Seq(Events)
        /\ heard \in Seq(Session \X Words)
        /\ session[s].output \in Seq(Items) /\ session[s].sent \in 0 .. MaxWords
    BY DEF Pipes, Records
  <1>1. ASSUME UNCHANGED <<process, heard>>
        PROVE  Pipes'
    BY <1>1 DEF Pipes
  <1>2. ASSUME UNCHANGED heard, process'.state = "dead", process'.commands = <<>>,
               process'.events = process.events
        PROVE  Pipes'
    BY <1>0, <1>2 DEF Pipes
  <1>3. ASSUME NEW m \in Commands, UNCHANGED heard, Commanded(process, m)
        PROVE  Pipes'
    <2>1. Append(process.commands, m) \in Seq(Commands)
      BY <1>0, AppendProperties
    <2> QED
      BY <1>0, <1>3, <2>1 DEF Pipes, Commanded
  <1>4. CASE Returned(s) \/ HeardToEnd(s) \/ TakesNothing(s)
    BY <1>1, <1>4 DEF Returned, HeardToEnd, TakesNothing, Releases
  <1>5. ASSUME NEW t \in Child \cup {"watchdog", "generation"}, Broken(s, t)
        PROVE  Pipes'
    <2>1. Fails(s, t) /\ UNCHANGED heard
      BY <1>5 DEF Broken
    <2> QED
      BY <1>1, <1>2, <2>1 DEF Fails
  <1>6. ASSUME NEW c \in Child, BrokenAtStart(s, c)
        PROVE  Pipes'
    BY <1>2, <1>6 DEF BrokenAtStart, FailsAtStart
  <1>7. ASSUME NEW c \in Child, NEW p, Started(c, s, p), UNCHANGED heard,
               p.commands \in Seq(Commands), p.events \in Seq(Events),
               p.state \in {"idle", "busy", "ending", "dead"},
               c = "text" => session[s].sent = 0
        PROVE  Pipes'
    <2> DEFINE start == Append(p.commands, Message("start", s, 0))
               word == Message("word", s, session[s].sent + 1)
    <2>1. start \in Seq(Commands)
      BY <1>7, CommandsAre, AppendProperties
    <2>2. c = "text" => Append(start, word) \in Seq(Commands)
      <3> HIDE DEF start
      <3>1. c = "text" => word \in Commands
        BY <1>7, CommandsAre, SynthesisAssumption DEF Words
      <3> HIDE DEF word
      <3> QED
        BY <2>1, <3>1, AppendProperties
    <2>3. process'.commands \in {start, Append(start, word)} /\ (process'.commands = start \/ c = "text")
      BY <1>7 DEF Started
    <2>4. process'.state = p.state /\ process'.events = p.events
      BY <1>7 DEF Started
    <2> HIDE DEF start, word
    <2> QED
      BY <1>0, <1>7, <2>1, <2>2, <2>3, <2>4 DEF Pipes
  <1>8. ASSUME NEW c \in Child, Begins(s, c)
        PROVE  Pipes'
    <2>1. /\ Started(c, s, process) /\ UNCHANGED heard
          /\ c = "text" => session[s].sent = 0
      BY <1>8 DEF Begins
    <2> QED
      BY <1>0, <1>7, <2>1
  <1>9. ASSUME NEW c \in Child, BeginsAnew(s, c)
        PROVE  Pipes'
    <2> DEFINE p == [id |-> process.id + 1, state |-> "idle", commands |-> <<>>, events |-> <<>>]
    <2>1. /\ Started(c, s, p) /\ UNCHANGED heard
          /\ c = "text" => session[s].sent = 0
      BY <1>9 DEF BeginsAnew
    <2>2. p.commands = <<>> /\ p.events = <<>> /\ p.state = "idle"
      OBVIOUS
    <2> HIDE DEF p
    <2> QED
      BY <1>0, <1>7, <2>1, <2>2
  <1>10. CASE Speaks(s)
    <2>1. Message("word", s, session[s].sent + 1) \in Commands
      BY <1>10, CommandsAre DEF Speaks
    <2> QED
      BY <1>3, <1>10, <2>1 DEF Speaks, WordSent
  <1>11. CASE SaysEnd(s) \/ SaysCancel(s)
    <2>1. Message("finish", s, 0) \in Commands /\ Message("cancel", s, 0) \in Commands
      BY CommandsAre
    <2> QED
      BY <1>3, <1>11, <2>1 DEF SaysEnd, SaysCancel
  <1>12. CASE Hearkens(s)
    <2> DEFINE e == Head(session[s].output)
    <2>1. e \in Items /\ e.is = "word"
      BY <1>0, <1>12, HeadTailProperties DEF Hearkens
    <2>2. <<e.of, e.word>> \in Session \X Words
      BY <2>1 DEF Items
    <2>3. heard' \in Seq(Session \X Words)
      BY <1>0, <1>12, <2>2, AppendProperties DEF Hearkens
    <2> QED
      BY <1>0, <1>12, <2>3 DEF Pipes, Hearkens
  <1>13. CASE TakesWord(s) \/ TakesEnd(s) \/ TakesError(s)
    <2>1. Tail(process.events) \in Seq(Events)
      BY <1>0, <1>13, HeadTailProperties DEF TakesWord, TakesEnd, TakesError, Takes
    <2> QED
      BY <1>0, <1>13, <2>1 DEF Pipes, TakesWord, TakesEnd, TakesError, Takes
  <1> QED
    BY <1>4, <1>5, <1>6, <1>8, <1>9, <1>10, <1>11, <1>12, <1>13 DEF OfSession

LEMMA PipesStep ==
  ASSUME Shape, PlacesInv, EndInv, Records, Pipes, Kinds
  PROVE  Pipes'
  <1>1. CASE Idle \/ LeaseMoves \/ Opens \/ Drops
    BY <1>1 DEF Idle, LeaseMoves, Opens, Drops, SameSequence, Pipes
  <1>2. CASE StartGeneration
    <2>1. UNCHANGED process /\ heard' = <<>> /\ <<>> \in Seq(Session \X Words)
      BY <1>2, NewGenerationFields
    <2> QED
      BY <2>1 DEF Pipes
  <1> QED
    BY <1>1, <1>2, PipesOfSession, PipesOfProcess DEF Kinds

(* A session that has not been started is as it was made.                  *)
LEMMA UnstartedStep ==
  ASSUME Shape, PlacesInv, LeaseInv, EndInv, Records, Unstarted, Kinds
  PROVE  Unstarted'
  <1> USE SynthesisAssumption DEF SameSequence
  <1>1. CASE Idle \/ LeaseMoves \/ Opens
    <2>1. /\ UNCHANGED base /\ made' \in {made, made + 1}
          /\ \A x \in Session : session'[x] = session[x]
      BY <1>1 DEF Idle, LeaseMoves, Opens, SameSessions
    <2> QED
      BY <2>1 DEF Unstarted, PlacesInv, Session
  <1>2. CASE Drops
    BY <1>2 DEF Drops, SameLease, Unstarted
  <1>3. CASE StartGeneration
    <2>1. base' = made /\ made' = made /\ \A x \in Session :
            IF session[x].worker # 0 THEN session'[x] = session[x]
            ELSE /\ session'[x].finalized = FALSE /\ session'[x].error = FALSE
                 /\ session'[x].reader = "none" /\ session'[x].output = <<>>
                 /\ session'[x].sent = session[x].sent
      BY <1>3, NewGenerationFields
    <2>2. \A x \in Session : x > made => session[x].worker = 0 /\ ~session[x].finalized
      BY DEF Unstarted, EndInv, EndPlaces, LeaseInv, Leases, PlacesInv, Session
    <2>3. \A x \in Session : x > made => session[x].sent = 0
      BY <2>2 DEF Unstarted, PlacesInv, Session
    <2> QED
      BY <2>1, <2>2, <2>3 DEF Unstarted, PlacesInv
  <1>4. ASSUME NEW s \in Session, OfSession(s)
        PROVE  Unstarted'
    <2>0. Others(s) /\ UNCHANGED <<base, made>>
      BY <1>4 DEF OfSession, Returned, HeardToEnd, Broken, BrokenAtStart, Begins, BeginsAnew,
         Speaks, SaysEnd, SaysCancel, Hearkens, TakesWord, TakesEnd, TakesError, TakesNothing,
         Takes, SameBut, Releases, Fails, FailsAtStart, Started, WordSent
    <2>1. ASSUME /\ session'[s].worker = 0 /\ ~session'[s].finalized =>
                      /\ session'[s].reader = "none" /\ ~session'[s].error
                      /\ session'[s].output = <<>>
                      /\ s > base => session'[s].sent = 0,
                 session'[s].finalized => s <= made
          PROVE  Unstarted'
      BY <2>0, <2>1 DEF Unstarted, Others
    <2>2. s > made => session[s].worker = 0 /\ ~session[s].finalized
      BY DEF Unstarted, EndInv, EndPlaces, LeaseInv, Leases, PlacesInv, Session
    <2>3. made \in Nat /\ base \in Nat /\ s \in Nat
      BY DEF PlacesInv, Session
    <2>4. CASE Returned(s) \/ HeardToEnd(s)
      BY <2>1, <2>2, <2>3, <2>4 DEF Returned, HeardToEnd, Releases
    <2>5. ASSUME NEW t \in Child \cup {"watchdog", "generation"}, Broken(s, t)
          PROVE  Unstarted'
      <3>1. /\ session'[s].worker = session[s].worker
            /\ session'[s].finalized = session[s].finalized
            /\ session[s].worker # 0 \/ session[s].finalized
        BY <2>5 DEF Broken, Fails, Served
      <3> QED
        BY <2>1, <3>1 DEF Unstarted
    <2>6. ASSUME NEW c \in Child, BrokenAtStart(s, c)
          PROVE  Unstarted'
      BY <2>1, <2>6 DEF BrokenAtStart, FailsAtStart
    <2>7. ASSUME NEW c \in Child, Begins(s, c) \/ BeginsAnew(s, c)
          PROVE  Unstarted'
      <3>1. session'[s].worker # 0 /\ ~session'[s].finalized
        BY <2>7 DEF Begins, BeginsAnew, Started, Unserved, Shape
      <3> QED
        BY <2>1, <3>1
    <2>8. CASE Speaks(s) \/ SaysEnd(s) \/ SaysCancel(s)
      <3>1. session'[s].worker = process.id /\ session'[s].finalized = session[s].finalized
        BY <2>8 DEF Speaks, SaysEnd, SaysCancel, SameBut, SameLease, WordSent, Reachable
      <3> QED
        BY <2>1, <3>1 DEF Shape, Unstarted
    <2>9. CASE Hearkens(s)
      <3>1. session[s].output # <<>> /\ session'[s].worker = session[s].worker
            /\ session'[s].finalized = session[s].finalized
        BY <2>9 DEF Hearkens, SameBut, SameLease
      <3> QED
        BY <2>1, <3>1 DEF Unstarted
    <2>10. CASE TakesWord(s) \/ TakesEnd(s) \/ TakesError(s) \/ TakesNothing(s)
      <3>1. session[s].reader = "reading" /\ session'[s].worker = session[s].worker
            /\ session'[s].finalized = session[s].finalized
        BY <2>10 DEF TakesWord, TakesEnd, TakesError, TakesNothing, Takes, SameBut, SameLease
      <3> QED
        BY <2>1, <3>1 DEF Unstarted
    <2> QED
      BY <1>4, <2>4, <2>5, <2>6, <2>7, <2>8, <2>9, <2>10 DEF OfSession
  <1>5. CASE OfProcess
    <2>1. Works
      BY <1>5 DEF OfProcess, Accepts, Refuses, Sounds, Ends, Ignores, Stops, Rests, Raises, Dies,
                  Serves
    <2> QED
      BY <2>1 DEF Works, SameSessions, Unstarted
  <1> QED
    BY <1>1, <1>2, <1>3, <1>4, <1>5 DEF Kinds

-----------------------------------------------------------------------------
(* Where the generation, its children and the sequence go.                 *)

(* An answer that was spoken was heard to its last session.                *)
Spoken == generation = "spoken" => hearing = made + 1

(* How the text task comes to the start of a session, and to its words.    *)
TextMoves ==
  /\ child'.text \in {"start", "starting"} =>
       \/ OpenSession
       \/ child.text \in {"start", "starting"} /\ current' = current
  /\ child'.text = "write" /\ current' # 0 =>
       /\ current' = current
       /\ \/ child.text = "write"
          \/ FindStarted("text") \/ Acquire("text") \/ WorkerStarts("text")

Moves ==
  /\ Places' /\ Spoken' /\ TextMoves
  /\ StartGeneration \/ (Listening' => Listening)

LEMMA MovesStep ==
  ASSUME PlacesInv, EndInv, Places, Waits, Spoken, [Next]_vars
  PROVE  Moves
  <1> USE DEF PlacesInv, EndInv, EndPlaces, AnswerEnds, Places, Waits, Spoken, Moves, TextMoves,
     Listening, Child, Session, Over, task, sequence, manager
  <1> USE SynthesisAssumption
  <1>1. ASSUME NEW c \in Child, FindStarted(c)
        PROVE  Moves
    BY <1>1 DEF FindStarted, Settled, Runs, Become, Proceed, WithWord, Fail, Dead, Reachable, Target
  <1>2. ASSUME NEW c \in Child, FindEnded(c)
        PROVE  Moves
    BY <1>2 DEF FindEnded, Settled, Runs, Become, Target
  <1>3. ASSUME NEW c \in Child, Acquire(c)
        PROVE  Moves
    BY <1>3 DEF Acquire, CanAcquire, Settled, Runs, Become, Proceed, WithWord, Begin, Fail, Dead, Target
  <1>4. ASSUME NEW c \in Child, AcquireAndStart(c)
        PROVE  Moves
    BY <1>4 DEF AcquireAndStart, CanAcquire, Settled, Runs, Become, Target
  <1>5. ASSUME NEW c \in Child, WorkerStarts(c)
        PROVE  Moves
    BY <1>5 DEF WorkerStarts, Settled, Runs, Become, Proceed, WithWord, Begin, Target
  <1>6. ASSUME NEW c \in Child, WorkerDoesNotStart(c)
        PROVE  Moves
    BY <1>6 DEF WorkerDoesNotStart, Settled, Runs, Become
  <1>7. ASSUME NEW c \in Child, FailureEnds(c)
        PROVE  Moves
    BY <1>7 DEF FailureEnds, Settled, Runs, Become, Target
  <1>8. CASE OpenSession
    BY <1>8 DEF OpenSession, Settled, Runs, Become
  <1>9. CASE AddWord
    BY <1>9 DEF AddWord, Send, Settled, Runs, Become
  <1>10. CASE FinishUtterance
    BY <1>10 DEF FinishUtterance, Send, Settled, Runs, Become
  <1>11. CASE FinishInput
    BY <1>11 DEF FinishInput, Send, Settled, Runs, Become
  <1>12. CASE SendFails
    BY <1>12 DEF SendFails, Settled, Runs, Become
  <1>13. CASE TextFails
    BY <1>13 DEF TextFails, Settled, Runs, Become
  <1>14. CASE NextSession
    BY <1>14 DEF NextSession, Settled, Runs, Become
  <1>15. CASE HearWord
    BY <1>15 DEF HearWord, Hears, Settled, Runs, Become
  <1>16. CASE HearEnd
    BY <1>16 DEF HearEnd, Hears, Settled, Runs, Become
  <1>17. CASE HearFailure
    BY <1>17 DEF HearFailure, Hears, Settled, Runs, Become
  <1>18. ASSUME NEW s \in Session, ReadEvent(s)
        PROVE  Moves
    BY <1>18 DEF ReadEvent
  <1>19. ASSUME NEW s \in Session, ReadNothing(s)
        PROVE  Moves
    BY <1>19 DEF ReadNothing
  <1>20. ASSUME NEW s \in Session, WatchdogStrikes(s)
        PROVE  Moves
    BY <1>20 DEF WatchdogStrikes
  <1>21. ASSUME NEW s \in Session, WatchdogDone(s)
        PROVE  Moves
    BY <1>21 DEF WatchdogDone
  <1>22. CASE StartGeneration
    <2> DEFINE r == [text |-> "write", audio |-> "next"]
               K == Over \cup {"start", "starting", "write", "next", "read", "failing"}
    <2>1. r = [c \in {"text", "audio"} |-> IF c = "text" THEN "write" ELSE "next"]
      BY SMT
    <2>2. r \in [Child -> K] /\ r.text = "write"
      BY <2>1
    <2>3. /\ child' = r /\ generation' = "gather" /\ interrupted' = "no"
          /\ inputEnded' = FALSE /\ current' = 0 /\ UNCHANGED <<faults, abandoned>>
      BY <1>22 DEF StartGeneration
    <2> HIDE DEF r
    <2> QED
      BY <1>22, <2>2, <2>3
  <1>23. ASSUME NEW c \in Child, ChildCancelled(c)
        PROVE  Moves
    BY <1>23 DEF ChildCancelled, Become, Target
  <1>24. CASE AskToStop
    BY <1>24 DEF AskToStop
  <1>25. ASSUME NEW c \in Child, ReturnEarly(c)
        PROVE  Moves
    BY <1>25 DEF ReturnEarly, Hears, Settled, Runs, Become
  <1>26. CASE ChildrenEnd
    BY <1>26 DEF ChildrenEnd, Settled
  <1>27. CASE ChildFails
    BY <1>27 DEF ChildFails
  <1>28. ASSUME NEW s \in Session, CancelSession(s)
        PROVE  Moves
    BY <1>28 DEF CancelSession, Open
  <1>29. CASE NothingToCancel
    BY <1>29 DEF NothingToCancel
  <1>30. ASSUME NEW s \in Session, CancelEnds(s)
        PROVE  Moves
    BY <1>30 DEF CancelEnds, Open
  <1>31. ASSUME NEW s \in Session, CancelTimesOut(s)
        PROVE  Moves
    BY <1>31 DEF CancelTimesOut, Open
  <1>32. CASE CancelSettles
    BY <1>32 DEF CancelSettles
  <1>33. CASE Interrupt
    <2>1. UNCHANGED <<child, current, inputEnded, made, hearing, faults>>
      BY <1>33 DEF Interrupt
    <2>2. /\ interrupted' = "told" /\ generation' \in {generation, "none"}
          /\ \/ UNCHANGED abandoned
             \/ generation = "wait" /\ abandoned' = abandoned \cup {owner}
      BY <1>33 DEF Interrupt
    <2>3. abandoned' \subseteq Session
      <3>1. generation = "wait" => owner \in Session
        BY DEF Session
      <3> QED
        BY <2>2, <3>1
    <2>4. Places' /\ Spoken' /\ TextMoves
      BY <2>1, <2>2, <2>3
    <2>5. Listening' => Listening
      BY <2>1, <2>2
    <2> QED
      BY <2>4, <2>5 DEF Moves
  <1>34. CASE ServeStart
    BY <1>34 DEF ServeStart
  <1>35. CASE ServeInput
    BY <1>35 DEF ServeInput
  <1>36. CASE ServeCancel
    BY <1>36 DEF ServeCancel
  <1>37. CASE IgnoreCommand
    BY <1>37 DEF IgnoreCommand
  <1>38. CASE ThreadEnds
    BY <1>38 DEF ThreadEnds
  <1>39. CASE GenerationRaises
    BY <1>39 DEF GenerationRaises
  <1>40. CASE WorkerDies
    BY <1>40 DEF WorkerDies
  <1>41. CASE UNCHANGED vars
    BY <1>41 DEF vars
  <1>42. QED
    BY <1>1, <1>2, <1>3, <1>4, <1>5, <1>6, <1>7, <1>8, <1>9, <1>10, <1>11,
       <1>12, <1>13, <1>14, <1>15, <1>16, <1>17, <1>18, <1>19, <1>20, <1>21,
       <1>22, <1>23, <1>24, <1>25, <1>26, <1>27, <1>28, <1>29, <1>30, <1>31,
       <1>32, <1>33, <1>34, <1>35, <1>36, <1>37, <1>38, <1>39, <1>40, <1>41
       DEF Next, Immediate, Progress, Demand, WorkerProgram

(* The words of a session change when its text task speaks, only.          *)
LEMMA SentMoves ==
  ASSUME Shape, Kinds
  PROVE  \/ \A x \in Session : session'[x].sent = session[x].sent
         \/ /\ child'.text = "write" /\ current \in Session /\ current' = current
            /\ session'[current].sent = session[current].sent + 1
            /\ \A x \in Session \ {current} : session'[x].sent = session[x].sent
  <1>1. CASE Idle \/ LeaseMoves \/ Opens
    BY <1>1 DEF Idle, LeaseMoves, Opens, SameSessions
  <1>2. CASE Drops
    BY <1>2 DEF Drops
  <1>3. CASE StartGeneration
    BY <1>3, NewGenerationFields
  <1>4. CASE OfProcess
    BY <1>4 DEF OfProcess, Accepts, Refuses, Sounds, Ends, Ignores, Stops, Rests, Raises, Dies,
                Serves, Works, SameSessions
  <1>5. ASSUME NEW s \in Session, OfSession(s)
        PROVE  \/ \A x \in Session : session'[x].sent = session[x].sent
               \/ /\ child'.text = "write" /\ s = current /\ current' = current
                  /\ session'[s].sent = session[s].sent + 1
                  /\ \A x \in Session \ {s} : session'[x].sent = session[x].sent
    <2>1. Others(s)
      BY <1>5 DEF OfSession, Returned, HeardToEnd, Broken, BrokenAtStart, Begins, BeginsAnew,
         Speaks, SaysEnd, SaysCancel, Hearkens, TakesWord, TakesEnd, TakesError, TakesNothing,
         Takes, SameBut, Releases, Fails, FailsAtStart, Started, WordSent
    <2>2. CASE Returned(s) \/ HeardToEnd(s) \/ SaysEnd(s) \/ SaysCancel(s) \/ Hearkens(s)
      BY <2>1, <2>2 DEF Returned, HeardToEnd, SaysEnd, SaysCancel, Hearkens, SameBut, Releases,
         Others
    <2>3. CASE TakesWord(s) \/ TakesEnd(s) \/ TakesError(s) \/ TakesNothing(s)
      BY <2>1, <2>3 DEF TakesWord, TakesEnd, TakesError, TakesNothing, Takes, SameBut, Others
    <2>4. ASSUME NEW t \in Child \cup {"watchdog", "generation"}, Broken(s, t)
          PROVE  \A x \in Session : session'[x].sent = session[x].sent
      BY <2>1, <2>4 DEF Broken, Fails, Others
    <2>5. ASSUME NEW c \in Child, BrokenAtStart(s, c)
          PROVE  \A x \in Session : session'[x].sent = session[x].sent
      BY <2>1, <2>5 DEF BrokenAtStart, FailsAtStart, Others
    <2>6. ASSUME NEW c \in Child, NEW p, Started(c, s, p)
          PROVE  \/ \A x \in Session : session'[x].sent = session[x].sent
                 \/ c = "text" /\ session'[s].sent = session[s].sent + 1
      BY <2>1, <2>6 DEF Started, Others
    <2>7. ASSUME NEW c \in Child, Begins(s, c) \/ BeginsAnew(s, c)
          PROVE  \/ \A x \in Session : session'[x].sent = session[x].sent
                 \/ /\ child'.text = "write" /\ s = current /\ current' = current
                    /\ session'[s].sent = session[s].sent + 1
                    /\ \A x \in Session \ {s} : session'[x].sent = session[x].sent
      <3>1. /\ c = "text" => s = current /\ child'.text = "write"
            /\ current' = current
            /\ \E p : Started(c, s, p)
        BY <2>7 DEF Begins, BeginsAnew
      <3> QED
        BY <2>1, <2>6, <3>1 DEF Others
    <2>8. CASE Speaks(s)
      BY <2>1, <2>8 DEF Speaks, WordSent, Others
    <2> QED
      BY <1>5, <2>2, <2>3, <2>4, <2>5, <2>7, <2>8 DEF OfSession
  <1> QED
    BY <1>1, <1>2, <1>3, <1>4, <1>5 DEF Kinds

(* A child that starts its session sends a word to it.                     *)
LEMMA FirstWord ==
  ASSUME Shape, PlacesInv, LeaseInv, Records, current' = current, child'.text = "write",
         FindStarted("text") \/ Acquire("text") \/ WorkerStarts("text")
  PROVE  session'[current].sent > 0
  <1> USE DEF Child, Target
  <1>1. ASSUME NEW s \in Session, s = current, session'[s].sent = session[s].sent + 1
        PROVE  session'[current].sent > 0
    BY <1>1 DEF Records
  <1>2. CASE FindStarted("text")
    <2>1. PICK s \in Session :
           /\ s = current
           /\ \/ child' = [child EXCEPT !["text"] = "failing"]
              \/ WordSent(s)
      BY <1>2, FindStartedFields
    <2>2. WordSent(s)
      BY <2>1 DEF Shape
    <2> QED
      BY <1>1, <2>1, <2>2 DEF WordSent
  <1>3. CASE Acquire("text")
    <2>1. PICK s \in Session :
           /\ s = current
           /\ Started("text", s, process) \/ FailsAtStart(s, "text")
      BY <1>3, AcquireFields DEF LeaseInv
    <2>2. Started("text", s, process)
      BY <2>1 DEF Shape, FailsAtStart
    <2> QED
      BY <1>1, <2>1, <2>2 DEF Started
  <1>4. CASE WorkerStarts("text")
    <2>1. PICK s \in Session : s = current /\ \E p : Started("text", s, p)
      BY <1>4, WorkerStartsFields
    <2> QED
      BY <1>1, <2>1 DEF Started
  <1> QED
    BY <1>2, <1>3, <1>4

LEMMA FirstWordsStep ==
  ASSUME Shape, PlacesInv, LeaseInv, EndInv, Records, Unstarted, FirstWords, Moves, Kinds
  PROVE  FirstWords'
  <1> USE SynthesisAssumption
  <1>1. ASSUME child'.text \in {"start", "starting"}
        PROVE  session'[current'].sent = 0
    <2>1. CASE OpenSession
      <3>1. current' \in Session /\ current' = made + 1 /\ UNCHANGED session
        BY <2>1 DEF OpenSession, PlacesInv, Session
      <3>2. session[current'].worker = 0 /\ ~session[current'].finalized
        BY <3>1 DEF Unstarted, EndInv, EndPlaces, LeaseInv, Leases, PlacesInv, Session
      <3> QED
        BY <3>1, <3>2 DEF Unstarted, PlacesInv, Session
    <2>2. CASE child.text \in {"start", "starting"} /\ current' = current
      <3>1. current \in Session /\ session[current].sent = 0
        BY <2>2 DEF FirstWords, PlacesInv, Session
      <3> QED
        BY <1>1, <2>2, <3>1, SentMoves
    <2> QED
      BY <1>1, <2>1, <2>2 DEF Moves, TextMoves
  <1>2. ASSUME child'.text = "write", current' # 0
        PROVE  session'[current'].sent > 0
    <2>0. current' = current /\ current \in Session
      BY <1>2 DEF Moves, TextMoves, PlacesInv, Session
    <2>1. CASE child.text = "write"
      <3>1. session[current].sent > 0 /\ session[current].sent \in Nat
        BY <1>2, <2>0, <2>1 DEF FirstWords, Records
      <3>2. session'[current].sent \in {session[current].sent, session[current].sent + 1}
        BY <2>0, SentMoves
      <3> QED
        BY <2>0, <3>1, <3>2
    <2>2. CASE FindStarted("text") \/ Acquire("text") \/ WorkerStarts("text")
      <3>1. session'[current].sent > 0
        BY <1>2, <2>0, <2>2, FirstWord
      <3> QED
        BY <2>0, <3>1
    <2> QED
      BY <1>2, <2>1, <2>2 DEF Moves, TextMoves
  <1> QED
    BY <1>1, <1>2 DEF FirstWords

-----------------------------------------------------------------------------
(* What is in the pipes.                                                   *)

(* Whoever holds the lease is a session.                                   *)
Holder == owner = 0 \/ owner \in Session

LEMMA HolderIn ==
  ASSUME PlacesInv, EndPlaces
  PROVE  Holder
  BY SynthesisAssumption DEF PlacesInv, EndPlaces, Holder, Session

(* When no start command can be in the pipe.                               *)
LEMMA NoStartWhen ==
  ASSUME PipeInv, Holder,
         \/ process.state \in {"busy", "dead"} \/ process.events # <<>> \/ owner = 0
         \/ \A s \in Session : session[s].worker = 0
         \/ owner \in Session /\ session[owner].reader # "reading"
  PROVE  NoStart
  <1> SUFFICES ASSUME NEW i \in 1 .. Len(process.commands),
                      process.commands[i].do = "start"
               PROVE  FALSE
    BY DEF NoStart
  <1>1. /\ owner # 0 /\ session[owner].worker # 0
        /\ session[owner].reader = "reading"
        /\ process.state # "busy" /\ process.events = <<>>
    BY DEF PipeInv, StartPending
  <1>2. process.state # "dead"
    BY DEF PipeInv, Gone
  <1> QED
    BY <1>1, <1>2 DEF Holder

(* A start of session s with process p, which is quiet.                    *)
LEMMA PipeStarted ==
  ASSUME NEW s \in Session, NEW c \in Child, NEW p, Started(c, s, p),
         p.commands \in Seq(Commands), p.events = <<>>, p.state \in {"idle", "ending"},
         \A i \in 1 .. Len(p.commands) : p.commands[i].do # "start",
         s # 0, p.id # 0, owner' = s, worker' # 0,
         session[s].output = <<>>, ~session[s].error,
         \A x \in Session : session[x].worker = 0 /\ session[x].finalizer = "none"
  PROVE  PipeInv'
  <1> DEFINE start == Message("start", s, 0)
             word == Message("word", s, session[s].sent + 1)
             n == Len(p.commands)
  <1>1. start.do = "start" /\ word.do = "word" /\ start \in Commands
    BY CommandsAre DEF Message
  <1>2. /\ Others(s) /\ session'[s].worker # 0 /\ session'[s].finalizer = "none"
        /\ session'[s].reader = "reading" /\ session'[s].output = <<>> /\ ~session'[s].error
        /\ process'.events = <<>> /\ process'.state \in {"idle", "ending"}
        /\ process'.commands \in {Append(p.commands, start), Append(Append(p.commands, start), word)}
    BY DEF Started
  <1> HIDE DEF start, word
  <1>3. n \in Nat /\ Len(process'.commands) \in {n + 1, n + 2}
        /\ \A i \in 1 .. Len(process'.commands) : process'.commands[i].do = "start" => i = n + 1
    <2>1. p.commands \in Seq({p.commands[i] : i \in 1 .. n} \cup {start, word})
      OBVIOUS
    <2> DEFINE S == {p.commands[i] : i \in 1 .. n} \cup {start, word}
               q == Append(p.commands, start)
    <2>2. /\ q \in Seq(S) /\ Len(q) = n + 1 /\ \A i \in 1 .. n : q[i] = p.commands[i]
          /\ q[n + 1] = start
      BY <2>1, AppendProperties
    <2>3. n \in Nat
      OBVIOUS
    <2> HIDE DEF S, q, n
    <2>4. start \in S /\ word \in S
      BY DEF S
    <2>5. CASE process'.commands = q
      BY <1>1, <2>2, <2>3, <2>5 DEF n
    <2>6. CASE process'.commands = Append(q, word)
      <3>1. /\ Len(Append(q, word)) = Len(q) + 1
            /\ \A i \in 1 .. Len(q) : Append(q, word)[i] = q[i]
            /\ Append(q, word)[Len(q) + 1] = word
        BY <2>2, <2>4, AppendProperties
      <3> QED
        BY <1>1, <2>2, <2>3, <2>6, <3>1 DEF n
    <2> QED
      BY <1>2, <2>3, <2>5, <2>6 DEF q
  <1> HIDE DEF n
  <1>4. \A x \in Session : x # s => session'[x].worker = 0 /\ session'[x].finalizer = "none"
    BY <1>2 DEF Others
  <1>5. Gone'
    BY <1>2, <1>4 DEF Gone
  <1>6. EndsLast'
    BY <1>2 DEF EndsLast
  <1>7. StartPending'
    BY <1>2, <1>3 DEF StartPending
  <1>8. Drained'
    BY <1>2, <1>4 DEF Drained
  <1>9. Outputs'
    BY <1>2, <1>4 DEF Outputs, AllWords
  <1> QED
    BY <1>5, <1>6, <1>7, <1>8, <1>9 DEF PipeInv

(* A command that is not a start.                                          *)
LEMMA PipeCommanded ==
  ASSUME Pipes, PipeInv, NEW m \in Commands, m.do # "start", Commanded(process, m),
         process.state # "dead", UNCHANGED <<owner, worker>>, Holder,
         \A x \in Session :
           /\ SameLease(session'[x], session[x]) /\ session'[x].reader = session[x].reader
           /\ session'[x].error = session[x].error /\ session'[x].output = session[x].output
  PROVE  PipeInv'
  <1> DEFINE n == Len(process.commands)
  <1>1. /\ n \in Nat /\ Len(process'.commands) = n + 1
        /\ \A i \in 1 .. n : process'.commands[i] = process.commands[i]
        /\ process'.commands[n + 1] = m
        /\ process'.state = process.state /\ process'.events = process.events
    BY AppendProperties DEF Commanded, Pipes
  <1>2. \A i \in 1 .. Len(process'.commands) :
          process'.commands[i].do = "start" => i \in 1 .. n /\ process.commands[i].do = "start"
    BY <1>1
  <1> HIDE DEF n
  <1>3. \A x \in Session : /\ session'[x].worker = session[x].worker
                           /\ session'[x].finalizer = session[x].finalizer
    BY DEF SameLease
  <1>4. NoStart => NoStart'
    BY <1>1, <1>2 DEF NoStart, n
  <1>5. Gone'
    BY <1>1, <1>3 DEF Gone, PipeInv
  <1>6. EndsLast'
    BY <1>1 DEF EndsLast, AllWords, PipeInv
  <1>7. StartPending'
    <2> SUFFICES ASSUME NEW i \in 1 .. Len(process'.commands), process'.commands[i].do = "start"
                 PROVE  /\ owner # 0 /\ session'[owner].worker # 0
                        /\ session'[owner].reader = "reading"
                        /\ process.state # "busy" /\ process.events = <<>>
                        /\ \A j \in 1 .. Len(process'.commands) :
                             process'.commands[j].do = "start" => j = i
      BY <1>1 DEF StartPending
    <2>1. i \in 1 .. n /\ process.commands[i].do = "start"
      BY <1>2
    <2>2. /\ owner # 0 /\ session[owner].worker # 0 /\ session[owner].reader = "reading"
          /\ process.state # "busy" /\ process.events = <<>>
          /\ \A j \in 1 .. n : process.commands[j].do = "start" => j = i
      BY <2>1 DEF PipeInv, StartPending, n
    <2> QED
      BY <1>2, <1>3, <2>2 DEF Holder
  <1>8. Drained'
    BY <1>1, <1>3, <1>4 DEF Drained, Quiet, PipeInv
  <1>9. Outputs'
    BY <1>3 DEF Outputs, AllWords, PipeInv
  <1> QED
    BY <1>5, <1>6, <1>7, <1>8, <1>9 DEF PipeInv

(* One item more at the end of a queue.                                    *)
LEMMA AppendIs ==
  ASSUME NEW S, NEW q \in Seq(S), NEW e
  PROVE  /\ Len(q) \in Nat /\ Len(q \o <<e>>) = Len(q) + 1
         /\ \A i \in 1 .. Len(q) : (q \o <<e>>)[i] = q[i]
         /\ (q \o <<e>>)[Len(q) + 1] = e
         /\ \A i \in 1 .. Len(q \o <<e>>) :
              (i \in 1 .. Len(q) /\ (q \o <<e>>)[i] = q[i]) \/ (q \o <<e>>)[i] = e
  <1>1. q \in Seq(S \cup {e}) /\ <<e>> \in Seq(S \cup {e})
    OBVIOUS
  <1> QED
    BY <1>1

(* One queue after another.                                                *)
LEMMA ConcatIs ==
  ASSUME NEW S, NEW q \in Seq(S), NEW p \in Seq(S)
  PROVE  /\ q \o p \in Seq(S)
         /\ Len(q) \in Nat /\ Len(p) \in Nat /\ Len(q \o p) = Len(q) + Len(p)
         /\ \A i \in 1 .. Len(q) : (q \o p)[i] = q[i]
         /\ \A i \in 1 .. Len(p) : (q \o p)[Len(q) + i] = p[i]
  OBVIOUS

(* The lease of one session, and nobody else has a worker.                 *)
LEMMA OneLease ==
  ASSUME Leases, NEW s \in Session, owner = s \/ owner = 0 \/ session[s].worker # 0
  PROVE  \A x \in Session \ {s} : session[x].worker = 0 /\ session[x].finalizer = "none"
  BY DEF Leases, Session

(* A step that leaves the pipes and the leases alone.                      *)
LEMMA PipeKept ==
  ASSUME PipeInv, Holder, UNCHANGED <<process, worker, owner>>, Outputs',
         \A x \in Session :
           /\ session'[x].worker = session[x].worker
           /\ session'[x].finalizer # "none" => session[x].finalizer # "none"
           /\ session[x].worker # 0 =>
                /\ session'[x].reader = session[x].reader
                /\ session'[x].error = session[x].error
  PROVE  PipeInv'
  <1>1. Gone' /\ EndsLast'
    BY DEF PipeInv, Gone, EndsLast, AllWords
  <1>2. StartPending'
    BY DEF PipeInv, StartPending, Holder
  <1>3. Drained'
    BY DEF PipeInv, Drained, Quiet, NoStart
  <1> QED
    BY <1>1, <1>2, <1>3 DEF PipeInv

(* The process is gone, and the manager knows.                             *)
LEMMA PipeDead ==
  ASSUME PipeInv, process'.events = process.events,
         process'.state = "dead", process'.commands = <<>>, worker' = 0,
         \A x \in Session :
           session'[x].worker # 0 => session'[x].finalizer # "none" /\ session'[x].error = TRUE
  PROVE  PipeInv'
  <1>1. Gone' /\ EndsLast'
    BY DEF PipeInv, Gone, EndsLast
  <1>2. StartPending' /\ Drained' /\ Outputs'
    BY DEF StartPending, Drained, Outputs
  <1> QED
    BY <1>1, <1>2 DEF PipeInv

(* The lease is given back with a process that is gone or quiet.           *)
LEMMA PipeReleased ==
  ASSUME PipeInv, Holder, Leases, NEW s \in Session, Others(s), session[s].worker # 0,
         session'[s].worker = 0, session'[s].finalizer = "none", owner' = 0,
         UNCHANGED <<worker, process>>, worker = 0 \/ Quiet
  PROVE  PipeInv'
  <1>1. \A x \in Session : session'[x].worker = 0 /\ session'[x].finalizer = "none"
    BY OneLease DEF Others
  <1>2. NoStart
    BY DEF PipeInv, Gone, Quiet, NoStart
  <1>3. Gone' /\ EndsLast'
    BY <1>1 DEF PipeInv, Gone, EndsLast, AllWords
  <1>4. StartPending'
    BY <1>2 DEF StartPending, NoStart
  <1>5. Drained' /\ Outputs'
    BY <1>1 DEF Drained, Outputs, Quiet, NoStart
  <1> QED
    BY <1>3, <1>4, <1>5 DEF PipeInv

(* The process of a session whose END is heard is quiet: its reader has    *)
(* read it.                                                                *)
LEMMA EndHeard ==
  ASSUME PipeInv, Records, NEW s \in Session, session[s].worker # 0,
         session[s].finalizer = "none", session[s].output # <<>>,
         Head(session[s].output).is = "end"
  PROVE  Quiet
  <1>1. /\ Len(session[s].output) \in Nat /\ 1 \in 1 .. Len(session[s].output)
        /\ session[s].output[1].is = "end"
    BY DEF Records
  <1>2. session[s].reader = "done"
    BY <1>1 DEF PipeInv, Outputs, AllWords, Records
  <1>3. ~session[s].error
    BY <1>1 DEF PipeInv, Outputs
  <1> QED
    BY <1>2, <1>3 DEF PipeInv, Drained

LEMMA PipeBroken ==
  ASSUME PipeInv, Holder, Leases, NEW s \in Session, NEW t, Broken(s, t)
  PROVE  PipeInv'
  <1>1. CASE session[s].finalizer = "none" /\ ~session[s].finalized
    <2>1. session[s].worker # 0
      BY <1>1 DEF Broken, Served
    <2>2. \A x \in Session \ {s} : session'[x].worker = 0
      BY <2>1, OneLease DEF Broken, Fails, Others
    <2>3. /\ session'[s].finalizer # "none" /\ session'[s].error = TRUE
          /\ worker' = 0 /\ process'.state = "dead" /\ process'.commands = <<>>
          /\ process'.events = process.events
      BY <1>1 DEF Broken, Fails
    <2> QED
      BY <2>2, <2>3, PipeDead
  <1>2. CASE ~(session[s].finalizer = "none" /\ ~session[s].finalized)
    <2>1. /\ Others(s) /\ UNCHANGED <<process, worker, owner>>
          /\ session'[s].worker = session[s].worker
          /\ session'[s].reader = session[s].reader
          /\ session'[s].finalizer = session[s].finalizer
          /\ session'[s].error \in {session[s].error, TRUE}
      BY <1>2 DEF Broken, Fails
    <2>2. session[s].worker = 0 \/ session[s].finalizer # "none"
      BY <1>2 DEF Leases
    <2>3. Gone' /\ EndsLast'
      BY <2>1 DEF PipeInv, Gone, EndsLast, AllWords, Others
    <2>4. StartPending'
      BY <2>1 DEF PipeInv, StartPending, Holder, Others
    <2>5. Drained'
      BY <2>1 DEF PipeInv, Drained, Quiet, NoStart, Others
    <2>6. Outputs'
      BY <2>1, <2>2 DEF PipeInv, Outputs, AllWords, Others
    <2> QED
      BY <2>3, <2>4, <2>5, <2>6 DEF PipeInv
  <1> QED
    BY <1>1, <1>2

LEMMA PipeBegun ==
  ASSUME Shape, PipeInv, Leases, Pipes, Unstarted, NEW s \in Session, NEW c \in Child,
         Begins(s, c) \/ BeginsAnew(s, c)
  PROVE  PipeInv'
  <1>1. /\ \A x \in Session : session[x].worker = 0 /\ session[x].finalizer = "none"
        /\ session[s].output = <<>> /\ ~session[s].error /\ s # 0 /\ owner' = s
    BY DEF Begins, BeginsAnew, Unserved, Leases, Unstarted, Session
  <1>2. CASE Begins(s, c)
    <2>1. Quiet
      BY <1>2 DEF Begins, PipeInv, Drained
    <2>2. /\ process.commands \in Seq(Commands) /\ process.events = <<>>
          /\ process.state \in {"idle", "ending"} /\ process.id # 0 /\ worker' # 0
          /\ \A i \in 1 .. Len(process.commands) : process.commands[i].do # "start"
          /\ Started(c, s, process)
      BY <1>2, <2>1 DEF Begins, Quiet, NoStart, Pipes, Shape
    <2> QED
      BY <1>1, <2>2, PipeStarted
  <1>3. CASE BeginsAnew(s, c)
    <2> DEFINE p == [id |-> process.id + 1, state |-> "idle", commands |-> <<>>, events |-> <<>>]
    <2>1. /\ p.commands \in Seq(Commands) /\ p.events = <<>>
          /\ p.state \in {"idle", "ending"} /\ p.id # 0
          /\ \A i \in 1 .. Len(p.commands) : p.commands[i].do # "start"
      BY DEF Shape
    <2>2. worker' # 0 /\ Started(c, s, p)
      BY <1>3, <2>1 DEF BeginsAnew
    <2> HIDE DEF p
    <2> QED
      BY <1>1, <2>1, <2>2, PipeStarted
  <1> QED
    BY <1>2, <1>3

(* A step of the session whose reader takes an event, or of the audio task *)
(* that takes what was read.                                               *)
LEMMA PipeHearkened ==
  ASSUME PipeInv, Holder, Records, NEW s \in Session, Hearkens(s)
  PROVE  PipeInv'
  <1>1. \A x \in Session :
          /\ session'[x].worker = session[x].worker
          /\ session'[x].finalizer = session[x].finalizer
          /\ session'[x].reader = session[x].reader
          /\ session'[x].error = session[x].error
          /\ x # s => session'[x].output = session[x].output
    BY DEF Hearkens, SameBut, Others, SameLease
  <1> DEFINE q == session[s].output
  <1>2. /\ q \in Seq(Items) /\ q # <<>> /\ q[1].is = "word"
        /\ session'[s].output = Tail(q)
    BY DEF Hearkens, Records
  <1> HIDE DEF q
  <1>3. /\ Len(q) \in Nat /\ Len(Tail(q)) = Len(q) - 1
        /\ \A i \in 1 .. Len(Tail(q)) : Tail(q)[i] = q[i + 1]
    BY <1>2
  <1>4. AllWords(q) => AllWords(Tail(q))
    BY <1>2, <1>3 DEF AllWords
  <1>5. ASSUME \A i \in 1 .. Len(q) : q[i].is = "end" => i > 1 /\ q[i - 1].is = "failure",
               NEW i \in 1 .. Len(Tail(q)), Tail(q)[i].is = "end"
        PROVE  i > 1 /\ Tail(q)[i - 1].is = "failure"
    <2>1. i + 1 \in 1 .. Len(q) /\ q[i + 1].is = "end" /\ i \in Nat
      BY <1>3, <1>5
    <2>2. q[(i + 1) - 1].is = "failure" /\ (i + 1) - 1 = i
      BY <1>5, <2>1
    <2>3. i # 1
      BY <1>2, <2>2
    <2> QED
      BY <1>3, <2>1, <2>2, <2>3
  <1> DEFINE p == Tail(q)
  <1>6. /\ AllWords(q) => AllWords(p)
        /\ (\A i \in 1 .. Len(q) : q[i].is = "end" => i > 1 /\ q[i - 1].is = "failure")
           => (\A i \in 1 .. Len(p) : p[i].is = "end" => i > 1 /\ p[i - 1].is = "failure")
        /\ session'[s].output = p /\ session[s].output = q
    BY <1>2, <1>4, <1>5 DEF q
  <1> HIDE DEF p
  <1>7. Outputs'
    <2> SUFFICES ASSUME NEW x \in Session, session'[x].worker # 0, session'[x].finalizer = "none"
                 PROVE  /\ session'[x].reader # "none"
                        /\ session'[x].reader = "reading" =>
                             ~session'[x].error /\ AllWords(session'[x].output)
                        /\ session'[x].error =>
                             \A i \in 1 .. Len(session'[x].output) :
                               session'[x].output[i].is = "end" =>
                                 i > 1 /\ session'[x].output[i - 1].is = "failure"
      BY DEF Outputs, AllWords
    <2>1. /\ session[x].reader # "none"
          /\ session[x].reader = "reading" => ~session[x].error /\ AllWords(session[x].output)
          /\ session[x].error =>
               \A i \in 1 .. Len(session[x].output) :
                 session[x].output[i].is = "end" =>
                   i > 1 /\ session[x].output[i - 1].is = "failure"
      BY <1>1 DEF PipeInv, Outputs
    <2>2. CASE x = s
      BY <1>1, <1>6, <2>1, <2>2
    <2>3. CASE x # s
      BY <1>1, <2>1, <2>3
    <2> QED
      BY <2>2, <2>3
  <1> QED
    BY <1>1, <1>7, PipeKept DEF Hearkens

LEMMA TailIs ==
  ASSUME NEW S, NEW q \in Seq(S), q # <<>>
  PROVE  /\ Len(q) \in Nat /\ Len(q) > 0 /\ Head(q) = q[1] /\ 1 \in 1 .. Len(q)
         /\ Tail(q) \in Seq(S) /\ Len(Tail(q)) = Len(q) - 1
         /\ \A i \in 1 .. Len(Tail(q)) : Tail(q)[i] = q[i + 1] /\ i + 1 \in 1 .. Len(q)
         /\ Len(q) = 1 => Tail(q) = <<>>
  <1>1. /\ Len(q) \in Nat /\ Len(q) > 0 /\ Head(q) = q[1] /\ 1 \in 1 .. Len(q)
        /\ Tail(q) \in Seq(S) /\ Len(Tail(q)) = Len(q) - 1
        /\ \A i \in 1 .. Len(Tail(q)) : Tail(q)[i] = q[i + 1] /\ i + 1 \in 1 .. Len(q)
    OBVIOUS
  <1>2. Len(q) = 1 => Tail(q) = <<>>
    BY <1>1, EmptySeq
  <1> QED
    BY <1>1, <1>2

(* The events that are left when one is taken.                             *)
LEMMA EventTaken ==
  ASSUME Pipes, PipeInv, process.events # <<>>, process'.events = Tail(process.events),
         process'.state = process.state, process'.commands = process.commands
  PROVE  /\ EndsLast'
         /\ Head(process.events).is = "end" => process'.events = <<>>
         /\ Head(process.events).is # "word" => process.state # "busy"
         /\ AllWords(process.events) => AllWords(process'.events)
  <1> DEFINE q == process.events
             t == Tail(q)
  <1>1. /\ q \in Seq(Events) /\ q # <<>> /\ Len(q) \in Nat
        /\ Len(t) = Len(q) - 1 /\ Head(q) = q[1] /\ 1 \in 1 .. Len(q)
        /\ \A i \in 1 .. Len(t) : t[i] = q[i + 1] /\ i + 1 \in 1 .. Len(q)
        /\ Len(q) = 1 => t = <<>>
    BY TailIs DEF Pipes
  <1>2. /\ \A i \in 1 .. Len(q) : q[i].is = "end" => i = Len(q)
        /\ process.state = "busy" => AllWords(q)
    BY DEF PipeInv, EndsLast
  <1>3. process'.events = t /\ process'.state = process.state
    OBVIOUS
  <1> HIDE DEF q, t
  <1>4. AllWords(q) => AllWords(t)
    BY <1>1 DEF AllWords
  <1>5. ASSUME NEW i \in 1 .. Len(t), t[i].is = "end"
        PROVE  i = Len(t)
    <2>1. i + 1 \in 1 .. Len(q) /\ q[i + 1].is = "end"
      BY <1>1, <1>5
    <2>2. i + 1 = Len(q)
      BY <1>2, <2>1
    <2> QED
      BY <1>1, <2>2
  <1>6. EndsLast'
    BY <1>2, <1>3, <1>4, <1>5 DEF EndsLast, AllWords
  <1>7. q[1].is = "end" => t = <<>>
    BY <1>1, <1>2
  <1>8. q[1].is # "word" => process.state # "busy"
    BY <1>1, <1>2 DEF AllWords
  <1> QED
    BY <1>1, <1>3, <1>4, <1>6, <1>7, <1>8 DEF q

(* A queue that has only words, and then a failure.                        *)
LEMMA FailureQueued ==
  ASSUME NEW q \in Seq(Items), AllWords(q)
  PROVE  \A i \in 1 .. Len(q \o Failure) :
           (q \o Failure)[i].is = "end" => i > 1 /\ (q \o Failure)[i - 1].is = "failure"
  <1> DEFINE f == Failure
             p == q \o f
  <1>1. f[1].is = "failure" /\ f[2].is = "end" /\ Len(f) = 2 /\ f \in Seq(Items)
    BY DEF Failure, Items
  <1> HIDE DEF f
  <1>2. /\ Len(q) \in Nat /\ Len(p) = Len(q) + 2
        /\ \A i \in 1 .. Len(q) : p[i] = q[i]
        /\ p[Len(q) + 1] = f[1] /\ p[Len(q) + 2] = f[2]
    BY <1>1, ConcatIs
  <1> HIDE DEF p
  <1>3. ASSUME NEW i \in 1 .. Len(p), p[i].is = "end"
        PROVE  i > 1 /\ p[i - 1].is = "failure"
    <2>1. i = Len(q) + 2
      <3>1. i \notin 1 .. Len(q)
        BY <1>2, <1>3 DEF AllWords
      <3>2. i # Len(q) + 1
        BY <1>1, <1>2, <1>3
      <3> QED
        BY <1>2, <3>1, <3>2
    <2> QED
      BY <1>1, <1>2, <2>1
  <1> QED
    BY <1>3 DEF p, f

LEMMA PipeTaken ==
  ASSUME Shape, PipeInv, Holder, Pipes, Records, Leases, NEW s \in Session,
         TakesWord(s) \/ TakesEnd(s) \/ TakesError(s)
  PROVE  PipeInv'
  <1> DEFINE e == Head(process.events)
             q == session[s].output
  <1>1. /\ session[s].worker # 0 /\ session[s].reader = "reading" /\ owner = s
        /\ process.events # <<>> /\ NoStart
        /\ UNCHANGED <<owner, worker>>
        /\ process'.state = process.state /\ process'.commands = process.commands
        /\ process'.events = Tail(process.events)
        /\ SameBut(s)
    <2>1. /\ session[s].worker = process.id /\ session[s].reader = "reading"
          /\ process.events # <<>>
          /\ UNCHANGED <<owner, worker>>
          /\ process'.state = process.state /\ process'.commands = process.commands
          /\ process'.events = Tail(process.events)
          /\ SameBut(s)
      BY DEF Takes, TakesWord, TakesEnd, TakesError
    <2>2. session[s].worker # 0
      BY <2>1 DEF Shape
    <2> QED
      BY <2>1, <2>2, NoStartWhen DEF Leases
  <1>2. \A x \in Session :
          /\ session'[x].worker = session[x].worker
          /\ session'[x].finalizer = session[x].finalizer
          /\ x # s => session'[x] = session[x] /\ session[x].worker = 0
    BY <1>1, OneLease DEF SameBut, Others, SameLease
  <1>3. Gone'
    BY <1>1, <1>2 DEF PipeInv, Gone
  <1>4. EndsLast'
    BY <1>1, EventTaken
  <1>5. StartPending'
    BY <1>1 DEF StartPending, NoStart
  <1>6. session[s].finalizer = "none" => ~session[s].error /\ AllWords(q)
    BY <1>1 DEF PipeInv, Outputs
  <1>7. q \in Seq(Items)
    BY DEF Records
  <1>8. CASE TakesWord(s)
    <2>1. /\ session'[s].reader = "reading" /\ session'[s].error = session[s].error
          /\ e.is = "word" /\ session'[s].output \in {q \o <<e>>, <<>>}
      BY <1>8 DEF TakesWord, Takes
    <2>2. AllWords(q) => AllWords(session'[s].output)
      <3>1. \A i \in 1 .. Len(q \o <<e>>) :
              (i \in 1 .. Len(q) /\ (q \o <<e>>)[i] = q[i]) \/ (q \o <<e>>)[i] = e
        <4> HIDE DEF e, q
        <4> QED
          BY <1>7, AppendIs
      <3>2. AllWords(q) => AllWords(q \o <<e>>)
        <4> HIDE DEF e, q
        <4> DEFINE p == q \o <<e>>
        <4>1. \A i \in 1 .. Len(p) : (i \in 1 .. Len(q) /\ p[i] = q[i]) \/ p[i] = e
          BY <3>1
        <4> HIDE DEF p
        <4>2. AllWords(q) => AllWords(p)
          BY <2>1, <4>1 DEF AllWords
        <4> QED
          BY <4>2 DEF p
      <3>3. AllWords(<<>>)
        BY DEF AllWords
      <3> QED
        BY <2>1, <3>2, <3>3
    <2>3. Drained'
      BY <1>1, <1>2, <2>1 DEF Drained, Session
    <2>4. Outputs'
      BY <1>2, <1>6, <2>1, <2>2 DEF Outputs, AllWords
    <2> QED
      BY <1>3, <1>4, <1>5, <2>3, <2>4 DEF PipeInv
  <1>9. CASE TakesEnd(s)
    <2>1. session'[s].reader = "done" /\ session'[s].error = session[s].error /\ e.is = "end"
      BY <1>9 DEF TakesEnd, Takes
    <2>2. process'.events = <<>> /\ process'.state # "busy"
      BY <1>1, <2>1, EventTaken
    <2>3. Drained'
      BY <1>1, <2>2 DEF Drained, Quiet, NoStart
    <2>4. Outputs'
      BY <1>2, <1>6, <2>1 DEF Outputs
    <2> QED
      BY <1>3, <1>4, <1>5, <2>3, <2>4 DEF PipeInv
  <1>10. CASE TakesError(s)
    <2>1. /\ session'[s].reader = "done" /\ session'[s].error = TRUE
          /\ session'[s].output \in {q \o Failure, <<>>}
      BY <1>10 DEF TakesError, Takes
    <2>2. AllWords(q) => \A i \in 1 .. Len(session'[s].output) :
            session'[s].output[i].is = "end" =>
               i > 1 /\ session'[s].output[i - 1].is = "failure"
      <3>1. AllWords(q) => \A i \in 1 .. Len(q \o Failure) :
              (q \o Failure)[i].is = "end" => i > 1 /\ (q \o Failure)[i - 1].is = "failure"
        BY <1>7, FailureQueued
      <3>2. CASE session'[s].output = q \o Failure
        BY <3>1, <3>2
      <3>3. CASE session'[s].output = <<>>
        BY <3>3
      <3> QED
        BY <2>1, <3>2, <3>3
    <2>3. Drained'
      BY <1>1, <1>2, <2>1 DEF Drained, Session
    <2>4. Outputs'
      BY <1>2, <1>6, <2>1, <2>2 DEF Outputs
    <2> QED
      BY <1>3, <1>4, <1>5, <2>3, <2>4 DEF PipeInv
  <1> QED
    BY <1>8, <1>9, <1>10

LEMMA PipeEnded ==
  ASSUME PipeInv, Holder, Records, Leases, NEW s \in Session, TakesNothing(s)
  PROVE  PipeInv'
  <1>1. \A x \in Session :
          /\ session'[x].worker = session[x].worker
          /\ session'[x].finalizer = session[x].finalizer
          /\ x # s => session'[x] = session[x]
    BY DEF TakesNothing, SameBut, Others, SameLease
  <1>2. /\ session'[s].reader = "done" /\ session'[s].error = TRUE
        /\ session[s].reader = "reading"
        /\ session'[s].output \in {session[s].output \o Failure, <<>>}
        /\ UNCHANGED <<process, worker, owner>>
        /\ process.state = "dead"
    BY DEF TakesNothing
  <1>3. session[s].worker # 0 /\ session[s].finalizer = "none" => AllWords(session[s].output)
    BY <1>2 DEF PipeInv, Outputs
  <1>4. session[s].worker # 0 /\ session[s].finalizer = "none" =>
          \A i \in 1 .. Len(session'[s].output) :
            session'[s].output[i].is = "end" =>
               i > 1 /\ session'[s].output[i - 1].is = "failure"
    <2>1. CASE session'[s].output = session[s].output \o Failure
      BY <1>3, <2>1, FailureQueued DEF Records
    <2>2. CASE session'[s].output = <<>>
      BY <2>2
    <2> QED
      BY <1>2, <2>1, <2>2
  <1>5. Outputs'
    <2> SUFFICES ASSUME NEW x \in Session, session'[x].worker # 0,
                        session'[x].finalizer = "none"
                 PROVE  /\ session'[x].reader # "none"
                        /\ session'[x].reader = "reading" =>
                             ~session'[x].error /\ AllWords(session'[x].output)
                        /\ session'[x].error =>
                             \A i \in 1 .. Len(session'[x].output) :
                               session'[x].output[i].is = "end" =>
                                 i > 1 /\ session'[x].output[i - 1].is = "failure"
      BY DEF Outputs, AllWords
    <2>1. session[x].worker # 0 /\ session[x].finalizer = "none"
      BY <1>1
    <2>2. CASE x = s
      BY <1>2, <1>4, <2>1, <2>2
    <2>3. CASE x # s
      <3>1. session'[x] = session[x]
        BY <1>1, <2>3
      <3> QED
        BY <2>1, <3>1 DEF PipeInv, Outputs
    <2> QED
      BY <2>2, <2>3
  <1>6. process.commands = <<>>
    BY <1>2 DEF PipeInv, Gone
  <1>7. Gone' /\ EndsLast'
    BY <1>1, <1>2 DEF PipeInv, Gone, EndsLast, AllWords
  <1>8. StartPending'
    BY <1>2, <1>6 DEF StartPending
  <1>9. Drained'
    BY <1>1, <1>2 DEF PipeInv, Drained, Quiet, NoStart
  <1> QED
    BY <1>5, <1>7, <1>8, <1>9 DEF PipeInv

LEMMA Appended ==
  ASSUME NEW S, NEW q \in Seq(S), NEW e
  PROVE  Append(q, e) = q \o <<e>>
  <1>1. q \in Seq(S \cup {e}) /\ <<e>> \in Seq(S \cup {e}) /\ e \in S \cup {e}
    OBVIOUS
  <1> QED
    BY <1>1, AppendIsConcat

(* What the worker program does to its pipes.                              *)
LEMMA PipeWorks ==
  ASSUME PipeInv, Works, EndsLast', StartPending', Drained',
         process'.state = "dead" => process'.commands = <<>>,
         process'.state = "dead" \/ process.state # "dead"
  PROVE  PipeInv'
  <1>1. Gone'
    BY DEF PipeInv, Gone, Works, SameSessions
  <1>2. Outputs'
    BY DEF PipeInv, Outputs, AllWords, Works, SameSessions
  <1> QED
    BY <1>1, <1>2 DEF PipeInv

(* A busy process has a session that is not drained.                       *)
LEMMA BusyServes ==
  ASSUME PipeInv, Holder, Works, process.state = "busy"
  PROVE  Drained' /\ NoStart /\ AllWords(process.events)
  <1>1. ~Quiet
    BY DEF Quiet
  <1>2. Drained'
    BY <1>1 DEF PipeInv, Drained, Works, SameSessions
  <1> QED
    BY <1>2, NoStartWhen DEF PipeInv, EndsLast

LEMMA NoStartAhead ==
  ASSUME NoStart'
  PROVE  StartPending'
  BY DEF NoStart, StartPending

(* A start that is taken is the only one, and the process has said all     *)
(* about the session before.                                               *)
LEMMA StartTaken ==
  ASSUME PipeInv, Pipes, Leases, Holder, Works, process.commands # <<>>,
         Head(process.commands).do = "start", process'.commands = Tail(process.commands)
  PROVE  /\ NoStart' /\ Drained' /\ process.state # "busy" /\ process.events = <<>>
         /\ owner # 0 /\ session[owner].worker # 0 /\ session[owner].reader = "reading"
  <1> DEFINE c == process.commands
  <1>1. /\ Head(c) = c[1] /\ 1 \in 1 .. Len(c) /\ Len(c) \in Nat
        /\ Len(Tail(c)) = Len(c) - 1
        /\ \A i \in 1 .. Len(Tail(c)) : Tail(c)[i] = c[i + 1] /\ i + 1 \in 1 .. Len(c)
    BY TailIs DEF Pipes
  <1>2. /\ owner # 0 /\ session[owner].worker # 0 /\ session[owner].reader = "reading"
        /\ process.state # "busy" /\ process.events = <<>>
        /\ \A j \in 1 .. Len(c) : c[j].do = "start" => j = 1
    BY <1>1 DEF PipeInv, StartPending
  <1>3. NoStart'
    <2> SUFFICES ASSUME NEW i \in 1 .. Len(Tail(c))
                 PROVE  Tail(c)[i].do # "start"
      BY DEF NoStart
    <2> HIDE DEF c
    <2> QED
      BY <1>1, <1>2
  <1>4. Drained'
    <2>1. \A x \in Session : session[x].worker # 0 => x = owner
      BY DEF Leases
    <2> QED
      BY <1>2, <2>1 DEF Drained, Works, SameSessions
  <1> QED
    BY <1>2, <1>3, <1>4

LEMMA PipeAccepts ==
  ASSUME PipeInv, Pipes, Leases, Holder, Accepts
  PROVE  PipeInv'
  <1>1. /\ Works /\ NoStart' /\ Drained' /\ process.events = <<>>
    BY StartTaken DEF Accepts, Serves
  <1>2. process'.events = <<>> /\ process'.state = "busy" /\ process.state # "dead"
    BY <1>1 DEF Accepts, Serves
  <1>3. EndsLast'
    BY <1>2 DEF EndsLast, AllWords
  <1> QED
    BY <1>1, <1>2, <1>3, NoStartAhead, PipeWorks

LEMMA PipeRefuses ==
  ASSUME PipeInv, Pipes, Leases, Holder, Refuses
  PROVE  PipeInv'
  <1>1. /\ Works /\ NoStart' /\ Drained' /\ process.events = <<>> /\ process.state # "busy"
    BY StartTaken DEF Refuses, Serves
  <1>2. /\ process'.events = <<Answer("error")>> /\ process'.state = "ending"
        /\ process.state # "dead" /\ Answer("error").is = "error"
    BY <1>1 DEF Refuses, Serves, Answer
  <1>3. EndsLast'
    <2> DEFINE e == Answer("error")
    <2>1. process'.events = <<e>> /\ e.is = "error" /\ process'.state = "ending"
      BY <1>2
    <2> HIDE DEF e
    <2> QED
      BY <2>1 DEF EndsLast
  <1> QED
    BY <1>1, <1>2, <1>3, NoStartAhead, PipeWorks

(* The first command, which is no start, is taken.                         *)
LEMMA CommandTaken ==
  ASSUME Pipes, PipeInv, process.commands # <<>>, process'.commands = Tail(process.commands)
  PROVE  NoStart => NoStart'
  <1> DEFINE c == process.commands
  <1>1. \A i \in 1 .. Len(Tail(c)) : Tail(c)[i] = c[i + 1] /\ i + 1 \in 1 .. Len(c)
    BY TailIs DEF Pipes
  <1>2. process'.commands = Tail(c)
    OBVIOUS
  <1>3. ASSUME \A i \in 1 .. Len(c) : c[i].do # "start", NEW i \in 1 .. Len(Tail(c))
        PROVE  Tail(c)[i].do # "start"
    <2> HIDE DEF c
    <2> QED
      BY <1>1, <1>3
  <1> QED
    BY <1>3 DEF NoStart

LEMMA PipeSounds ==
  ASSUME PipeInv, Pipes, Holder, Sounds
  PROVE  PipeInv'
  <1> DEFINE e == Answer("word")
             p == process.events \o <<e>>
  <1>1. /\ Works /\ process.state = "busy" /\ process'.state = "busy"
        /\ process.commands # <<>> /\ process'.commands = Tail(process.commands)
        /\ process'.events = p /\ e.is = "word"
    BY DEF Sounds, Serves, Answer
  <1>2. Drained' /\ NoStart /\ AllWords(process.events)
    BY <1>1, BusyServes
  <1> HIDE DEF e
  <1>3. \A i \in 1 .. Len(p) : (i \in 1 .. Len(process.events) /\ p[i] = process.events[i]) \/ p[i] = e
    BY AppendIs DEF Pipes
  <1> HIDE DEF p
  <1>4. \A i \in 1 .. Len(p) : p[i].is = "word"
    BY <1>1, <1>2, <1>3 DEF AllWords
  <1>5. EndsLast'
    BY <1>1, <1>4 DEF EndsLast, AllWords
  <1> QED
    BY <1>1, <1>2, <1>5, CommandTaken, NoStartAhead, PipeWorks

(* The last event is an end: what was there were words.                    *)
LEMMA EndSaid ==
  ASSUME Pipes, AllWords(process.events), NEW e, process'.events = process.events \o <<e>>,
         process'.state # "busy"
  PROVE  EndsLast'
  <1> DEFINE q == process.events
             p == q \o <<e>>
  <1>1. /\ Len(q) \in Nat /\ Len(p) = Len(q) + 1 /\ \A i \in 1 .. Len(q) : p[i] = q[i]
    BY AppendIs DEF Pipes
  <1>2. \A i \in 1 .. Len(q) : q[i].is = "word"
    BY DEF AllWords
  <1>3. process'.events = p
    OBVIOUS
  <1> HIDE DEF p, q
  <1>4. \A i \in 1 .. Len(p) : p[i].is = "end" => i = Len(p)
    BY <1>1, <1>2
  <1> QED
    BY <1>3, <1>4 DEF EndsLast

LEMMA PipeEnds ==
  ASSUME PipeInv, Pipes, Holder, Ends
  PROVE  PipeInv'
  <1>1. /\ Works /\ process.state = "busy" /\ process'.state = "ending"
        /\ process.commands # <<>> /\ process'.commands = Tail(process.commands)
        /\ process'.events = process.events \o <<Answer("end")>>
    BY DEF Ends, Serves
  <1>2. Drained' /\ NoStart /\ AllWords(process.events)
    BY <1>1, BusyServes
  <1>3. EndsLast'
    BY <1>1, <1>2, EndSaid
  <1> QED
    BY <1>1, <1>2, <1>3, CommandTaken, NoStartAhead, PipeWorks

LEMMA PipeIgnores ==
  ASSUME PipeInv, Pipes, Holder, Ignores
  PROVE  PipeInv'
  <1> DEFINE c == process.commands
             d == Tail(c)
  <1>1. /\ Works /\ process'.state = process.state /\ process.state \in {"idle", "ending"}
        /\ c # <<>> /\ process'.commands = d /\ Head(c).do # "start"
        /\ process'.events = process.events
    <2>1. process'.events = process.events \o <<>>
      BY DEF Ignores, Serves
    <2>2. process.events \o <<>> = process.events
      BY ConcatEmptySeq DEF Pipes
    <2> QED
      BY <2>1, <2>2 DEF Ignores, Serves
  <1>2. \A i \in 1 .. Len(d) : d[i] = c[i + 1] /\ i + 1 \in 1 .. Len(c)
    BY TailIs, <1>1 DEF Pipes
  <1>3. EndsLast'
    BY <1>1 DEF PipeInv, EndsLast
  <1>4. StartPending'
    <2>1. ASSUME NEW i \in 1 .. Len(d), d[i].do = "start"
          PROVE  /\ owner # 0 /\ session[owner].worker # 0
                 /\ session[owner].reader = "reading"
                 /\ process.state # "busy" /\ process.events = <<>>
                 /\ \A j \in 1 .. Len(d) : d[j].do = "start" => j = i
      <3> HIDE DEF d
      <3>1. c[i + 1].do = "start" /\ i + 1 \in 1 .. Len(c)
        BY <1>2, <2>1
      <3>2. /\ owner # 0 /\ session[owner].worker # 0 /\ session[owner].reader = "reading"
            /\ process.state # "busy" /\ process.events = <<>>
            /\ \A j \in 1 .. Len(c) : c[j].do = "start" => j = i + 1
        BY <3>1 DEF PipeInv, StartPending
      <3> HIDE DEF c
      <3>3. \A j \in 1 .. Len(d) : d[j].do = "start" => j = i
        BY <1>2, <3>2
      <3> QED
        BY <3>2, <3>3
    <2>2. \A o \in Session : session'[o] = session[o]
      BY <1>1 DEF Works, SameSessions
    <2>3. /\ process'.commands = d /\ UNCHANGED owner
          /\ process'.state = process.state /\ process'.events = process.events
      BY <1>1 DEF Works
    <2> HIDE DEF d, c
    <2>4. ASSUME NEW i \in 1 .. Len(d), d[i].do = "start"
          PROVE  /\ owner' # 0 /\ session'[owner'].worker # 0
                 /\ session'[owner'].reader = "reading"
                 /\ process'.state # "busy" /\ process'.events = <<>>
                 /\ \A j \in 1 .. Len(d) : d[j].do = "start" => j = i
      <3>1. /\ owner # 0 /\ session[owner].worker # 0
            /\ session[owner].reader = "reading"
            /\ process.state # "busy" /\ process.events = <<>>
            /\ \A j \in 1 .. Len(d) : d[j].do = "start" => j = i
        BY <2>1, <2>4
      <3>2. session'[owner] = session[owner]
        BY <1>1, <2>2, <3>1 DEF Holder
      <3> QED
        BY <2>3, <3>1, <3>2
    <2> QED
      BY <2>3, <2>4 DEF StartPending
  <1>5. Drained'
    BY <1>1, CommandTaken DEF PipeInv, Drained, Quiet, Works, SameSessions
  <1> QED
    BY <1>1, <1>3, <1>4, <1>5, PipeWorks

LEMMA PipeStops ==
  ASSUME PipeInv, Pipes, Holder, Stops
  PROVE  PipeInv'
  <1>1. Works /\ process.state = "busy" /\ process'.state = "ending"
    BY DEF Stops
  <1>2. Drained' /\ NoStart /\ AllWords(process.events)
    BY <1>1, BusyServes
  <1>3. PICK i \in 1 .. Len(process.commands), e \in
          {[is |-> "end", of |-> process.commands[k].of, word |-> process.commands[k].word] :
             k \in 1 .. Len(process.commands)} :
          /\ process'.commands = SubSeq(process.commands, i + 1, Len(process.commands))
          /\ process'.events = Append(process.events, e)
    BY DEF Stops
  <1>4. process'.events = process.events \o <<e>>
    BY <1>3, Appended DEF Pipes
  <1>5. EndsLast'
    BY <1>1, <1>2, <1>4, EndSaid
  <1>6. NoStart'
    <2> DEFINE c == process.commands
               d == SubSeq(c, i + 1, Len(c))
    <2>1. /\ c \in Seq(Commands) /\ Len(c) \in Nat /\ i \in 1 .. Len(c)
      BY DEF Pipes
    <2>2. \A j \in 1 .. Len(d) : d[j] = c[i + j] /\ i + j \in 1 .. Len(c)
      <3> HIDE DEF c
      <3> QED
        BY <2>1, SubSeqProperties
    <2>3. process'.commands = d
      BY <1>3
    <2>4. \A j \in 1 .. Len(c) : c[j].do # "start"
      BY <1>2 DEF NoStart
    <2> HIDE DEF c, d
    <2> QED
      BY <2>2, <2>3, <2>4 DEF NoStart
  <1> QED
    BY <1>1, <1>2, <1>5, <1>6, NoStartAhead, PipeWorks

LEMMA PipeRests ==
  ASSUME PipeInv, Holder, Rests
  PROVE  PipeInv'
  <1>1. /\ Works /\ process'.state = "idle" /\ process.state = "ending"
        /\ process'.commands = process.commands /\ process'.events = process.events
    BY DEF Rests
  <1>2. EndsLast'
    BY <1>1 DEF PipeInv, EndsLast
  <1>3. StartPending'
    <2>1. \A x \in Session : session'[x] = session[x]
      BY <1>1 DEF Works, SameSessions
    <2> QED
      BY <1>1, <2>1 DEF PipeInv, StartPending, Works, Holder
  <1>4. Drained'
    BY <1>1 DEF PipeInv, Drained, Quiet, NoStart, Works, SameSessions
  <1> QED
    BY <1>1, <1>2, <1>3, <1>4, PipeWorks

LEMMA PipeRaises ==
  ASSUME PipeInv, Pipes, Holder, Raises
  PROVE  PipeInv'
  <1> DEFINE e == [is |-> "error", of |-> owner, word |-> 0]
             f == [is |-> "end", of |-> owner, word |-> 0]
             q == process.events
  <1>1. /\ Works /\ process'.state = "ending" /\ process.state = "busy"
        /\ process'.commands = process.commands
        /\ process'.events \in {q \o <<e>>, q \o <<e, f>>}
    BY DEF Raises
  <1>2. Drained' /\ NoStart /\ AllWords(q)
    BY <1>1, BusyServes
  <1>3. EndsLast'
    <2>1. CASE process'.events = q \o <<e>>
      BY <1>1, <1>2, <2>1, EndSaid
    <2>2. CASE process'.events = q \o <<e, f>>
      <3> DEFINE d == <<e, f>>
                 p == q \o d
                 S == Events \cup {e, f}
      <3>1. d \in Seq(S) /\ Len(d) = 2 /\ d[1].is = "error"
        OBVIOUS
      <3>2. q \in Seq(S)
        BY DEF Pipes
      <3> HIDE DEF d, S
      <3>3. /\ Len(q) \in Nat /\ Len(p) = Len(q) + 2
            /\ \A i \in 1 .. Len(q) : p[i] = q[i]
            /\ p[Len(q) + 1] = d[1]
        <4>1. 1 \in 1 .. Len(d) /\ Len(q) \in Nat
          BY <3>1, <3>2
        <4>2. /\ Len(p) = Len(q) + Len(d)
              /\ \A i \in 1 .. Len(q) : p[i] = q[i]
              /\ \A i \in 1 .. Len(d) : p[Len(q) + i] = d[i]
          BY <3>1, <3>2, ConcatIs
        <4> HIDE DEF p, q
        <4> QED
          BY <3>1, <4>1, <4>2
      <3>4. \A i \in 1 .. Len(q) : q[i].is = "word"
        BY <1>2 DEF AllWords
      <3>5. process'.events = p
        BY <2>2 DEF d
      <3> HIDE DEF p, q
      <3>6. ASSUME NEW i \in 1 .. Len(p), p[i].is = "end"
            PROVE  i = Len(p)
        <4>1. i \notin 1 .. Len(q)
          BY <3>3, <3>4, <3>6
        <4>2. i # Len(q) + 1
          BY <3>1, <3>3, <3>6
        <4> QED
          BY <3>3, <4>1, <4>2
      <3> QED
        BY <1>1, <3>5, <3>6 DEF EndsLast
    <2> QED
      BY <1>1, <2>1, <2>2
  <1>4. NoStart'
    BY <1>1, <1>2 DEF NoStart
  <1> QED
    BY <1>1, <1>2, <1>3, <1>4, NoStartAhead, PipeWorks

LEMMA PipeDies ==
  ASSUME PipeInv, Dies
  PROVE  PipeInv'
  <1>1. /\ Works /\ process'.state = "dead" /\ process'.commands = <<>>
        /\ process'.events = process.events
    BY DEF Dies
  <1>2. EndsLast'
    BY <1>1 DEF PipeInv, EndsLast
  <1>3. StartPending'
    BY <1>1 DEF StartPending
  <1>4. Drained'
    BY <1>1 DEF PipeInv, Drained, Quiet, NoStart, Works, SameSessions
  <1> QED
    BY <1>1, <1>2, <1>3, <1>4, PipeWorks

LEMMA PipeOfSession ==
  ASSUME Shape, PlacesInv, LeaseInv, EndInv, TypesInv, PipeInv,
         NEW s \in Session, OfSession(s)
  PROVE  PipeInv'
  <1>1. Holder /\ Leases /\ Records /\ Pipes /\ Unstarted
    BY HolderIn DEF EndInv, LeaseInv, TypesInv
  <1>2. CASE Returned(s)
    <2>1. worker = 0 \/ Quiet
      BY <1>2 DEF Returned, PipeInv, Gone, Drained
    <2> QED
      BY <1>1, <1>2, <2>1, PipeReleased DEF Returned, Releases
  <1>3. CASE HeardToEnd(s)
    <2>1. Quiet
      BY <1>1, <1>3, EndHeard DEF HeardToEnd
    <2> QED
      BY <1>1, <1>3, <2>1, PipeReleased DEF HeardToEnd, Releases
  <1>4. ASSUME NEW t \in Child \cup {"watchdog", "generation"}, Broken(s, t)
        PROVE  PipeInv'
    BY <1>1, <1>4, PipeBroken
  <1>5. ASSUME NEW c \in Child, BrokenAtStart(s, c)
        PROVE  PipeInv'
    <2>1. \A x \in Session \ {s} : session'[x].worker = 0
      BY <1>5 DEF BrokenAtStart, FailsAtStart, Others, Unserved
    <2>2. /\ session'[s].finalizer # "none" /\ session'[s].error = TRUE
          /\ worker' = 0 /\ process'.state = "dead" /\ process'.commands = <<>>
          /\ process'.events = process.events
      BY <1>5 DEF BrokenAtStart, FailsAtStart
    <2> QED
      BY <2>1, <2>2, PipeDead
  <1>6. ASSUME NEW c \in Child, Begins(s, c) \/ BeginsAnew(s, c)
        PROVE  PipeInv'
    BY <1>1, <1>6, PipeBegun
  <1>7. CASE Speaks(s)
    <2> DEFINE m == Message("word", s, session[s].sent + 1)
    <2>1. m.do = "word" /\ m \in Commands
      BY <1>7, CommandsAre DEF Speaks, Message
    <2>2. /\ Commanded(process, m) /\ process.state # "dead" /\ UNCHANGED <<owner, worker>>
          /\ Others(s) /\ SameLease(session'[s], session[s])
          /\ session'[s].reader = session[s].reader
          /\ session'[s].error = session[s].error
          /\ session'[s].output = session[s].output
      BY <1>7 DEF Speaks, WordSent, Reachable
    <2> HIDE DEF m
    <2>3. \A x \in Session :
           /\ SameLease(session'[x], session[x]) /\ session'[x].reader = session[x].reader
           /\ session'[x].error = session[x].error /\ session'[x].output = session[x].output
      BY <2>2 DEF Others, SameLease
    <2> QED
      BY <1>1, <2>1, <2>2, <2>3, PipeCommanded
  <1>8. CASE SaysEnd(s) \/ SaysCancel(s)
    <2> DEFINE do == IF SaysEnd(s) THEN "finish" ELSE "cancel"
               m == Message(do, s, 0)
    <2>1. m.do # "start" /\ m \in Commands
      BY <1>8, CommandsAre DEF Message
    <2>2. /\ Commanded(process, m) /\ process.state # "dead" /\ UNCHANGED <<owner, worker>>
          /\ SameBut(s)
          /\ session'[s].reader = session[s].reader
          /\ session'[s].error = session[s].error
          /\ session'[s].output = session[s].output
      BY <1>8 DEF SaysEnd, SaysCancel, Reachable
    <2> HIDE DEF m
    <2>3. \A x \in Session :
           /\ SameLease(session'[x], session[x]) /\ session'[x].reader = session[x].reader
           /\ session'[x].error = session[x].error /\ session'[x].output = session[x].output
      BY <2>2 DEF SameBut, Others, SameLease
    <2> QED
      BY <1>1, <2>1, <2>2, <2>3, PipeCommanded
  <1>9. CASE Hearkens(s)
    BY <1>1, <1>9, PipeHearkened
  <1>10. CASE TakesWord(s) \/ TakesEnd(s) \/ TakesError(s)
    BY <1>1, <1>10, PipeTaken
  <1>11. CASE TakesNothing(s)
    BY <1>1, <1>11, PipeEnded
  <1> QED
    BY <1>2, <1>3, <1>4, <1>5, <1>6, <1>7, <1>8, <1>9, <1>10, <1>11 DEF OfSession

(* Every step keeps what is known of the pipes.                            *)
LEMMA PipeStep ==
  ASSUME Shape, PlacesInv, LeaseInv, EndInv, TypesInv, PipeInv, Kinds
  PROVE  PipeInv'
  <1>1. Holder /\ Leases /\ Pipes
    BY HolderIn DEF EndInv, LeaseInv, TypesInv
  <1>2. CASE Idle \/ Opens
    <2>1. SameSessions /\ UNCHANGED <<process, worker, owner>>
      BY <1>2 DEF Idle, Opens
    <2>2. Outputs'
      BY <2>1 DEF PipeInv, Outputs, AllWords, SameSessions
    <2> QED
      BY <1>1, <2>1, <2>2, PipeKept DEF SameSessions
  <1>3. CASE worker = 0 /\ (\A x \in Session : session[x].worker = 0) /\ (LeaseMoves \/ Drops)
    <2>1. UNCHANGED <<process, worker>> /\ \A x \in Session : session'[x].worker = 0
      BY <1>3 DEF LeaseMoves, Drops, SameSessions, SameLease
    <2> QED
      BY <1>3, <2>1, PipeDead DEF PipeInv, Gone
  <1>4. CASE Drops /\ UNCHANGED owner
    <2>1. /\ UNCHANGED <<process, worker, owner>>
          /\ \A x \in Session :
               /\ session'[x].worker = session[x].worker
               /\ session'[x].finalizer = session[x].finalizer
               /\ session'[x].reader = session[x].reader
               /\ session'[x].error = session[x].error
               /\ session'[x].output = <<>>
      BY <1>4 DEF Drops, SameLease
    <2>2. Outputs'
      BY <2>1 DEF PipeInv, Outputs, AllWords
    <2> QED
      BY <1>1, <2>1, <2>2, PipeKept
  <1>5. CASE StartGeneration
    <2> DEFINE r(x) == IF session[x].worker # 0 THEN session[x]
                       ELSE [Fresh EXCEPT !.sent = session[x].sent]
    <2>1. /\ UNCHANGED <<process, worker, owner>>
          /\ \A x \in Session : session'[x] = r(x)
      BY <1>5 DEF StartGeneration, manager
    <2>2. \A x \in Session : session[x].worker = 0 =>
            session'[x].worker = 0 /\ session'[x].finalizer = "none"
      BY <2>1 DEF Fresh
    <2>3. \A x \in Session : session[x].worker # 0 => session'[x] = session[x]
      BY <2>1
    <2>4. Outputs'
      BY <2>2, <2>3 DEF PipeInv, Outputs, AllWords
    <2> QED
      BY <1>1, <2>1, <2>2, <2>3, <2>4, PipeKept
  <1>6. ASSUME NEW s \in Session, OfSession(s)
        PROVE  PipeInv'
    BY <1>6, PipeOfSession
  <1>7. CASE OfProcess
    BY <1>1, <1>7, PipeAccepts, PipeRefuses, PipeSounds, PipeEnds, PipeIgnores,
       PipeStops, PipeRests, PipeRaises, PipeDies DEF OfProcess
  <1> QED
    BY <1>2, <1>3, <1>4, <1>5, <1>6, <1>7 DEF Kinds, LeaseMoves, Drops

-----------------------------------------------------------------------------
(* A cancellation that is waited for is of a session that holds the lease  *)
(* and that nobody finalizes: whoever would fail it waits for the event    *)
(* loop, and its watchdog leaves it to the cancellation.                   *)
LEMMA WaitsStep ==
  ASSUME Shape, PlacesInv, LeaseInv, EndInv, TypesInv, PipeInv, [Next]_vars
  PROVE  Waits'
  <1> SUFFICES ASSUME generation' = "wait"
               PROVE  /\ owner' \in base' + 1 .. made'
                      /\ session'[owner'].worker # 0 /\ session'[owner'].finalizer = "none"
    BY DEF Waits
  <1> DEFINE Goal == /\ owner' \in base' + 1 .. made'
                     /\ session'[owner'].worker # 0 /\ session'[owner'].finalizer = "none"
  <1>0. /\ Shape /\ Leases /\ Users /\ Finalizers /\ Gone /\ Holder
        /\ generation = "wait" =>
             /\ owner \in base + 1 .. made /\ owner \in Session
             /\ session[owner].worker # 0 /\ session[owner].finalizer = "none"
             /\ \A c \in Child : child[c] = "done" \/ c \in cancels
    <2>1. generation = "wait" =>
             /\ owner \in base + 1 .. made
             /\ session[owner].worker # 0 /\ session[owner].finalizer = "none"
             /\ \A c \in Child : child[c] = "done" \/ c \in cancels
      BY DEF TypesInv, Waits, PlacesInv
    <2>2. owner \in base + 1 .. made => owner \in Session
      BY SynthesisAssumption DEF PlacesInv, Session
    <2> QED
      BY <2>1, <2>2, HolderIn DEF LeaseInv, EndInv, PipeInv
  <1>S. ASSUME generation = "wait", UNCHANGED <<owner, base, made>>,
               SameLease(session'[owner], session[owner])
        PROVE  Goal
    BY <1>0, <1>S DEF SameLease
  <1>A. ASSUME generation = "wait", UNCHANGED <<owner, base, made>>,
               \A x \in Session : SameLease(session'[x], session[x])
        PROVE  Goal
    BY <1>0, <1>A, <1>S
  <1>U. ASSUME UNCHANGED <<generation, owner, base, made, session>>
        PROVE  Goal
    BY <1>0, <1>U
  <1>R. ASSUME NEW c \in Child, NEW place, Runs(c, place), place # "done", UNCHANGED generation
        PROVE  FALSE
    BY <1>0, <1>R DEF Runs, Settled
  <1> HIDE DEF Goal
  <1>1. ASSUME NEW c \in Child,
               \/ FindStarted(c) \/ FindEnded(c) \/ Acquire(c) \/ AcquireAndStart(c)
               \/ WorkerStarts(c) \/ WorkerDoesNotStart(c) \/ FailureEnds(c)
        PROVE  Goal
    <2>1. /\ Runs(c, "start") \/ Runs(c, "starting") \/ Runs(c, "failing")
          /\ UNCHANGED generation
      BY <1>1 DEF FindStarted, FindEnded, Acquire, CanAcquire, AcquireAndStart, WorkerStarts,
                  WorkerDoesNotStart, FailureEnds
    <2> QED
      BY <2>1, <1>R
  <1>2. CASE \/ OpenSession \/ AddWord \/ FinishUtterance \/ FinishInput \/ SendFails \/ TextFails
             \/ NextSession \/ HearWord \/ HearEnd \/ HearFailure
    <2>1. /\ Runs("text", "write") \/ Runs("audio", "next") \/ Runs("audio", "read")
          /\ UNCHANGED generation
      BY <1>2 DEF OpenSession, AddWord, FinishUtterance, FinishInput, SendFails, TextFails,
                  NextSession, HearWord, HearEnd, HearFailure, Send, Hears, task
    <2> QED
      BY <2>1, <1>R DEF Child
  <1>3. ASSUME NEW s \in Session, ReadEvent(s)
        PROVE  Goal
    <2>1. UNCHANGED <<generation, owner, base, made>>
      BY <1>3 DEF ReadEvent, task, sequence, manager
    <2> QED
      BY <1>0, <1>3, <2>1, <1>A, ReadEventIs
  <1>4. ASSUME NEW s \in Session, ReadNothing(s)
        PROVE  Goal
    <2>1. UNCHANGED <<generation, owner, base, made>>
      BY <1>4 DEF ReadNothing, task, sequence, manager
    <2>2. \A x \in Session : SameLease(session'[x], session[x])
      BY <1>0, <1>4, NothingIsTaken DEF TakesNothing, SameBut, Others, SameLease
    <2> QED
      BY <2>1, <2>2, <1>A
  <1>5. ASSUME NEW s \in Session, WatchdogStrikes(s)
        PROVE  Goal
    <2>1. UNCHANGED <<generation, owner, base, made>> /\ ~(generation = "wait" /\ s > base)
      BY <1>5 DEF WatchdogStrikes, task, sequence
    <2>2. owner # s
      BY <1>0, <2>1 DEF PlacesInv
    <2>3. session'[owner] = session[owner]
      BY <1>0, <1>5, <2>1, <2>2, WatchdogStrikesIs DEF Failed, Others
    <2> QED
      BY <2>1, <2>3, <1>S DEF SameLease
  <1>6. ASSUME NEW s \in Session, WatchdogDone(s)
        PROVE  Goal
    <2>1. UNCHANGED generation /\ session[s].finalizer = "watchdog"
      BY <1>6 DEF WatchdogDone, task
    <2> QED
      BY <1>0, <2>1 DEF Leases
  <1>7. CASE StartGeneration
    BY <1>7 DEF StartGeneration
  <1>8. ASSUME NEW c \in Child, ChildCancelled(c)
        PROVE  Goal
    <2>1. UNCHANGED <<generation, base, made>>
      BY <1>8 DEF ChildCancelled, sequence
    <2>2. ~(child[c] = "failing" /\ session[Target(c)].finalizer = c)
      <3> SUFFICES ASSUME child[c] = "failing", session[Target(c)].finalizer = c
                   PROVE  FALSE
        OBVIOUS
      <3>1. Target(c) \in Session
        BY TargetIn
      <3> QED
        BY <1>0, <2>1, <3>1 DEF Leases, Child
    <2>3. child[c] # "starting"
      BY <1>0, <2>1 DEF Users, Awaits, Child
    <2>4. UNCHANGED owner /\ session' \in {Unheard, session}
      BY <1>8, <2>2, <2>3 DEF ChildCancelled
    <2>5. \A x \in Session : SameLease(session'[x], session[x])
      BY <1>0, <2>4, UnheardKept DEF SameLease
    <2> QED
      BY <2>1, <2>4, <2>5, <1>A
  <1>9. ASSUME NEW c \in Child, ReturnEarly(c)
        PROVE  Goal
    <2>1. UNCHANGED generation /\ (Runs("text", "write") \/ Runs("audio", "read"))
      BY <1>9 DEF ReturnEarly, Hears
    <2> QED
      BY <2>1, <1>R DEF Child
  <1>10. CASE AskToStop \/ ChildrenEnd \/ ChildFails \/ NothingToCancel \/ CancelSettles \/ Interrupt
    BY <1>10 DEF AskToStop, ChildrenEnd, ChildFails, NothingToCancel, CancelSettles, Interrupt
  <1>11. ASSUME NEW s \in Session, CancelSession(s)
         PROVE  Goal
    <2>1. UNCHANGED <<owner, base, made>> /\ s \in base + 1 .. made /\ session[s].worker # 0
      BY <1>11 DEF CancelSession, Open, sequence
    <2>2. owner = s
      BY <1>0, <2>1 DEF Leases
    <2>3. SameLease(session'[s], session[s]) /\ process.state # "dead"
      BY <1>0, <1>11, CancelSessionFields DEF Reachable
    <2>4. worker # 0 /\ session[s].finalizer = "none"
      BY <1>0, <2>3 DEF Gone
    <2> QED
      BY <2>1, <2>2, <2>3, <2>4 DEF SameLease, Goal
  <1>12. ASSUME NEW s \in Session, CancelEnds(s) \/ CancelTimesOut(s)
         PROVE  Goal
    BY <1>12 DEF CancelEnds, CancelTimesOut
  <1>13. CASE WorkerProgram \/ GenerationRaises \/ WorkerDies
    <2>1. UNCHANGED <<generation, owner, base, made, session>>
      BY <1>13 DEF WorkerProgram, ServeStart, ServeInput, ServeCancel, IgnoreCommand,
         ThreadEnds, GenerationRaises, WorkerDies, task, sequence, manager
    <2> QED
      BY <2>1, <1>U DEF Goal
  <1>14. CASE UNCHANGED vars
    <2>1. UNCHANGED <<generation, owner, base, made, session>>
      BY <1>14 DEF vars, task, sequence, manager
    <2> QED
      BY <2>1, <1>U DEF Goal
  <1> QED
    BY <1>1, <1>2, <1>3, <1>4, <1>5, <1>6, <1>7, <1>8, <1>9, <1>10, <1>11, <1>12, <1>13, <1>14
       DEF Next, Immediate, Progress, Demand, Goal

-----------------------------------------------------------------------------
StreamInv == SynthesisInv /\ TypesInv /\ Spoken /\ PipeInv

LEMMA InitStream == Init => StreamInv
  <1> SUFFICES ASSUME Init
               PROVE  StreamInv
    OBVIOUS
  <1>1. SynthesisInv
    BY InitHolds
  <1>2. /\ Fresh.worker = 0 /\ Fresh.finalizer = "none" /\ Fresh.finalized = FALSE
        /\ Fresh.error = FALSE /\ Fresh.output = <<>> /\ Fresh.sent = 0 /\ Fresh.pending = {}
        /\ Fresh.reader = "none" /\ Fresh.watchdog = "none"
    BY DEF Fresh
  <1>3. /\ \A s \in Session : session[s] = Fresh
        /\ process.state = "idle" /\ process.commands = <<>> /\ process.events = <<>>
        /\ process.id = 1 /\ heard = <<>> /\ generation = "none" /\ current = 0
        /\ worker = 1 /\ owner = 0 /\ child.text = "done"
    BY DEF Init, Child
  <1> HIDE DEF Fresh
  <1>4. Places
    <2> DEFINE f == [c \in Child |-> "done"]
    <2>1. f \in [Child -> Over \cup {"start", "starting", "write", "next", "read", "failing"}]
      BY DEF Over
    <2>2. /\ child = f /\ generation = "none" /\ interrupted = "no" /\ abandoned = {}
          /\ inputEnded = FALSE /\ faults = 0
      BY DEF Init
    <2> HIDE DEF f
    <2> QED
      <3>1. 0 \in 0 .. MaxFaults
        BY SynthesisAssumption
      <3>2. child \in [Child -> Over \cup {"start", "starting", "write", "next", "read",
                                           "failing"}]
        BY <2>1, <2>2
      <3> QED
        BY <2>2, <3>1, <3>2 DEF Places
  <1>5. Waits /\ Spoken
    BY <1>3 DEF Waits, Spoken
  <1>6. Records
    <2>1. <<>> \in Seq(Items)
      OBVIOUS
    <2> QED
      <3>1. 0 \in 0 .. MaxWords /\ {} \subseteq 1 .. 0
        BY SynthesisAssumption
      <3> QED
        BY <1>2, <1>3, <2>1, <3>1 DEF Records
  <1>7. Pipes
    <2>1. <<>> \in Seq(Commands) /\ <<>> \in Seq(Events) /\ <<>> \in Seq(Session \X Words)
      OBVIOUS
    <2> QED
      BY <1>3, <2>1 DEF Pipes
  <1>8. Unstarted /\ FirstWords
    BY <1>2, <1>3 DEF Unstarted, FirstWords
  <1>9. PipeInv
    BY <1>2, <1>3 DEF PipeInv, Gone, EndsLast, AllWords, StartPending, Drained, Quiet, NoStart,
       Outputs
  <1> QED
    BY <1>1, <1>4, <1>5, <1>6, <1>7, <1>8, <1>9 DEF StreamInv, TypesInv

LEMMA StreamStep ==
  ASSUME StreamInv, [Next]_vars
  PROVE  StreamInv' /\ Kinds /\ Moves
  <1>1. /\ Shape /\ PlacesInv /\ LeaseInv /\ EndInv /\ TypesInv /\ Spoken /\ PipeInv
        /\ Places /\ Waits /\ Records /\ Pipes /\ Unstarted /\ FirstWords /\ Leases
    BY DEF StreamInv, SynthesisInv, TypesInv, LeaseInv
  <1>2. Kinds /\ Moves
    BY <1>1, KindStep, MovesStep
  <1>3. SynthesisInv'
    BY <1>1, ShapeStep, PlacesStep, LeaseStep DEF SynthesisInv
  <1>4. Places' /\ Spoken'
    BY <1>2 DEF Moves
  <1>5. Waits'
    BY <1>1, WaitsStep
  <1>6. Records' /\ Pipes' /\ Unstarted'
    BY <1>1, <1>2, RecordsStep, PipesStep, UnstartedStep
  <1>7. FirstWords'
    BY <1>1, <1>2, FirstWordsStep
  <1>8. PipeInv'
    BY <1>1, <1>2, PipeStep
  <1> QED
    BY <1>2, <1>3, <1>4, <1>5, <1>6, <1>7, <1>8 DEF StreamInv, TypesInv

(* In every reachable state: what the pipes, the queues and the records of *)
(* the sessions may hold, for any number of sessions, words and faults.    *)
THEOREM StreamHolds == Spec => []StreamInv
  <1>1. StreamInv /\ [Next]_vars => StreamInv'
    BY StreamStep
  <1> QED
    BY InitStream, <1>1, PTL DEF Spec

(* The type invariant: in particular, that a word is outstanding only after*)
(* it was written (subprocess_tts.py).                                     *)
THEOREM TypesHold == Spec => []TypeOK
  <1>1. StreamInv => TypeOK
    <2> SUFFICES ASSUME StreamInv
                 PROVE  TypeOK
      OBVIOUS
    <2>1. /\ Shape /\ PlacesInv /\ EndPlaces /\ Finalizers /\ Places /\ Records /\ Pipes
      BY DEF StreamInv, SynthesisInv, TypesInv, EndInv
    <2>2. \A s \in Session :
            /\ session[s].worker \in 0 .. process.id
            /\ session[s].finalizer \in {"none", "watchdog", "generation"} \cup Child
            /\ session[s].sent \in 0 .. MaxWords
            /\ session[s].pending \subseteq 1 .. session[s].sent
            /\ session[s].reader \in {"none", "reading", "done"}
            /\ session[s].watchdog \in {"none", "watching", "done"}
      BY <2>1 DEF Shape, Records, Finalizers
    <2>3. worker \in 0 .. process.id
      BY <2>1 DEF Shape
    <2> QED
      BY <2>1, <2>2, <2>3 DEF TypeOK, PlacesInv, EndPlaces, Places, Pipes, Words
  <1> QED
    BY <1>1, StreamHolds, PTL

(* A worker goes back to the manager only when it has said all it had to   *)
(* say and generates nothing: whoever returns the lease has heard the end  *)
(* of the session, waited for its reader, or replaced the worker           *)
(* (subprocess_tts.py, _finalize_worker).                                  *)
THEOREM WorkersReturnClean == Spec => ReturnsClean
  <1>1. StreamInv /\ [Next]_vars =>
          [owner # 0 /\ owner' = 0 /\ worker' # 0
             => process.events = <<>> /\ process.state # "busy"]_vars
    <2> SUFFICES ASSUME StreamInv, [Next]_vars, owner # 0, owner' = 0, worker' # 0
                 PROVE  process.events = <<>> /\ process.state # "busy"
      OBVIOUS
    <2>1. Kinds /\ PipeInv /\ Records /\ Holder
      BY StreamStep, HolderIn DEF StreamInv, TypesInv, SynthesisInv, EndInv
    <2>2. PICK s \in Session : Returned(s) \/ HeardToEnd(s)
      <3>1. ~(Idle \/ LeaseMoves \/ Opens \/ Drops \/ StartGeneration \/ OfProcess)
        BY DEF Idle, LeaseMoves, Opens, Drops, StartGeneration, OfProcess, Works, Serves,
               Accepts, Refuses, Sounds, Ends, Ignores, Stops, Rests, Raises, Dies, manager
      <3>2. PICK s \in Session : OfSession(s)
        BY <2>1, <3>1 DEF Kinds
      <3>3. s # 0
        BY DEF Session
      <3>4. Returned(s) \/ HeardToEnd(s)
        BY <3>2, <3>3 DEF OfSession, Broken, BrokenAtStart, Begins, BeginsAnew, Speaks,
           SaysEnd, SaysCancel, Hearkens, Takes, TakesWord, TakesEnd, TakesError, TakesNothing
      <3> QED
        BY <3>4
    <2>3. CASE Returned(s)
      BY <2>1, <2>3 DEF Returned, Releases, PipeInv, Gone, Drained, Quiet
    <2>4. CASE HeardToEnd(s)
      BY <2>1, <2>4, EndHeard DEF HeardToEnd, Quiet
    <2> QED
      BY <2>2, <2>3, <2>4
  <1> QED
    BY <1>1, StreamHolds, PTL DEF Spec, ReturnsClean

-----------------------------------------------------------------------------
(* The words on their way: what is heard, what is in the output queue of a *)
(* session, in the event pipe and in the command pipe are the words of the *)
(* session in their order, each in one of these places.                    *)

(* The leading words of the queue q are those of session s after the n-th; *)
(* t were written.  An end after them comes when s is not current any more *)
(* and all were.                                                           *)
InLine(q, s, n, t, cur) ==
  \A i \in 1 .. Len(q) :
    (\A j \in 1 .. i - 1 : q[j].is = "word") =>
      /\ q[i].is = "word" => q[i].of = s /\ q[i].word = n + i /\ n + i <= t
      /\ q[i].is = "end" => n + i - 1 = t /\ cur # s

(* The commands c after the i-th are the words of s after the n-th, up to  *)
(* the t-th, and its finish when s is not current any more.                *)
Follows(c, i, s, n, t, cur) ==
  /\ \A m \in i + 1 .. Len(c) :
       \/ c[m].do = "word" /\ c[m].of = s /\ c[m].word = n + m - i
       \/ c[m].do = "finish" /\ m = Len(c) /\ cur # s /\ n + m - 1 - i = t
  /\ Len(c) = i \/ c[Len(c)].do # "finish" => n + Len(c) - i = t

HeardOf(s) ==
  IF heard # <<>> /\ heard[Len(heard)][1] = s THEN heard[Len(heard)][2] ELSE 0

Through(s) == HeardOf(s) + Len(session[s].output)

Running(s) ==
  /\ session[s].worker # 0 /\ session[s].reader = "reading"
  /\ AllWords(session[s].output)

QueueOrder(s) ==
  InLine(session[s].output, s, HeardOf(s), session[s].sent, current)

PipeOrder(s) ==
  LET n == Through(s) + Len(process.events)
      c == process.commands
  IN  /\ InLine(process.events, s, Through(s), session[s].sent, current)
      /\ process.state = "busy" => Follows(c, 0, s, n, session[s].sent, current)
      /\ \A i \in 1 .. Len(c) :
           c[i].do = "start" => Follows(c, i, s, n, session[s].sent, current)

OrderOf(s) == QueueOrder(s) /\ (Running(s) => PipeOrder(s))

OrderInv == Listening => \A s \in hearing .. made : OrderOf(s)

(* Only the session that is written to may still have no words.            *)
Worded == \A s \in base + 1 .. made : s # current => session[s].sent > 0

(* What was heard, and nothing of the sessions that were heard to their    *)
(* end is missing.                                                         *)
HeardWell ==
  \A i \in 1 .. Len(heard) :
    /\ heard[i] \in Written
    /\ heard[i][1] \in base + 1 .. hearing
    /\ HeardAfter(heard[i], i)

HeardLast ==
  IF heard = <<>> THEN hearing = base + 1
  ELSE \/ heard[Len(heard)][1] = hearing
       \/ heard[Len(heard)] = <<hearing - 1, session[hearing - 1].sent>>

HeardAll ==
  \A x \in base + 1 .. hearing :
    \A w \in 1 .. IF x < hearing THEN session[x].sent ELSE HeardOf(x) :
      \E i \in 1 .. Len(heard) : heard[i] = <<x, w>>

HeardInv == HeardWell /\ HeardLast /\ HeardAll

-----------------------------------------------------------------------------
(* What happens to the queues and pipes of one session.                    *)
LEMMA InLineLater ==
  ASSUME NEW q, NEW S, q \in Seq(S), NEW s, NEW n \in Nat, NEW t \in Nat, NEW u \in Nat,
         NEW cur, NEW next, InLine(q, s, n, t, cur),
         \/ t <= u /\ cur = s
         \/ t = u /\ (cur # s => next # s)
  PROVE  InLine(q, s, n, u, next)
  BY DEF InLine

LEMMA InLineEmpty ==
  ASSUME NEW s, NEW n, NEW t, NEW cur
  PROVE  InLine(<<>>, s, n, t, cur)
  BY DEF InLine

(* The first of a queue.                                                   *)
LEMMA InLineHead ==
  ASSUME NEW S, NEW q \in Seq(S), q # <<>>, NEW s, NEW n \in Nat, NEW t \in Nat, NEW cur,
         InLine(q, s, n, t, cur)
  PROVE  /\ Head(q).is = "word" =>
              Head(q).of = s /\ Head(q).word = n + 1 /\ n + 1 <= t
         /\ Head(q).is = "end" => n = t /\ cur # s
  <1>1. Len(q) \in Nat /\ 1 \in 1 .. Len(q) /\ Head(q) = q[1]
    BY TailIs
  <1>2. \A j \in 1 .. 1 - 1 : q[j].is = "word"
    OBVIOUS
  <1>3. /\ q[1].is = "word" => q[1].of = s /\ q[1].word = n + 1 /\ n + 1 <= t
        /\ q[1].is = "end" => n + 1 - 1 = t /\ cur # s
    BY <1>1, <1>2 DEF InLine
  <1> QED
    BY <1>1, <1>3

LEMMA InLineTail ==
  ASSUME NEW S, NEW q \in Seq(S), q # <<>>, Head(q).is = "word",
         NEW s, NEW n \in Nat, NEW t \in Nat, NEW cur, InLine(q, s, n, t, cur)
  PROVE  InLine(Tail(q), s, n + 1, t, cur) /\ (AllWords(Tail(q)) => AllWords(q))
  <1> DEFINE p == Tail(q)
  <1>1. /\ Len(q) \in Nat /\ q[1].is = "word" /\ Len(p) = Len(q) - 1 /\ 1 \in 1 .. Len(q)
        /\ \A i \in 1 .. Len(p) : p[i] = q[i + 1] /\ i + 1 \in 1 .. Len(q)
    BY TailIs
  <1> HIDE DEF p
  <1>2. ASSUME NEW i \in 1 .. Len(p), \A j \in 1 .. i - 1 : p[j].is = "word"
        PROVE  /\ p[i].is = "word" =>
                    p[i].of = s /\ p[i].word = n + 1 + i /\ n + 1 + i <= t
               /\ p[i].is = "end" => n + 1 + i - 1 = t /\ cur # s
    <2>1. \A j \in 1 .. (i + 1) - 1 : q[j].is = "word"
      <3> SUFFICES ASSUME NEW j \in 1 .. (i + 1) - 1, j # 1
                   PROVE  q[j].is = "word"
        BY <1>1
      <3>1. j - 1 \in 1 .. i - 1 /\ j - 1 \in 1 .. Len(p) /\ (j - 1) + 1 = j
        BY <1>1
      <3> QED
        BY <1>1, <1>2, <3>1
    <2>2. i + 1 \in 1 .. Len(q) /\ p[i] = q[i + 1]
      BY <1>1
    <2>3. /\ q[i + 1].is = "word" =>
               q[i + 1].of = s /\ q[i + 1].word = n + (i + 1) /\ n + (i + 1) <= t
          /\ q[i + 1].is = "end" => n + (i + 1) - 1 = t /\ cur # s
      BY <2>1, <2>2 DEF InLine
    <2> QED
      BY <2>2, <2>3
  <1>3. AllWords(p) => AllWords(q)
    <2> SUFFICES ASSUME AllWords(p), NEW i \in 1 .. Len(q), i # 1
                 PROVE  q[i].is = "word"
      BY <1>1 DEF AllWords
    <2>1. i - 1 \in 1 .. Len(p) /\ (i - 1) + 1 = i
      BY <1>1
    <2> QED
      BY <1>1, <2>1 DEF AllWords
  <1>4. InLine(p, s, n + 1, t, cur)
    BY <1>2 DEF InLine
  <1> QED
    BY <1>3, <1>4 DEF p

LEMMA InLineJoin ==
  ASSUME NEW S, NEW q \in Seq(S), NEW p \in Seq(S), NEW s, NEW n \in Nat, NEW t \in Nat, NEW cur,
         InLine(q, s, n, t, cur), AllWords(q) => InLine(p, s, n + Len(q), t, cur)
  PROVE  /\ InLine(q \o p, s, n, t, cur)
         /\ AllWords(q \o p) => AllWords(q) /\ AllWords(p)
  <1> DEFINE r == q \o p
             k == Len(q)
  <1>1. /\ k \in Nat /\ Len(p) \in Nat /\ Len(r) = k + Len(p)
        /\ \A i \in 1 .. k : r[i] = q[i]
        /\ \A i \in 1 .. Len(p) : r[k + i] = p[i]
    BY ConcatIs
  <1> HIDE DEF r
  <1>2. ASSUME NEW i \in 1 .. Len(r), \A j \in 1 .. i - 1 : r[j].is = "word"
        PROVE  /\ r[i].is = "word" => r[i].of = s /\ r[i].word = n + i /\ n + i <= t
               /\ r[i].is = "end" => n + i - 1 = t /\ cur # s
    <2>1. CASE i <= k
      <3>1. i \in 1 .. k /\ r[i] = q[i] /\ \A j \in 1 .. i - 1 : q[j].is = "word"
        BY <1>1, <1>2, <2>1
      <3> QED
        BY <3>1 DEF InLine
    <2>2. CASE i > k
      <3> DEFINE m == i - k
      <3>0. i \in Nat /\ k \in Nat /\ i <= k + Len(p)
        BY <1>1
      <3>1. m \in 1 .. Len(p) /\ r[i] = p[m] /\ k + m = i
        <4> HIDE DEF k
        <4>1. m \in 1 .. Len(p) /\ k + m = i
          BY <1>1, <2>2, <3>0
        <4>2. r[k + m] = p[m]
          BY <1>1, <4>1
        <4> QED
          BY <4>1, <4>2
      <3>2. \A j \in 1 .. m - 1 : p[j].is = "word"
        <4> SUFFICES ASSUME NEW j \in 1 .. m - 1
                     PROVE  p[j].is = "word"
          OBVIOUS
        <4>1. k + j \in 1 .. i - 1 /\ j \in 1 .. Len(p)
          BY <1>1, <3>1
        <4> QED
          BY <1>1, <1>2, <4>1
      <3>3. AllWords(q)
        <4> SUFFICES ASSUME NEW j \in 1 .. k
                     PROVE  q[j].is = "word"
          BY DEF AllWords
        <4>1. j \in 1 .. i - 1
          BY <1>1, <2>2
        <4> QED
          BY <1>1, <1>2, <4>1
      <3> HIDE DEF m, k
      <3>4. InLine(p, s, n + k, t, cur)
        BY <3>3 DEF k
      <3>5. /\ p[m].is = "word" => p[m].of = s /\ p[m].word = (n + k) + m /\ (n + k) + m <= t
            /\ p[m].is = "end" => (n + k) + m - 1 = t /\ cur # s
        BY <3>1, <3>2, <3>4 DEF InLine
      <3>6. (n + k) + m = n + i /\ (n + k) + m - 1 = n + i - 1
        BY <3>0, <3>1
      <3> QED
        BY <3>1, <3>5, <3>6
    <2> QED
      BY <1>1, <2>1, <2>2
  <1>3. InLine(r, s, n, t, cur)
    BY <1>2 DEF InLine
  <1>4. AllWords(r) => AllWords(q) /\ AllWords(p)
    <2> SUFFICES ASSUME AllWords(r)
                 PROVE  AllWords(q) /\ AllWords(p)
      OBVIOUS
    <2>1. \A i \in 1 .. k : q[i].is = "word"
      BY <1>1 DEF AllWords
    <2>2. \A i \in 1 .. Len(p) : p[i].is = "word"
      <3> SUFFICES ASSUME NEW i \in 1 .. Len(p)
                   PROVE  p[i].is = "word"
        OBVIOUS
      <3>1. k + i \in 1 .. Len(r)
        BY <1>1
      <3> QED
        BY <1>1, <3>1 DEF AllWords
    <2> QED
      BY <2>1, <2>2 DEF AllWords
  <1> QED
    BY <1>3, <1>4 DEF r

(* One item that is a word or an end, and a queue that begins with neither.*)
LEMMA InLineOne ==
  ASSUME NEW e, NEW s, NEW n \in Nat, NEW t \in Nat, NEW cur,
         e.is = "word" => e.of = s /\ e.word = n + 1 /\ n + 1 <= t,
         e.is = "end" => n = t /\ cur # s
  PROVE  InLine(<<e>>, s, n, t, cur) /\ (AllWords(<<e>>) => e.is = "word")
  <1> DEFINE q == <<e>>
  <1>1. Len(q) = 1 /\ q[1] = e
    OBVIOUS
  <1> HIDE DEF q
  <1>2. InLine(q, s, n, t, cur) /\ (AllWords(q) => e.is = "word")
    BY <1>1 DEF InLine, AllWords
  <1> QED
    BY <1>2 DEF q

LEMMA InLineOther ==
  ASSUME NEW S, NEW q \in Seq(S), Len(q) > 0, q[1].is \notin {"word", "end"},
         NEW s, NEW n, NEW t, NEW cur
  PROVE  InLine(q, s, n, t, cur) /\ ~AllWords(q)
  <1>1. Len(q) \in Nat /\ 1 \in 1 .. Len(q)
    OBVIOUS
  <1>2. ASSUME NEW i \in 1 .. Len(q), \A j \in 1 .. i - 1 : q[j].is = "word"
        PROVE  i = 1
    <2>1. CASE i > 1
      <3>1. 1 \in 1 .. i - 1
        BY <1>1, <2>1
      <3> QED
        BY <1>2, <3>1
    <2> QED
      BY <1>1, <2>1
  <1>3. InLine(q, s, n, t, cur)
    BY <1>2 DEF InLine
  <1> QED
    BY <1>1, <1>3 DEF AllWords

(* The same of the commands.                                               *)
LEMMA FollowsSame ==
  ASSUME NEW c, NEW i, NEW s, NEW n, NEW t, NEW cur, NEW next,
         Follows(c, i, s, n, t, cur), cur # s => next # s
  PROVE  Follows(c, i, s, n, t, next)
  BY DEF Follows

LEMMA FollowsWord ==
  ASSUME NEW S, NEW c \in Seq(S), NEW i \in 0 .. Len(c), NEW s, NEW n \in Nat, NEW t \in Nat,
         NEW cur, cur = s, Follows(c, i, s, n, t, cur),
         NEW m \in S, m.do = "word", m.of = s, m.word = t + 1
  PROVE  Follows(Append(c, m), i, s, n, t + 1, cur)
  <1> DEFINE d == Append(c, m)
             k == Len(c)
  <1>1. k \in Nat /\ Len(d) = k + 1 /\ d[k + 1] = m /\ \A j \in 1 .. k : d[j] = c[j]
    BY AppendProperties
  <1> HIDE DEF d, k
  <1>2. \A j \in i + 1 .. k : c[j].do = "word" /\ c[j].of = s /\ c[j].word = n + j - i
    BY DEF Follows, k
  <1>3. n + k - i = t
    <2>1. CASE i = k
      BY <1>1, <2>1 DEF Follows, k
    <2>2. CASE i # k
      <3>1. k \in i + 1 .. k
        BY <1>1, <2>2 DEF k
      <3>2. c[k].do # "finish"
        BY <1>2, <3>1
      <3> QED
        BY <3>2 DEF Follows, k
    <2> QED
      BY <2>1, <2>2
  <1>4. ASSUME NEW j \in i + 1 .. Len(d)
        PROVE  d[j].do = "word" /\ d[j].of = s /\ d[j].word = n + j - i
    <2>1. CASE j \in i + 1 .. k
      <3>1. d[j] = c[j]
        BY <1>1, <2>1 DEF k
      <3> QED
        BY <1>2, <2>1, <3>1
    <2>2. CASE j = k + 1
      <3>1. n + (k + 1) - i = t + 1
        BY <1>1, <1>3 DEF k
      <3> QED
        BY <1>1, <2>2, <3>1
    <2> QED
      BY <1>1, <2>1, <2>2 DEF k
  <1>5. n + Len(d) - i = t + 1
    BY <1>1, <1>3 DEF k
  <1> QED
    BY <1>4, <1>5 DEF Follows, d

LEMMA FollowsFinish ==
  ASSUME NEW S, NEW c \in Seq(S), NEW i \in 0 .. Len(c), NEW s, NEW n \in Nat, NEW t \in Nat,
         NEW cur, cur = s, Follows(c, i, s, n, t, cur), NEW next, next # s,
         NEW m \in S, m.do = "finish"
  PROVE  Follows(Append(c, m), i, s, n, t, next)
  <1> DEFINE d == Append(c, m)
             k == Len(c)
  <1>1. k \in Nat /\ Len(d) = k + 1 /\ d[k + 1] = m /\ \A j \in 1 .. k : d[j] = c[j]
    BY AppendProperties
  <1> HIDE DEF d, k
  <1>2. \A j \in i + 1 .. k : c[j].do = "word" /\ c[j].of = s /\ c[j].word = n + j - i
    BY DEF Follows, k
  <1>3. n + k - i = t
    <2>1. CASE i = k
      BY <1>1, <2>1 DEF Follows, k
    <2>2. CASE i # k
      <3>1. k \in i + 1 .. k
        BY <1>1, <2>2 DEF k
      <3>2. c[k].do # "finish"
        BY <1>2, <3>1
      <3> QED
        BY <3>2 DEF Follows, k
    <2> QED
      BY <2>1, <2>2
  <1>4. ASSUME NEW j \in i + 1 .. Len(d)
        PROVE  \/ d[j].do = "word" /\ d[j].of = s /\ d[j].word = n + j - i
               \/ d[j].do = "finish" /\ j = Len(d) /\ next # s /\ n + j - 1 - i = t
    <2>1. CASE j \in i + 1 .. k
      <3>1. d[j] = c[j]
        BY <1>1, <2>1 DEF k
      <3> QED
        BY <1>2, <2>1, <3>1
    <2>2. CASE j = k + 1
      <3>1. n + (k + 1) - 1 - i = t
        BY <1>1, <1>3 DEF k
      <3> QED
        BY <1>1, <2>2, <3>1
    <2> QED
      BY <1>1, <2>1, <2>2 DEF k
  <1>5. Len(d) # i /\ d[Len(d)].do = "finish"
    BY <1>1 DEF k
  <1> QED
    BY <1>4, <1>5 DEF Follows, d

(* The first command is taken.                                             *)
LEMMA FollowsShift ==
  ASSUME NEW S, NEW c \in Seq(S), c # <<>>, NEW i \in Nat, i < Len(c), NEW s, NEW n \in Nat, NEW t \in Nat,
         NEW cur, Follows(c, i + 1, s, n, t, cur)
  PROVE  Follows(Tail(c), i, s, n, t, cur)
  <1> DEFINE d == Tail(c)
             k == Len(c)
  <1>1. /\ k \in Nat /\ k > 0 /\ i < k /\ Len(d) = k - 1
        /\ \A j \in 1 .. Len(d) : d[j] = c[j + 1] /\ j + 1 \in 1 .. k
    BY TailIs
  <1> HIDE DEF d, k
  <1>2. ASSUME NEW j \in i + 1 .. Len(d)
        PROVE  \/ d[j].do = "word" /\ d[j].of = s /\ d[j].word = n + j - i
               \/ d[j].do = "finish" /\ j = Len(d) /\ cur # s /\ n + j - 1 - i = t
    <2>1. j + 1 \in (i + 1) + 1 .. k /\ j \in 1 .. Len(d) /\ j \in Nat
      BY <1>1
    <2>2. \/ c[j + 1].do = "word" /\ c[j + 1].of = s /\ c[j + 1].word = n + (j + 1) - (i + 1)
          \/ /\ c[j + 1].do = "finish" /\ j + 1 = k /\ cur # s
             /\ n + (j + 1) - 1 - (i + 1) = t
      BY <2>1 DEF Follows, k
    <2>3. d[j] = c[j + 1]
      BY <1>1, <2>1
    <2>4. n + (j + 1) - (i + 1) = n + j - i /\ n + (j + 1) - 1 - (i + 1) = n + j - 1 - i
      BY <2>1
    <2> QED
      BY <1>1, <2>1, <2>2, <2>3, <2>4
  <1>3. ASSUME Len(d) = i \/ d[Len(d)].do # "finish"
        PROVE  n + Len(d) - i = t
    <2>1. Len(d) = 0 \/ d[Len(d)] = c[k]
      <3>1. CASE Len(d) > 0
        <4>1. Len(d) \in 1 .. Len(d) /\ Len(d) + 1 = k
          BY <1>1, <3>1
        <4> QED
          BY <1>1, <4>1
      <3> QED
        BY <1>1, <3>1
    <2>2. CASE k = i + 1 \/ c[k].do # "finish"
      <3>1. n + k - (i + 1) = t
        BY <2>2 DEF Follows, k
      <3> QED
        BY <1>1, <3>1
    <2>3. CASE k # i + 1 /\ c[k].do = "finish"
      <3>1. Len(d) = 0 /\ Len(d) # i
        BY <1>1, <1>3, <2>1, <2>3
      <3> QED
        BY <1>1, <3>1
    <2> QED
      BY <2>2, <2>3
  <1> QED
    BY <1>2, <1>3 DEF Follows, d

(* The process, which is busy, takes a word or the finish.                 *)
LEMMA FollowsTaken ==
  ASSUME NEW S, NEW c \in Seq(S), c # <<>>, NEW s, NEW n \in Nat, NEW t \in Nat,
         NEW cur, Follows(c, 0, s, n, t, cur)
  PROVE  /\ Head(c).do = "word" =>
              /\ Head(c).of = s /\ Head(c).word = n + 1 /\ n + 1 <= t
              /\ Follows(Tail(c), 0, s, n + 1, t, cur)
         /\ Head(c).do = "finish" => n = t /\ cur # s
         /\ \A i \in 1 .. Len(c) : c[i].do \in {"word", "finish"}
  <1> DEFINE d == Tail(c)
             k == Len(c)
  <1>1. /\ k \in Nat /\ k > 0 /\ Len(d) = k - 1 /\ Head(c) = c[1]
        /\ \A j \in 1 .. Len(d) : d[j] = c[j + 1] /\ j + 1 \in 1 .. k
    BY TailIs
  <1> HIDE DEF d, k
  <1>2. \A m \in 1 .. k :
          \/ c[m].do = "word" /\ c[m].of = s /\ c[m].word = n + m
          \/ c[m].do = "finish" /\ m = k /\ cur # s /\ n + m - 1 = t
    <2> SUFFICES ASSUME NEW m \in 1 .. k
                 PROVE  \/ c[m].do = "word" /\ c[m].of = s /\ c[m].word = n + m
                        \/ c[m].do = "finish" /\ m = k /\ cur # s /\ n + m - 1 = t
      OBVIOUS
    <2>1. m \in 0 + 1 .. Len(c) /\ n + m - 0 = n + m /\ n + m - 1 - 0 = n + m - 1
      BY DEF k
    <2> QED
      BY <2>1 DEF Follows, k
  <1>3. c[k].do # "finish" => n + k = t
    <2>1. n + k - 0 = n + k
      BY <1>1
    <2> QED
      BY <2>1 DEF Follows, k
  <1>4. 1 \in 1 .. k /\ k \in 1 .. k
    BY <1>1
  <1>5. c[1].do = "finish" => n = t /\ cur # s
    BY <1>2, <1>4
  <1>6. c[1].do = "word" => c[1].of = s /\ c[1].word = n + 1 /\ n + 1 <= t
    <2>1. CASE c[k].do # "finish"
      BY <1>1, <1>2, <1>3, <1>4, <2>1
    <2>2. CASE c[k].do = "finish"
      <3>1. n + k - 1 = t
        BY <1>2, <1>4, <2>2
      <3>2. c[1].do = "word" => k # 1
        BY <2>2
      <3> QED
        BY <1>1, <1>2, <1>4, <3>1, <3>2
    <2> QED
      BY <2>1, <2>2
  <1>7. ASSUME c[1].do = "word"
        PROVE  Follows(d, 0, s, n + 1, t, cur)
    <2>1. ASSUME NEW j \in 0 + 1 .. Len(d)
          PROVE  \/ d[j].do = "word" /\ d[j].of = s /\ d[j].word = n + 1 + j - 0
                 \/ d[j].do = "finish" /\ j = Len(d) /\ cur # s /\ n + 1 + j - 1 - 0 = t
      <3>1. j + 1 \in 1 .. k /\ d[j] = c[j + 1] /\ j \in Nat
        BY <1>1
      <3>2. \/ c[j + 1].do = "word" /\ c[j + 1].of = s /\ c[j + 1].word = n + (j + 1)
            \/ c[j + 1].do = "finish" /\ j + 1 = k /\ cur # s /\ n + (j + 1) - 1 = t
        BY <1>2, <3>1
      <3>3. n + (j + 1) = n + 1 + j - 0 /\ n + (j + 1) - 1 = n + 1 + j - 1 - 0
        BY <3>1
      <3> QED
        BY <1>1, <3>1, <3>2, <3>3
    <2>2. ASSUME Len(d) = 0 \/ d[Len(d)].do # "finish"
          PROVE  n + 1 + Len(d) - 0 = t
      <3>1. c[k].do # "finish"
        <4>1. CASE Len(d) = 0
          BY <1>1, <1>7, <4>1
        <4>2. CASE Len(d) > 0
          <5>1. Len(d) \in 1 .. Len(d) /\ Len(d) + 1 = k
            BY <1>1, <4>2
          <5>2. d[Len(d)] = c[k]
            BY <1>1, <5>1
          <5> QED
            BY <2>2, <4>2, <5>2
        <4> QED
          BY <1>1, <4>1, <4>2
      <3> QED
        BY <1>1, <1>3, <3>1
    <2> QED
      BY <2>1, <2>2 DEF Follows
  <1>8. \A i \in 1 .. k : c[i].do \in {"word", "finish"}
    BY <1>2
  <1> QED
    BY <1>1, <1>5, <1>6, <1>7, <1>8 DEF d, k

-----------------------------------------------------------------------------
(* What each kind of step does to the order of one session.                *)
LEMMA OrderTypes ==
  ASSUME Records, Pipes, NEW x \in Session
  PROVE  /\ session[x].output \in Seq(Items) /\ Len(session[x].output) \in Nat
         /\ session[x].sent \in Nat
         /\ HeardOf(x) \in Nat /\ Through(x) \in Nat
         /\ process.events \in Seq(Events) /\ Len(process.events) \in Nat
         /\ process.commands \in Seq(Commands) /\ Len(process.commands) \in Nat
  <1>1. /\ session[x].output \in Seq(Items) /\ Len(session[x].output) \in Nat
        /\ session[x].sent \in Nat
        /\ process.events \in Seq(Events) /\ Len(process.events) \in Nat
        /\ process.commands \in Seq(Commands) /\ Len(process.commands) \in Nat
    BY SynthesisAssumption DEF Records, Pipes
  <1>2. HeardOf(x) \in Nat
    <2>1. CASE heard # <<>>
      <3>1. heard[Len(heard)] \in Session \X Words
        BY <2>1 DEF Pipes
      <3>2. heard[Len(heard)][2] \in Nat
        BY <3>1 DEF Words
      <3> QED
        BY <3>2 DEF HeardOf
    <2> QED
      BY <2>1 DEF HeardOf
  <1> QED
    BY <1>1, <1>2 DEF Through

(* Nothing is heard or written of the session, and it is not opened again. *)
Calm(x) ==
  /\ HeardOf(x)' = HeardOf(x)
  /\ session'[x].sent = session[x].sent
  /\ current # x => current' # x

LEMMA QueueKept ==
  ASSUME Records, Pipes, NEW x \in Session, QueueOrder(x), Calm(x),
         session'[x].output = session[x].output
  PROVE  QueueOrder(x)'
  BY OrderTypes, InLineLater DEF QueueOrder, Calm

LEMMA PipeOrderKept ==
  ASSUME Records, Pipes, NEW x \in Session, PipeOrder(x), Calm(x),
         session'[x].output = session[x].output,
         \/ UNCHANGED process
         \/ /\ process'.events = process.events
            /\ process'.state # "busy" /\ process'.commands = <<>>
  PROVE  PipeOrder(x)'
  <1> DEFINE e == process.events
             n == Through(x) + Len(e)
             c == process.commands
             t == session[x].sent
  <1>1. Through(x)' = Through(x)
    BY DEF Through, Calm
  <1>2. /\ e \in Seq(Events) /\ Through(x) \in Nat /\ t \in Nat
        /\ process'.events = e /\ session'[x].sent = t /\ (current # x => current' # x)
        /\ InLine(e, x, Through(x), t, current)
        /\ process.state = "busy" => Follows(c, 0, x, n, t, current)
        /\ \A i \in 1 .. Len(c) : c[i].do = "start" => Follows(c, i, x, n, t, current)
    BY OrderTypes DEF PipeOrder, Calm
  <1> HIDE DEF e, t, n, c
  <1>3. InLine(e, x, Through(x), t, current')
    BY <1>2, InLineLater
  <1>4. /\ process.state = "busy" => Follows(c, 0, x, n, t, current')
        /\ \A i \in 1 .. Len(c) : c[i].do = "start" => Follows(c, i, x, n, t, current')
    BY <1>2, FollowsSame
  <1>5. CASE UNCHANGED process
    <2>1. process'.state = process.state /\ process'.commands = c
      BY <1>5 DEF c
    <2> QED
      BY <1>1, <1>2, <1>3, <1>4, <2>1 DEF PipeOrder, n
  <1>6. CASE process'.state # "busy" /\ process'.commands = <<>>
    BY <1>1, <1>2, <1>3, <1>6 DEF PipeOrder
  <1> QED
    BY <1>5, <1>6

LEMMA OrderCalm ==
  ASSUME Records, Pipes, NEW x \in Session, OrderOf(x), Calm(x),
         session'[x].output \in {session[x].output, session[x].output \o Failure},
         Running(x)' => /\ session[x].worker # 0 /\ session[x].reader = "reading"
                        /\ \/ UNCHANGED process
                           \/ /\ process'.events = process.events
                              /\ process'.state # "busy" /\ process'.commands = <<>>
  PROVE  OrderOf(x)'
  <1>1. CASE session'[x].output = session[x].output
    <2>1. QueueOrder(x)'
      BY <1>1, QueueKept DEF OrderOf
    <2>2. Running(x)' => Running(x)
      BY <1>1 DEF Running, AllWords
    <2>3. Running(x)' => PipeOrder(x)'
      BY <1>1, <2>2, PipeOrderKept DEF OrderOf
    <2> QED
      BY <2>1, <2>3 DEF OrderOf
  <1>2. CASE session'[x].output = session[x].output \o Failure
    <2> DEFINE q == session[x].output
               f == Failure
               n == HeardOf(x)
               t == session[x].sent
    <2>1. /\ q \in Seq(Items) /\ f \in Seq(Items) /\ n \in Nat /\ t \in Nat
          /\ Len(f) > 0 /\ f[1].is \notin {"word", "end"}
          /\ InLine(q, x, n, t, current)
      BY OrderTypes, FailureIs DEF OrderOf, QueueOrder
    <2>2. Len(q) \in Nat
      BY <2>1
    <2> HIDE DEF q, f, n, t
    <2>3. InLine(f, x, n + Len(q), t, current') /\ ~AllWords(f)
      BY <2>1, <2>2, InLineOther
    <2>4. InLine(q, x, n, t, current')
      BY <2>1, InLineLater DEF Calm
    <2>5. InLine(q \o f, x, n, t, current') /\ ~AllWords(q \o f)
      BY <2>1, <2>3, <2>4, InLineJoin
    <2>6. QueueOrder(x)'
      BY <1>2, <2>5 DEF QueueOrder, Calm, q, f, n, t
    <2>7. ~Running(x)'
      BY <1>2, <2>5 DEF Running, AllWords, q, f
    <2> QED
      BY <2>6, <2>7 DEF OrderOf
  <1> QED
    BY <1>1, <1>2

(* A session that nobody has served has nothing queued.                    *)
LEMMA OrderFresh ==
  ASSUME NEW x \in Session, session'[x].output = <<>>, session'[x].worker = 0
  PROVE  OrderOf(x)'
  BY InLineEmpty DEF OrderOf, QueueOrder, Running

(* A session that is started, by the audio task without a word or by the   *)
(* text task with its first.                                               *)
LEMMA OrderStarted ==
  ASSUME Records, Pipes, NEW x \in Session, NEW c \in Child, NEW p, Started(c, x, p),
         p.commands \in Seq(Commands), p.events = <<>>, p.state # "busy",
         \A i \in 1 .. Len(p.commands) : p.commands[i].do # "start",
         session[x].output = <<>>, session[x].sent = 0,
         HeardOf(x) = 0, HeardOf(x)' = HeardOf(x), current' = current,
         c = "text" => x = current
  PROVE  OrderOf(x)'
  <1> DEFINE start == Message("start", x, 0)
             word == Message("word", x, 1)
             q == Append(p.commands, start)
             k == Len(p.commands)
  <1>1. start.do = "start" /\ word.do = "word" /\ word.of = x /\ word.word = 1 /\ start \in Commands
    BY CommandsAre DEF Message
  <1>2. 1 \in Words
    BY SynthesisAssumption DEF Words
  <1>3. word \in Commands
    BY <1>2, CommandsAre
  <1>4. /\ session'[x].output = <<>> /\ process'.events = <<>> /\ process'.state # "busy"
        /\ \/ c = "audio" /\ session'[x].sent = 0 /\ process'.commands = q
           \/ c = "text" /\ session'[x].sent = 1 /\ process'.commands = Append(q, word)
    BY DEF Started
  <1>5. q \in Seq(Commands) /\ Len(q) = k + 1 /\ k \in Nat
        /\ \A i \in 1 .. Len(q) : q[i].do = "start" => i = k + 1
    <2> HIDE DEF start
    <2>1. /\ q \in Seq(Commands) /\ Len(q) = k + 1 /\ k \in Nat
          /\ \A i \in 1 .. k : q[i] = p.commands[i]
      BY <1>1, AppendProperties
    <2> HIDE DEF q
    <2> QED
      BY <2>1
  <1>6. /\ QueueOrder(x)' /\ Through(x)' = 0 /\ Len(process'.events) = 0
        /\ InLine(process'.events, x, Through(x)', session'[x].sent, current')
    BY <1>4, InLineEmpty DEF QueueOrder, Through
  <1>7. Follows(q, k + 1, x, 0, 0, current)
    <2> HIDE DEF q, k
    <2> QED
      BY <1>5 DEF Follows
  <1> HIDE DEF q, k, start, word
  <1>8. ASSUME NEW i \in 1 .. Len(process'.commands), process'.commands[i].do = "start"
        PROVE  Follows(process'.commands, i, x, 0, session'[x].sent, current')
    <2>1. CASE c = "audio"
      BY <1>4, <1>5, <1>7, <1>8, <2>1
    <2>2. CASE c = "text"
      <3>1. /\ Len(Append(q, word)) = k + 2 /\ Append(q, word)[k + 2] = word
            /\ \A j \in 1 .. k + 1 : Append(q, word)[j] = q[j]
        <4>1. /\ Len(Append(q, word)) = Len(q) + 1 /\ Append(q, word)[Len(q) + 1] = word
              /\ \A j \in 1 .. Len(q) : Append(q, word)[j] = q[j]
          BY <1>3, <1>5, AppendProperties
        <4> QED
          BY <1>5, <4>1
      <3>2. process'.commands = Append(q, word) /\ session'[x].sent = 0 + 1
        BY <1>4, <2>2
      <3>3. i = k + 1
        BY <1>1, <1>5, <1>8, <3>1, <3>2
      <3>4. k + 1 \in 0 .. Len(q) /\ word.word = 0 + 1 /\ current = x
        BY <1>1, <1>5, <2>2
      <3>5. Follows(Append(q, word), k + 1, x, 0, 0 + 1, current)
        BY <1>1, <1>3, <1>5, <1>7, <3>4, FollowsWord
      <3> QED
        BY <3>2, <3>3, <3>5
    <2> QED
      BY <2>1, <2>2 DEF Child
  <1>9. PipeOrder(x)'
    BY <1>4, <1>6, <1>8 DEF PipeOrder
  <1> QED
    BY <1>6, <1>9 DEF OrderOf

(* The text task writes to the session: a word, or its finish.             *)
LEMMA OrderWritten ==
  ASSUME Records, Pipes, PipeInv, NEW x \in Session, x = current, OrderOf(x),
         HeardOf(x)' = HeardOf(x), session'[x].output = session[x].output,
         session'[x].worker = session[x].worker, session'[x].reader = session[x].reader,
         NEW m \in Commands, Commanded(process, m),
         \/ /\ m.do = "word" /\ m.of = x /\ m.word = session[x].sent + 1
            /\ session'[x].sent = session[x].sent + 1 /\ current' = current
         \/ /\ m.do = "finish" /\ session'[x].sent = session[x].sent /\ current' # x
  PROVE  OrderOf(x)'
  <1> DEFINE e == process.events
             k == Through(x) + Len(e)
             c == process.commands
             t == session[x].sent
             u == session'[x].sent
  <1>1. /\ session[x].output \in Seq(Items) /\ HeardOf(x) \in Nat /\ t \in Nat /\ u \in Nat
        /\ e \in Seq(Events) /\ Through(x) \in Nat /\ c \in Seq(Commands) /\ k \in Nat
        /\ Len(c) \in Nat
    BY OrderTypes
  <1>2. t <= u /\ current = x /\ (t = u \/ current' = current)
    BY <1>1
  <1>3. Through(x)' = Through(x) /\ (Running(x)' <=> Running(x))
    BY DEF Through, Running, AllWords
  <1>4. QueueOrder(x)'
    BY <1>1, <1>2, InLineLater DEF OrderOf, QueueOrder
  <1>5. ASSUME Running(x)
        PROVE  PipeOrder(x)'
    <2> DEFINE d == Append(c, m)
    <2>1. /\ process'.events = e /\ process'.state = process.state
          /\ process'.commands = d /\ m.do # "start"
      BY DEF Commanded
    <2>2. /\ InLine(e, x, Through(x), t, current)
          /\ process.state = "busy" => Follows(c, 0, x, k, t, current)
          /\ \A i \in 1 .. Len(c) : c[i].do = "start" => Follows(c, i, x, k, t, current)
      BY <1>5 DEF OrderOf, PipeOrder
    <2> HIDE DEF e, k, c
    <2>3. ASSUME NEW i \in 0 .. Len(c), Follows(c, i, x, k, t, current)
          PROVE  Follows(d, i, x, k, u, current')
      <3>1. CASE m.do = "word"
        <4>1. m.of = x /\ m.word = t + 1 /\ u = t + 1 /\ current' = current /\ current = x
          BY <3>1
        <4> HIDE DEF t, u
        <4> QED
          BY <1>1, <2>3, <3>1, <4>1, FollowsWord
      <3>2. CASE m.do = "finish"
        <4>1. u = t /\ current' # x /\ current = x
          BY <3>2
        <4> HIDE DEF t, u
        <4> QED
          BY <1>1, <2>3, <3>2, <4>1, FollowsFinish
      <3> QED
        BY <3>1, <3>2
    <2> HIDE DEF t, u
    <2>4. InLine(e, x, Through(x), u, current')
      BY <1>1, <1>2, <2>2, InLineLater
    <2>5. Len(d) = Len(c) + 1 /\ d[Len(c) + 1] = m /\ \A i \in 1 .. Len(c) : d[i] = c[i]
      BY <1>1, AppendProperties
    <2> HIDE DEF d
    <2>6. ASSUME NEW i \in 1 .. Len(d), d[i].do = "start"
          PROVE  Follows(d, i, x, k, u, current')
      <3>1. i \in 1 .. Len(c) /\ c[i].do = "start" /\ i \in 0 .. Len(c)
        BY <1>1, <2>1, <2>5, <2>6
      <3> QED
        BY <2>2, <2>3, <3>1
    <2>7. process.state = "busy" => Follows(d, 0, x, k, u, current')
      BY <1>1, <2>2, <2>3
    <2> QED
      BY <1>3, <2>1, <2>4, <2>6, <2>7 DEF PipeOrder, k, u
  <1> QED
    BY <1>3, <1>4, <1>5 DEF OrderOf

(* The audio task takes the next word.                                     *)
LEMMA OrderHeard ==
  ASSUME Shape, Records, Pipes, NEW x \in Session, Hearkens(x), OrderOf(x)
  PROVE  /\ OrderOf(x)'
         /\ heard' = Append(heard, <<x, HeardOf(x) + 1>>) /\ HeardOf(x) + 1 <= session[x].sent
         /\ HeardOf(x)' = HeardOf(x) + 1
  <1> DEFINE q == session[x].output
             n == HeardOf(x)
             t == session[x].sent
  <1>1. /\ q \in Seq(Items) /\ q # <<>> /\ Head(q).is = "word" /\ n \in Nat /\ t \in Nat
        /\ InLine(q, x, n, t, current)
        /\ heard \in Seq(Session \X Words)
    BY OrderTypes DEF Hearkens, OrderOf, QueueOrder, Pipes
  <1>2. /\ session'[x].output = Tail(q) /\ session'[x].sent = t /\ current' = current
        /\ session'[x].worker = session[x].worker /\ session'[x].reader = session[x].reader
        /\ UNCHANGED process
        /\ heard' = Append(heard, <<Head(q).of, Head(q).word>>)
    BY DEF Hearkens, SameBut, SameLease
  <1> HIDE DEF q, n, t
  <1>3. Head(q).of = x /\ Head(q).word = n + 1 /\ n + 1 <= t
    BY <1>1, InLineHead
  <1>4. InLine(Tail(q), x, n + 1, t, current) /\ (AllWords(Tail(q)) => AllWords(q))
    BY <1>1, InLineTail
  <1>5. heard' = Append(heard, <<x, n + 1>>)
    BY <1>2, <1>3
  <1>6. HeardOf(x)' = n + 1
    <2>1. n + 1 \in Words
      <3>1. t \in 0 .. MaxWords
        BY DEF Records, t
      <3> QED
        BY <1>1, <1>3, <3>1, SynthesisAssumption DEF Words
    <2>2. <<x, n + 1>> \in Session \X Words
      BY <2>1
    <2>3. /\ heard' # <<>> /\ Len(heard') = Len(heard) + 1 /\ heard'[Len(heard) + 1] = <<x, n + 1>>
      BY <1>1, <1>5, <2>2, AppendProperties
    <2>4. heard'[Len(heard')] = <<x, n + 1>>
      BY <2>3
    <2> QED
      BY <2>3, <2>4 DEF HeardOf
  <1>7. Through(x)' = Through(x)
    <2>1. Len(Tail(q)) = Len(q) - 1 /\ Len(q) \in Nat
      BY <1>1, TailIs
    <2>2. Through(x)' = n + 1 + Len(Tail(q)) /\ Through(x) = n + Len(q)
      BY <1>2, <1>6 DEF Through, q, n
    <2> QED
      BY <1>1, <2>1, <2>2
  <1>8. QueueOrder(x)'
    BY <1>2, <1>4, <1>6 DEF QueueOrder
  <1>9. Running(x)' => Running(x)
    BY <1>2, <1>4 DEF Running, AllWords, q
  <1>10. PipeOrder(x) => PipeOrder(x)'
    BY <1>2, <1>7 DEF PipeOrder, t
  <1> QED
    BY <1>3, <1>5, <1>6, <1>8, <1>9, <1>10 DEF OrderOf, n, t

(* Its reader takes a word or the end.                                     *)
LEMMA OrderTaken ==
  ASSUME Shape, Records, Pipes, NEW x \in Session, TakesWord(x) \/ TakesEnd(x), Listening,
         OrderOf(x)
  PROVE  OrderOf(x)'
  <1> DEFINE q == session[x].output
             n == HeardOf(x)
             t == session[x].sent
             e == process.events
             c == process.commands
             k == n + Len(q)
             f == IF TakesWord(x) THEN Head(e) ELSE [is |-> "end"]
             p == <<f>>
  <1>1. /\ q \in Seq(Items) /\ n \in Nat /\ t \in Nat /\ e \in Seq(Events) /\ e # <<>>
        /\ Len(q) \in Nat /\ k \in Nat /\ Len(e) \in Nat
        /\ Head(e).is = f.is /\ f.is \in {"word", "end"}
        /\ InLine(q, x, n, t, current) /\ Through(x) = k
    <2>1. process.events # <<>>
      BY DEF Takes, TakesWord, TakesEnd
    <2>2. Head(e).is = f.is /\ f.is \in {"word", "end"}
      BY DEF TakesWord, TakesEnd
    <2>3. InLine(q, x, n, t, current) /\ Through(x) = k
      BY DEF OrderOf, QueueOrder, Through
    <2> HIDE DEF f
    <2> QED
      BY <2>1, <2>2, <2>3, OrderTypes
  <1>2. /\ session'[x].output = q \o p
        /\ session'[x].sent = t /\ current' = current /\ HeardOf(x)' = n
        /\ session'[x].worker = session[x].worker
        /\ session[x].worker # 0 /\ session[x].reader = "reading"
        /\ process'.events = Tail(e) /\ process'.state = process.state /\ process'.commands = c
        /\ f.is = "end" => session'[x].reader = "done"
        /\ f.is = "word" => f = Head(e)
    <2>1. CASE TakesWord(x)
      BY <2>1 DEF Takes, TakesWord, SameBut, SameLease, SameSequence, HeardOf, Shape
    <2>2. CASE ~TakesWord(x)
      BY <2>2 DEF Takes, TakesEnd, SameBut, SameLease, SameSequence, HeardOf, Shape
    <2> QED
      BY <2>1, <2>2
  <1> HIDE DEF f
  <1>3. AllWords(q) => PipeOrder(x)
    BY <1>2 DEF OrderOf, Running, q
  <1>4. AllWords(q) => InLine(e, x, k, t, current)
    BY <1>1, <1>3 DEF PipeOrder, t, e
  <1> HIDE DEF q, n, t, e, k, c
  <1>5. /\ AllWords(q) /\ f.is = "word" => f.of = x /\ f.word = k + 1 /\ k + 1 <= t
        /\ AllWords(q) /\ f.is = "end" => k = t /\ current # x
    BY <1>1, <1>2, <1>4, InLineHead
  <1>6. AllWords(q) => InLine(p, x, k, t, current)
    BY <1>1, <1>5, InLineOne
  <1>7. p \in Seq({f}) /\ Len(p) = 1 /\ (AllWords(p) => f.is = "word")
    BY DEF AllWords
  <1> HIDE DEF p
  <1>8. InLine(q \o p, x, n, t, current) /\ (AllWords(q \o p) => AllWords(q) /\ AllWords(p))
    <2>1. q \in Seq(Items \cup {f}) /\ p \in Seq(Items \cup {f})
      BY <1>1, <1>7
    <2> QED
      BY <1>1, <1>6, <2>1, InLineJoin DEF k
  <1>9. QueueOrder(x)'
    BY <1>2, <1>8 DEF QueueOrder
  <1>10. ASSUME Running(x)'
         PROVE  PipeOrder(x)'
    <2>1. AllWords(q) /\ f.is = "word"
      <3>1. AllWords(q \o p) /\ session'[x].reader = "reading"
        BY <1>2, <1>10 DEF Running, AllWords
      <3> QED
        BY <1>1, <1>2, <1>8, <3>1, <1>7
    <2>2. PipeOrder(x)
      BY <1>3, <2>1
    <2>3. Through(x)' = k + 1
      <3>1. Len(q \o p) = Len(q) + 1
        <4>1. q \in Seq(Items \cup {f}) /\ p \in Seq(Items \cup {f})
          BY <1>1, <1>7
        <4> QED
          BY <1>7, <4>1, ConcatIs
      <3>2. Through(x)' = n + Len(q \o p)
        BY <1>2 DEF Through
      <3> QED
        BY <1>1, <3>1, <3>2 DEF k
    <2>4. InLine(Tail(e), x, k + 1, t, current)
      BY <1>1, <1>4, <2>1, InLineTail
    <2>5. k + 1 + Len(Tail(e)) = k + Len(e)
      <3>1. Len(Tail(e)) = Len(e) - 1
        BY <1>1, TailIs
      <3> QED
        BY <1>1, <3>1
    <2>6. /\ process.state = "busy" => Follows(c, 0, x, k + Len(e), t, current)
          /\ \A i \in 1 .. Len(c) : c[i].do = "start" => Follows(c, i, x, k + Len(e), t, current)
      BY <1>1, <2>2 DEF PipeOrder, e, c, t
    <2> QED
      BY <1>2, <2>3, <2>4, <2>5, <2>6 DEF PipeOrder
  <1> QED
    BY <1>9, <1>10 DEF OrderOf

(* The worker program goes on with the pipes of the session it serves.     *)
LEMMA OrderServed ==
  ASSUME Records, Pipes, NEW x \in Session, Works, OrderOf(x),
         Running(x) =>
           LET n == Through(x) + Len(process'.events)
               c == process'.commands
               t == session[x].sent
           IN  /\ InLine(process'.events, x, Through(x), t, current)
               /\ process'.state = "busy" => Follows(c, 0, x, n, t, current)
               /\ \A i \in 1 .. Len(c) :
                    c[i].do = "start" => Follows(c, i, x, n, t, current)
  PROVE  OrderOf(x)'
  <1>1. session'[x] = session[x] /\ HeardOf(x)' = HeardOf(x) /\ current' = current
    BY DEF Works, SameSessions, SameSequence, HeardOf
  <1>2. Through(x)' = Through(x) /\ (Running(x)' <=> Running(x))
    BY <1>1 DEF Through, Running, AllWords
  <1>3. QueueOrder(x)'
    BY <1>1, QueueKept DEF OrderOf, Calm
  <1>4. Running(x) => PipeOrder(x)'
    BY <1>1, <1>2 DEF PipeOrder
  <1> QED
    BY <1>2, <1>3, <1>4 DEF OrderOf

LEMMA OrderOfProcess ==
  ASSUME Records, Pipes, PipeInv, Leases, Holder, NEW x \in Session, OfProcess, OrderOf(x)
  PROVE  OrderOf(x)'
  <1> DEFINE h == Through(x)
             t == session[x].sent
             e == process.events
             c == process.commands
             k == h + Len(e)
             Goal == /\ InLine(process'.events, x, h, t, current)
                     /\ process'.state = "busy" =>
                          Follows(process'.commands, 0, x, h + Len(process'.events), t, current)
                     /\ \A i \in 1 .. Len(process'.commands) :
                          process'.commands[i].do = "start" =>
                            Follows(process'.commands, i, x, h + Len(process'.events), t, current)
  <1>1. Works
    BY DEF OfProcess, Accepts, Refuses, Sounds, Ends, Ignores, Serves, Stops, Rests, Raises, Dies
  <1> SUFFICES ASSUME Running(x)
               PROVE  Goal
    BY <1>1, OrderServed
  <1>2. /\ h \in Nat /\ t \in Nat /\ e \in Seq(Events) /\ c \in Seq(Commands) /\ k \in Nat
        /\ Len(e) \in Nat /\ Len(c) \in Nat
    BY OrderTypes
  <1>3. /\ InLine(e, x, h, t, current)
        /\ process.state = "busy" => Follows(c, 0, x, k, t, current)
        /\ \A i \in 1 .. Len(c) : c[i].do = "start" => Follows(c, i, x, k, t, current)
    BY DEF OrderOf, PipeOrder
  <1>4. process.state = "busy" => AllWords(e) /\ NoStart
    BY <1>1, BusyServes
  <1>5. /\ process.events = e /\ process.commands = c
        /\ NoStart <=> \A i \in 1 .. Len(c) : c[i].do # "start"
    BY DEF NoStart
  <1>6. NoStart' <=> \A i \in 1 .. Len(process'.commands) : process'.commands[i].do # "start"
    BY DEF NoStart
  <1> HIDE DEF h, t, e, c
  <1>7. CASE Accepts
    <2>1. NoStart' /\ e = <<>> /\ process'.commands = Tail(c) /\ c # <<>> /\ Head(c).do = "start"
      BY <1>1, <1>5, <1>7, StartTaken DEF Accepts, Serves
    <2>2. process'.events = <<>>
      BY <1>5, <1>7, <2>1 DEF Accepts, Serves
    <2>3. Len(c) > 0 /\ c[1] = Head(c) /\ 1 \in 1 .. Len(c)
      BY <1>2, <2>1, TailIs
    <2>4. Follows(c, 0 + 1, x, k, t, current)
      BY <1>3, <2>1, <2>3
    <2>5. Follows(Tail(c), 0, x, k, t, current)
      BY <1>2, <2>1, <2>3, <2>4, FollowsShift
    <2>6. h + Len(process'.events) = k
      BY <2>1, <2>2 DEF k
    <2> QED
      BY <1>6, <2>1, <2>2, <2>5, <2>6, InLineEmpty
  <1>8. CASE Refuses
    <2> DEFINE m == Answer("error")
    <2>1. NoStart' /\ e = <<>> /\ process.state # "busy"
      BY <1>1, <1>5, <1>8, StartTaken DEF Refuses, Serves
    <2>2. process'.events = <<m>> /\ process'.state # "busy" /\ m.is = "error"
      BY <1>5, <1>8, <2>1 DEF Refuses, Serves, Answer
    <2> HIDE DEF m
    <2>3. InLine(<<m>>, x, h, t, current)
      BY <1>2, <2>2, InLineOne
    <2> QED
      BY <1>6, <2>1, <2>2, <2>3
  <1>9. CASE Sounds
    <2> DEFINE m == Answer("word")
    <2>1. /\ process.state = "busy" /\ c # <<>> /\ process'.commands = Tail(c)
          /\ process'.events = e \o <<m>> /\ Head(c).do = "word"
          /\ m.is = "word" /\ m.of = Head(c).of /\ m.word = Head(c).word
      BY <1>5, <1>9 DEF Sounds, Serves, Answer
    <2> HIDE DEF m
    <2>2. NoStart'
      BY <1>4, <1>5, <2>1, CommandTaken
    <2>3. /\ Head(c).of = x /\ Head(c).word = k + 1 /\ k + 1 <= t
          /\ Follows(Tail(c), 0, x, k + 1, t, current)
      BY <1>2, <1>3, <2>1, FollowsTaken
    <2>4. InLine(<<m>>, x, h + Len(e), t, current)
      BY <1>2, <2>1, <2>3, InLineOne
    <2>5. InLine(e \o <<m>>, x, h, t, current)
      <3>1. e \in Seq(Events \cup {m}) /\ <<m>> \in Seq(Events \cup {m})
        BY <1>2
      <3> QED
        BY <1>2, <1>3, <2>4, <3>1, InLineJoin
    <2>6. h + Len(e \o <<m>>) = k + 1
      <3>1. Len(e \o <<m>>) = Len(e) + 1
        BY <1>2, AppendIs
      <3> QED
        BY <1>2, <3>1
    <2> QED
      BY <1>6, <2>1, <2>2, <2>3, <2>5, <2>6
  <1>10. CASE Ends
    <2> DEFINE m == Answer("end")
    <2>1. /\ process.state = "busy" /\ c # <<>> /\ process'.commands = Tail(c)
          /\ process'.events = e \o <<m>> /\ Head(c).do = "finish"
          /\ m.is = "end" /\ process'.state # "busy"
      BY <1>5, <1>10 DEF Ends, Serves, Answer
    <2> HIDE DEF m
    <2>2. NoStart'
      BY <1>4, <1>5, <2>1, CommandTaken
    <2>3. k = t /\ current # x
      <3>1. Follows(c, 0, x, k, t, current)
        BY <1>3, <2>1
      <3> HIDE DEF k
      <3> QED
        BY <1>2, <2>1, <3>1, FollowsTaken
    <2>4. InLine(<<m>>, x, h + Len(e), t, current)
      BY <1>2, <2>1, <2>3, InLineOne
    <2>5. InLine(e \o <<m>>, x, h, t, current)
      <3>1. e \in Seq(Events \cup {m}) /\ <<m>> \in Seq(Events \cup {m})
        BY <1>2
      <3> QED
        BY <1>2, <1>3, <2>4, <3>1, InLineJoin
    <2> QED
      BY <1>6, <2>1, <2>2, <2>5
  <1>11. CASE Ignores
    <2>1. /\ c # <<>> /\ process'.commands = Tail(c) /\ process'.events = e
          /\ process'.state # "busy"
      <3>1. e \o <<>> = e
        BY <1>2, ConcatEmptySeq
      <3> QED
        BY <1>5, <1>11, <3>1 DEF Ignores, Serves
    <2>2. \A i \in 1 .. Len(Tail(c)) : Tail(c)[i] = c[i + 1] /\ i + 1 \in 1 .. Len(c)
      BY <1>2, <2>1, TailIs
    <2>3. ASSUME NEW i \in 1 .. Len(Tail(c)), Tail(c)[i].do = "start"
          PROVE  Follows(Tail(c), i, x, k, t, current)
      <3>1. i + 1 \in 1 .. Len(c) /\ c[i + 1].do = "start" /\ i \in Nat
        BY <2>2, <2>3
      <3>2. Follows(c, i + 1, x, k, t, current) /\ i < Len(c)
        BY <1>2, <1>3, <3>1
      <3> QED
        BY <1>2, <2>1, <3>1, <3>2, FollowsShift
    <2> QED
      BY <1>3, <2>1, <2>3
  <1>12. CASE Stops
    <2>1. /\ process.state = "busy"
          /\ \E i \in 1 .. Len(c) : c[i].do = "cancel"
      BY <1>5, <1>12 DEF Stops
    <2>2. c # <<>>
      BY <2>1
    <2> QED
      BY <1>2, <1>3, <2>1, <2>2, FollowsTaken
  <1>13. CASE Rests
    <2>1. process'.state = "idle" /\ process'.commands = c /\ process'.events = e
      BY <1>5, <1>13 DEF Rests
    <2> QED
      BY <1>3, <2>1
  <1>14. CASE Raises
    <2> DEFINE m == [is |-> "error", of |-> owner, word |-> 0]
               w == [is |-> "end", of |-> owner, word |-> 0]
    <2>1. /\ process.state = "busy" /\ process'.state = "ending" /\ process'.commands = c
          /\ \E p \in {<<m>>, <<m, w>>} : process'.events = e \o p
      BY <1>5, <1>14 DEF Raises
    <2>2. PICK p \in {<<m>>, <<m, w>>} : process'.events = e \o p
      BY <2>1
    <2>0. m.is = "error"
      OBVIOUS
    <2> HIDE DEF m, w
    <2>3. p \in Seq({m, w}) /\ Len(p) > 0 /\ p[1].is = "error"
      <3>1. CASE p = <<m>>
        BY <2>0, <3>1
      <3>2. CASE p = <<m, w>>
        BY <2>0, <3>2
      <3> QED
        BY <3>1, <3>2
    <2>4. p \in Seq(Events \cup {m, w}) /\ e \in Seq(Events \cup {m, w})
      BY <1>2, <2>3
    <2>5. InLine(p, x, h + Len(e), t, current)
      BY <2>3, InLineOther
    <2>6. InLine(e \o p, x, h, t, current)
      BY <1>2, <1>3, <2>4, <2>5, InLineJoin
    <2>7. NoStart'
      BY <1>4, <1>5, <1>6, <2>1
    <2> QED
      BY <1>6, <2>1, <2>2, <2>6, <2>7
  <1>15. CASE Dies
    <2>1. process'.state = "dead" /\ process'.commands = <<>> /\ process'.events = e
      BY <1>5, <1>15 DEF Dies
    <2> QED
      BY <1>3, <2>1
  <1> QED
    BY <1>7, <1>8, <1>9, <1>10, <1>11, <1>12, <1>13, <1>14, <1>15 DEF OfProcess

(* A session without words has not been heard.                             *)
LEMMA HeardNone ==
  ASSUME Pipes, HeardWell, NEW x, session[x].sent = 0
  PROVE  HeardOf(x) = 0
  <1>1. CASE heard # <<>> /\ heard[Len(heard)][1] = x
    <2>1. Len(heard) \in 1 .. Len(heard)
      BY <1>1 DEF Pipes
    <2>2. heard[Len(heard)] \in Written
      BY <2>1 DEF HeardWell
    <2>3. heard[Len(heard)][2] \in 1 .. MaxWords /\ heard[Len(heard)][2] <= 0
      BY <1>1, <2>2 DEF Written
    <2> QED
      BY <2>3
  <1> QED
    BY <1>1 DEF HeardOf

(* Nothing has been heard of the sessions that come after.                 *)
LEMMA HeardLater ==
  ASSUME Pipes, HeardWell, PlacesInv, NEW x \in Nat, x > hearing
  PROVE  HeardOf(x) = 0
  <1>1. CASE heard # <<>>
    <2>1. Len(heard) \in 1 .. Len(heard)
      BY <1>1 DEF Pipes
    <2>2. heard[Len(heard)][1] \in base + 1 .. hearing
      BY <2>1 DEF HeardWell
    <2> QED
      BY <2>2 DEF HeardOf, PlacesInv
  <1> QED
    BY <1>1 DEF HeardOf

(* The other sessions are left alone.                                      *)
LEMMA OrderOfOthers ==
  ASSUME Shape, PlacesInv, LeaseInv, TypesInv, HeardWell,
         NEW s \in Session, OfSession(s), Listening', NEW x \in Session, x # s,
         x \in hearing .. made, OrderOf(x), Hearkens(s) => OrderOf(s)
  PROVE  OrderOf(x)'
  <1>1. Leases /\ Records /\ Pipes
    BY DEF LeaseInv, TypesInv
  <1>2. /\ Others(s) /\ current' \in {current, 0}
        /\ session[x].worker = 0 \/ UNCHANGED process
        /\ UNCHANGED heard \/ Hearkens(s)
    <2>1. session[s].worker # 0 => session[x].worker = 0
      BY <1>1, OneLease
    <2>2. CASE Returned(s) \/ HeardToEnd(s)
      BY <2>2 DEF Returned, HeardToEnd, Releases, SameSequence
    <2>3. ASSUME NEW t \in Child \cup {"watchdog", "generation"}, Broken(s, t)
          PROVE  /\ Others(s) /\ current' \in {current, 0}
                 /\ session[x].worker = 0 \/ UNCHANGED process
                 /\ UNCHANGED heard
      BY <2>1, <2>3 DEF Broken, Fails, SameSequence, Served
    <2>4. ASSUME NEW c \in Child, BrokenAtStart(s, c) \/ Begins(s, c) \/ BeginsAnew(s, c)
          PROVE  /\ Others(s) /\ current' \in {current, 0}
                 /\ session[x].worker = 0 \/ UNCHANGED process
                 /\ UNCHANGED heard
      BY <2>4 DEF BrokenAtStart, Begins, BeginsAnew, FailsAtStart, Started, SameSequence, Unserved
    <2>5. CASE Speaks(s) \/ SaysEnd(s)
      <3>1. session[s].worker # 0
        BY <2>5 DEF Speaks, SaysEnd, Reachable, Shape
      <3> QED
        BY <2>1, <2>5, <3>1 DEF Speaks, SaysEnd, WordSent, SameBut, SameSequence
    <2>6. CASE SaysCancel(s)
      BY <2>6 DEF SaysCancel
    <2>7. CASE Hearkens(s) \/ TakesNothing(s)
      BY <2>7 DEF Hearkens, TakesNothing, SameBut, SameSequence
    <2>8. CASE TakesWord(s) \/ TakesEnd(s) \/ TakesError(s)
      <3>1. session[s].worker # 0
        BY <2>8 DEF TakesWord, TakesEnd, TakesError, Takes, Shape
      <3> QED
        BY <2>1, <2>8, <3>1 DEF TakesWord, TakesEnd, TakesError, Takes, SameBut, SameSequence
    <2> QED
      BY <2>2, <2>3, <2>4, <2>5, <2>6, <2>7, <2>8 DEF OfSession
  <1>3. HeardOf(x)' = HeardOf(x)
    <2>1. CASE UNCHANGED heard
      BY <2>1 DEF HeardOf
    <2>2. CASE Hearkens(s)
      <3>1. heard' = Append(heard, <<s, HeardOf(s) + 1>>)
        BY <1>1, <2>2, OrderHeard
      <3>2. x > hearing /\ x \in Nat
        BY <2>2 DEF Hearkens, PlacesInv, Session
      <3>3. HeardOf(x) = 0
        BY <1>1, <3>2, HeardLater
      <3>4. /\ heard' # <<>> /\ heard'[Len(heard')] = <<s, HeardOf(s) + 1>>
        BY <1>1, <3>1 DEF Pipes
      <3> QED
        BY <3>3, <3>4 DEF HeardOf
    <2> QED
      BY <1>2, <2>1, <2>2
  <1>4. /\ session'[x] = session[x] /\ x # 0
    BY <1>2 DEF Others, Session
  <1>5. Calm(x)
    BY <1>2, <1>3, <1>4 DEF Calm
  <1>6. Running(x)' => session[x].worker # 0 /\ session[x].reader = "reading"
    BY <1>4 DEF Running
  <1> QED
    BY <1>1, <1>2, <1>4, <1>5, <1>6, OrderCalm

(* The session that the step is about.                                     *)
LEMMA OrderOfItself ==
  ASSUME Shape, PlacesInv, LeaseInv, EndInv, TypesInv, PipeInv, HeardWell,
         NEW s \in Session, OfSession(s), Listening, Listening',
         s \in hearing' .. made', OrderOf(s)
  PROVE  OrderOf(s)'
  <1>1. Leases /\ Records /\ Pipes /\ Unstarted /\ EndPlaces
    BY DEF LeaseInv, TypesInv, EndInv
  <1>2. s # 0 /\ s \in Nat
    BY DEF Session
  <1>3. CASE Returned(s)
    <2>1. /\ session'[s].output = session[s].output /\ session'[s].worker = 0
          /\ session'[s].sent = session[s].sent /\ UNCHANGED <<heard, current>>
      BY <1>3 DEF Returned, Releases, SameSequence
    <2>2. Calm(s) /\ ~Running(s)'
      BY <2>1 DEF Calm, HeardOf, Running
    <2> QED
      BY <1>1, <2>1, <2>2, OrderCalm
  <1>4. CASE HeardToEnd(s)
    BY <1>2, <1>4 DEF HeardToEnd, PlacesInv
  <1>5. ASSUME NEW t \in Child \cup {"watchdog", "generation"}, Broken(s, t)
        PROVE  OrderOf(s)'
    <2>1. Fails(s, t) /\ UNCHANGED <<heard, current>> /\ Listening /\ child'.audio # "failing"
      BY <1>5 DEF Broken, SameSequence, Listening
    <2>2. /\ session'[s].output \in {session[s].output, session[s].output \o Failure}
          /\ session'[s].worker = session[s].worker /\ session'[s].reader = session[s].reader
          /\ session'[s].sent = session[s].sent
          /\ \/ UNCHANGED process
             \/ /\ process'.events = process.events
                /\ process'.state # "busy" /\ process'.commands = <<>>
      BY <2>1 DEF Fails
    <2>3. Calm(s)
      BY <2>1, <2>2 DEF Calm, HeardOf
    <2>4. Running(s)' => session[s].worker # 0 /\ session[s].reader = "reading"
      BY <2>2 DEF Running
    <2> QED
      BY <1>1, <2>2, <2>3, <2>4, OrderCalm
  <1>6. ASSUME NEW c \in Child, BrokenAtStart(s, c)
        PROVE  OrderOf(s)'
    <2>1. /\ session'[s].output = session[s].output /\ session'[s].reader = session[s].reader
          /\ session'[s].sent = session[s].sent /\ UNCHANGED <<heard, current>>
          /\ Unserved(s)
      BY <1>6 DEF BrokenAtStart, FailsAtStart, SameSequence
    <2>2. session[s].reader = "none"
      BY <1>1, <2>1 DEF Unserved, Unstarted
    <2>3. Calm(s) /\ ~Running(s)'
      BY <2>1, <2>2 DEF Calm, HeardOf, Running
    <2> QED
      BY <1>1, <2>1, <2>3, OrderCalm
  <1>7. ASSUME NEW c \in Child, Begins(s, c) \/ BeginsAnew(s, c)
        PROVE  OrderOf(s)'
    <2>1. /\ Unserved(s) /\ UNCHANGED <<base, made, hearing, heard, current>>
          /\ c = "text" => s = current
      BY <1>7 DEF Begins, BeginsAnew, SameSequence
    <2>2. s > base
      BY <1>1, <1>2, <2>1 DEF EndPlaces, PlacesInv
    <2>3. session[s].output = <<>> /\ session[s].sent = 0
      BY <1>1, <2>1, <2>2 DEF Unserved, Unstarted
    <2>4. HeardOf(s) = 0 /\ HeardOf(s)' = HeardOf(s)
      BY <1>1, <2>1, <2>3, HeardNone DEF HeardOf
    <2>5. CASE Begins(s, c)
      <3>1. Started(c, s, process) /\ Quiet
        BY <2>5 DEF Begins, PipeInv, Drained
      <3> QED
        BY <1>1, <2>1, <2>3, <2>4, <3>1, OrderStarted DEF Quiet, NoStart, Pipes
    <2>6. CASE BeginsAnew(s, c)
      <3> DEFINE p == [id |-> process.id + 1, state |-> "idle", commands |-> <<>>,
                       events |-> <<>>]
      <3>1. Started(c, s, p)
        BY <2>6 DEF BeginsAnew
      <3>2. /\ p.commands \in Seq(Commands) /\ p.events = <<>> /\ p.state # "busy"
            /\ \A i \in 1 .. Len(p.commands) : p.commands[i].do # "start"
        OBVIOUS
      <3> HIDE DEF p
      <3> QED
        BY <1>1, <2>1, <2>3, <2>4, <3>1, <3>2, OrderStarted
    <2> QED
      BY <1>7, <2>5, <2>6
  <1>8. CASE Speaks(s)
    <2> DEFINE m == Message("word", s, session[s].sent + 1)
    <2>1. /\ s = current /\ session[s].sent + 1 \in Words /\ WordSent(s)
          /\ UNCHANGED <<heard, current>>
      BY <1>8 DEF Speaks, SameSequence
    <2>2. /\ m \in Commands /\ m.do = "word" /\ m.of = s /\ m.word = session[s].sent + 1
      BY <2>1, CommandsAre DEF Message
    <2>3. /\ Commanded(process, m)
          /\ session'[s].sent = session[s].sent + 1 /\ session'[s].output = session[s].output
          /\ session'[s].worker = session[s].worker /\ session'[s].reader = session[s].reader
      BY <2>1 DEF WordSent, SameLease
    <2>4. HeardOf(s)' = HeardOf(s)
      BY <2>1 DEF HeardOf
    <2> HIDE DEF m
    <2> QED
      BY <1>1, <2>1, <2>2, <2>3, <2>4, OrderWritten
  <1>9. CASE SaysEnd(s)
    <2> DEFINE m == Message("finish", s, 0)
    <2>1. s = current /\ current' = 0 /\ SameBut(s) /\ UNCHANGED heard
      BY <1>9 DEF SaysEnd, SameSequence
    <2>2. m \in Commands /\ m.do = "finish"
      BY CommandsAre DEF Message
    <2>3. /\ Commanded(process, m)
          /\ session'[s].sent = session[s].sent /\ session'[s].output = session[s].output
          /\ session'[s].worker = session[s].worker /\ session'[s].reader = session[s].reader
      BY <1>9, <2>1 DEF SaysEnd, SameBut, SameLease
    <2>4. HeardOf(s)' = HeardOf(s)
      BY <2>1 DEF HeardOf
    <2> HIDE DEF m
    <2> QED
      BY <1>1, <1>2, <2>1, <2>2, <2>3, <2>4, OrderWritten
  <1>10. CASE SaysCancel(s)
    BY <1>10 DEF SaysCancel
  <1>11. CASE Hearkens(s)
    BY <1>1, <1>11, OrderHeard
  <1>12. CASE TakesWord(s) \/ TakesEnd(s)
    BY <1>1, <1>12, OrderTaken
  <1>13. CASE TakesError(s) \/ TakesNothing(s)
    <2>1. /\ session'[s].output = session[s].output \o Failure /\ session'[s].reader = "done"
          /\ session'[s].sent = session[s].sent /\ UNCHANGED <<heard, current>>
      BY <1>13 DEF TakesError, TakesNothing, Takes, SameBut, SameSequence
    <2>2. Calm(s) /\ ~Running(s)'
      BY <2>1 DEF Calm, HeardOf, Running
    <2> QED
      BY <1>1, <2>1, <2>2, OrderCalm
  <1> QED
    BY <1>3, <1>4, <1>5, <1>6, <1>7, <1>8, <1>9, <1>10, <1>11, <1>12, <1>13 DEF OfSession

(* Every step keeps the words on their way in their order.                 *)
LEMMA OrderStep ==
  ASSUME Shape, PlacesInv, LeaseInv, EndInv, TypesInv, PipeInv, HeardWell, OrderInv,
         PlacesInv', Kinds, Moves
  PROVE  OrderInv'
  <1> SUFFICES ASSUME Listening', NEW x \in hearing' .. made'
               PROVE  OrderOf(x)'
    BY DEF OrderInv
  <1>1. Leases /\ Records /\ Pipes /\ Unstarted /\ EndPlaces
    BY DEF LeaseInv, TypesInv, EndInv
  <1>2. x \in Session /\ x # 0 /\ x \in Nat
    BY SynthesisAssumption DEF PlacesInv, Session
  <1>3. CASE StartGeneration
    <2>1. hearing' = made + 1 /\ made' = made /\ made \in Nat
      BY <1>3, NewGenerationFields DEF PlacesInv
    <2> QED
      BY <1>2, <2>1
  <1>4. CASE ~StartGeneration
    <2>1. Listening
      BY <1>4 DEF Moves
    <2>2. ASSUME x <= made, hearing <= x
          PROVE  OrderOf(x)
      BY <1>2, <2>1, <2>2 DEF OrderInv, PlacesInv
    <2>3. CASE Idle \/ LeaseMoves
      <3>1. /\ session'[x] = session[x] /\ UNCHANGED <<made, hearing, heard, current, process>>
        BY <1>2, <2>3 DEF Idle, LeaseMoves, SameSessions, SameSequence
      <3>2. Calm(x) /\ (Running(x)' => session[x].worker # 0 /\ session[x].reader = "reading")
        BY <3>1 DEF Calm, HeardOf, Running
      <3>3. OrderOf(x)
        BY <1>2, <2>2, <3>1 DEF PlacesInv
      <3> QED
        BY <1>1, <1>2, <3>1, <3>2, <3>3, OrderCalm
    <2>4. CASE Opens
      <3>1. /\ session'[x] = session[x] /\ UNCHANGED <<hearing, heard, process>>
            /\ current = 0 /\ made' = made + 1 /\ current' = made + 1
        BY <1>2, <2>4 DEF Opens, SameSessions
      <3>2. CASE x = made + 1
        <4>1. ~session[x].finalized /\ session[x].worker = 0
          <5>1. ~session[x].finalized
            BY <1>1, <1>2, <3>2 DEF Unstarted, PlacesInv
          <5>2. owner # x
            BY <1>1, <1>2, <3>2 DEF EndPlaces, PlacesInv
          <5> QED
            BY <1>1, <1>2, <5>1, <5>2 DEF Leases
        <4>2. session[x].output = <<>>
          BY <1>1, <1>2, <4>1 DEF Unstarted
        <4> QED
          BY <1>2, <3>1, <4>1, <4>2, OrderFresh
      <3>3. CASE x # made + 1
        <4>1. x <= made /\ hearing <= x /\ current' # x
          BY <1>2, <3>1, <3>3 DEF PlacesInv
        <4>2. Calm(x) /\ (Running(x)' => session[x].worker # 0 /\ session[x].reader = "reading")
          BY <3>1, <4>1 DEF Calm, HeardOf, Running
        <4> QED
          BY <1>1, <1>2, <2>2, <3>1, <4>1, <4>2, OrderCalm
      <3> QED
        BY <3>2, <3>3
    <2>5. CASE Drops
      BY <2>5 DEF Drops
    <2>6. ASSUME NEW s \in Session, OfSession(s)
          PROVE  OrderOf(x)'
      <3>1. made' = made /\ hearing <= hearing'
        <4>1. SameSequence \/ HeardToEnd(s) \/ Hearkens(s)
          BY <2>6 DEF OfSession, Returned, Broken, BrokenAtStart, Begins, BeginsAnew, Speaks,
                      SaysEnd, SaysCancel, TakesWord, TakesEnd, TakesError, Takes, TakesNothing
        <4> QED
          BY <4>1 DEF SameSequence, HeardToEnd, Hearkens, PlacesInv
      <3>2. x \in hearing .. made /\ OrderOf(x)
        BY <1>2, <2>2, <3>1 DEF PlacesInv
      <3>3. CASE x = s
        BY <2>1, <2>6, <3>2, <3>3, OrderOfItself
      <3>4. CASE x # s
        <4>1. Hearkens(s) => OrderOf(s)
          <5>1. Hearkens(s) => s = hearing
            BY DEF Hearkens
          <5> QED
            BY <2>1, <3>2, <5>1 DEF OrderInv, PlacesInv
        <4> QED
          BY <1>2, <2>6, <3>2, <3>4, <4>1, OrderOfOthers
      <3> QED
        BY <3>3, <3>4
    <2>7. CASE OfProcess
      <3>1. UNCHANGED <<made, hearing>>
        BY <2>7 DEF OfProcess, Accepts, Refuses, Sounds, Ends, Ignores, Stops, Rests, Raises, Dies,
                    Serves, Works, SameSequence
      <3>2. OrderOf(x)
        BY <1>2, <2>2, <3>1 DEF PlacesInv
      <3>3. Holder
        BY HolderIn DEF EndInv
      <3> QED
        BY <1>1, <1>2, <2>7, <3>2, <3>3, OrderOfProcess
    <2> QED
      BY <1>4, <2>3, <2>4, <2>5, <2>6, <2>7 DEF Kinds
  <1> QED
    BY <1>3, <1>4

-----------------------------------------------------------------------------
(* The words that are said are not taken back: a finalized session gets no *)
(* more, and no session loses one.                                         *)
LEMMA FinalizedSent ==
  ASSUME Shape, Leases, Kinds, NEW x \in Session, session[x].finalized
  PROVE  session'[x].sent = session[x].sent
  <1>1. CASE Idle \/ LeaseMoves \/ Opens \/ OfProcess
    BY <1>1 DEF Idle, LeaseMoves, Opens, SameSessions, OfProcess, Accepts, Refuses, Sounds,
                Ends, Ignores, Stops, Rests, Raises, Dies, Serves, Works
  <1>2. CASE StartGeneration
    BY <1>2, NewGenerationFields
  <1>3. CASE Drops
    BY <1>3 DEF Drops
  <1>4. ASSUME NEW s \in Session, OfSession(s)
        PROVE  session'[x].sent = session[x].sent
    <2>1. CASE x = s
      <3>1. session[s].worker = 0
        BY <2>1 DEF Leases
      <3>2. ~Speaks(s)
        BY <3>1 DEF Speaks, Reachable, Shape
      <3>3. \A c \in Child : ~Begins(s, c) /\ ~BeginsAnew(s, c) /\ ~BrokenAtStart(s, c)
        BY <2>1 DEF Begins, BeginsAnew, BrokenAtStart, Unserved
      <3>4. \/ Returned(s) \/ HeardToEnd(s)
            \/ \E t \in Child \cup {"watchdog", "generation"} : Broken(s, t)
            \/ SaysEnd(s) \/ SaysCancel(s) \/ Hearkens(s)
            \/ TakesWord(s) \/ TakesEnd(s) \/ TakesError(s) \/ TakesNothing(s)
        BY <1>4, <3>2, <3>3 DEF OfSession
      <3>5. \A t \in Child \cup {"watchdog", "generation"} :
              Broken(s, t) => session'[s].sent = session[s].sent
        BY DEF Broken, Fails
      <3>6. CASE Returned(s) \/ HeardToEnd(s)
        BY <2>1, <3>6 DEF Returned, HeardToEnd, Releases
      <3>7. CASE SaysEnd(s) \/ SaysCancel(s) \/ Hearkens(s) \/ TakesWord(s) \/ TakesEnd(s)
                   \/ TakesError(s) \/ TakesNothing(s)
        BY <2>1, <3>7 DEF SaysEnd, SaysCancel, Hearkens, TakesWord, TakesEnd, TakesError, Takes,
                          TakesNothing, SameBut
      <3> QED
        BY <2>1, <3>4, <3>5, <3>6, <3>7
    <2>2. CASE x # s
      <3>1. Others(s)
        BY <1>4 DEF OfSession, Returned, HeardToEnd, Broken, BrokenAtStart, Begins, BeginsAnew,
                    Speaks, SaysEnd, SaysCancel, Hearkens, TakesWord, TakesEnd, TakesError, Takes,
                    TakesNothing, SameBut, Releases, Fails, FailsAtStart, Started, WordSent
      <3> QED
        BY <2>2, <3>1 DEF Others
    <2> QED
      BY <2>1, <2>2
  <1> QED
    BY <1>1, <1>2, <1>3, <1>4 DEF Kinds

LEMMA SentGrows ==
  ASSUME Shape, Records, Records', Kinds
  PROVE  \A x \in Session : /\ session[x].sent \in Nat /\ session'[x].sent \in Nat
                            /\ session[x].sent <= session'[x].sent
  BY SentMoves DEF Records

(* Where the sequence goes.                                                *)
LEMMA SequenceMoves ==
  ASSUME Kinds
  PROVE  \/ StartGeneration
         \/ Opens
         \/ /\ UNCHANGED <<base, made>>
            /\ \/ UNCHANGED <<hearing, heard>>
               \/ \E s \in Session : Hearkens(s) \/ HeardToEnd(s)
            /\ current' = current \/ \E s \in Session : SaysEnd(s)
  <1>1. CASE Idle \/ LeaseMoves \/ Drops \/ OfProcess
    BY <1>1 DEF Idle, LeaseMoves, Drops, OfProcess, Accepts, Refuses, Sounds, Ends, Ignores, Stops,
                Rests, Raises, Dies, Serves, Works, SameSequence
  <1>2. ASSUME NEW s \in Session, OfSession(s)
        PROVE  /\ UNCHANGED <<base, made>>
               /\ UNCHANGED <<hearing, heard>> \/ Hearkens(s) \/ HeardToEnd(s)
               /\ current' = current \/ SaysEnd(s)
    <2>1. CASE HeardToEnd(s) \/ Hearkens(s) \/ SaysEnd(s)
      BY <2>1 DEF HeardToEnd, Hearkens, SaysEnd, SameSequence
    <2>2. CASE ~(HeardToEnd(s) \/ Hearkens(s) \/ SaysEnd(s))
      <3>1. SameSequence /\ UNCHANGED current
        BY <1>2, <2>2 DEF OfSession, Returned, Broken, BrokenAtStart, Begins, BeginsAnew, Speaks,
                          SaysCancel, TakesWord, TakesEnd, TakesError, Takes, TakesNothing
      <3> QED
        BY <3>1 DEF SameSequence
    <2> QED
      BY <2>1, <2>2
  <1> QED
    BY <1>1, <1>2 DEF Kinds

(* Only the session that is written to may still have no words.            *)
LEMMA WordedStep ==
  ASSUME Shape, PlacesInv, PlacesInv', Records, Records', Worded, Kinds
  PROVE  Worded'
  <1> SUFFICES ASSUME NEW x \in base' + 1 .. made', x # current'
               PROVE  session'[x].sent > 0
    BY DEF Worded
  <1>0. base' \in {base, made} /\ base \in Nat /\ made \in Nat
    <2>1. StartGeneration => base' = made
      BY NewGenerationFields
    <2> QED
      BY <2>1, SequenceMoves DEF Opens, PlacesInv
  <1>1. x \in Session /\ x \in Nat
    <2>1. ASSUME NEW b \in Nat, x \in b + 1 .. made', made' \in 0 .. MaxSessions
          PROVE  x \in Session /\ x \in Nat
      BY <2>1, SynthesisAssumption DEF Session
    <2> QED
      BY <1>0, <2>1 DEF PlacesInv
  <1>2. /\ session[x].sent \in Nat /\ session'[x].sent \in Nat
        /\ session[x].sent <= session'[x].sent
    BY <1>1, SentGrows
  <1>3. CASE StartGeneration
    <2>1. base' = made /\ made' = made /\ made \in Nat
      BY <1>3, NewGenerationFields DEF PlacesInv
    <2> QED
      BY <1>1, <2>1
  <1>4. CASE Opens
    <2>1. base' = base /\ current = 0 /\ made' = made + 1 /\ current' = made + 1
      BY <1>4 DEF Opens
    <2>2. x \in base + 1 .. made /\ x # current
      BY <1>1, <2>1 DEF PlacesInv
    <2> QED
      BY <1>2, <2>2 DEF Worded
  <1>5. CASE UNCHANGED <<base, made>> /\ (current' = current \/ \E s \in Session : SaysEnd(s))
    <2>1. x \in base + 1 .. made
      BY <1>5
    <2>2. CASE x # current
      BY <1>2, <2>1, <2>2 DEF Worded
    <2>3. CASE x = current
      BY <1>2, <1>5, <2>3 DEF SaysEnd
    <2> QED
      BY <2>2, <2>3
  <1> QED
    BY <1>3, <1>4, <1>5, SequenceMoves

(* What was said of the sessions that were heard stays as it is.           *)
Kept ==
  /\ base' = base /\ base \in Nat /\ hearing \in Nat
  /\ \A x \in base + 1 .. hearing - 1 : session'[x].sent = session[x].sent
  /\ Written \subseteq Written'

LEMMA KeptWhen ==
  ASSUME Shape, PlacesInv, LeaseInv, EndInv, Records, Records', Kinds, ~StartGeneration
  PROVE  Kept
  <1>1. base' = base /\ made \in Nat /\ (made' = made \/ made' = made + 1)
    BY SequenceMoves DEF Opens, PlacesInv
  <1>2. base \in Nat /\ hearing \in Nat /\ base + 1 .. hearing - 1 \subseteq Session
    BY SynthesisAssumption DEF PlacesInv, Session
  <1>3. ASSUME NEW x \in base + 1 .. hearing - 1
        PROVE  session'[x].sent = session[x].sent
    <2>1. x \in Session /\ session[x].finalized
      BY <1>2 DEF EndInv, AnswerEnds
    <2> QED
      BY <2>1, FinalizedSent DEF LeaseInv
  <1>4. ASSUME NEW h \in Written
        PROVE  h \in Written'
    <2>1. /\ h \in (1 .. made) \X (1 .. MaxWords) /\ h[2] <= session[h[1]].sent
      BY DEF Written
    <2>2. h[1] \in Session /\ h[2] \in Nat
      BY <2>1, SynthesisAssumption DEF PlacesInv, Session
    <2>3. h[2] <= session'[h[1]].sent
      BY <2>1, <2>2, SentGrows
    <2>4. 1 .. made \subseteq 1 .. made'
      BY <1>1
    <2> QED
      BY <2>1, <2>3, <2>4 DEF Written
  <1> QED
    BY <1>1, <1>2, <1>3, <1>4 DEF Kept

LEMMA HeardEntryKept ==
  ASSUME Pipes, HeardWell, Kept, NEW i \in 1 .. Len(heard), heard'[i] = heard[i],
         i > 1 => heard'[i - 1] = heard[i - 1]
  PROVE  heard'[i] \in Written' /\ HeardAfter(heard[i], i)'
  <1>1. /\ heard[i] \in Written /\ heard[i][1] \in base + 1 .. hearing
        /\ HeardAfter(heard[i], i)
    BY DEF HeardWell
  <1>2. heard'[i] \in Written'
    BY <1>1 DEF Kept
  <1>3. CASE heard[i][2] > 1
    BY <1>1, <1>2, <1>3 DEF HeardAfter
  <1>4. CASE ~(heard[i][2] > 1) /\ i = 1
    BY <1>1, <1>2, <1>4 DEF HeardAfter, Kept
  <1>5. CASE ~(heard[i][2] > 1) /\ i # 1
    <2> DEFINE x == heard[i][1] - 1
    <2>1. i - 1 \in 1 .. Len(heard) /\ heard[i - 1] = <<x, session[x].sent>>
      BY <1>1, <1>5 DEF HeardAfter, Pipes
    <2>2. heard[i - 1][1] \in base + 1 .. hearing
      BY <2>1 DEF HeardWell
    <2>3. x \in base + 1 .. hearing - 1
      BY <1>1, <2>1, <2>2 DEF Kept
    <2>4. session'[x].sent = session[x].sent
      BY <2>3 DEF Kept
    <2>5. heard'[i - 1] = <<heard'[i][1] - 1, session'[heard'[i][1] - 1].sent>>
      BY <2>1, <2>4, <1>5
    <2> QED
      BY <1>2, <1>5, <2>5 DEF HeardAfter
  <1> QED
    BY <1>2, <1>3, <1>4, <1>5

(* A step that is neither heard nor the end of a session.                  *)
LEMMA HeardKept ==
  ASSUME Pipes, PlacesInv, HeardInv, Kept, UNCHANGED <<hearing, heard>>
  PROVE  HeardInv'
  <1>1. base' = base /\ HeardWell /\ HeardLast /\ HeardAll
    BY DEF Kept, HeardInv
  <1>2. HeardWell'
    <2> SUFFICES ASSUME NEW i \in 1 .. Len(heard')
                 PROVE  /\ heard'[i] \in Written'
                        /\ heard'[i][1] \in base' + 1 .. hearing'
                        /\ HeardAfter(heard[i], i)'
      BY DEF HeardWell
    <2>1. i \in 1 .. Len(heard) /\ heard[i][1] \in base + 1 .. hearing
      BY <1>1 DEF HeardWell
    <2> QED
      BY <1>1, <2>1, HeardEntryKept
  <1>3. HeardLast'
    <2>1. CASE heard = <<>>
      BY <1>1, <2>1 DEF HeardLast
    <2>2. CASE heard # <<>> /\ heard[Len(heard)][1] = hearing
      BY <1>1, <2>2 DEF HeardLast
    <2>3. CASE heard # <<>> /\ heard[Len(heard)] = <<hearing - 1, session[hearing - 1].sent>>
      <3>1. Len(heard) \in 1 .. Len(heard)
        BY <2>3 DEF Pipes
      <3>2. heard[Len(heard)][1] \in base + 1 .. hearing
        BY <1>1, <3>1 DEF HeardWell
      <3>3. hearing - 1 \in base + 1 .. hearing - 1
        BY <2>3, <3>2 DEF Kept
      <3>4. session'[hearing - 1].sent = session[hearing - 1].sent
        BY <3>3 DEF Kept
      <3> QED
        BY <1>1, <2>3, <3>4 DEF HeardLast
    <2> QED
      BY <1>1, <2>1, <2>2, <2>3 DEF HeardLast
  <1>4. HeardAll'
    <2> SUFFICES ASSUME NEW x \in base' + 1 .. hearing',
                        NEW w \in 1 .. IF x < hearing' THEN session'[x].sent ELSE HeardOf(x)'
                 PROVE  \E i \in 1 .. Len(heard') : heard'[i] = <<x, w>>
      BY DEF HeardAll
    <2>1. x \in base + 1 .. hearing /\ HeardOf(x)' = HeardOf(x)
      BY <1>1 DEF HeardOf
    <2>2. x < hearing => session'[x].sent = session[x].sent
      BY <2>1 DEF Kept
    <2>3. w \in 1 .. IF x < hearing THEN session[x].sent ELSE HeardOf(x)
      BY <2>1, <2>2
    <2> QED
      BY <1>1, <2>1, <2>3 DEF HeardAll
  <1> QED
    BY <1>2, <1>3, <1>4 DEF HeardInv

(* Another answer.                                                         *)
LEMMA HeardNew ==
  ASSUME Shape, PlacesInv, StartGeneration
  PROVE  HeardInv'
  <1>1. /\ heard' = <<>> /\ base' = made /\ hearing' = made + 1 /\ made \in Nat
    BY NewGenerationFields DEF PlacesInv
  <1>2. HeardWell'
    BY <1>1 DEF HeardWell
  <1>3. HeardLast'
    BY <1>1 DEF HeardLast
  <1>4. HeardAll'
    <2> SUFFICES ASSUME NEW x \in base' + 1 .. hearing',
                        NEW w \in 1 .. IF x < hearing' THEN session'[x].sent ELSE HeardOf(x)'
                 PROVE  FALSE
      BY DEF HeardAll
    <2>1. ~(x < hearing') /\ HeardOf(x)' = 0
      BY <1>1 DEF HeardOf
    <2> QED
      BY <2>1
  <1> QED
    BY <1>2, <1>3, <1>4 DEF HeardInv

(* What HeardOf is, when a session was heard or not.                       *)
LEMMA HeardOfIs ==
  ASSUME Pipes, NEW x \in Nat
  PROVE  /\ Len(heard) \in Nat /\ (heard # <<>> => Len(heard) \in 1 .. Len(heard))
         /\ HeardOf(x) \in Nat
         /\ HeardOf(x) > 0 => heard # <<>> /\ heard[Len(heard)] = <<x, HeardOf(x)>>
         /\ HeardOf(x) = 0 => heard = <<>> \/ heard[Len(heard)][1] # x
  <1>1. /\ Len(heard) \in Nat /\ (heard # <<>> => Len(heard) \in 1 .. Len(heard))
    BY DEF Pipes
  <1>2. CASE heard # <<>>
    <2>1. heard[Len(heard)] \in Session \X Words
      BY <1>1, <1>2 DEF Pipes
    <2>2. PICK y \in Session, w \in Words : heard[Len(heard)] = <<y, w>>
      BY <2>1
    <2>3. heard[Len(heard)][1] = y /\ heard[Len(heard)][2] = w /\ w \in Nat /\ w > 0
      BY <2>2 DEF Words
    <2> QED
      BY <1>1, <1>2, <2>2, <2>3 DEF HeardOf
  <1> QED
    BY <1>1, <1>2 DEF HeardOf

(* The session that is listened to has words queued: it was made.          *)
LEMMA HearkensTo ==
  ASSUME PlacesInv, LeaseInv, EndInv, TypesInv, NEW s \in Session, Hearkens(s)
  PROVE  s = hearing /\ s \in hearing .. made
  <1>1. s = hearing /\ session[s].output # <<>> /\ s \in Nat /\ s # 0
    BY DEF Hearkens, Session
  <1>2. CASE session[s].finalized
    BY <1>1, <1>2 DEF TypesInv, Unstarted, PlacesInv
  <1>3. CASE session[s].worker # 0
    BY <1>1, <1>3 DEF LeaseInv, Leases, EndInv, EndPlaces, PlacesInv
  <1> QED
    BY <1>1, <1>2, <1>3 DEF TypesInv, Unstarted

(* The next word of the session.                                           *)
LEMMA HeardMore ==
  ASSUME Shape, PlacesInv, LeaseInv, EndInv, TypesInv, OrderInv, HeardInv, Kept,
         NEW s \in Session, Hearkens(s)
  PROVE  HeardInv'
  <1>1. Records /\ Pipes /\ HeardWell /\ HeardLast /\ HeardAll /\ EndPlaces
    BY DEF TypesInv, HeardInv, EndInv
  <1>2. /\ s = hearing /\ s \in hearing .. made
    BY HearkensTo
  <1>3. OrderOf(s) /\ hearing' = hearing /\ base' = base
    BY <1>2 DEF OrderInv, Hearkens
  <1> DEFINE k == HeardOf(s)
             n == Len(heard)
  <1>4. /\ heard' = Append(heard, <<s, k + 1>>) /\ HeardOf(s)' = k + 1
        /\ k + 1 <= session[s].sent
    BY <1>1, <1>3, OrderHeard
  <1>5. /\ n \in Nat /\ k \in Nat /\ base \in Nat /\ s \in Nat
        /\ base < s /\ s <= made /\ made \in Nat
    BY <1>1, <1>2, HeardOfIs DEF EndPlaces, PlacesInv, Session
  <1>6. /\ heard' # <<>> /\ Len(heard') = n + 1 /\ heard'[n + 1] = <<s, k + 1>>
        /\ \A i \in 1 .. n : heard'[i] = heard[i]
    BY <1>1, <1>4 DEF Pipes
  <1> HIDE DEF k, n
  <1>7. HeardWell'
    <2> SUFFICES ASSUME NEW i \in 1 .. n + 1
                 PROVE  /\ heard'[i] \in Written'
                        /\ heard'[i][1] \in base' + 1 .. hearing'
                        /\ HeardAfter(heard[i], i)'
      BY <1>6 DEF HeardWell
    <2>1. CASE i \in 1 .. n
      <3>1. heard'[i] = heard[i] /\ (i > 1 => heard'[i - 1] = heard[i - 1])
        BY <1>5, <1>6, <2>1
      <3>2. heard[i][1] \in base + 1 .. hearing
        BY <1>1, <2>1 DEF HeardWell, n
      <3>3. heard'[i] \in Written' /\ HeardAfter(heard[i], i)'
        BY <1>1, <2>1, <3>1, HeardEntryKept DEF n
      <3> QED
        BY <1>3, <3>1, <3>2, <3>3
    <2>2. CASE i = n + 1
      <3>1. <<s, k + 1>> \in Written
        <4>1. k + 1 \in 1 .. MaxWords
          BY <1>1, <1>4, <1>5, SynthesisAssumption DEF Records
        <4>2. s \in 1 .. made
          BY <1>5
        <4> DEFINE h == <<s, k + 1>>
        <4>3. h \in (1 .. made) \X (1 .. MaxWords) /\ h[1] = s /\ h[2] = k + 1
          BY <4>1, <4>2
        <4>4. h[2] <= session[h[1]].sent
          BY <1>4, <4>3
        <4> HIDE DEF h
        <4>5. h \in Written
          BY <4>3, <4>4 DEF Written
        <4> QED
          BY <4>5 DEF h
      <3>2. heard'[i] = <<s, k + 1>> /\ heard'[i][1] = s /\ heard'[i][2] = k + 1
        BY <1>6, <2>2
      <3>3. heard'[i] \in Written'
        BY <3>1, <3>2 DEF Kept
      <3>4. heard'[i][1] \in base' + 1 .. hearing'
        BY <1>2, <1>3, <1>5, <3>2
      <3>5. n > 0 => n \in 1 .. n /\ i - 1 = n /\ heard'[n] = heard[n] /\ heard # <<>>
        BY <1>1, <1>5, <1>6, <2>2 DEF n, Pipes
      <3>6. CASE k > 0
        <4>1. heard # <<>> /\ heard[n] = <<s, k>> /\ n > 0
          <5>1. heard # <<>> /\ heard[Len(heard)] = <<s, HeardOf(s)>>
            BY <1>1, <1>5, <3>6, HeardOfIs DEF k
          <5>2. Len(heard) > 0
            BY <1>1, <5>1 DEF Pipes
          <5> QED
            BY <5>1, <5>2 DEF n, k
        <4>2. i > 1 /\ heard'[i - 1] = <<s, k>>
          BY <1>5, <2>2, <3>5, <4>1
        <4>3. heard'[i][2] > 1 /\ heard'[i - 1] = <<heard'[i][1], heard'[i][2] - 1>>
          BY <1>5, <3>2, <3>6, <4>2
        <4> QED
          BY <3>3, <3>4, <4>2, <4>3 DEF HeardAfter
      <3>7. CASE k = 0
        <4>1. heard = <<>> \/ heard[n][1] # s
          BY <1>1, <1>5, <3>7, HeardOfIs DEF n, k
        <4>2. ~(heard'[i][2] > 1)
          BY <3>2, <3>7
        <4>3. CASE heard = <<>>
          <5>1. i = 1 /\ s = base + 1
            BY <1>1, <1>2, <2>2, <4>3 DEF HeardLast, n
          <5>2. heard'[i][1] = base' + 1
            BY <1>3, <3>2, <5>1
          <5> QED
            BY <3>3, <3>4, <4>2, <5>1, <5>2 DEF HeardAfter
        <4>4. CASE heard # <<>>
          <5>1. n > 0 /\ heard[n] = <<s - 1, session[s - 1].sent>>
            BY <1>1, <1>2, <1>5, <4>1, <4>4 DEF HeardLast, n, Pipes
          <5>2. heard[n][1] \in base + 1 .. hearing
            BY <1>1, <3>5, <5>1 DEF HeardWell, n
          <5>3. s - 1 \in base + 1 .. hearing - 1
            BY <1>2, <1>5, <5>1, <5>2
          <5>4. session'[s - 1].sent = session[s - 1].sent
            BY <5>3 DEF Kept
          <5>5. i # 1 /\ heard'[i - 1] = <<s - 1, session'[s - 1].sent>>
            BY <1>5, <2>2, <3>5, <5>1, <5>4
          <5>6. heard'[i - 1] = <<heard'[i][1] - 1, session'[heard'[i][1] - 1].sent>>
            BY <3>2, <5>5
          <5> QED
            BY <3>3, <3>4, <4>2, <5>5, <5>6 DEF HeardAfter
        <4> QED
          BY <4>3, <4>4
      <3> QED
        BY <1>5, <3>6, <3>7
    <2> QED
      BY <1>5, <2>1, <2>2
  <1>8. HeardLast'
    BY <1>2, <1>3, <1>6 DEF HeardLast
  <1>9. HeardAll'
    <2> SUFFICES ASSUME NEW x \in base' + 1 .. hearing',
                        NEW w \in 1 .. IF x < hearing' THEN session'[x].sent ELSE HeardOf(x)'
                 PROVE  \E i \in 1 .. n + 1 : heard'[i] = <<x, w>>
      BY <1>6 DEF HeardAll
    <2>1. x \in base + 1 .. hearing
      BY <1>3
    <2>2. CASE x < hearing
      <3>1. session'[x].sent = session[x].sent
        BY <1>2, <1>5, <2>1, <2>2 DEF Kept
      <3>2. w \in 1 .. IF x < hearing THEN session[x].sent ELSE HeardOf(x)
        BY <1>3, <2>2, <3>1
      <3>3. PICK i \in 1 .. n : heard[i] = <<x, w>>
        BY <1>1, <2>1, <3>2 DEF HeardAll, n
      <3> QED
        BY <1>5, <1>6, <3>3
    <2>3. CASE ~(x < hearing)
      <3>1. x = s
        BY <1>2, <1>5, <2>1, <2>3
      <3>2. w \in 1 .. k + 1
        <4>1. ~(x < hearing') /\ HeardOf(x)' = k + 1
          BY <1>3, <1>4, <2>3, <3>1
        <4> QED
          BY <4>1
      <3>3. CASE w = k + 1
        BY <1>5, <1>6, <3>1, <3>3
      <3>4. CASE w # k + 1
        <4>1. w \in 1 .. IF x < hearing THEN session[x].sent ELSE HeardOf(x)
          BY <1>5, <2>3, <3>1, <3>2, <3>4 DEF k
        <4>2. PICK i \in 1 .. n : heard[i] = <<x, w>>
          BY <1>1, <2>1, <4>1 DEF HeardAll, n
        <4> QED
          BY <1>5, <1>6, <4>2
      <3> QED
        BY <3>3, <3>4
    <2> QED
      BY <2>2, <2>3
  <1> QED
    BY <1>7, <1>8, <1>9 DEF HeardInv

(* The end of the session comes when all its words were heard.             *)
LEMMA HeardComplete ==
  ASSUME Shape, PlacesInv, LeaseInv, EndInv, TypesInv, OrderInv, Worded, HeardInv, Kept,
         NEW s \in Session, HeardToEnd(s)
  PROVE  HeardInv'
  <1>1. Records /\ Pipes /\ HeardWell /\ HeardLast /\ HeardAll /\ EndPlaces
    BY DEF TypesInv, HeardInv, EndInv
  <1>2. /\ s = hearing /\ UNCHANGED <<base, made, heard>> /\ hearing' = hearing + 1
        /\ session[s].worker # 0 /\ session[s].output # <<>>
        /\ Head(session[s].output).is = "end" /\ Listening
        /\ session'[s].sent = session[s].sent
    BY DEF HeardToEnd, Releases
  <1>3. s \in Nat /\ s \in hearing .. made /\ base < s /\ base \in Nat /\ s \in base + 1 .. made
    BY <1>1, <1>2 DEF LeaseInv, Leases, EndPlaces, PlacesInv, Session
  <1>4. OrderOf(s)
    BY <1>2, <1>3 DEF OrderInv
  <1>5. HeardOf(s) = session[s].sent /\ current # s
    <2>1. InLine(session[s].output, s, HeardOf(s), session[s].sent, current)
      BY <1>4 DEF OrderOf, QueueOrder
    <2>2. /\ session[s].output \in Seq(Items) /\ HeardOf(s) \in Nat /\ session[s].sent \in Nat
      BY <1>1, OrderTypes
    <2> QED
      BY <1>2, <2>1, <2>2, InLineHead
  <1>6. session[s].sent > 0
    BY <1>3, <1>5 DEF Worded
  <1>7. /\ heard # <<>> /\ heard[Len(heard)] = <<s, session[s].sent>>
    BY <1>1, <1>3, <1>5, <1>6, HeardOfIs
  <1>8. HeardWell'
    <2> SUFFICES ASSUME NEW i \in 1 .. Len(heard')
                 PROVE  /\ heard'[i] \in Written'
                        /\ heard'[i][1] \in base' + 1 .. hearing'
                        /\ HeardAfter(heard[i], i)'
      BY DEF HeardWell
    <2>1. i \in 1 .. Len(heard) /\ heard[i][1] \in base + 1 .. hearing /\ heard'[i] = heard[i]
      BY <1>1, <1>2 DEF HeardWell
    <2>2. heard'[i] \in Written' /\ HeardAfter(heard[i], i)'
      BY <1>1, <1>2, <2>1, HeardEntryKept
    <2>3. heard'[i][1] \in base' + 1 .. hearing'
      BY <1>2, <1>3, <2>1
    <2> QED
      BY <2>2, <2>3
  <1>9. HeardLast'
    <2>1. hearing' - 1 = s
      BY <1>2, <1>3
    <2>2. heard'[Len(heard')] = <<hearing' - 1, session'[hearing' - 1].sent>>
      BY <1>2, <1>7, <2>1
    <2> QED
      BY <1>2, <1>7, <2>2 DEF HeardLast
  <1>10. HeardAll'
    <2> SUFFICES ASSUME NEW x \in base' + 1 .. hearing',
                        NEW w \in 1 .. IF x < hearing' THEN session'[x].sent ELSE HeardOf(x)'
                 PROVE  \E i \in 1 .. Len(heard) : heard[i] = <<x, w>>
      BY <1>2 DEF HeardAll
    <2>1. x \in base + 1 .. s + 1
      BY <1>2
    <2>2. CASE x < s
      <3>1. session'[x].sent = session[x].sent
        BY <1>2, <1>3, <2>1, <2>2 DEF Kept
      <3>2. x < hearing' /\ x < hearing /\ x \in base + 1 .. hearing
        BY <1>2, <1>3, <2>1, <2>2
      <3>3. w \in 1 .. IF x < hearing THEN session[x].sent ELSE HeardOf(x)
        BY <3>1, <3>2
      <3> QED
        BY <1>1, <3>2, <3>3 DEF HeardAll
    <2>3. CASE x = s
      <3>1. x < hearing' /\ ~(x < hearing) /\ x \in base + 1 .. hearing
        BY <1>2, <1>3, <2>3
      <3>2. w \in 1 .. IF x < hearing THEN session[x].sent ELSE HeardOf(x)
        BY <1>2, <1>5, <2>3, <3>1
      <3> QED
        BY <1>1, <3>1, <3>2 DEF HeardAll
    <2>4. CASE x > s
      <3>1. ~(x < hearing') /\ HeardOf(x)' = 0
        BY <1>2, <1>3, <1>7, <2>1, <2>4 DEF HeardOf
      <3> QED
        BY <3>1
    <2> QED
      BY <1>3, <2>1, <2>2, <2>3, <2>4
  <1> QED
    BY <1>8, <1>9, <1>10 DEF HeardInv

LEMMA HeardStep ==
  ASSUME Shape, PlacesInv, LeaseInv, EndInv, TypesInv, Records', OrderInv, Worded, HeardInv,
         Kinds
  PROVE  HeardInv'
  <1>1. Records /\ Pipes
    BY DEF TypesInv
  <1>2. CASE StartGeneration
    BY <1>2, HeardNew
  <1>3. CASE ~StartGeneration
    <2>1. Kept
      BY <1>1, <1>3, KeptWhen
    <2>2. CASE Opens \/ UNCHANGED <<hearing, heard>>
      <3>1. UNCHANGED <<hearing, heard>>
        BY <2>2 DEF Opens
      <3> QED
        BY <1>1, <2>1, <3>1, HeardKept
    <2>3. ASSUME NEW s \in Session, Hearkens(s)
          PROVE  HeardInv'
      BY <2>1, <2>3, HeardMore
    <2>4. ASSUME NEW s \in Session, HeardToEnd(s)
          PROVE  HeardInv'
      BY <2>1, <2>4, HeardComplete
    <2> QED
      BY <1>3, <2>2, <2>3, <2>4, SequenceMoves
  <1> QED
    BY <1>2, <1>3

-----------------------------------------------------------------------------
SpeechInv == StreamInv /\ OrderInv /\ Worded /\ HeardInv

LEMMA InitSpeech == Init => SpeechInv
  <1> SUFFICES ASSUME Init
               PROVE  SpeechInv
    OBVIOUS
  <1>1. StreamInv
    BY InitStream
  <1>2. OrderInv
    BY DEF Init, OrderInv, Listening
  <1>3. Worded
    BY DEF Init, Worded
  <1>4. HeardInv
    BY DEF Init, HeardInv, HeardWell, HeardLast, HeardAll, HeardOf
  <1> QED
    BY <1>1, <1>2, <1>3, <1>4 DEF SpeechInv

LEMMA SpeechStep ==
  ASSUME SpeechInv, [Next]_vars
  PROVE  SpeechInv'
  <1>1. StreamInv' /\ Kinds /\ Moves
    BY StreamStep DEF SpeechInv
  <1>2. /\ Shape /\ PlacesInv /\ LeaseInv /\ EndInv /\ TypesInv /\ PipeInv
        /\ HeardWell /\ Records
    BY DEF SpeechInv, StreamInv, SynthesisInv, HeardInv, TypesInv
  <1>3. PlacesInv' /\ Records'
    BY <1>1 DEF StreamInv, SynthesisInv, TypesInv
  <1>4. OrderInv'
    BY <1>1, <1>2, <1>3, OrderStep DEF SpeechInv
  <1>5. Worded'
    BY <1>1, <1>2, <1>3, WordedStep DEF SpeechInv
  <1>6. HeardInv'
    BY <1>1, <1>2, <1>3, HeardStep DEF SpeechInv
  <1> QED
    BY <1>1, <1>4, <1>5, <1>6 DEF SpeechInv

(* In every reachable state the words of an answer are in their order and  *)
(* each is in one place: heard, in the output queue of its session, in the *)
(* event pipe or in the command pipe.                                      *)
THEOREM SpeechHolds == Spec => []SpeechInv
  BY InitSpeech, SpeechStep, PTL DEF Spec

LEMMA SpokenWhen ==
  ASSUME SpeechInv
  PROVE  SpokenInOrder
  <1>1. /\ PlacesInv /\ EndPlaces /\ Records /\ Pipes /\ Spoken /\ HeardWell /\ HeardAll
    BY DEF SpeechInv, StreamInv, SynthesisInv, TypesInv, EndInv, HeardInv
  <1>2. ASSUME generation = "spoken", NEW h \in Written, h[1] > base
        PROVE  \E i \in 1 .. Len(heard) : heard[i] = h
    <2>1. hearing = made + 1
      BY <1>1, <1>2 DEF Spoken
    <2>2. PICK x \in 1 .. made, w \in 1 .. MaxWords : h = <<x, w>> /\ w <= session[x].sent
      <3>1. h \in (1 .. made) \X (1 .. MaxWords) /\ h[2] <= session[h[1]].sent
        BY DEF Written
      <3>2. PICK x \in 1 .. made, w \in 1 .. MaxWords : h = <<x, w>>
        BY <3>1
      <3>3. w <= session[x].sent
        BY <3>1, <3>2
      <3> QED
        BY <3>2, <3>3
    <2>3. x \in base + 1 .. hearing /\ x < hearing /\ x \in Session
      BY <1>1, <1>2, <2>1, <2>2, SynthesisAssumption DEF PlacesInv, Session
    <2>4. w \in 1 .. session[x].sent
      BY <1>1, <2>2, <2>3, SynthesisAssumption DEF Records
    <2>5. w \in 1 .. IF x < hearing THEN session[x].sent ELSE HeardOf(x)
      BY <2>3, <2>4
    <2>6. \E i \in 1 .. Len(heard) : heard[i] = <<x, w>>
      BY <1>1, <2>3, <2>5 DEF HeardAll
    <2> QED
      BY <2>2, <2>6
  <1>3. \A i \in 1 .. Len(heard) : heard[i] \in Written /\ HeardAfter(heard[i], i)
    BY <1>1 DEF HeardWell
  <1> QED
    BY <1>2, <1>3 DEF SpokenInOrder

(* What is heard are the words of the answer in their order, over all its  *)
(* sessions and without a gap, and all of them when it was spoken to its   *)
(* end (synthesis_sequence.py, audio; subprocess_tts.py, _read_output).    *)
THEOREM WordsInOrder == Spec => []SpokenInOrder
  <1>1. SpeechInv => SpokenInOrder
    BY SpokenWhen
  <1> QED
    BY <1>1, SpeechHolds, PTL
=============================================================================
