------------------------ MODULE PlaybackProtocol_proofs ------------------------
(***************************************************************************)
(* Proofs about PlaybackProtocol, for any number of answers, words and     *)
(* overlaps, any transport window and any clock interval: the types, that  *)
(* the controller's cursor trails what the browser has rendered and never  *)
(* goes back, and that the transport is bounded by its window.             *)
(*                                                                         *)
(* First the worklet: every method of the processor keeps Working, and all *)
(* but cancel and the rendering of a sample do no more than Moves allows.  *)
(* Then the inductive invariant Inv.  The cursor needs to know that the    *)
(* reports on their way come in the order of the cursor and none is ahead  *)
(* of the loudspeaker (UpInv).  That a completed answer was rendered whole *)
(* needs every word to arrive, in turn (ChainInv), and that needs to know  *)
(* that nothing of an answer is sent after its cancel (QuietInv).          *)
(***************************************************************************)
EXTENDS PlaybackProtocol, SequenceTheorems, TLAPS

(* The processor of the worklet with all its fields. *)
Worklet ==
  [gen : GenId \cup {NoGen}, state : PlaybackState, pos : 0 .. Samples,
   queue : 0 .. Samples, words : 0 .. Words, reported : 0 .. Words, clocked : Nat,
   gain : {"full", "ducked", "silent", "between"},
   ramp : {"none", "full", "ducked", "silent"},
   duck : Nat, pause : Nat, stop : Nat, resume : Nat, cancel : Nat,
   closed : BOOLEAN, ended : BOOLEAN, started : BOOLEAN, out : Seq(Message)]

(* The answer has neither completed nor been cancelled. *)
Live(v) == v.state \notin Terminal

Idx(q) == 1 .. Len(q)

(* Reports of one call, in the order of the cursor. *)
Posts(v) ==
  \A i \in Idx(v.out) :
    /\ v.out[i].gen = v.gen
    /\ rendered[v.gen] <= v.out[i].pos /\ v.out[i].pos <= v.pos
    /\ v.out[i].kind = "complete" => v.out[i].pos = Samples
    /\ \A j \in Idx(v.out) : i <= j => v.out[i].pos <= v.out[j].pos

(* What every method of the processor relies on and keeps. *)
Working(v) ==
  /\ v \in Worklet
  /\ v.gen # NoGen
  /\ rendered[v.gen] <= v.pos
  /\ v.pos + v.queue <= Samples
  /\ v.ended /\ Live(v) => v.pos + v.queue = Samples
  /\ v.resume # 0 => v.state = "RESUMING"
  /\ v.cancel # 0 => v.closed /\ v.state = "DUCKING"
  /\ Posts(v)

(* What the session sends: words, the end of an answer, commands. *)
WordMsg ==
  [kind : {"word"}, gen : GenId, action : {"none"}, seq : {0}, boundary : {0},
   word : 1 .. Words]

EndMsg ==
  [kind : {"end"}, gen : GenId, action : {"none"}, seq : {0}, boundary : {0},
   word : {0}]

CommandMsg ==
  [kind : {"command"}, gen : GenId, action : {"duck", "pause", "resume", "cancel"},
   seq : Nat \ {0}, boundary : Nat, word : {0}]

Sent == WordMsg \cup EndMsg \cup CommandMsg

Typed == rendered \in [GenId -> 0 .. Samples]

(* A call that leaves the cursor, and the queue unless it ends the answer. *)
Moves(v, u) ==
  /\ Working(u)
  /\ u.gen = v.gen /\ u.pos = v.pos
  /\ u.queue = v.queue \/ (u.queue = 0 /\ ~Live(u))
  /\ Live(u) => Live(v)
  /\ u.closed /\ Live(u) => v.closed /\ u.cancel = v.cancel

(* The lengths are numbers: a word is two samples. *)
LEMMA SamplesNat == Words \in Nat /\ Samples \in Nat /\ Samples = Words * 2 /\ WordLength = 2
  BY PlaybackAssumption DEF Samples, WordLength

(* A call that does nothing moves nothing. *)
LEMMA StaysPut ==
  ASSUME NEW v, Working(v)
  PROVE  Moves(v, v)
  BY DEF Moves

(* Calls made one after another move what each of them moves. *)
LEMMA MovesChain ==
  ASSUME NEW v, NEW u, NEW t, Moves(v, u), Moves(u, t)
  PROVE  Moves(v, t)
  BY DEF Moves

(* postMessage leaves the worklet as it is but for the message. *)
LEMMA PostMoves ==
  ASSUME NEW v, Working(v), NEW m \in Message, m.gen = v.gen, m.pos = v.pos,
         m.kind = "complete" => m.pos = Samples, Typed
  PROVE  Moves(v, Post(v, m))
<1> DEFINE o == Append(v.out, m)
           u == [v EXCEPT !.out = o]
<1>0. v \in Worklet /\ v.out \in Seq(Message) /\ v.gen \in GenId /\ v.pos \in 0 .. Samples
  BY DEF Working, Worklet
<1>1. o \in Seq(Message) /\ Len(o) = Len(v.out) + 1 /\ Len(v.out) \in Nat
      /\ (\A i \in Idx(v.out) : o[i] = v.out[i]) /\ o[Len(o)] = m
  BY <1>0 DEF Idx
<1>2. \A i \in Idx(o) : i \in Idx(v.out) \/ i = Len(o)
  BY <1>1 DEF Idx
<1>3. rendered[v.gen] <= v.pos /\ rendered[v.gen] \in Nat /\ v.pos \in Nat
  BY <1>0, SamplesNat DEF Working, Typed
<1> HIDE DEF o
<1>4. /\ u \in Worklet /\ u.out = o /\ u.gen = v.gen /\ u.pos = v.pos /\ u.state = v.state
      /\ u.queue = v.queue /\ u.ended = v.ended /\ u.resume = v.resume
      /\ u.cancel = v.cancel /\ u.closed = v.closed
  BY <1>0, <1>1 DEF Worklet
<1>5. \A i \in Idx(o) :
        /\ o[i].gen = v.gen
        /\ rendered[v.gen] <= o[i].pos /\ o[i].pos <= v.pos
        /\ o[i].kind = "complete" => o[i].pos = Samples
  BY <1>1, <1>2, <1>3 DEF Working, Posts
<1>6. \A i, j \in Idx(o) : i <= j => o[i].pos <= o[j].pos
  <2> SUFFICES ASSUME NEW i \in Idx(o), NEW j \in Idx(o), i <= j PROVE o[i].pos <= o[j].pos
    OBVIOUS
  <2>1. CASE j = Len(o)
    BY <1>1, <1>5, <2>1
  <2>2. CASE j # Len(o)
    <3>1. i \in Idx(v.out) /\ j \in Idx(v.out)
      BY <1>1, <1>2, <2>2 DEF Idx
    <3> QED
      BY <1>1, <3>1 DEF Working, Posts
  <2> QED
    BY <2>1, <2>2
<1>7. Posts(u)
  BY <1>4, <1>5, <1>6 DEF Posts
<1> HIDE DEF u
<1>8. Moves(v, u)
  BY <1>4, <1>7 DEF Moves, Working, Live
<1> QED
  BY <1>8 DEF u, o, Post

PostKind == {"started", "progress", "clock", "complete", "ack"}

(* A report of the worklet is a message of the socket. *)
LEMMA ReportIsMessage ==
  ASSUME NEW v, Working(v), NEW kind \in PostKind
  PROVE  /\ Report(kind, v) \in Message
         /\ Report(kind, v).gen = v.gen
         /\ Report(kind, v).pos = v.pos
         /\ Report(kind, v).kind = kind
<1>1. /\ v.gen \in GenId /\ v.pos \in 0 .. Samples
      /\ v.state \in PlaybackState /\ v.reported \in 0 .. Words
  BY DEF Working, Worklet
<1> QED
  BY <1>1 DEF Report, Message, PostKind

(* Posting a report moves nothing. *)
LEMMA ReportMoves ==
  ASSUME NEW v, Working(v), Typed, NEW kind \in PostKind,
         kind = "complete" => v.pos = Samples
  PROVE  Moves(v, Post(v, Report(kind, v)))
  BY ReportIsMessage, PostMoves

(* acknowledgeCommand moves nothing. *)
LEMMA AckMoves ==
  ASSUME NEW v, Working(v), NEW seq \in Nat, NEW rejected \in BOOLEAN, Typed
  PROVE  Moves(v, Acknowledge(v, seq, rejected))
<1> DEFINE r == Report("ack", v)
           m == [r EXCEPT !.seq = seq, !.rejected = rejected]
<1>1. r \in Message /\ r.gen = v.gen /\ r.pos = v.pos /\ r.kind = "ack"
  BY ReportIsMessage DEF PostKind
<1>2. m \in Message /\ m.gen = v.gen /\ m.pos = v.pos /\ m.kind = "ack"
  <2> HIDE DEF r
  <2> QED
    BY <1>1 DEF Message
<1>3. Moves(v, Post(v, m))
  <2> HIDE DEF m
  <2> QED
    BY <1>2, PostMoves
<1> QED
  BY <1>3 DEF Acknowledge

(* A call that leaves the cursor, the state and the posts alone. *)
LEMMA Frame ==
  ASSUME NEW v, Working(v), NEW u \in Worklet,
         u.gen = v.gen, u.pos = v.pos, u.queue = v.queue, u.state = v.state,
         u.closed = v.closed, u.cancel = v.cancel, u.out = v.out,
         u.ended \in {v.ended, FALSE}, u.resume \in {v.resume, 0}
  PROVE  Moves(v, u)
  BY DEF Moves, Working, Live, Posts

(* Writing a pending command, a counter, the gain or the ramp moves nothing. *)
LEMMA FieldMoves ==
  ASSUME NEW v, Working(v)
  PROVE  /\ \A x \in Nat : Moves(v, [v EXCEPT !.duck = x])
         /\ \A x \in Nat : Moves(v, [v EXCEPT !.pause = x])
         /\ \A x \in Nat : Moves(v, [v EXCEPT !.stop = x])
         /\ \A x \in Nat : Moves(v, [v EXCEPT !.clocked = x])
         /\ \A x \in 0 .. Words : Moves(v, [v EXCEPT !.words = x])
         /\ \A x \in 0 .. Words : Moves(v, [v EXCEPT !.reported = x])
         /\ \A x \in BOOLEAN : Moves(v, [v EXCEPT !.started = x])
         /\ \A x \in {FALSE} : Moves(v, [v EXCEPT !.ended = x])
         /\ \A x \in {0} : Moves(v, [v EXCEPT !.resume = x])
         /\ \A x \in {"full", "ducked", "silent", "between"} : Moves(v, [v EXCEPT !.gain = x])
         /\ \A x \in {"none", "full", "ducked", "silent"} : Moves(v, [v EXCEPT !.ramp = x])
<1>0. v \in Worklet
  BY DEF Working
<1>1. ASSUME NEW x \in Nat
      PROVE  Moves(v, [v EXCEPT !.duck = x])
  <2> DEFINE u == [v EXCEPT !.duck = x]
  <2>1. /\ u \in Worklet
        /\ u.gen = v.gen /\ u.pos = v.pos /\ u.queue = v.queue /\ u.state = v.state
        /\ u.closed = v.closed /\ u.cancel = v.cancel /\ u.out = v.out
        /\ u.ended \in {v.ended, FALSE} /\ u.resume \in {v.resume, 0}
    BY <1>0 DEF Worklet
  <2> HIDE DEF u
  <2>2. Moves(v, u)
    BY <2>1, Frame
  <2> QED
    BY <2>2 DEF u
<1>2. ASSUME NEW x \in Nat
      PROVE  Moves(v, [v EXCEPT !.pause = x])
  <2> DEFINE u == [v EXCEPT !.pause = x]
  <2>1. /\ u \in Worklet
        /\ u.gen = v.gen /\ u.pos = v.pos /\ u.queue = v.queue /\ u.state = v.state
        /\ u.closed = v.closed /\ u.cancel = v.cancel /\ u.out = v.out
        /\ u.ended \in {v.ended, FALSE} /\ u.resume \in {v.resume, 0}
    BY <1>0 DEF Worklet
  <2> HIDE DEF u
  <2>2. Moves(v, u)
    BY <2>1, Frame
  <2> QED
    BY <2>2 DEF u
<1>3. ASSUME NEW x \in Nat
      PROVE  Moves(v, [v EXCEPT !.stop = x])
  <2> DEFINE u == [v EXCEPT !.stop = x]
  <2>1. /\ u \in Worklet
        /\ u.gen = v.gen /\ u.pos = v.pos /\ u.queue = v.queue /\ u.state = v.state
        /\ u.closed = v.closed /\ u.cancel = v.cancel /\ u.out = v.out
        /\ u.ended \in {v.ended, FALSE} /\ u.resume \in {v.resume, 0}
    BY <1>0 DEF Worklet
  <2> HIDE DEF u
  <2>2. Moves(v, u)
    BY <2>1, Frame
  <2> QED
    BY <2>2 DEF u
<1>4. ASSUME NEW x \in Nat
      PROVE  Moves(v, [v EXCEPT !.clocked = x])
  <2> DEFINE u == [v EXCEPT !.clocked = x]
  <2>1. /\ u \in Worklet
        /\ u.gen = v.gen /\ u.pos = v.pos /\ u.queue = v.queue /\ u.state = v.state
        /\ u.closed = v.closed /\ u.cancel = v.cancel /\ u.out = v.out
        /\ u.ended \in {v.ended, FALSE} /\ u.resume \in {v.resume, 0}
    BY <1>0 DEF Worklet
  <2> HIDE DEF u
  <2>2. Moves(v, u)
    BY <2>1, Frame
  <2> QED
    BY <2>2 DEF u
<1>5. ASSUME NEW x \in 0 .. Words
      PROVE  Moves(v, [v EXCEPT !.words = x])
  <2> DEFINE u == [v EXCEPT !.words = x]
  <2>1. /\ u \in Worklet
        /\ u.gen = v.gen /\ u.pos = v.pos /\ u.queue = v.queue /\ u.state = v.state
        /\ u.closed = v.closed /\ u.cancel = v.cancel /\ u.out = v.out
        /\ u.ended \in {v.ended, FALSE} /\ u.resume \in {v.resume, 0}
    BY <1>0 DEF Worklet
  <2> HIDE DEF u
  <2>2. Moves(v, u)
    BY <2>1, Frame
  <2> QED
    BY <2>2 DEF u
<1>6. ASSUME NEW x \in 0 .. Words
      PROVE  Moves(v, [v EXCEPT !.reported = x])
  <2> DEFINE u == [v EXCEPT !.reported = x]
  <2>1. /\ u \in Worklet
        /\ u.gen = v.gen /\ u.pos = v.pos /\ u.queue = v.queue /\ u.state = v.state
        /\ u.closed = v.closed /\ u.cancel = v.cancel /\ u.out = v.out
        /\ u.ended \in {v.ended, FALSE} /\ u.resume \in {v.resume, 0}
    BY <1>0 DEF Worklet
  <2> HIDE DEF u
  <2>2. Moves(v, u)
    BY <2>1, Frame
  <2> QED
    BY <2>2 DEF u
<1>7. ASSUME NEW x \in BOOLEAN
      PROVE  Moves(v, [v EXCEPT !.started = x])
  <2> DEFINE u == [v EXCEPT !.started = x]
  <2>1. /\ u \in Worklet
        /\ u.gen = v.gen /\ u.pos = v.pos /\ u.queue = v.queue /\ u.state = v.state
        /\ u.closed = v.closed /\ u.cancel = v.cancel /\ u.out = v.out
        /\ u.ended \in {v.ended, FALSE} /\ u.resume \in {v.resume, 0}
    BY <1>0 DEF Worklet
  <2> HIDE DEF u
  <2>2. Moves(v, u)
    BY <2>1, Frame
  <2> QED
    BY <2>2 DEF u
<1>8. ASSUME NEW x \in {FALSE}
      PROVE  Moves(v, [v EXCEPT !.ended = x])
  <2> DEFINE u == [v EXCEPT !.ended = x]
  <2>1. /\ u \in Worklet
        /\ u.gen = v.gen /\ u.pos = v.pos /\ u.queue = v.queue /\ u.state = v.state
        /\ u.closed = v.closed /\ u.cancel = v.cancel /\ u.out = v.out
        /\ u.ended \in {v.ended, FALSE} /\ u.resume \in {v.resume, 0}
    BY <1>0 DEF Worklet
  <2> HIDE DEF u
  <2>2. Moves(v, u)
    BY <2>1, Frame
  <2> QED
    BY <2>2 DEF u
<1>9. ASSUME NEW x \in {0}
      PROVE  Moves(v, [v EXCEPT !.resume = x])
  <2> DEFINE u == [v EXCEPT !.resume = x]
  <2>1. /\ u \in Worklet
        /\ u.gen = v.gen /\ u.pos = v.pos /\ u.queue = v.queue /\ u.state = v.state
        /\ u.closed = v.closed /\ u.cancel = v.cancel /\ u.out = v.out
        /\ u.ended \in {v.ended, FALSE} /\ u.resume \in {v.resume, 0}
    BY <1>0 DEF Worklet
  <2> HIDE DEF u
  <2>2. Moves(v, u)
    BY <2>1, Frame
  <2> QED
    BY <2>2 DEF u
<1>10. ASSUME NEW x \in {"full", "ducked", "silent", "between"}
      PROVE  Moves(v, [v EXCEPT !.gain = x])
  <2> DEFINE u == [v EXCEPT !.gain = x]
  <2>1. /\ u \in Worklet
        /\ u.gen = v.gen /\ u.pos = v.pos /\ u.queue = v.queue /\ u.state = v.state
        /\ u.closed = v.closed /\ u.cancel = v.cancel /\ u.out = v.out
        /\ u.ended \in {v.ended, FALSE} /\ u.resume \in {v.resume, 0}
    BY <1>0 DEF Worklet
  <2> HIDE DEF u
  <2>2. Moves(v, u)
    BY <2>1, Frame
  <2> QED
    BY <2>2 DEF u
<1>11. ASSUME NEW x \in {"none", "full", "ducked", "silent"}
      PROVE  Moves(v, [v EXCEPT !.ramp = x])
  <2> DEFINE u == [v EXCEPT !.ramp = x]
  <2>1. /\ u \in Worklet
        /\ u.gen = v.gen /\ u.pos = v.pos /\ u.queue = v.queue /\ u.state = v.state
        /\ u.closed = v.closed /\ u.cancel = v.cancel /\ u.out = v.out
        /\ u.ended \in {v.ended, FALSE} /\ u.resume \in {v.resume, 0}
    BY <1>0 DEF Worklet
  <2> HIDE DEF u
  <2>2. Moves(v, u)
    BY <2>1, Frame
  <2> QED
    BY <2>2 DEF u
<1> QED
  BY <1>1, <1>2, <1>3, <1>4, <1>5, <1>6, <1>7, <1>8, <1>9, <1>10, <1>11

(* A state written while no resume or cancel contradicts it moves nothing. *)
LEMMA StateMoves ==
  ASSUME NEW v, Working(v), Live(v), NEW state \in PlaybackState,
         v.resume # 0 => state = "RESUMING", v.cancel # 0 => state = "DUCKING"
  PROVE  Moves(v, [v EXCEPT !.state = state])
<1>1. v \in Worklet
  BY DEF Working
<1> QED
  BY <1>1 DEF Moves, Working, Live, Posts, Idx, Worklet

(* Posting changes nothing but the messages. *)
Same(v, u) ==
  /\ u.state = v.state /\ u.queue = v.queue /\ u.ramp = v.ramp
  /\ u.duck = v.duck /\ u.pause = v.pause /\ u.resume = v.resume
  /\ u.cancel = v.cancel /\ u.closed = v.closed /\ u.ended = v.ended
  /\ u.started = v.started /\ u.reported = v.reported

(* A post leaves every other field. *)
LEMMA PostIsSame ==
  ASSUME NEW v, v \in Worklet, NEW m
  PROVE  Same(v, Post(v, m))
  BY DEF Worklet, Post, Same

(* An acknowledgement leaves every other field. *)
LEMMA AckIsSame ==
  ASSUME NEW v, v \in Worklet, NEW seq, NEW rejected
  PROVE  Same(v, Acknowledge(v, seq, rejected))
  BY PostIsSame DEF Acknowledge

-----------------------------------------------------------------------------
(* finishPendingGainCommand moves nothing. *)
LEMMA FinishDuckMoves ==
  ASSUME NEW v, Working(v), Typed
  PROVE  /\ Moves(v, FinishDuck(v))
         /\ Same([v EXCEPT !.duck = 0], FinishDuck(v))
<1> DEFINE p == [v EXCEPT !.duck = 0]
<1>1. v \in Worklet /\ v.duck \in Nat
  BY DEF Working, Worklet
<1>2. CASE v.duck = 0
  <2>1. p = v
    BY <1>1, <1>2 DEF Worklet
  <2> QED
    BY <1>2, <2>1, StaysPut DEF FinishDuck, Same
<1>3. CASE v.duck # 0
  <2>0. Moves(v, p)
    BY FieldMoves
  <2>1. Working(p) /\ p \in Worklet
    <3> HIDE DEF p
    <3> QED
      BY <2>0 DEF Moves, Working
  <2>2. Moves(p, Acknowledge(p, v.duck, FALSE)) /\ Same(p, Acknowledge(p, v.duck, FALSE))
    <3> HIDE DEF p
    <3> QED
      BY <1>1, <2>1, AckMoves, AckIsSame
  <2> QED
    BY <1>3, <2>0, <2>2, MovesChain DEF FinishDuck
<1> QED
  BY <1>2, <1>3

(* finishPendingCancelCommand empties the queue of the answer it ends, and no cancel is   *)
(* left.                                                                    *)
LEMMA FinishCancelMoves ==
  ASSUME NEW v, Working(v), Typed
  PROVE  /\ Moves(v, FinishCancel(v))
         /\ FinishCancel(v).cancel = 0
<1> DEFINE p == [v EXCEPT !.cancel = 0, !.queue = 0, !.ramp = "none", !.state = "CANCELLED"]
<1>1. v \in Worklet /\ v.cancel \in Nat
  BY DEF Working, Worklet
<1>2. CASE v.cancel = 0
  BY <1>2, StaysPut DEF FinishCancel
<1>3. CASE v.cancel # 0
  <2>1. v.resume = 0 /\ Live(v)
    BY <1>3 DEF Working, Live, Terminal
  <2>2. /\ p \in Worklet
        /\ p.gen = v.gen /\ p.pos = v.pos /\ p.queue = 0 /\ p.state = "CANCELLED"
        /\ p.cancel = 0 /\ p.resume = 0 /\ p.out = v.out
    <3> DEFINE x(queue, state, cancel) ==
                 [v EXCEPT !.cancel = cancel, !.queue = queue, !.ramp = "none",
                           !.state = state]
    <3>1. ASSUME NEW queue \in 0 .. Samples, NEW state \in PlaybackState, NEW cancel \in Nat
          PROVE  LET u == x(queue, state, cancel)
                 IN  /\ u \in Worklet
                     /\ u.gen = v.gen /\ u.pos = v.pos /\ u.queue = queue /\ u.state = state
                     /\ u.cancel = cancel /\ u.resume = v.resume /\ u.out = v.out
      BY <1>1 DEF Worklet
    <3>2. 0 \in 0 .. Samples /\ "CANCELLED" \in PlaybackState /\ 0 \in Nat
      BY SamplesNat DEF PlaybackState
    <3>3. p = x(0, "CANCELLED", 0)
      OBVIOUS
    <3> HIDE DEF x, p
    <3> QED
      BY <2>1, <3>1, <3>2, <3>3
  <2>3. Moves(v, p) /\ Working(p)
    <3> HIDE DEF p
    <3>1. p.pos + p.queue <= Samples
      BY <1>1, <2>2, SamplesNat DEF Working, Worklet
    <3> QED
      BY <2>1, <2>2, <3>1 DEF Moves, Working, Live, Terminal, Posts
  <2>4. Moves(p, Acknowledge(p, v.cancel, FALSE)) /\ Same(p, Acknowledge(p, v.cancel, FALSE))
    <3> HIDE DEF p
    <3> QED
      BY <1>1, <2>2, <2>3, AckMoves, AckIsSame
  <2>5. Moves(v, Acknowledge(p, v.cancel, FALSE)) /\ Acknowledge(p, v.cancel, FALSE).cancel = 0
    <3> HIDE DEF p
    <3> QED
      BY <2>2, <2>3, <2>4, MovesChain DEF Same
  <2> QED
    BY <1>3, <2>5 DEF FinishCancel
<1> QED
  BY <1>2, <1>3

(* settleSupersededCommands moves nothing, and no resume is left. *)
LEMMA SettleMoves ==
  ASSUME NEW v, Working(v), Typed
  PROVE  /\ Moves(v, Settle(v))
         /\ Settle(v).state = v.state /\ Settle(v).queue = v.queue
         /\ Settle(v).resume = 0 /\ Settle(v).cancel = v.cancel
         /\ Settle(v).closed = v.closed /\ Settle(v).ended = v.ended
<1> DEFINE p == FinishDuck(v)
           x == [p EXCEPT !.pause = 0]
           q == IF p.pause = 0 THEN p ELSE Acknowledge(x, p.pause, FALSE)
           y == [q EXCEPT !.resume = 0]
           u == IF q.resume = 0 THEN q ELSE Acknowledge(y, q.resume, TRUE)
           Like(a) == /\ a.state = v.state /\ a.queue = v.queue /\ a.cancel = v.cancel
                      /\ a.closed = v.closed /\ a.ended = v.ended
<1>1. Moves(v, p) /\ Working(p) /\ Like(p) /\ p \in Worklet
  BY FinishDuckMoves DEF Moves, Same, Working, Worklet
<1> HIDE DEF p
<1>2. Moves(v, q) /\ Working(q) /\ Like(q) /\ q \in Worklet
  <2>1. CASE p.pause = 0
    BY <1>1, <2>1
  <2>2. CASE p.pause # 0
    <3>0. Like(x) /\ p.pause \in Nat
      BY <1>1 DEF Worklet
    <3>1. Moves(p, x)
      BY <1>1, FieldMoves
    <3> HIDE DEF x
    <3>2. Working(x) /\ x \in Worklet
      BY <3>1 DEF Moves, Working
    <3>3. Moves(x, Acknowledge(x, p.pause, FALSE)) /\ Same(x, Acknowledge(x, p.pause, FALSE))
      BY <3>0, <3>1, <3>2, <1>1, AckMoves, AckIsSame
    <3> QED
      <4> DEFINE z == Acknowledge(x, p.pause, FALSE)
      <4>1. Moves(v, z) /\ Working(z) /\ z \in Worklet
        BY <1>1, <3>1, <3>3, MovesChain DEF Moves, Working
      <4>2. Like(z)
        BY <3>0, <3>3 DEF Same
      <4> QED
        BY <2>2, <4>1, <4>2
  <2> QED
    BY <2>1, <2>2
<1> HIDE DEF q
<1>3. Moves(v, u) /\ Like(u) /\ u.resume = 0
  <2>1. CASE q.resume = 0
    BY <1>2, <2>1
  <2>2. CASE q.resume # 0
    <3>0. Like(y) /\ y.resume = 0 /\ q.resume \in Nat
      BY <1>2 DEF Worklet
    <3>1. Moves(q, y)
      BY <1>2, FieldMoves
    <3> HIDE DEF y
    <3>2. Working(y) /\ y \in Worklet
      BY <3>1 DEF Moves, Working
    <3>3. Moves(y, Acknowledge(y, q.resume, TRUE)) /\ Same(y, Acknowledge(y, q.resume, TRUE))
      BY <3>0, <3>1, <3>2, <1>1, AckMoves, AckIsSame
    <3> QED
      BY <1>2, <2>2, <3>0, <3>1, <3>3, MovesChain DEF Same
  <2> QED
    BY <2>1, <2>2
<1>4. Settle(v) = u
  BY DEF Settle, p, q
<1> HIDE DEF u
<1> QED
  BY <1>3, <1>4

(* pauseIfDue moves nothing. *)
LEMMA PauseIfDueMoves ==
  ASSUME NEW v, Working(v), NEW deadlineReached \in BOOLEAN, Typed
  PROVE  Moves(v, PauseIfDue(v, deadlineReached))
<1> DEFINE p == [v EXCEPT !.pause = 0]
           q == [p EXCEPT !.state = "PAUSED_BUFFERED"]
<1>1. CASE ~PauseDue(v, deadlineReached)
  BY <1>1, StaysPut DEF PauseIfDue
<1>2. CASE PauseDue(v, deadlineReached)
  <2>1. /\ v \in Worklet /\ v.pause \in Nat
        /\ v.state = "DRAINING_TO_BOUNDARY" /\ v.resume = 0 /\ v.cancel = 0
    BY <1>2 DEF PauseDue, Working, Worklet
  <2>2. Moves(v, p)
    BY FieldMoves
  <2>3. p.state = v.state /\ p.resume = 0 /\ p.cancel = 0
    BY <2>1 DEF Worklet
  <2> HIDE DEF p
  <2>4. Moves(p, q)
    <3>1. Working(p) /\ Live(p) /\ "PAUSED_BUFFERED" \in PlaybackState
      BY <2>1, <2>2, <2>3 DEF Moves, Live, Terminal, PlaybackState
    <3> QED
      BY <2>3, <3>1, StateMoves
  <2> HIDE DEF q
  <2>5. Moves(q, Acknowledge(q, v.pause, FALSE))
    BY <2>1, <2>4, AckMoves DEF Moves
  <2>6. PauseIfDue(v, deadlineReached) = Acknowledge(q, v.pause, FALSE)
    BY <1>2 DEF PauseIfDue, p, q
  <2> QED
    BY <2>2, <2>4, <2>5, <2>6, MovesChain
<1> QED
  BY <1>1, <1>2

(* reportCrossedBoundaries moves nothing. *)
LEMMA ReportCrossedMoves ==
  ASSUME NEW v, Working(v), Typed
  PROVE  Moves(v, ReportCrossed(v))
<1> DEFINE begun == Smaller(v.words, v.pos \div WordLength + 1)
           u == [v EXCEPT !.reported = @ + 1]
<1>0. v \in Worklet /\ v.words \in 0 .. Words /\ v.reported \in 0 .. Words /\ v.pos \in 0 .. Samples
  BY DEF Working, Worklet
<1>1. CASE begun > v.reported + 1
  <2>1. v.reported + 1 \in 0 .. Words
    BY <1>0, <1>1, SamplesNat DEF Smaller
  <2>2. Moves(v, [v EXCEPT !.reported = v.reported + 1])
    BY <2>1, FieldMoves
  <2>3. Moves(v, u) /\ Working(u)
    <3>1. Moves(v, u)
      BY <2>2
    <3> HIDE DEF u
    <3> QED
      BY <3>1 DEF Moves
  <2>4. Moves(v, Post(u, Report("progress", u)))
    <3> HIDE DEF u
    <3>1. Moves(u, Post(u, Report("progress", u)))
      BY <2>3, ReportMoves DEF PostKind
    <3> QED
      BY <2>3, <3>1, MovesChain
  <2> QED
    BY <2>4, StaysPut DEF ReportCrossed
<1>2. CASE ~(begun > v.reported + 1)
  BY <1>2, StaysPut DEF ReportCrossed
<1> QED
  BY <1>1, <1>2

(* reportCompletionIfDrained ends an answer that has no sample left, at its last    *)
(* position.                                                                *)
LEMMA CompleteIfDrainedMoves ==
  ASSUME NEW v, Working(v), v.ended /\ v.queue = 0 => v.cancel = 0, Typed
  PROVE  Moves(v, CompleteIfDrained(v))
<1> DEFINE x == Settle(v)
           p == [x EXCEPT !.state = "COMPLETED"]
           u == [p EXCEPT !.ended = FALSE]
<1>1. CASE ~(v.ended /\ v.queue = 0 /\ Live(v))
  BY <1>1, StaysPut DEF CompleteIfDrained, Live
<1>2. CASE v.ended /\ v.queue = 0 /\ Live(v)
  <2>1. v.pos = Samples /\ v.pos \in Nat
    BY <1>2, SamplesNat DEF Working, Worklet
  <2>2. Moves(v, x) /\ Working(x) /\ x.resume = 0 /\ x.cancel = 0 /\ Live(x)
    BY <1>2, SettleMoves DEF Moves, Live
  <2> HIDE DEF x
  <2>3. Moves(x, p)
    BY <2>2, StateMoves DEF PlaybackState
  <2>4. Working(p) /\ Moves(v, p)
    BY <2>2, <2>3, MovesChain DEF Moves
  <2> HIDE DEF p
  <2>5. Moves(p, u)
    BY <2>4, FieldMoves
  <2>6. Working(u) /\ Moves(v, u) /\ u.pos = Samples
    BY <2>1, <2>4, <2>5, MovesChain DEF Moves
  <2> HIDE DEF u
  <2>7. Moves(u, Post(u, Report("complete", u)))
    BY <2>6, ReportMoves DEF PostKind
  <2>8. Moves(v, Post(u, Report("complete", u)))
    BY <2>6, <2>7, MovesChain
  <2>9. CompleteIfDrained(v) = Post(u, Report("complete", u))
    BY <1>2 DEF CompleteIfDrained, Live, u, p, x
  <2> QED
    BY <2>8, <2>9
<1> QED
  BY <1>1, <1>2

(* beginGainRamp moves nothing and leaves a pending cancel. *)
LEMMA RampMoves ==
  ASSUME NEW v, Working(v), NEW target \in {"full", "ducked", "silent"}
  PROVE  /\ Moves(v, BeginGainRamp(v, target))
         /\ BeginGainRamp(v, target).cancel = v.cancel
<1> DEFINE ramp == IF target = v.gain THEN "none" ELSE target
           u == [v EXCEPT !.ramp = ramp]
<1>1. ramp \in {"none", "full", "ducked", "silent"} /\ v \in Worklet
  BY DEF Working
<1> HIDE DEF ramp
<1>2. Moves(v, u) /\ u.cancel = v.cancel
  BY <1>1, FieldMoves DEF Worklet
<1> QED
  BY <1>2 DEF BeginGainRamp, ramp

-----------------------------------------------------------------------------
(* A duck moves nothing. *)
LEMMA DuckMoves ==
  ASSUME NEW v, Working(v), ~v.closed, NEW c \in CommandMsg, Typed
  PROVE  Moves(v, ApplyDuck(v, c))
<1> DEFINE p == [v EXCEPT !.state = "DUCKING"]
           q == [p EXCEPT !.duck = c.seq]
           u == BeginGainRamp(q, "ducked")
<1>0. c.seq \in Nat
  BY DEF CommandMsg
<1>1. CASE v.state \notin {"SPEAKING", "QUEUED", "DUCKING"}
  BY <1>0, <1>1, AckMoves DEF ApplyDuck
<1>2. CASE v.state \in {"SPEAKING", "QUEUED", "DUCKING"}
  <2>1. v.resume = 0 /\ v.cancel = 0 /\ Live(v) /\ "DUCKING" \in PlaybackState
    BY <1>2 DEF Working, Live, Terminal, PlaybackState
  <2>2. Moves(v, p) /\ Working(p)
    <3>1. Moves(v, p)
      BY <2>1, StateMoves
    <3> HIDE DEF p
    <3> QED
      BY <3>1 DEF Moves
  <2> HIDE DEF p
  <2>3. Moves(p, q)
    BY <1>0, <2>2, FieldMoves
  <2> HIDE DEF q
  <2>4. Moves(v, q) /\ Working(q)
    BY <2>2, <2>3, MovesChain DEF Moves
  <2>5. Moves(v, u) /\ Working(u)
    BY <2>4, RampMoves, MovesChain DEF Moves
  <2> HIDE DEF u
  <2>6. Moves(v, FinishDuck(u))
    BY <2>5, FinishDuckMoves, MovesChain
  <2>7. ApplyDuck(v, c) = IF u.ramp = "none" THEN FinishDuck(u) ELSE u
    BY <1>2 DEF ApplyDuck, u, q, p
  <2> QED
    BY <2>5, <2>6, <2>7
<1> QED
  BY <1>1, <1>2

(* A pause moves nothing. *)
LEMMA PauseMoves ==
  ASSUME NEW v, Working(v), ~v.closed, NEW c \in CommandMsg, Typed
  PROVE  Moves(v, ApplyPause(v, c))
<1> DEFINE p == [v EXCEPT !.state = "DRAINING_TO_BOUNDARY"]
           q == [p EXCEPT !.pause = c.seq]
           u == [q EXCEPT !.stop = c.boundary]
<1>0. c.seq \in Nat /\ c.boundary \in Nat
  BY DEF CommandMsg
<1>1. CASE v.state \notin {"DUCKING", "SPEAKING", "QUEUED", "DRAINING_TO_BOUNDARY"}
  BY <1>0, <1>1, AckMoves DEF ApplyPause
<1>2. CASE v.state \in {"DUCKING", "SPEAKING", "QUEUED", "DRAINING_TO_BOUNDARY"}
  <2>1. v.resume = 0 /\ v.cancel = 0 /\ Live(v) /\ "DRAINING_TO_BOUNDARY" \in PlaybackState
    BY <1>2 DEF Working, Live, Terminal, PlaybackState
  <2>2. Moves(v, p) /\ Working(p)
    <3>1. Moves(v, p)
      BY <2>1, StateMoves
    <3> HIDE DEF p
    <3> QED
      BY <3>1 DEF Moves
  <2> HIDE DEF p
  <2>3. Moves(p, q)
    BY <1>0, <2>2, FieldMoves
  <2> HIDE DEF q
  <2>4. Moves(v, q) /\ Working(q)
    BY <2>2, <2>3, MovesChain DEF Moves
  <2>5. Moves(q, u)
    BY <1>0, <2>4, FieldMoves
  <2> HIDE DEF u
  <2>6. Moves(v, u) /\ Working(u)
    BY <2>4, <2>5, MovesChain DEF Moves
  <2>7. Moves(v, PauseIfDue(u, FALSE))
    BY <2>6, PauseIfDueMoves, MovesChain
  <2>8. ApplyPause(v, c) = PauseIfDue(u, FALSE)
    BY <1>2 DEF ApplyPause, u, q, p
  <2> QED
    BY <2>7, <2>8
<1> QED
  BY <1>1, <1>2

(* A pause that is too old to be resumed ends the answer. *)
LEMMA TooOldMoves ==
  ASSUME NEW v, Working(v), v.state = "PAUSED_BUFFERED"
  PROVE  Moves(v, [v EXCEPT !.queue = 0, !.state = "CANCELLED", !.closed = TRUE])
<1> DEFINE x(queue, state) == [v EXCEPT !.queue = queue, !.state = state, !.closed = TRUE]
           u == x(0, "CANCELLED")
<1>1. v \in Worklet /\ v.pos \in 0 .. Samples /\ v.resume = 0 /\ v.cancel = 0 /\ Live(v)
  BY DEF Working, Worklet, Live, Terminal
<1>2. ASSUME NEW queue \in 0 .. Samples, NEW state \in PlaybackState
      PROVE  /\ x(queue, state) \in Worklet
             /\ x(queue, state).gen = v.gen /\ x(queue, state).pos = v.pos
             /\ x(queue, state).queue = queue /\ x(queue, state).state = state
             /\ x(queue, state).cancel = v.cancel /\ x(queue, state).resume = v.resume
             /\ x(queue, state).out = v.out
  BY <1>1 DEF Worklet
<1>3. 0 \in 0 .. Samples /\ "CANCELLED" \in PlaybackState
  BY SamplesNat DEF PlaybackState
<1>4. /\ u \in Worklet /\ u.gen = v.gen /\ u.pos = v.pos /\ u.queue = 0
      /\ u.state = "CANCELLED" /\ u.cancel = 0 /\ u.resume = 0 /\ u.out = v.out
  <2> HIDE DEF x
  <2> QED
    BY <1>1, <1>2, <1>3
<1>5. Moves(v, u)
  <2> HIDE DEF u, x
  <2>1. u.pos + u.queue <= Samples
    BY <1>1, <1>4, SamplesNat
  <2> QED
    BY <1>1, <1>4, <2>1 DEF Moves, Working, Live, Terminal, Posts
<1> QED
  BY <1>5

(* A resume moves nothing, or ends an answer paused too long. *)
LEMMA ResumeMoves ==
  ASSUME NEW v, Working(v), ~v.closed, NEW c \in CommandMsg, NEW tooOld \in BOOLEAN, Typed
  PROVE  Moves(v, ApplyResume(v, c, tooOld))
<1>0. c.seq \in Nat /\ v \in Worklet /\ v.pause \in Nat
  BY DEF CommandMsg, Working, Worklet
<1>1. CASE v.state \notin {"PAUSED_BUFFERED", "DUCKING", "DRAINING_TO_BOUNDARY"}
  BY <1>0, <1>1, AckMoves DEF ApplyResume
<1>2. CASE v.state = "PAUSED_BUFFERED" /\ tooOld
  <2> DEFINE p == [v EXCEPT !.queue = 0, !.state = "CANCELLED", !.closed = TRUE]
  <2>1. Moves(v, p)
    BY <1>2, TooOldMoves
  <2> HIDE DEF p
  <2>2. Moves(v, Acknowledge(p, c.seq, TRUE))
    BY <1>0, <2>1, AckMoves, MovesChain DEF Moves
  <2> QED
    BY <1>2, <2>2 DEF ApplyResume, p
<1>3. CASE /\ v.state \in {"PAUSED_BUFFERED", "DUCKING", "DRAINING_TO_BOUNDARY"}
           /\ ~(v.state = "PAUSED_BUFFERED" /\ tooOld)
  <2> DEFINE x == [v EXCEPT !.pause = 0]
             u == IF v.pause = 0 THEN v ELSE Acknowledge(x, v.pause, FALSE)
             p == [u EXCEPT !.state = "RESUMING"]
             q == [p EXCEPT !.resume = c.seq]
  <2>1. v.resume = 0 /\ v.cancel = 0 /\ Live(v) /\ "RESUMING" \in PlaybackState
    BY <1>3 DEF Working, Live, Terminal, PlaybackState
  <2>2. Moves(v, u) /\ Working(u) /\ u.state = v.state /\ u.resume = 0 /\ u.cancel = 0
    <3>1. CASE v.pause = 0
      BY <2>1, <3>1, StaysPut
    <3>2. CASE v.pause # 0
      <4>1. Moves(v, x)
        BY FieldMoves
      <4>2. x.state = v.state /\ x.resume = 0 /\ x.cancel = 0
        BY <1>0, <2>1 DEF Worklet
      <4> HIDE DEF x
      <4>3. Working(x) /\ x \in Worklet
        BY <4>1 DEF Moves, Working
      <4> DEFINE y == Acknowledge(x, v.pause, FALSE)
      <4>4. Moves(x, y) /\ Same(x, y)
        BY <1>0, <4>3, AckMoves, AckIsSame
      <4>5. Moves(v, y) /\ Working(y)
        BY <4>1, <4>4, MovesChain DEF Moves
      <4>6. y.state = v.state /\ y.resume = 0 /\ y.cancel = 0
        BY <4>2, <4>4 DEF Same
      <4> HIDE DEF y
      <4> QED
        BY <3>2, <4>5, <4>6 DEF y
    <3> QED
      BY <3>1, <3>2
  <2> HIDE DEF u
  <2>3. Moves(u, p)
    BY <2>1, <2>2, StateMoves DEF Live
  <2>4. p.state = "RESUMING" /\ p.cancel = 0 /\ p \in Worklet
    BY <2>2 DEF Working, Worklet, PlaybackState
  <2> HIDE DEF p
  <2>5. Moves(p, q)
    <3>1. /\ q \in Worklet
          /\ q.gen = p.gen /\ q.pos = p.pos /\ q.queue = p.queue /\ q.state = "RESUMING"
          /\ q.closed = p.closed /\ q.cancel = p.cancel /\ q.out = p.out
          /\ q.ended = p.ended
      BY <1>0, <2>4 DEF Worklet
    <3> HIDE DEF q
    <3> QED
      BY <2>3, <2>4, <3>1 DEF Moves, Working, Live, Posts
  <2> HIDE DEF q
  <2>6. Moves(v, q) /\ Working(q)
    BY <2>2, <2>3, <2>5, MovesChain DEF Moves
  <2>7. Moves(v, BeginGainRamp(q, "full"))
    BY <2>6, RampMoves, MovesChain
  <2>8. ApplyResume(v, c, tooOld) = BeginGainRamp(q, "full")
    BY <1>3 DEF ApplyResume, q, p, u
  <2> QED
    BY <2>7, <2>8
<1> QED
  BY <1>1, <1>2, <1>3

(* A cancel closes the answer; one that fades is still to be acknowledged. *)
Cancels(v, u) ==
  /\ Working(u)
  /\ u.gen = v.gen /\ u.pos = v.pos
  /\ u.queue = v.queue \/ (u.queue = 0 /\ ~Live(u))
  /\ u.closed /\ Live(u) => u.cancel # 0

(* A cancel closes the answer and ends it, now or when it has faded. *)
LEMMA CancelCancels ==
  ASSUME NEW v, Working(v), Live(v), ~v.closed, NEW c \in CommandMsg, Typed
  PROVE  Cancels(v, ApplyCancel(v, c))
<1> DEFINE p == [v EXCEPT !.closed = TRUE, !.ended = FALSE]
           q == Settle(p)
           r == [q EXCEPT !.cancel = c.seq, !.state = "DUCKING"]
           u == BeginGainRamp(r, "silent")
<1>1. c.seq \in Nat /\ c.seq # 0 /\ v \in Worklet /\ v.cancel = 0
  BY DEF CommandMsg, Working
<1>2. /\ p \in Worklet
      /\ p.gen = v.gen /\ p.pos = v.pos /\ p.queue = v.queue /\ p.state = v.state
      /\ p.cancel = 0 /\ p.out = v.out /\ ~p.ended /\ p.resume = v.resume /\ p.closed
  BY <1>1 DEF Worklet
<1> HIDE DEF p
<1>3. Working(p) /\ Live(p)
  BY <1>2 DEF Working, Live, Posts
<1>4. /\ Working(q) /\ q.gen = v.gen /\ q.pos = v.pos /\ q.queue = v.queue
      /\ q.resume = 0 /\ q.closed /\ ~q.ended /\ q \in Worklet
  <2>1. Moves(p, q)
    BY <1>3, SettleMoves
  <2>2. q.queue = v.queue /\ q.resume = 0 /\ q.closed /\ ~q.ended
    BY <1>2, <1>3, SettleMoves
  <2> HIDE DEF q
  <2> QED
    BY <1>2, <2>1, <2>2 DEF Moves, Working
<1> HIDE DEF q
<1>5. /\ r \in Worklet
      /\ r.gen = v.gen /\ r.pos = v.pos /\ r.queue = v.queue /\ r.state = "DUCKING"
      /\ r.cancel = c.seq /\ r.resume = 0 /\ r.closed /\ ~r.ended /\ r.out = q.out
  <2>1. "DUCKING" \in PlaybackState
    BY DEF PlaybackState
  <2> QED
    BY <1>1, <1>4, <2>1 DEF Worklet
<1> HIDE DEF r
<1>6. Working(r)
  BY <1>4, <1>5 DEF Working, Live, Posts
<1>7. Cancels(v, r) /\ Live(r)
  BY <1>1, <1>5, <1>6 DEF Cancels, Live, Terminal
<1>8. Moves(r, u) /\ u.cancel = r.cancel
  BY <1>6, RampMoves
<1> HIDE DEF u
<1>9. Cancels(v, u)
  BY <1>5, <1>7, <1>8 DEF Cancels, Moves
<1>10. Cancels(v, FinishCancel(u))
  <2> DEFINE f == FinishCancel(u)
  <2>1. Moves(u, f) /\ f.cancel = 0
    BY <1>9, FinishCancelMoves DEF Cancels
  <2> HIDE DEF f
  <2>2. Cancels(v, f)
    BY <1>5, <1>8, <1>9, <2>1 DEF Cancels, Moves
  <2> QED
    BY <2>2 DEF f
<1>11. ApplyCancel(v, c) \in {u, FinishCancel(u)}
  BY DEF ApplyCancel, u, r, q, p
<1> QED
  BY <1>9, <1>10, <1>11

(* applyCommand moves nothing, except that a cancel of the current answer   *)
(* closes it.                                                               *)
LEMMA CommandWorks ==
  ASSUME NEW v, Working(v), NEW c \in CommandMsg, NEW tooOld \in BOOLEAN, Typed
  PROVE  \/ Moves(v, ApplyCommand(v, c, tooOld))
         \/ /\ c.gen = v.gen /\ Live(v)
            /\ c.action \notin {"duck", "pause", "resume"}
            /\ Cancels(v, ApplyCommand(v, c, tooOld))
<1>1. CASE c.gen # v.gen \/ v.closed \/ ~Live(v)
  BY <1>1, StaysPut DEF ApplyCommand, Live
<1>2. CASE c.gen = v.gen /\ ~v.closed /\ Live(v)
  BY <1>2, DuckMoves, PauseMoves, ResumeMoves, CancelCancels DEF ApplyCommand, Live
<1> QED
  BY <1>1, <1>2

-----------------------------------------------------------------------------
(* The ramp of one sample moves nothing. *)
LEMMA NextGainMoves ==
  ASSUME NEW v, Working(v), NEW rampEnds \in BOOLEAN, Typed
  PROVE  Moves(v, NextGain(v, rampEnds))
<1> DEFINE x == [v EXCEPT !.gain = v.ramp]
           p == [x EXCEPT !.ramp = "none"]
           d == FinishDuck(p)
           u == FinishCancel(d)
           s == [u EXCEPT !.state = "SPEAKING"]
<1>0. v \in Worklet /\ v.ramp \in {"none", "full", "ducked", "silent"}
  BY DEF Working, Worklet
<1>1. CASE v.ramp = "none"
  BY <1>1, StaysPut DEF NextGain
<1>2. CASE v.ramp # "none" /\ ~rampEnds
  <2>1. Moves(v, [v EXCEPT !.gain = "between"])
    BY FieldMoves
  <2> QED
    BY <1>2, <2>1 DEF NextGain
<1>3. CASE v.ramp # "none" /\ rampEnds
  <2>1. Moves(v, x)
    BY <1>0, <1>3, FieldMoves
  <2> HIDE DEF x
  <2>2. Working(x)
    BY <2>1 DEF Moves
  <2>3. Moves(x, p)
    BY <2>2, FieldMoves
  <2> HIDE DEF p
  <2>4. Moves(v, p) /\ Working(p)
    BY <2>1, <2>3, MovesChain DEF Moves
  <2>5. Moves(v, d) /\ Working(d)
    BY <2>4, FinishDuckMoves, MovesChain DEF Moves
  <2> HIDE DEF d
  <2>6. Moves(v, u) /\ Working(u) /\ u.cancel = 0
    BY <2>5, FinishCancelMoves, MovesChain DEF Moves
  <2> HIDE DEF u
  <2>7. u.state = "RESUMING" /\ u.resume = 0 => Moves(u, s)
    BY <2>6, StateMoves DEF Live, Terminal, PlaybackState
  <2>8. u.state = "RESUMING" /\ u.resume = 0 => Moves(v, s)
    BY <2>6, <2>7, MovesChain
  <2>9. NextGain(v, rampEnds) = IF u.state = "RESUMING" /\ u.resume = 0 THEN s ELSE u
    BY <1>3 DEF NextGain, u, d, p, x
  <2> QED
    BY <2>6, <2>8, <2>9
<1> QED
  BY <1>1, <1>2, <1>3

(* The acknowledgement of a resume moves nothing. *)
LEMMA FinishResumeMoves ==
  ASSUME NEW v, Working(v), Typed
  PROVE  Moves(v, FinishResume(v))
<1> DEFINE x == [v EXCEPT !.resume = 0]
           u == Acknowledge(x, v.resume, FALSE)
           s == [u EXCEPT !.state = "SPEAKING"]
<1>0. v \in Worklet /\ v.resume \in Nat
  BY DEF Working, Worklet
<1>1. CASE v.resume = 0
  BY <1>1, StaysPut DEF FinishResume
<1>2. CASE v.resume # 0
  <2>1. v.state = "RESUMING" /\ v.cancel = 0
    BY <1>2 DEF Working
  <2>2. Moves(v, x) /\ x.state = "RESUMING" /\ x.cancel = 0 /\ x.resume = 0
    BY <1>0, <2>1, FieldMoves DEF Worklet
  <2> HIDE DEF x
  <2>3. Working(x) /\ x \in Worklet
    BY <2>2 DEF Moves, Working
  <2>4. Moves(x, u) /\ Same(x, u)
    BY <1>0, <2>3, AckMoves, AckIsSame
  <2> HIDE DEF u
  <2>5. Moves(v, u) /\ Working(u) /\ u.state = "RESUMING" /\ u.cancel = 0 /\ u.resume = 0
    BY <2>2, <2>4, MovesChain DEF Moves, Same
  <2>6. Moves(u, s)
    BY <2>5, StateMoves DEF Live, Terminal, PlaybackState
  <2>7. Moves(v, s)
    BY <2>5, <2>6, MovesChain
  <2>8. FinishResume(v) = IF u.ramp = "none" THEN s ELSE u
    BY <1>2 DEF FinishResume, u, x
  <2> QED
    BY <2>5, <2>7, <2>8
<1> QED
  BY <1>1, <1>2

(* reportPlaybackClockIfDue moves nothing. *)
LEMMA ReportClockMoves ==
  ASSUME NEW v, Working(v), Typed
  PROVE  Moves(v, ReportClock(v))
<1> DEFINE x == [v EXCEPT !.clocked = v.pos]
           m == Report("clock", v)
<1>1. v.pos \in Nat
  BY SamplesNat DEF Working, Worklet
<1>2. Moves(v, x)
  BY <1>1, FieldMoves
<1>3. m \in Message /\ m.gen = v.gen /\ m.pos = v.pos /\ m.kind = "clock"
  BY ReportIsMessage DEF PostKind
<1>4. Moves(v, Post(x, m))
  <2> HIDE DEF x, m
  <2>1. Working(x) /\ x.gen = v.gen /\ x.pos = v.pos
    BY <1>2 DEF Moves
  <2>2. Moves(x, Post(x, m))
    BY <1>3, <2>1, PostMoves
  <2> QED
    BY <1>2, <2>2, MovesChain
<1> QED
  BY <1>4, StaysPut DEF ReportClock

(* A sample that sounds moves from the queue to the cursor. *)
LEMMA ConsumeWorks ==
  ASSUME NEW v, Working(v), Typed
  PROVE  LET u == Consume(v)
         IN  /\ Working(u)
             /\ u.gen = v.gen /\ u.state = v.state
             /\ u.closed = v.closed /\ u.cancel = v.cancel
             /\ IF v.queue = 0 THEN u = v
                ELSE u.pos = v.pos + 1 /\ u.queue = v.queue - 1
<1>1. CASE v.queue = 0
  BY <1>1 DEF Consume
<1>2. CASE v.queue # 0
  <2> DEFINE x(pos, queue) == [v EXCEPT !.pos = pos, !.queue = queue]
             u == x(v.pos + 1, v.queue - 1)
  <2>1. /\ v \in Worklet /\ v.pos \in Nat /\ v.queue \in Nat
        /\ v.pos + v.queue <= Samples
    BY SamplesNat DEF Working, Worklet
  <2>2. v.pos + 1 \in 0 .. Samples /\ v.queue - 1 \in 0 .. Samples
    BY <1>2, <2>1, SamplesNat
  <2>3. ASSUME NEW pos \in 0 .. Samples, NEW queue \in 0 .. Samples
        PROVE  /\ x(pos, queue) \in Worklet
               /\ x(pos, queue).pos = pos /\ x(pos, queue).queue = queue
               /\ x(pos, queue).gen = v.gen /\ x(pos, queue).state = v.state
               /\ x(pos, queue).closed = v.closed /\ x(pos, queue).cancel = v.cancel
               /\ x(pos, queue).resume = v.resume /\ x(pos, queue).ended = v.ended
               /\ x(pos, queue).out = v.out
    BY <2>1 DEF Worklet
  <2>4. /\ u \in Worklet /\ u.pos = v.pos + 1 /\ u.queue = v.queue - 1
        /\ u.gen = v.gen /\ u.state = v.state /\ u.closed = v.closed
        /\ u.cancel = v.cancel /\ u.resume = v.resume /\ u.ended = v.ended
        /\ u.out = v.out
    <3> HIDE DEF x
    <3> QED
      BY <2>2, <2>3
  <2>5. Consume(v) = u
    BY <1>2 DEF Consume
  <2> HIDE DEF u
  <2>6. Working(u)
    <3>1. u.pos + u.queue = v.pos + v.queue
      BY <2>1, <2>4
    <3>2. v.gen \in GenId /\ rendered[v.gen] \in Nat
      BY <2>1, SamplesNat DEF Working, Worklet, Typed
    <3>3. \A i \in Idx(v.out) : v.out[i].pos \in Nat
      <4>1. v.out \in Seq(Message)
        BY <2>1 DEF Worklet
      <4>2. \A i \in Idx(v.out) : v.out[i] \in Message
        BY <4>1 DEF Idx
      <4> QED
        BY <4>2, SamplesNat DEF Message
    <3>4. Posts(u)
      BY <2>1, <2>4, <3>2, <3>3 DEF Working, Posts
    <3>5. rendered[u.gen] <= u.pos
      BY <2>1, <2>4, <3>2 DEF Working
    <3> QED
      BY <2>1, <2>4, <3>1, <3>4, <3>5 DEF Working, Live
  <2> QED
    BY <1>2, <2>4, <2>5, <2>6
<1> QED
  BY <1>1, <1>2

(* Only a fading answer keeps its cancel, as long as it has samples. *)
Fades(v) == v.queue = 0 => v.cancel = 0

(* A fading answer has samples left to fade. *)
LEMMA MovesFade ==
  ASSUME NEW v, NEW u, Fades(v), Moves(v, u)
  PROVE  Fades(u)
  BY DEF Fades, Moves, Working, Live, Terminal

(* A quantum takes one sample from the queue to the cursor, or ends the     *)
(* answer.                                                                  *)
LEMMA RenderedWorks ==
  ASSUME NEW v, Working(v), Live(v), v.queue # 0, NEW rampEnds \in BOOLEAN, Typed
  PROVE  LET u == Rendered(v, rampEnds)
         IN  /\ Working(u)
             /\ u.gen = v.gen
             /\ \/ u.pos = v.pos + 1 /\ (u.queue = v.queue - 1 \/ ~Live(u))
                \/ u.pos = v.pos /\ ~Live(u)
             /\ u.closed /\ Live(u) => v.closed /\ u.cancel = v.cancel
<1> DEFINE n == NextGain(v, rampEnds)
           k == Consume(n)
           r == FinishResume(k)
           f == IF r.queue = 0 THEN FinishCancel(r) ELSE r
           a == [f EXCEPT !.state = IF f.state = "QUEUED" THEN "SPEAKING" ELSE f.state]
           s == [a EXCEPT !.started = TRUE]
           p == IF f.started THEN s ELSE Post(s, Report("started", s))
           x == ReportCrossed(p)
           y == ReportClock(x)
           u == CompleteIfDrained(y)
<1>0. v.pos \in Nat /\ v.queue \in Nat
  BY SamplesNat DEF Working, Worklet
<1>1. Moves(v, n) /\ Working(n)
  BY NextGainMoves DEF Moves
<1> HIDE DEF n
<1>2. /\ Working(k)
      /\ k.gen = n.gen /\ k.state = n.state
      /\ k.closed = n.closed /\ k.cancel = n.cancel
      /\ IF n.queue = 0 THEN k = n ELSE k.pos = n.pos + 1 /\ k.queue = n.queue - 1
  BY <1>1, ConsumeWorks
<1> HIDE DEF k
<1>3. Moves(k, r) /\ Working(r)
  BY <1>2, FinishResumeMoves DEF Moves
<1> HIDE DEF r
<1>4. Moves(k, f) /\ Working(f) /\ Fades(f)
  <2>1. CASE r.queue = 0
    <3>1. Moves(r, FinishCancel(r)) /\ FinishCancel(r).cancel = 0
      BY <1>3, FinishCancelMoves
    <3> QED
      BY <1>3, <2>1, <3>1, MovesChain DEF Moves, Fades
  <2>2. CASE r.queue # 0
    BY <1>3, <2>2 DEF Fades
  <2> QED
    BY <2>1, <2>2
<1> HIDE DEF f
<1>5. Moves(k, a) /\ Working(a) /\ Fades(a)
  <2>1. CASE f.state = "QUEUED"
    <3>1. f.resume = 0 /\ f.cancel = 0 /\ Live(f) /\ "SPEAKING" \in PlaybackState
      BY <1>4, <2>1 DEF Working, Live, Terminal, PlaybackState
    <3>2. Moves(f, [f EXCEPT !.state = "SPEAKING"])
      BY <1>4, <3>1, StateMoves
    <3>3. a = [f EXCEPT !.state = "SPEAKING"]
      BY <2>1
    <3> HIDE DEF a
    <3>4. Moves(f, a)
      BY <3>2, <3>3
    <3> QED
      BY <1>4, <3>4, MovesChain, MovesFade DEF Moves
  <2>2. CASE f.state # "QUEUED"
    <3>1. a = f
      BY <1>4, <2>2 DEF Working, Worklet
    <3> QED
      BY <1>4, <3>1
  <2> QED
    BY <2>1, <2>2
<1> HIDE DEF a
<1>6. Moves(k, s) /\ Working(s) /\ Fades(s)
  <2>1. Moves(a, s)
    BY <1>5, FieldMoves
  <2> HIDE DEF s
  <2> QED
    BY <1>5, <2>1, MovesChain, MovesFade DEF Moves
<1> HIDE DEF s
<1>7. Moves(k, p) /\ Working(p) /\ Fades(p)
  <2>1. Moves(s, Post(s, Report("started", s)))
    BY <1>6, ReportMoves DEF PostKind
  <2>2. Moves(s, p)
    BY <1>6, <2>1, StaysPut
  <2> HIDE DEF p
  <2> QED
    BY <1>6, <2>2, MovesChain, MovesFade DEF Moves
<1> HIDE DEF p
<1>8. Moves(k, x) /\ Working(x) /\ Fades(x)
  <2>1. Moves(p, x)
    BY <1>7, ReportCrossedMoves
  <2> HIDE DEF x
  <2> QED
    BY <1>7, <2>1, MovesChain, MovesFade DEF Moves
<1> HIDE DEF x
<1>9. Moves(k, y) /\ Working(y) /\ Fades(y)
  <2>1. Moves(x, y)
    BY <1>8, ReportClockMoves
  <2> HIDE DEF y
  <2> QED
    BY <1>8, <2>1, MovesChain, MovesFade DEF Moves
<1> HIDE DEF y
<1>10. Moves(k, u)
  <2>1. Moves(y, u)
    BY <1>9, CompleteIfDrainedMoves DEF Fades
  <2> HIDE DEF u
  <2> QED
    BY <1>9, <2>1, MovesChain
<1>11. Rendered(v, rampEnds) = u
  BY DEF Rendered, u, y, x, p, s, a, f, r, k, n
<1> HIDE DEF u
<1>12. /\ Working(u) /\ u.gen = v.gen
       /\ u.closed /\ Live(u) => v.closed /\ u.cancel = v.cancel
  BY <1>1, <1>2, <1>10 DEF Moves, Live
<1>13. \/ u.pos = v.pos + 1 /\ (u.queue = v.queue - 1 \/ ~Live(u))
       \/ u.pos = v.pos /\ ~Live(u)
  BY <1>0, <1>1, <1>2, <1>10 DEF Moves, Live
<1> QED
  BY <1>11, <1>12, <1>13

-----------------------------------------------------------------------------
(* A word that fits in is queued; every other one leaves the queue alone. *)
LEMMA EnqueueWorks ==
  ASSUME NEW v, Working(v), NEW word \in 1 .. Words, Typed
  PROVE  LET u == Enqueue(v, word)
         IN  /\ Working(u)
             /\ u.gen = v.gen /\ u.pos = v.pos
             /\ Live(u) => Live(v)
             /\ u.closed /\ Live(u) => v.closed /\ u.cancel = v.cancel
             /\ Live(v) /\ ~v.closed /\ v.pos + v.queue = (word - 1) * WordLength /\ Live(u) =>
                  u.pos + u.queue = word * WordLength
             /\ ~(Live(v) /\ ~v.closed /\ v.pos + v.queue = (word - 1) * WordLength) =>
                  u.queue = v.queue \/ ~Live(u)
<1> DEFINE start == (word - 1) * WordLength
           y == IF v.pause # 0 /\ v.stop = NoBoundary /\ start >= v.pos THEN start ELSE v.stop
           x == [v EXCEPT !.words = word]
           u == [x EXCEPT !.stop = y]
           b == ReportCrossed(u)
           r == PauseIfDue(b, FALSE)
           t == [r EXCEPT !.queue = r.queue + WordLength]
           z == [t EXCEPT !.state = IF t.state = "IDLE" THEN "QUEUED" ELSE t.state]
<1>0. /\ v \in Worklet /\ v.pos \in Nat /\ v.queue \in Nat /\ v.stop \in Nat
      /\ start \in Nat /\ start + WordLength = word * WordLength
      /\ word * WordLength <= Samples /\ word \in 0 .. Words
  BY SamplesNat DEF Working, Worklet
<1>1. CASE v.closed \/ ~Live(v)
  <2>1. Enqueue(v, word) = v
    BY <1>1 DEF Enqueue, Live
  <2> QED
    BY <1>1, <2>1
<1>2. CASE ~v.closed /\ Live(v)
  <2>1. y \in Nat
    BY <1>0
  <2> HIDE DEF y
  <2>2. Moves(v, x)
    BY <1>0, FieldMoves
  <2>2a. x.stop = v.stop
    BY <1>0 DEF Worklet
  <2> HIDE DEF x
  <2>3. Working(x)
    BY <2>2 DEF Moves
  <2>4. Moves(x, u)
    BY <2>1, <2>3, FieldMoves
  <2> HIDE DEF u
  <2>5. Moves(v, u) /\ Working(u)
    BY <2>2, <2>4, MovesChain DEF Moves
  <2>6. Moves(v, b) /\ Working(b)
    BY <2>5, ReportCrossedMoves, MovesChain DEF Moves
  <2> HIDE DEF b
  <2>7. Moves(v, r) /\ Working(r) /\ r \in Worklet
    BY <2>6, PauseIfDueMoves, MovesChain DEF Moves, Working
  <2>8. Enqueue(v, word) = IF start # v.pos + v.queue THEN r ELSE z
    <3>1. u = [v EXCEPT !.words = word,
                !.stop = IF v.pause # 0 /\ @ = NoBoundary /\ start >= v.pos
                         THEN start ELSE @]
      BY <1>0 DEF u, x, y, Worklet
    <3>2. z = [r EXCEPT !.queue = @ + WordLength, !.state = IF @ = "IDLE" THEN "QUEUED" ELSE @]
      <4>1. t.state = r.state
        BY <2>7 DEF Worklet
      <4> QED
        BY <2>7, <4>1 DEF Worklet
    <3> HIDE DEF z, y
    <3> QED
      BY <1>2, <3>1, <3>2 DEF Enqueue, r, b, Live
  <2> HIDE DEF r
  <2>9. CASE start # v.pos + v.queue
    BY <1>2, <2>7, <2>8, <2>9 DEF Moves
  <2>10. CASE start = v.pos + v.queue
    <3>1. r.queue + WordLength \in 0 .. Samples /\ r.pos + (r.queue + WordLength) <= Samples
      BY <1>0, <2>7, <2>10, SamplesNat DEF Moves
    <3>2. ~(r.ended /\ Live(r))
      BY <1>0, <2>7, <2>10, SamplesNat DEF Moves, Working
    <3>3. ASSUME NEW queue \in 0 .. Samples
          PROVE  LET q == [r EXCEPT !.queue = queue]
                 IN  /\ q \in Worklet /\ q.gen = r.gen /\ q.pos = r.pos /\ q.queue = queue
                     /\ q.state = r.state /\ q.closed = r.closed /\ q.cancel = r.cancel
                     /\ q.resume = r.resume /\ q.ended = r.ended /\ q.out = r.out
      BY <2>7 DEF Worklet
    <3>4. /\ t \in Worklet /\ t.gen = r.gen /\ t.pos = r.pos /\ t.queue = r.queue + WordLength
          /\ t.state = r.state /\ t.closed = r.closed /\ t.cancel = r.cancel
          /\ t.resume = r.resume /\ t.ended = r.ended /\ t.out = r.out
      BY <3>1, <3>3
    <3> HIDE DEF t
    <3>5. Working(t)
      BY <2>7, <3>1, <3>2, <3>4 DEF Working, Live, Posts
    <3>6. Moves(t, z)
      <4>1. CASE t.state = "IDLE"
        <5>1. t.resume = 0 /\ t.cancel = 0 /\ Live(t) /\ "QUEUED" \in PlaybackState
          BY <3>5, <4>1 DEF Working, Live, Terminal, PlaybackState
        <5>2. Moves(t, [t EXCEPT !.state = "QUEUED"])
          BY <3>5, <5>1, StateMoves
        <5> QED
          BY <4>1, <5>2
      <4>2. CASE t.state # "IDLE"
        <5>1. z = t
          BY <3>4, <4>2 DEF Worklet
        <5> QED
          BY <3>5, <5>1, StaysPut
      <4> QED
        BY <4>1, <4>2
    <3>7. Enqueue(v, word) = z
      BY <2>8, <2>10
    <3> HIDE DEF z
    <3>8. /\ Working(z) /\ z.gen = v.gen /\ z.pos = v.pos
          /\ Live(z) => Live(r) /\ z.queue = r.queue + WordLength
          /\ z.closed /\ Live(z) => r.closed /\ Live(r) /\ z.cancel = r.cancel
      BY <2>7, <3>4, <3>6 DEF Moves, Live
    <3>9. Live(z) => z.pos + z.queue = word * WordLength
      <4>1. Live(r) => r.queue = v.queue
        BY <2>7 DEF Moves
      <4>2. WordLength \in Nat
        BY SamplesNat
      <4> HIDE DEF start
      <4> QED
        BY <1>0, <2>10, <3>8, <4>1, <4>2
    <3>10. z.closed /\ Live(z) => v.closed /\ z.cancel = v.cancel
      BY <2>7, <3>8 DEF Moves
    <3> QED
      BY <1>2, <2>10, <3>7, <3>8, <3>9, <3>10
  <2> QED
    BY <2>9, <2>10
<1> QED
  BY <1>1, <1>2

-----------------------------------------------------------------------------
(* The invariant. *)

(* Types, with those of the messages. *)
TypeInv ==
  /\ active \in GenId \cup {NoGen}
  /\ cancelled \in [GenId -> BOOLEAN]
  /\ accepts \in [GenId -> BOOLEAN]
  /\ heard \in [GenId -> 0 .. Words]
  /\ published \in [GenId -> 0 .. Words]
  /\ publishing \in BOOLEAN
  /\ overlap \in GenId \cup {NoGen}
  /\ outbox \in Seq(CommandMsg)
  /\ ctl \in [gen : GenId \cup {NoGen}, state : PlaybackState, browser : BOOLEAN,
              pos : 0 .. Samples, rate : BOOLEAN, seq : Nat \ {0}, acked : Nat]
  /\ flow \in [gen : GenId \cup {NoGen}, pos : 0 .. Samples]
  /\ down \in Seq(Sent)
  /\ up \in Seq(Message)
  /\ pageCancelled \in GenId \cup {NoGen}
  /\ w \in Worklet
  /\ Typed

(* The worklet and what it has rendered. *)
WorkInv ==
  /\ w.out = <<>>
  /\ IF w.gen = NoGen THEN w = Processor(NoGen)
     ELSE Working(w) /\ rendered[w.gen] = w.pos
  /\ w.closed /\ Live(w) => w.cancel # 0 /\ w.gen <= pageCancelled
  /\ \A g \in GenId : g > w.gen => rendered[g] = 0

(* The reports on their way, and what the session took from earlier ones. *)
UpInv ==
  /\ \A i \in Idx(up) : up[i].pos <= rendered[up[i].gen]
  /\ \A i, j \in Idx(up) : i <= j /\ up[i].gen = up[j].gen => up[i].pos <= up[j].pos
  /\ \A i \in Idx(up) : up[i].gen = ctl.gen => ctl.pos <= up[i].pos
  /\ \A i \in Idx(up) : up[i].kind = "complete" => up[i].pos = Samples
  /\ ctl.gen # NoGen => ctl.pos <= rendered[ctl.gen]
  /\ flow.gen # NoGen => flow.pos <= rendered[flow.gen]

(* Words of an answer that were sent. *)
Out(g) == published[g] - (IF publishing THEN 1 ELSE 0)

(* The session sends what it has credit for, and one answer at a time. *)
SenderInv ==
  /\ active # NoGen => active = ctl.gen
  /\ w.gen <= ctl.gen
  /\ active # NoGen /\ publishing => published[active] >= 1
  /\ \A g \in GenId : g > ctl.gen => published[g] = 0
  /\ active # NoGen => Out(active) * WordLength <= rendered[active] + Window

(* Nothing of an answer follows its cancel. *)
Uncancelled ==
  /\ pageCancelled < ctl.gen
  /\ \A i \in Idx(down) : down[i].action = "cancel" => down[i].gen < ctl.gen

(* Cancels in the socket and in the page are older than what follows them. *)
QuietInv ==
  /\ pageCancelled <= ctl.gen
  /\ \A i \in Idx(down) : pageCancelled < down[i].gen /\ down[i].gen <= ctl.gen
  /\ \A i, j \in Idx(down) :
       i < j /\ down[i].action = "cancel" => down[i].gen < down[j].gen
  /\ \A i \in Idx(outbox) :
       /\ outbox[i].gen = ctl.gen
       /\ outbox[i].action = "cancel" => i = Len(outbox) /\ overlap = NoGen
  /\ active # NoGen \/ (overlap # NoGen /\ overlap = ctl.gen) \/ outbox # <<>> => Uncancelled

(* Words arrive in turn and none is missing. *)
Arrived(g, k) ==
  \/ g < w.gen
  \/ g = w.gen /\ (~Live(w) \/ w.pos + w.queue = k * WordLength)
  \/ g > w.gen /\ k = 0

IsWord(m, g, k) == m.kind = "word" /\ m.gen = g /\ m.word = k

Before(g, k, n) == Arrived(g, k) \/ \E i \in 1 .. n : IsWord(down[i], g, k)

Pred(m) == IF m.kind = "word" THEN m.word - 1 ELSE Words

ChainInv ==
  /\ \A i \in Idx(down) :
       down[i].kind \in {"word", "end"} => Before(down[i].gen, Pred(down[i]), i - 1)
  /\ \A i, j \in Idx(down) :
       /\ i < j /\ down[i].gen = down[j].gen
       /\ down[i].kind = "word" /\ down[j].kind = "word"
       => down[i].word < down[j].word
  /\ active # NoGen =>
       /\ Before(active, Out(active), Len(down))
       /\ \A i \in Idx(down) :
            down[i].kind = "word" /\ down[i].gen = active => down[i].word <= Out(active)

Inv == TypeInv /\ WorkInv /\ UpInv /\ SenderInv /\ QuietInv /\ ChainInv

-----------------------------------------------------------------------------
(* Reports that go out. *)

(* Reports that continue those on their way. *)
Posted(o) ==
  /\ o \in Seq(Message)
  /\ \A i \in Idx(o) :
       /\ rendered[o[i].gen] <= o[i].pos /\ o[i].pos <= rendered'[o[i].gen]
       /\ o[i].kind = "complete" => o[i].pos = Samples
       /\ \A j \in Idx(o) : i <= j /\ o[i].gen = o[j].gen => o[i].pos <= o[j].pos

(* The elements of a concatenation. *)
LEMMA Concat ==
  ASSUME NEW p \in Seq(Message), NEW q \in Seq(Message)
  PROVE  /\ p \o q \in Seq(Message)
         /\ \A i \in Idx(p \o q) :
              \/ i \in Idx(p) /\ (p \o q)[i] = p[i]
              \/ i - Len(p) \in Idx(q) /\ (p \o q)[i] = q[i - Len(p)] /\ i > Len(p)
  BY ConcatProperties DEF Idx

(* The position and the answer of a report are numbers. *)
LEMMA MessageTypes ==
  ASSUME NEW q \in Seq(Message), NEW i \in Idx(q)
  PROVE  q[i] \in Message /\ q[i].pos \in Nat /\ q[i].gen \in GenId
<1>1. q[i] \in Message
  BY DEF Idx
<1> QED
  BY <1>1, SamplesNat DEF Message

(* Reports in the order of the cursor keep the reports on their way in order, *)
(* and behind what was rendered.                                            *)
LEMMA PostedUp ==
  ASSUME Inv, NEW o, Posted(o), up' = up \o o, Typed',
         \A g \in GenId : rendered[g] <= rendered'[g],
         UNCHANGED <<ctl, flow>>
  PROVE  up' \in Seq(Message) /\ UpInv'
<1>1. /\ up \in Seq(Message) /\ o \in Seq(Message)
      /\ ctl.gen \in GenId \cup {NoGen} /\ ctl.pos \in Nat
      /\ flow.gen \in GenId \cup {NoGen} /\ flow.pos \in Nat
      /\ \A g \in GenId : rendered[g] \in Nat /\ rendered'[g] \in Nat
  BY SamplesNat DEF Inv, TypeInv, Posted, Typed
<1>2. up' \in Seq(Message)
  BY <1>1, Concat
<1>3. \A i \in Idx(up') :
        \/ i \in Idx(up) /\ up'[i] = up[i]
        \/ i - Len(up) \in Idx(o) /\ up'[i] = o[i - Len(up)] /\ i > Len(up)
  BY <1>1, Concat
<1>4. \A i \in Idx(up') : up'[i].pos <= rendered'[up'[i].gen]
  <2> SUFFICES ASSUME NEW i \in Idx(up') PROVE up'[i].pos <= rendered'[up'[i].gen]
    OBVIOUS
  <2>1. CASE i \in Idx(up) /\ up'[i] = up[i]
    BY <1>1, <2>1, MessageTypes DEF Inv, UpInv
  <2>2. CASE i - Len(up) \in Idx(o) /\ up'[i] = o[i - Len(up)]
    BY <2>2 DEF Posted
  <2> QED
    BY <1>3, <2>1, <2>2
<1>5. \A i, j \in Idx(up') : i <= j /\ up'[i].gen = up'[j].gen => up'[i].pos <= up'[j].pos
  <2> SUFFICES ASSUME NEW i \in Idx(up'), NEW j \in Idx(up'), i <= j, up'[i].gen = up'[j].gen
               PROVE  up'[i].pos <= up'[j].pos
    OBVIOUS
  <2>0. Len(up) \in Nat /\ i \in Nat /\ j \in Nat
    BY <1>1, <1>2 DEF Idx
  <2>1. CASE i \in Idx(up) /\ up'[i] = up[i] /\ j \in Idx(up) /\ up'[j] = up[j]
    BY <2>1 DEF Inv, UpInv
  <2>2. CASE /\ i \in Idx(up) /\ up'[i] = up[i]
             /\ j - Len(up) \in Idx(o) /\ up'[j] = o[j - Len(up)]
    <3>1. up[i].pos <= rendered[up[i].gen] /\ up[i].pos \in Nat /\ up[i].gen \in GenId
      BY <1>1, <2>2, MessageTypes DEF Inv, UpInv
    <3>2. rendered[up'[j].gen] <= up'[j].pos /\ up'[j].pos \in Nat
      BY <1>1, <2>2, MessageTypes DEF Posted
    <3>3. up'[i].pos = up[i].pos /\ up'[j].gen = up[i].gen
      BY <2>2
    <3>4. rendered[up[i].gen] \in Nat
      BY <1>1, <3>1
    <3> DEFINE a == up[i].pos
               b == rendered[up[i].gen]
               d == up'[j].pos
    <3>5. a \in Nat /\ b \in Nat /\ d \in Nat /\ a <= b /\ b <= d /\ up'[i].pos = a
      BY <3>1, <3>2, <3>3, <3>4
    <3>6. a <= d
      <4> HIDE DEF a, b, d
      <4> QED
        BY <3>5
    <3>7. up'[i].pos <= d
      <4> HIDE DEF d
      <4> QED
        BY <3>5, <3>6, Zenon
    <3> QED
      BY <3>7
  <2>3. CASE /\ i - Len(up) \in Idx(o) /\ up'[i] = o[i - Len(up)]
             /\ j - Len(up) \in Idx(o) /\ up'[j] = o[j - Len(up)]
    <3>1. i - Len(up) <= j - Len(up)
      BY <2>0
    <3> QED
      BY <2>3, <3>1 DEF Posted
  <2>4. ~(/\ i - Len(up) \in Idx(o) /\ i > Len(up) /\ j \in Idx(up))
    BY <2>0 DEF Idx
  <2> QED
    BY <1>3, <2>1, <2>2, <2>3, <2>4
<1>6. \A i \in Idx(up') : up'[i].gen = ctl.gen => ctl.pos <= up'[i].pos
  <2> SUFFICES ASSUME NEW i \in Idx(up'), up'[i].gen = ctl.gen PROVE ctl.pos <= up'[i].pos
    OBVIOUS
  <2>1. CASE i \in Idx(up) /\ up'[i] = up[i]
    BY <2>1 DEF Inv, UpInv
  <2>2. CASE i - Len(up) \in Idx(o) /\ up'[i] = o[i - Len(up)]
    <3>1. rendered[ctl.gen] <= up'[i].pos /\ up'[i].pos \in Nat /\ ctl.gen \in GenId
      BY <1>1, <2>2, MessageTypes DEF Posted
    <3>2. ctl.pos <= rendered[ctl.gen]
      BY <3>1, PlaybackAssumption DEF Inv, UpInv, GenId, NoGen
    <3>3. rendered[ctl.gen] \in Nat /\ ctl.pos \in Nat
      BY <1>1, <3>1
    <3>4. \A a, b, c \in Nat : a <= b /\ b <= c => a <= c
      OBVIOUS
    <3> QED
      BY <3>1, <3>2, <3>3, <3>4, Zenon
  <2> QED
    BY <1>3, <2>1, <2>2
<1>7. \A i \in Idx(up') : up'[i].kind = "complete" => up'[i].pos = Samples
  BY <1>3 DEF Inv, UpInv, Posted
<1>8. /\ ctl.gen # NoGen => ctl.pos <= rendered'[ctl.gen]
      /\ flow.gen # NoGen => flow.pos <= rendered'[flow.gen]
  BY <1>1 DEF Inv, UpInv
<1> QED
  BY <1>2, <1>4, <1>5, <1>6, <1>7, <1>8 DEF UpInv

-----------------------------------------------------------------------------
(* The browser. *)

(* The elements of a queue without its first. *)
LEMMA TailElements ==
  ASSUME NEW S, NEW q \in Seq(S), q # <<>>
  PROVE  /\ Tail(q) \in Seq(S)
         /\ Len(q) \in Nat /\ Len(Tail(q)) = Len(q) - 1
         /\ 1 \in Idx(q) /\ Head(q) = q[1] /\ q[1] \in S
         /\ \A i \in Idx(Tail(q)) : i \in Nat /\ i + 1 \in Idx(q) /\ Tail(q)[i] = q[i + 1]
  BY DEF Idx

(* The elements of a queue with one more. *)
LEMMA AppendElements ==
  ASSUME NEW S, NEW q \in Seq(S), NEW m \in S
  PROVE  /\ Append(q, m) \in Seq(S)
         /\ Len(q) \in Nat /\ Len(Append(q, m)) = Len(q) + 1
         /\ Append(q, m)[Len(q) + 1] = m
         /\ \A i \in Idx(q) : i \in Nat /\ i \in Idx(Append(q, m)) /\ Append(q, m)[i] = q[i]
         /\ \A i \in Idx(Append(q, m)) :
              \/ i \in Idx(q) /\ Append(q, m)[i] = q[i]
              \/ i = Len(q) + 1 /\ Append(q, m)[i] = m
  BY DEF Idx

(* Answers are numbered from one. *)
LEMMA GenNumbers ==
  /\ MaxGenerations \in Nat /\ GenId \subseteq Nat \ {0} /\ NoGen = 0 /\ NoGen \notin GenId
  /\ Window \in Nat
  /\ \A g \in GenId \cup {NoGen} : g \in Nat
  BY PlaybackAssumption DEF GenId, NoGen

(* The worklet goes on with the answer it has. *)
LEMMA BecomesWorks ==
  ASSUME Inv, NEW v, Becomes(v), w.gen # NoGen, Working(v), v.gen = w.gen,
         UNCHANGED <<ctl, flow>>,
         v.closed /\ Live(v) => v.cancel # 0 /\ w.gen <= pageCancelled'
  PROVE  /\ w' \in Worklet /\ Typed' /\ up' \in Seq(Message)
         /\ WorkInv' /\ UpInv'
         /\ w'.gen = w.gen /\ w'.state = v.state /\ w'.pos = v.pos /\ w'.queue = v.queue
         /\ \A g \in GenId : rendered[g] <= rendered'[g]
<1>1. /\ v \in Worklet /\ w.gen \in GenId /\ v.pos \in 0 .. Samples /\ v.pos \in Nat
      /\ rendered \in [GenId -> 0 .. Samples] /\ v.out \in Seq(Message)
      /\ Working(w) /\ rendered[w.gen] = w.pos
  BY SamplesNat, GenNumbers DEF Inv, TypeInv, WorkInv, Working, Worklet, Typed
<1>2. w' = [v EXCEPT !.out = <<>>] /\ up' = up \o v.out
  BY DEF Becomes
<1>3. rendered' = [rendered EXCEPT ![w.gen] = v.pos]
  BY DEF Becomes
<1>4. Typed'
  BY <1>1, <1>3 DEF Typed
<1>5. \A g \in GenId : rendered[g] \in Nat /\ rendered[g] <= rendered'[g]
  BY <1>1, <1>3, SamplesNat DEF Working
<1>6. rendered'[w.gen] = v.pos
  BY <1>1, <1>3
<1>7. <<>> \in Seq(Message)
  OBVIOUS
<1>8. /\ w' \in Worklet /\ w'.out = <<>>
      /\ w'.gen = w.gen /\ w'.state = v.state /\ w'.pos = v.pos /\ w'.queue = v.queue
      /\ w'.ended = v.ended /\ w'.resume = v.resume /\ w'.cancel = v.cancel
      /\ w'.closed = v.closed
  BY <1>1, <1>2, <1>7 DEF Worklet
<1>9. Posted(v.out)
  <2>1. ASSUME NEW i \in Idx(v.out)
        PROVE  /\ rendered[v.out[i].gen] <= v.out[i].pos
               /\ v.out[i].pos <= rendered'[v.out[i].gen]
               /\ v.out[i].kind = "complete" => v.out[i].pos = Samples
               /\ \A j \in Idx(v.out) : i <= j => v.out[i].pos <= v.out[j].pos
    BY <1>6 DEF Working, Posts
  <2> QED
    BY <1>1, <2>1 DEF Posted
<1>10. up' \in Seq(Message) /\ UpInv'
  BY <1>2, <1>4, <1>5, <1>9, PostedUp
<1>11. Working(w)' /\ rendered'[w'.gen] = w'.pos
  <2>1. Idx(w'.out) = {}
    BY <1>8 DEF Idx
  <2>2. w'.pos + w'.queue <= Samples /\ w'.pos <= w'.pos
    BY <1>1, <1>8 DEF Working
  <2> QED
    BY <1>6, <1>8, <2>1, <2>2 DEF Working, Posts, Live
<1>12. \A g \in GenId : g > w'.gen => rendered'[g] = 0
  BY <1>1, <1>3, <1>8, GenNumbers DEF Inv, WorkInv
<1>13. WorkInv'
  BY <1>8, <1>11, <1>12 DEF WorkInv, Live
<1> QED
  BY <1>4, <1>5, <1>8, <1>10, <1>13

(* A worklet that takes nothing changes nothing. *)
LEMMA BecomesItself ==
  ASSUME Inv, Becomes(w)
  PROVE  UNCHANGED <<w, up, rendered>>
<1>1. w \in Worklet /\ w.out = <<>> /\ up \in Seq(Message) /\ rendered \in [GenId -> 0 .. Samples]
  BY DEF Inv, TypeInv, WorkInv, Typed
<1>2. w' = w
  BY <1>1 DEF Becomes, Worklet
<1>3. up' = up
  BY <1>1 DEF Becomes
<1>4. rendered' = rendered
  <2>1. CASE w.gen = NoGen
    BY <2>1 DEF Becomes
  <2>2. CASE w.gen # NoGen
    <3>1. rendered[w.gen] = w.pos
      BY <2>2 DEF Inv, WorkInv
    <3> QED
      BY <1>1, <2>2, <3>1 DEF Becomes
  <2> QED
    BY <2>1, <2>2
<1> QED
  BY <1>2, <1>3, <1>4

-----------------------------------------------------------------------------
(* What the browser takes from the session. *)

(* What the messages to the browser are. *)
LEMMA DownFacts ==
  ASSUME Inv
  PROVE  /\ down \in Seq(Sent)
         /\ \A i \in Idx(down) : down[i] \in Sent /\ down[i].gen \in GenId
         /\ \A i \in Idx(down) : down[i].kind = "word" => down[i].word \in 1 .. Words
         /\ \A i \in Idx(down) : down[i].action = "cancel" => down[i].kind = "command"
         /\ \A i \in Idx(down) : down[i].kind = "command" => down[i] \in CommandMsg
         /\ \A i \in Idx(down) : down[i].kind \in {"word", "end"} => Pred(down[i]) \in Nat
<1>1. down \in Seq(Sent)
  BY DEF Inv, TypeInv
<1>2. \A i \in Idx(down) : down[i] \in Sent
  BY <1>1 DEF Idx
<1>3. \A m \in Sent :
        /\ m.gen \in GenId
        /\ m.kind = "word" => m.word \in 1 .. Words
        /\ m.action = "cancel" => m.kind = "command"
        /\ m.kind = "command" => m \in CommandMsg
        /\ m.kind \in {"word", "end"} => Pred(m) \in Nat
  <2> SUFFICES ASSUME NEW m \in Sent
               PROVE  /\ m.gen \in GenId
                      /\ m.kind = "word" => m.word \in 1 .. Words
                      /\ m.action = "cancel" => m.kind = "command"
                      /\ m.kind = "command" => m \in CommandMsg
                      /\ m.kind \in {"word", "end"} => Pred(m) \in Nat
    OBVIOUS
  <2>1. CASE m \in WordMsg
    BY <2>1, SamplesNat DEF WordMsg, Pred
  <2>2. CASE m \in EndMsg
    BY <2>2, SamplesNat DEF EndMsg, Pred
  <2>3. CASE m \in CommandMsg
    <3>1. m.gen \in GenId /\ m.kind = "command"
      BY <2>3 DEF CommandMsg
    <3> QED
      BY <2>3, <3>1
  <2> QED
    BY <2>1, <2>2, <2>3 DEF Sent
<1> QED
  BY <1>1, <1>2, <1>3

(* Words sent of the active answer are counted. *)
LEMMA OutNat ==
  ASSUME Inv, active # NoGen
  PROVE  Out(active) \in Nat /\ published[active] \in Nat /\ active \in GenId
<1>1. active \in GenId /\ publishing \in BOOLEAN /\ published \in [GenId -> 0 .. Words]
  BY DEF Inv, TypeInv
<1>2. published[active] \in Nat
  BY <1>1, SamplesNat
<1>3. publishing => published[active] >= 1
  BY DEF Inv, SenderInv
<1>4. CASE publishing
  BY <1>2, <1>3, <1>4, <1>1 DEF Out
<1>5. CASE ~publishing
  BY <1>2, <1>5, <1>1 DEF Out
<1> QED
  BY <1>4, <1>5

(* Arrived and Before in the next state. *)
ArrivedNext(g, k) ==
  \/ g < w'.gen
  \/ g = w'.gen /\ (~Live(w') \/ w'.pos + w'.queue = k * WordLength)
  \/ g > w'.gen /\ k = 0

BeforeNext(g, k, n) == ArrivedNext(g, k) \/ \E i \in 1 .. n : IsWord(down'[i], g, k)

(* ChainInv after a step, over what arrived in it. *)
LEMMA ChainNext ==
  ASSUME \A i \in Idx(down') :
           down'[i].kind \in {"word", "end"} => BeforeNext(down'[i].gen, Pred(down'[i]), i - 1),
         \A i, j \in Idx(down') :
           /\ i < j /\ down'[i].gen = down'[j].gen
           /\ down'[i].kind = "word" /\ down'[j].kind = "word"
           => down'[i].word < down'[j].word,
         active' # NoGen =>
           /\ BeforeNext(active', Out(active)', Len(down'))
           /\ \A i \in Idx(down') :
                down'[i].kind = "word" /\ down'[i].gen = active' => down'[i].word <= Out(active)'
  PROVE  ChainInv'
<1>1. \A i \in Idx(down') :
        down'[i].kind \in {"word", "end"} =>
          Before(down[i].gen, Pred(down[i]), i - 1)'
  BY DEF BeforeNext, ArrivedNext, Before, Arrived, Pred
<1>2. active' # NoGen => Before(active, Out(active), Len(down))'
  BY DEF BeforeNext, ArrivedNext, Before, Arrived
<1> QED
  BY <1>1, <1>2 DEF ChainInv

(* The messages to the browser with one more. *)
LEMMA DownAppend ==
  ASSUME Inv, NEW m \in Sent, down' = Append(down, m)
  PROVE  /\ down \in Seq(Sent) /\ down' \in Seq(Sent)
         /\ Len(down) \in Nat /\ Len(down') = Len(down) + 1
         /\ down'[Len(down) + 1] = m
         /\ \A i \in Idx(down) : i \in Nat /\ down'[i] = down[i]
         /\ \A i \in Idx(down') : \/ i \in Idx(down) /\ down'[i] = down[i]
                                  \/ i = Len(down) + 1 /\ down'[i] = m
<1>1. down \in Seq(Sent)
  BY DEF Inv, TypeInv
<1> DEFINE q == Append(down, m)
<1>2. /\ q \in Seq(Sent)
      /\ Len(down) \in Nat /\ Len(q) = Len(down) + 1
      /\ q[Len(down) + 1] = m
      /\ \A i \in Idx(down) : i \in Nat /\ q[i] = down[i]
      /\ \A i \in Idx(q) : \/ i \in Idx(down) /\ q[i] = down[i]
                           \/ i = Len(down) + 1 /\ q[i] = m
  BY <1>1, AppendElements
<1>3. down' = q
  OBVIOUS
<1> HIDE DEF q
<1> QED
  BY <1>1, <1>2, <1>3

(* What the browser has taken leaves the chain. *)
LEMMA TailChain ==
  ASSUME Inv, down # <<>>, down' = Tail(down), UNCHANGED <<active, published, publishing>>,
         \A g \in GenId : \A k \in Nat :
           Arrived(g, k) => \/ ArrivedNext(g, k)
                            \/ Head(down).kind = "word" /\ g = Head(down).gen /\ k = Head(down).word - 1,
         Head(down).kind = "word" => ArrivedNext(Head(down).gen, Head(down).word)
  PROVE  ChainInv'
<1>1. /\ Len(down) \in Nat /\ Len(down') = Len(down) - 1
      /\ 1 \in Idx(down) /\ Head(down) = down[1]
      /\ \A i \in Idx(down') : i \in Nat /\ i + 1 \in Idx(down) /\ down'[i] = down[i + 1]
  BY DownFacts, TailElements
<1>2. ASSUME NEW g \in GenId, NEW k \in Nat, NEW n \in Nat,
             Before(g, k, n + 1), n + 1 <= Len(down),
             Head(down).kind = "word" /\ Head(down).gen = g => k # Head(down).word - 1
      PROVE  BeforeNext(g, k, n)
  <2>1. CASE Arrived(g, k)
    BY <1>2, <2>1 DEF BeforeNext
  <2>2. CASE \E i \in 1 .. n + 1 : IsWord(down[i], g, k)
    <3>1. PICK i \in 1 .. n + 1 : IsWord(down[i], g, k)
      BY <2>2
    <3>2. CASE i = 1
      <4>1. IsWord(Head(down), g, k)
        BY <1>1, <3>1, <3>2
      <4> QED
        BY <4>1 DEF IsWord, BeforeNext
    <3>3. CASE i # 1
      <4>1. i - 1 \in 1 .. n /\ i - 1 \in Idx(down') /\ (i - 1) + 1 = i
        BY <1>1, <1>2, <3>1, <3>3 DEF Idx
      <4>2. down'[i - 1] = down[i]
        BY <1>1, <4>1
      <4>3. IsWord(down'[i - 1], g, k)
        BY <3>1, <4>2
      <4> QED
        BY <4>1, <4>3 DEF BeforeNext
    <3> QED
      BY <3>2, <3>3
  <2> QED
    BY <1>2, <2>1, <2>2 DEF Before
<1>3. ASSUME NEW i \in Idx(down'), down'[i].kind \in {"word", "end"}
      PROVE  BeforeNext(down'[i].gen, Pred(down'[i]), i - 1)
  <2> DEFINE m == down[i + 1]
  <2>1. /\ m = down'[i] /\ i - 1 \in Nat /\ (i - 1) + 1 = i /\ (i + 1) - 1 = i
        /\ i + 1 \in Idx(down) /\ i <= Len(down) /\ 1 < i + 1
    BY <1>1 DEF Idx
  <2>2. Before(m.gen, Pred(m), i) /\ m.gen \in GenId /\ Pred(m) \in Nat
    <3>1. Before(m.gen, Pred(m), (i + 1) - 1)
      BY <1>3, <2>1 DEF Inv, ChainInv
    <3> QED
      BY <1>3, <2>1, <3>1, DownFacts
  <2>3. Head(down).kind = "word" /\ Head(down).gen = m.gen => Pred(m) # Head(down).word - 1
    <3> SUFFICES ASSUME Head(down).kind = "word", Head(down).gen = m.gen
                 PROVE  Pred(m) # Head(down).word - 1
      OBVIOUS
    <3>1. Head(down).word \in 1 .. Words
      BY <1>1, DownFacts
    <3>2. CASE m.kind = "word"
      <4>1. Head(down).word < m.word
        <5>1. down[1].word < down[i + 1].word
          BY <1>1, <2>1, <3>2 DEF Inv, ChainInv
        <5> QED
          BY <1>1, <5>1
      <4>2. m.word \in 1 .. Words
        BY <2>1, <3>2, DownFacts
      <4> QED
        BY <3>1, <3>2, <4>1, <4>2, SamplesNat DEF Pred
    <3>3. CASE m.kind # "word"
      BY <3>1, <3>3, SamplesNat DEF Pred
    <3> QED
      BY <3>2, <3>3
  <2> HIDE DEF m
  <2>4. BeforeNext(m.gen, Pred(m), i - 1)
    BY <1>2, <2>1, <2>2, <2>3
  <2> QED
    BY <2>1, <2>4
<1>4. ASSUME NEW i \in Idx(down'), NEW j \in Idx(down'), i < j, down'[i].gen = down'[j].gen,
             down'[i].kind = "word", down'[j].kind = "word"
      PROVE  down'[i].word < down'[j].word
  <2>1. /\ i \in Nat /\ i + 1 \in Idx(down) /\ down'[i] = down[i + 1]
        /\ j \in Nat /\ j + 1 \in Idx(down) /\ down'[j] = down[j + 1]
    BY <1>1
  <2>2. i + 1 < j + 1
    BY <1>4, <2>1
  <2>3. down[i + 1].word < down[j + 1].word
    BY <1>4, <2>1, <2>2 DEF Inv, ChainInv
  <2> QED
    BY <2>1, <2>3
<1>5. ASSUME active' # NoGen
      PROVE  /\ BeforeNext(active', Out(active)', Len(down'))
             /\ \A i \in Idx(down') :
                  down'[i].kind = "word" /\ down'[i].gen = active' => down'[i].word <= Out(active)'
  <2> DEFINE k == Out(active)
  <2>1. active' = active /\ Out(active)' = k /\ active \in GenId
    BY <1>5 DEF Out, Inv, TypeInv
  <2>2. k \in Nat
    BY <1>5, <2>1, OutNat
  <2>3. Before(active, k, Len(down))
    BY <1>5, <2>1 DEF Inv, ChainInv
  <2>4. \A i \in Idx(down) : down[i].kind = "word" /\ down[i].gen = active => down[i].word <= k
    BY <1>5, <2>1 DEF Inv, ChainInv
  <2> HIDE DEF k
  <2>5. Head(down).kind = "word" /\ Head(down).gen = active => k # Head(down).word - 1
    <3> SUFFICES ASSUME Head(down).kind = "word", Head(down).gen = active
                 PROVE  k # Head(down).word - 1
      OBVIOUS
    <3>1. Head(down).word \in 1 .. Words /\ Head(down).word <= k
      BY <1>1, <2>4, DownFacts
    <3> QED
      BY <2>2, <3>1, SamplesNat
  <2>6. BeforeNext(active, k, Len(down'))
    <3>1. Len(down') \in Nat /\ Len(down') + 1 = Len(down)
      BY <1>1 DEF Idx
    <3> QED
      BY <1>2, <2>1, <2>2, <2>3, <2>5, <3>1
  <2> QED
    BY <1>1, <2>1, <2>4, <2>6
<1> QED
  BY <1>3, <1>4, <1>5, ChainNext

(* Taking a message keeps what is known of cancels. *)
LEMMA TailQuiet ==
  ASSUME Inv, down # <<>>, down' = Tail(down), UNCHANGED <<active, overlap, outbox, ctl>>,
         pageCancelled' = IF Head(down).action = "cancel"
                          THEN Larger(pageCancelled, Head(down).gen) ELSE pageCancelled
  PROVE  /\ pageCancelled' \in GenId \cup {NoGen}
         /\ QuietInv'
<1>1. /\ 1 \in Idx(down) /\ Head(down) = down[1]
      /\ \A i \in Idx(down') : i \in Nat /\ i + 1 \in Idx(down) /\ down'[i] = down[i + 1]
  BY DownFacts, TailElements
<1>2. /\ pageCancelled \in GenId \cup {NoGen} /\ ctl.gen \in GenId \cup {NoGen}
      /\ Head(down).gen \in GenId
  BY <1>1, DownFacts DEF Inv, TypeInv
<1>3. /\ pageCancelled \in Nat /\ ctl.gen \in Nat /\ Head(down).gen \in Nat
  BY <1>2, GenNumbers
<1>4. pageCancelled' \in GenId \cup {NoGen}
  BY <1>2 DEF Larger
<1>5. /\ pageCancelled < Head(down).gen /\ Head(down).gen <= ctl.gen
      /\ pageCancelled' \in {pageCancelled, Head(down).gen}
      /\ Head(down).action # "cancel" => pageCancelled' = pageCancelled
  BY <1>1 DEF Inv, QuietInv, Larger
<1>6. \A i \in Idx(down') : pageCancelled' < down'[i].gen /\ down'[i].gen <= ctl'.gen
  <2> SUFFICES ASSUME NEW i \in Idx(down')
               PROVE  pageCancelled' < down'[i].gen /\ down'[i].gen <= ctl'.gen
    OBVIOUS
  <2>1. i \in Nat /\ i + 1 \in Idx(down) /\ down'[i] = down[i + 1]
    BY <1>1
  <2>2. pageCancelled < down[i + 1].gen /\ down[i + 1].gen <= ctl.gen
    BY <2>1 DEF Inv, QuietInv
  <2>3. 1 < i + 1
    BY <2>1 DEF Idx
  <2>4. Head(down).action = "cancel" => Head(down).gen < down[i + 1].gen
    BY <1>1, <2>1, <2>3 DEF Inv, QuietInv
  <2> QED
    BY <1>5, <2>1, <2>2, <2>4
<1>7. \A i, j \in Idx(down') :
        i < j /\ down'[i].action = "cancel" => down'[i].gen < down'[j].gen
  <2> SUFFICES ASSUME NEW i \in Idx(down'), NEW j \in Idx(down'), i < j,
                      down'[i].action = "cancel"
               PROVE  down'[i].gen < down'[j].gen
    OBVIOUS
  <2>1. /\ i \in Nat /\ i + 1 \in Idx(down) /\ down'[i] = down[i + 1]
        /\ j \in Nat /\ j + 1 \in Idx(down) /\ down'[j] = down[j + 1]
    BY <1>1
  <2>2. i + 1 < j + 1
    BY <2>1
  <2> QED
    BY <2>1, <2>2 DEF Inv, QuietInv
<1>8. ASSUME active' # NoGen \/ (overlap' # NoGen /\ overlap' = ctl'.gen) \/ outbox' # <<>>
      PROVE  Uncancelled'
  <2>1. Uncancelled
    BY <1>8 DEF Inv, QuietInv
  <2>2. pageCancelled' < ctl'.gen
    BY <1>1, <1>5, <2>1 DEF Uncancelled
  <2>3. \A i \in Idx(down') : down'[i].action = "cancel" => down'[i].gen < ctl'.gen
    BY <1>1, <2>1 DEF Uncancelled
  <2> QED
    BY <2>2, <2>3 DEF Uncancelled
<1>9. pageCancelled' <= ctl'.gen
  BY <1>3, <1>5 DEF Inv, QuietInv
<1>10. \A i \in Idx(outbox') :
         /\ outbox'[i].gen = ctl'.gen
         /\ outbox'[i].action = "cancel" => i = Len(outbox') /\ overlap' = NoGen
  BY DEF Inv, QuietInv
<1> QED
  BY <1>4, <1>6, <1>7, <1>8, <1>9, <1>10 DEF QuietInv

(* A step of the browser keeps the credit of the sender. *)
LEMMA SenderKept ==
  ASSUME Inv, UNCHANGED serverVars, w'.gen <= ctl.gen, Typed',
         \A g \in GenId : rendered[g] <= rendered'[g]
  PROVE  SenderInv'
<1>1. /\ active' = active /\ publishing' = publishing /\ published' = published /\ ctl' = ctl
      /\ Out(active)' = Out(active)
  BY DEF serverVars, sessionVars, Out
<1>2. ASSUME active # NoGen
      PROVE  Out(active) * WordLength <= rendered'[active] + Window
  <2>1. Out(active) \in Nat /\ active \in GenId
    BY <1>2, OutNat
  <2>2. rendered[active] \in Nat /\ rendered'[active] \in Nat /\ rendered[active] <= rendered'[active]
    BY <2>1, SamplesNat DEF Inv, TypeInv, Typed
  <2>3. Out(active) * WordLength <= rendered[active] + Window
    BY <1>2 DEF Inv, SenderInv
  <2>4. Out(active) * WordLength \in Nat
    BY <2>1, SamplesNat
  <2> QED
    BY <2>2, <2>3, <2>4, GenNumbers
<1> QED
  BY <1>1, <1>2 DEF Inv, SenderInv

(* The rest of the types when only browser and socket change. *)
LEMMA TypesKept ==
  ASSUME Inv, UNCHANGED serverVars, down' \in Seq(Sent), up' \in Seq(Message),
         pageCancelled' \in GenId \cup {NoGen}, w' \in Worklet, Typed'
  PROVE  TypeInv'
  BY DEF Inv, TypeInv, serverVars, sessionVars

(* An arrival stays one while the worklet keeps what it has. *)
LEMMA ArrivedKept ==
  ASSUME NEW g, NEW k, Arrived(g, k), w'.gen = w.gen, Live(w') => Live(w),
         Live(w') => w'.pos + w'.queue = w.pos + w.queue
  PROVE  ArrivedNext(g, k)
  BY DEF Arrived, ArrivedNext

(* A delivery that keeps the answer and what is queued of it. *)
LEMMA DeliveryKeeps ==
  ASSUME Inv, down # <<>>, down' = Tail(down), UNCHANGED serverVars,
         pageCancelled' = IF Head(down).action = "cancel"
                          THEN Larger(pageCancelled, Head(down).gen) ELSE pageCancelled,
         w' \in Worklet, Typed', up' \in Seq(Message), WorkInv', UpInv',
         w'.gen = w.gen,
         \A g \in GenId : rendered[g] <= rendered'[g],
         Live(w') => Live(w),
         Live(w') /\ Head(down).kind # "word" => w'.pos + w'.queue = w.pos + w.queue,
         Head(down).kind = "word" => Head(down).gen <= w.gen,
         Live(w') /\ Head(down).kind = "word" =>
           \/ w'.pos + w'.queue = w.pos + w.queue /\ Head(down).gen < w.gen
           \/ /\ Head(down).gen = w.gen
              /\ w.pos + w.queue = (Head(down).word - 1) * WordLength
              /\ w'.pos + w'.queue = Head(down).word * WordLength
  PROVE  Inv'
<1>1. /\ down' \in Seq(Sent) /\ Head(down) \in Sent /\ Head(down).gen \in GenId
      /\ Head(down).kind = "word" => Head(down).word \in 1 .. Words
  BY DownFacts, TailElements
<1>2. UNCHANGED <<active, overlap, outbox, ctl, published, publishing>>
  BY DEF serverVars, sessionVars
<1>3. pageCancelled' \in GenId \cup {NoGen} /\ QuietInv'
  BY <1>2, TailQuiet
<1>4. TypeInv'
  BY <1>1, <1>3, TypesKept
<1>5. SenderInv'
  <2>1. w'.gen <= ctl.gen
    BY DEF Inv, SenderInv
  <2> QED
    BY <2>1, SenderKept
<1>6. ChainInv'
  <2>1. ASSUME NEW g \in GenId, NEW k \in Nat, Arrived(g, k)
        PROVE  \/ ArrivedNext(g, k)
               \/ Head(down).kind = "word" /\ g = Head(down).gen /\ k = Head(down).word - 1
    <3>1. CASE ~Live(w') \/ w'.pos + w'.queue = w.pos + w.queue
      BY <2>1, <3>1 DEF Arrived, ArrivedNext
    <3>2. CASE /\ Live(w') /\ Head(down).kind = "word" /\ Head(down).gen = w.gen
               /\ w.pos + w.queue = (Head(down).word - 1) * WordLength
      <4>1. CASE g = w.gen
        <5>1. k * WordLength = (Head(down).word - 1) * WordLength
          BY <2>1, <3>2, <4>1, <1>1, GenNumbers DEF Arrived
        <5>2. k = Head(down).word - 1
          BY <1>1, <3>2, <5>1, SamplesNat
        <5> QED
          BY <3>2, <4>1, <5>2
      <4>2. CASE g # w.gen
        BY <2>1, <4>2 DEF Arrived, ArrivedNext
      <4> QED
        BY <4>1, <4>2
    <3> QED
      BY <3>1, <3>2
  <2>2. Head(down).kind = "word" => ArrivedNext(Head(down).gen, Head(down).word)
    <3> SUFFICES ASSUME Head(down).kind = "word"
                 PROVE  ArrivedNext(Head(down).gen, Head(down).word)
      OBVIOUS
    <3>1. Head(down).gen \in Nat /\ w.gen \in Nat
      BY <1>1, GenNumbers DEF Inv, TypeInv, Worklet
    <3> QED
      BY <3>1 DEF ArrivedNext
  <2> QED
    BY <1>2, <2>1, <2>2, TailChain
<1> QED
  BY <1>3, <1>4, <1>5, <1>6 DEF Inv

-----------------------------------------------------------------------------
(* A word of a newer answer replaces what the worklet had. *)
LEMMA TakesUp ==
  ASSUME Inv, NEW g \in GenId, g > w.gen, NEW word \in 1 .. Words,
         Becomes(Enqueue(ReplaceProcessor(w, g), word)), UNCHANGED <<ctl, flow>>
  PROVE  /\ w' \in Worklet /\ Typed' /\ up' \in Seq(Message)
         /\ WorkInv' /\ UpInv'
         /\ rendered' = rendered
         /\ w'.gen = g /\ Live(w') /\ ~w'.closed /\ w'.pos = 0
         /\ w'.queue = IF word = 1 THEN WordLength ELSE 0
<1> DEFINE o == FinishCancel(w).out
           p == [Processor(g) EXCEPT !.out = o]
           u == [p EXCEPT !.words = word]
           z == [u EXCEPT !.queue = WordLength, !.state = "QUEUED"]
           v == IF word = 1 THEN z ELSE u
<1>1. /\ w \in Worklet /\ w.gen \in GenId \cup {NoGen} /\ Typed
      /\ rendered \in [GenId -> 0 .. Samples]
      /\ \A h \in GenId : rendered[h] \in Nat
      /\ w.gen \in Nat /\ g \in Nat
  <2>1. w \in Worklet /\ Typed /\ rendered \in [GenId -> 0 .. Samples]
    BY DEF Inv, TypeInv, Typed
  <2>2. w.gen \in GenId \cup {NoGen}
    BY <2>1 DEF Worklet
  <2>3. \A h \in GenId : rendered[h] \in Nat
    BY <2>1, SamplesNat
  <2> QED
    BY <2>1, <2>2, <2>3, GenNumbers
<1>2. rendered[g] = 0
  BY DEF Inv, WorkInv
<1>3. /\ o \in Seq(Message)
      /\ \A i \in Idx(o) :
           /\ rendered[o[i].gen] <= o[i].pos /\ o[i].pos <= rendered[o[i].gen]
           /\ o[i].kind = "complete" => o[i].pos = Samples
           /\ \A j \in Idx(o) : i <= j => o[i].pos <= o[j].pos
  <2>1. CASE w.gen = NoGen
    <3>1. w.cancel = 0 /\ w.out = <<>>
      BY <2>1 DEF Inv, WorkInv, Processor
    <3>2. o = <<>>
      BY <3>1 DEF FinishCancel
    <3> QED
      BY <3>2 DEF Idx
  <2>2. CASE w.gen # NoGen
    <3>1. Moves(w, FinishCancel(w)) /\ rendered[w.gen] = w.pos
      BY <1>1, <2>2, FinishCancelMoves DEF Inv, WorkInv
    <3>2. Working(FinishCancel(w)) /\ FinishCancel(w).gen = w.gen /\ FinishCancel(w).pos = w.pos
      BY <3>1 DEF Moves
    <3>3. FinishCancel(w).out \in Seq(Message)
      BY <3>2 DEF Working, Worklet
    <3> QED
      BY <3>1, <3>2, <3>3 DEF Working, Posts
  <2> QED
    BY <2>1, <2>2
<1>4. ReplaceProcessor(w, g) = p
  BY <1>1 DEF ReplaceProcessor
<1> HIDE DEF o
<1>5. /\ p.gen = g /\ p.state = "IDLE" /\ p.pos = 0 /\ p.queue = 0 /\ p.words = 0
      /\ p.reported = 0 /\ p.clocked = 0 /\ p.gain = "full" /\ p.ramp = "none"
      /\ p.duck = 0 /\ p.pause = 0 /\ p.stop = NoBoundary /\ p.resume = 0
      /\ p.cancel = 0 /\ p.closed = FALSE /\ p.ended = FALSE /\ p.started = FALSE
      /\ p.out = o /\ p \in Worklet
  <2>1. /\ 0 \in 0 .. Samples /\ 0 \in 0 .. Words /\ 0 \in Nat /\ NoBoundary \in Nat
        /\ "IDLE" \in PlaybackState /\ g \in GenId \cup {NoGen}
    BY SamplesNat DEF NoBoundary, PlaybackState
  <2> DEFINE q(word0, pos0, n, stop, state) ==
               [gen |-> g, state |-> state, pos |-> pos0, queue |-> pos0, words |-> word0,
                reported |-> word0, clocked |-> n, gain |-> "full", ramp |-> "none",
                duck |-> n, pause |-> n, stop |-> stop, resume |-> n, cancel |-> n,
                closed |-> FALSE, ended |-> FALSE, started |-> FALSE, out |-> <<>>]
             x == q(0, 0, 0, NoBoundary, "IDLE")
  <2>2. \A word0 \in 0 .. Words, pos0 \in 0 .. Samples, n \in Nat, stop \in Nat, state \in PlaybackState :
          q(word0, pos0, n, stop, state) \in Worklet
    BY <2>1 DEF Worklet
  <2>3. x = Processor(g)
    BY DEF Processor
  <2>4. /\ x.gen = g /\ x.state = "IDLE" /\ x.pos = 0 /\ x.queue = 0 /\ x.words = 0
        /\ x.reported = 0 /\ x.clocked = 0 /\ x.gain = "full" /\ x.ramp = "none"
        /\ x.duck = 0 /\ x.pause = 0 /\ x.stop = NoBoundary /\ x.resume = 0
        /\ x.cancel = 0 /\ x.closed = FALSE /\ x.ended = FALSE /\ x.started = FALSE
    OBVIOUS
  <2>5. x \in Worklet
    <3> HIDE DEF q
    <3> QED
      BY <2>1, <2>2
  <2> HIDE DEF x
  <2>6. p = [x EXCEPT !.out = o]
    BY <2>3
  <2> QED
    BY <1>3, <2>4, <2>5, <2>6 DEF Worklet
<1> HIDE DEF p
<1>6. /\ u.gen = g /\ u.state = "IDLE" /\ u.pos = 0 /\ u.queue = 0
      /\ u.pause = 0 /\ u.resume = 0 /\ u.cancel = 0 /\ u.closed = FALSE
      /\ u.ended = FALSE /\ u.started = FALSE /\ u.out = o /\ u \in Worklet
  <2>1. word \in 0 .. Words
    BY SamplesNat
  <2> QED
    BY <1>5, <2>1 DEF Worklet
<1>7. u = [p EXCEPT !.words = word,
                    !.stop = IF p.pause # 0 /\ @ = NoBoundary /\ (word - 1) * WordLength >= p.pos
                             THEN (word - 1) * WordLength ELSE @]
  BY <1>5 DEF Worklet
<1> HIDE DEF u
<1>8. PauseIfDue(ReportCrossed(u), FALSE) = u
  <2>1. ReportCrossed(u) = u
    BY <1>6 DEF ReportCrossed
  <2>2. PauseIfDue(u, FALSE) = u
    BY <1>6 DEF PauseIfDue, PauseDue
  <2> QED
    BY <2>1, <2>2
<1>9. /\ z.gen = g /\ z.state = "QUEUED" /\ z.pos = 0 /\ z.queue = WordLength
      /\ z.resume = 0 /\ z.cancel = 0 /\ z.closed = FALSE
      /\ z.ended = FALSE /\ z.out = o /\ z \in Worklet
  <2>1. WordLength \in 0 .. Samples /\ "QUEUED" \in PlaybackState
    BY SamplesNat, PlaybackAssumption DEF PlaybackState
  <2> HIDE DEF WordLength
  <2>2. \A queue \in 0 .. Samples : \A state \in PlaybackState :
          LET q == [u EXCEPT !.queue = queue, !.state = state]
          IN  /\ q.gen = g /\ q.state = state /\ q.pos = 0 /\ q.queue = queue
              /\ q.resume = 0 /\ q.cancel = 0 /\ q.closed = FALSE
              /\ q.ended = FALSE /\ q.out = o /\ q \in Worklet
    BY <1>6 DEF Worklet
  <2> QED
    BY <2>1, <2>2
<1>10. z = [u EXCEPT !.queue = @ + WordLength, !.state = IF @ = "IDLE" THEN "QUEUED" ELSE @]
  <2>1. u.queue + WordLength = WordLength
    BY <1>6, SamplesNat
  <2> QED
    BY <1>6, <2>1
<1> HIDE DEF z
<1>11. Enqueue(ReplaceProcessor(w, g), word) = v
  <2>1. (word - 1) * WordLength # 0 + 0 <=> word # 1
    BY SamplesNat
  <2>2. p.state \notin Terminal
    BY <1>5 DEF Terminal
  <2>3. Enqueue(p, word) = IF (word - 1) * WordLength # p.pos + p.queue THEN u ELSE z
    BY <1>5, <1>7, <1>8, <1>10, <2>2 DEF Enqueue
  <2> QED
    BY <1>4, <1>5, <2>1, <2>3
<1>12. /\ v.gen = g /\ v.state \in {"IDLE", "QUEUED"} /\ v.pos = 0
       /\ v.queue = IF word = 1 THEN WordLength ELSE 0
       /\ v.resume = 0 /\ v.cancel = 0 /\ v.closed = FALSE
       /\ v.ended = FALSE /\ v.out = o /\ v \in Worklet
  BY <1>6, <1>9
<1> HIDE DEF v
<1>13. w' = [v EXCEPT !.out = <<>>] /\ up' = up \o o
  BY <1>11, <1>12 DEF Becomes
<1>14. rendered' = rendered
  <2>1. rendered' = [rendered EXCEPT ![g] = 0]
    BY <1>11, <1>12, GenNumbers DEF Becomes
  <2> QED
    BY <1>1, <1>2, <2>1
<1>15. <<>> \in Seq(Message)
  OBVIOUS
<1>16. /\ w'.gen = g /\ w'.state \in {"IDLE", "QUEUED"} /\ w'.pos = 0
       /\ w'.queue = IF word = 1 THEN WordLength ELSE 0
       /\ w'.resume = 0 /\ w'.cancel = 0 /\ w'.closed = FALSE
       /\ w'.ended = FALSE /\ w'.out = <<>> /\ w' \in Worklet
  BY <1>12, <1>13, <1>15 DEF Worklet
<1>17. Typed'
  BY <1>1, <1>14 DEF Typed
<1>18. up' \in Seq(Message) /\ UpInv'
  <2>1. Posted(o)
    BY <1>3, <1>14 DEF Posted
  <2>2. \A h \in GenId : rendered[h] <= rendered'[h]
    BY <1>1, <1>14
  <2> QED
    BY <1>13, <1>17, <2>1, <2>2, PostedUp
<1>19. Working(w)' /\ rendered'[w'.gen] = w'.pos
  <2>1. Idx(w'.out) = {}
    BY <1>16 DEF Idx
  <2>2. w'.pos + w'.queue <= Samples
    BY <1>16, SamplesNat, PlaybackAssumption
  <2> QED
    BY <1>2, <1>14, <1>16, <2>1, <2>2, GenNumbers DEF Working, Posts
<1>20. WorkInv'
  <2>1. \A h \in GenId : h > g => rendered'[h] = 0
    BY <1>1, <1>14, GenNumbers DEF Inv, WorkInv
  <2> QED
    BY <1>16, <1>19, <2>1, GenNumbers DEF WorkInv
<1>21. Live(w')
  BY <1>16 DEF Live, Terminal
<1> QED
  BY <1>14, <1>16, <1>17, <1>18, <1>20, <1>21

-----------------------------------------------------------------------------
(* The browser's actions. *)

(* The head of what the session sent. *)
LEMMA HeadFacts ==
  ASSUME Inv, down # <<>>
  PROVE  LET m == Head(down)
         IN  /\ m \in Sent /\ m.gen \in GenId /\ m.gen \in Nat
             /\ pageCancelled < m.gen /\ m.gen <= ctl.gen
             /\ m.gen <= pageCancelled <=> FALSE
             /\ m.kind \in {"word", "end"} => m.action = "none" /\ Arrived(m.gen, Pred(m))
             /\ m.kind = "word" => m.word \in 1 .. Words
             /\ m.kind = "command" => m \in CommandMsg
             /\ w.gen \in Nat /\ pageCancelled \in Nat /\ ctl.gen \in Nat
<1>1. 1 \in Idx(down) /\ Head(down) = down[1]
  BY DownFacts, TailElements
<1>2. /\ Head(down) \in Sent /\ Head(down).gen \in GenId
      /\ Head(down).kind = "word" => Head(down).word \in 1 .. Words
      /\ Head(down).kind = "command" => Head(down) \in CommandMsg
  BY <1>1, DownFacts
<1>3. w.gen \in Nat /\ pageCancelled \in Nat /\ ctl.gen \in Nat /\ Head(down).gen \in Nat
  <2>1. w.gen \in GenId \cup {NoGen} /\ pageCancelled \in GenId \cup {NoGen}
        /\ ctl.gen \in GenId \cup {NoGen}
    BY DEF Inv, TypeInv, Worklet
  <2> QED
    BY <1>2, <2>1, GenNumbers
<1>4. pageCancelled < Head(down).gen /\ Head(down).gen <= ctl.gen
  BY <1>1 DEF Inv, QuietInv
<1>5. \A m \in Sent : m.kind \in {"word", "end"} => m.action = "none"
  BY DEF Sent, WordMsg, EndMsg, CommandMsg
<1>6. ASSUME Head(down).kind \in {"word", "end"}
      PROVE  Arrived(Head(down).gen, Pred(Head(down)))
  <2>1. Before(Head(down).gen, Pred(Head(down)), 1 - 1)
    BY <1>1, <1>6 DEF Inv, ChainInv
  <2>2. 1 .. (1 - 1) = {}
    OBVIOUS
  <2> QED
    BY <2>1, <2>2 DEF Before
<1> QED
  BY <1>2, <1>3, <1>4, <1>5, <1>6

(* A delivery the worklet ignores. *)
LEMMA RestKeeps ==
  ASSUME Inv, down # <<>>, down' = Tail(down), UNCHANGED serverVars,
         pageCancelled' = IF Head(down).action = "cancel"
                          THEN Larger(pageCancelled, Head(down).gen) ELSE pageCancelled,
         UNCHANGED <<w, up, rendered>>,
         Head(down).kind = "word" => Head(down).gen < w.gen
  PROVE  Inv'
<1>1. up' = up /\ rendered' = rendered /\ w' = w /\ ctl' = ctl /\ flow' = flow
  BY DEF serverVars
<1>2. w' \in Worklet /\ Typed' /\ up' \in Seq(Message)
  BY <1>1 DEF Inv, TypeInv, Typed
<1>3. \A g \in GenId : rendered[g] <= rendered'[g]
  BY <1>1, SamplesNat DEF Inv, TypeInv, Typed
<1>4. UpInv'
  <2>1. UpInv
    BY DEF Inv
  <2> QED
    BY <1>1, <2>1 DEF UpInv
<1>5. WorkInv'
  <2>1. WorkInv
    BY DEF Inv
  <2>2. Working(w) => Working(w)'
    BY <1>1 DEF Working, Posts
  <2>3. w.gen <= pageCancelled => w.gen <= pageCancelled'
    BY HeadFacts DEF Larger
  <2> QED
    BY <1>1, <2>1, <2>2, <2>3 DEF WorkInv
<1>6. /\ w'.gen = w.gen /\ Live(w') = Live(w) /\ w'.pos + w'.queue = w.pos + w.queue
  BY <1>1
<1>7. Head(down).kind = "word" => Head(down).gen <= w.gen
  BY HeadFacts
<1> QED
  BY <1>2, <1>3, <1>4, <1>5, <1>6, <1>7, DeliveryKeeps

(* A word that arrives keeps the invariant. *)
LEMMA DeliverWordKeeps ==
  ASSUME Inv, DeliverWord
  PROVE  Inv'
<1> DEFINE m == Head(down)
<1>1. /\ down # <<>> /\ m.kind = "word" /\ down' = Tail(down)
      /\ UNCHANGED serverVars /\ pageCancelled' = pageCancelled
      /\ UNCHANGED <<ctl, flow>>
  BY DEF DeliverWord, Delivered, serverVars
<1>2. /\ m.gen \in GenId /\ m.gen \in Nat /\ m.word \in 1 .. Words /\ w.gen \in Nat
      /\ pageCancelled < m.gen /\ m.gen <= ctl.gen /\ ~(m.gen <= pageCancelled)
      /\ m.action = "none" /\ Arrived(m.gen, m.word - 1)
  BY <1>1, HeadFacts DEF Pred
<1>3. pageCancelled' = IF m.action = "cancel" THEN Larger(pageCancelled, m.gen) ELSE pageCancelled
  BY <1>1, <1>2
<1>4. Becomes(LET v == ReplaceProcessor(w, m.gen)
              IN  IF m.gen = v.gen THEN Enqueue(v, m.word) ELSE v)
  BY <1>2 DEF DeliverWord
<1>5. CASE m.gen < w.gen
  <2>1. ReplaceProcessor(w, m.gen) = w
    BY <1>2, <1>5 DEF ReplaceProcessor
  <2>2. Becomes(w)
    BY <1>2, <1>4, <1>5, <2>1
  <2>3. UNCHANGED <<w, up, rendered>>
    BY <2>2, BecomesItself
  <2> QED
    BY <1>1, <1>2, <1>3, <1>5, <2>3, RestKeeps
<1>6. CASE m.gen = w.gen
  <2> DEFINE v == Enqueue(w, m.word)
  <2>1. ReplaceProcessor(w, m.gen) = w
    BY <1>2, <1>6 DEF ReplaceProcessor
  <2>2. Becomes(v)
    BY <1>4, <1>6, <2>1
  <2>3. w.gen # NoGen /\ Working(w) /\ Typed /\ ~(w.closed /\ Live(w))
    BY <1>2, <1>6, GenNumbers DEF Inv, TypeInv, WorkInv
  <2>4. /\ Working(v)
        /\ v.gen = w.gen /\ v.pos = w.pos
        /\ Live(v) => Live(w)
        /\ v.closed /\ Live(v) => w.closed /\ v.cancel = w.cancel
        /\ Live(w) /\ ~w.closed /\ w.pos + w.queue = (m.word - 1) * WordLength /\ Live(v) =>
             v.pos + v.queue = m.word * WordLength
    BY <1>2, <2>3, EnqueueWorks
  <2> HIDE DEF v
  <2>5. ~(v.closed /\ Live(v))
    BY <2>3, <2>4
  <2>6. /\ w' \in Worklet /\ Typed' /\ up' \in Seq(Message)
        /\ WorkInv' /\ UpInv'
        /\ w'.gen = w.gen /\ w'.state = v.state /\ w'.pos = v.pos /\ w'.queue = v.queue
        /\ \A g \in GenId : rendered[g] <= rendered'[g]
    BY <1>1, <2>2, <2>3, <2>4, <2>5, BecomesWorks
  <2>7. Live(w') = Live(v)
    BY <2>6 DEF Live
  <2>8. Live(w) => w.pos + w.queue = (m.word - 1) * WordLength
    BY <1>2, <1>6 DEF Arrived
  <2>9. Live(w') => /\ w.pos + w.queue = (m.word - 1) * WordLength
                    /\ w'.pos + w'.queue = m.word * WordLength
    BY <2>3, <2>4, <2>6, <2>7, <2>8
  <2> QED
    BY <1>1, <1>2, <1>3, <1>6, <2>4, <2>6, <2>7, <2>9, DeliveryKeeps
<1>7. CASE m.gen > w.gen
  <2>1. ReplaceProcessor(w, m.gen).gen = m.gen
    BY <1>2, <1>7 DEF ReplaceProcessor, Processor
  <2>2. Becomes(Enqueue(ReplaceProcessor(w, m.gen), m.word))
    BY <1>4, <2>1
  <2>3. /\ w' \in Worklet /\ Typed' /\ up' \in Seq(Message)
        /\ WorkInv' /\ UpInv'
        /\ rendered' = rendered
        /\ w'.gen = m.gen /\ Live(w') /\ ~w'.closed /\ w'.pos = 0
        /\ w'.queue = IF m.word = 1 THEN WordLength ELSE 0
    BY <1>1, <1>2, <1>7, <2>2, TakesUp
  <2>4. m.word = 1
    BY <1>2, <1>7 DEF Arrived
  <2>5. \A g \in GenId : rendered[g] <= rendered'[g]
    <3>1. \A g \in GenId : rendered[g] \in Nat
      BY SamplesNat DEF Inv, TypeInv, Typed
    <3> QED
      BY <2>3, <3>1
  <2>6. ASSUME NEW g \in GenId, NEW k \in Nat, Arrived(g, k)
        PROVE  ArrivedNext(g, k) \/ (g = m.gen /\ k = m.word - 1)
    <3>1. g \in Nat
      BY GenNumbers
    <3> QED
      BY <1>2, <1>7, <2>3, <2>4, <2>6, <3>1 DEF Arrived, ArrivedNext
  <2>7. ArrivedNext(m.gen, m.word)
    BY <2>3, <2>4, SamplesNat DEF ArrivedNext
  <2>8. ChainInv'
    <3>1. UNCHANGED <<active, published, publishing>>
      BY <1>1 DEF serverVars, sessionVars
    <3> QED
      BY <1>1, <2>6, <2>7, <3>1, TailChain
  <2>9. pageCancelled' \in GenId \cup {NoGen} /\ QuietInv'
    BY <1>1, <1>3, TailQuiet DEF serverVars, sessionVars
  <2>10. SenderInv'
    BY <1>1, <1>2, <2>3, <2>5, SenderKept
  <2>11. down' \in Seq(Sent)
    BY <1>1, DownFacts, TailElements
  <2>12. TypeInv'
    BY <1>1, <2>3, <2>9, <2>11, TypesKept
  <2> QED
    BY <2>3, <2>8, <2>9, <2>10, <2>12 DEF Inv
<1> QED
  BY <1>2, <1>5, <1>6, <1>7

(* The end of an answer keeps the invariant. *)
LEMMA DeliverEndKeeps ==
  ASSUME Inv, DeliverEnd
  PROVE  Inv'
<1> DEFINE m == Head(down)
           e == [w EXCEPT !.ended = TRUE]
           v == CompleteIfDrained(e)
<1>1. /\ down # <<>> /\ m.kind = "end" /\ down' = Tail(down)
      /\ UNCHANGED serverVars /\ pageCancelled' = pageCancelled
      /\ UNCHANGED <<ctl, flow>>
  BY DEF DeliverEnd, Delivered, serverVars
<1>2. /\ m.gen \in GenId /\ m.gen \in Nat /\ pageCancelled < m.gen /\ w.gen \in Nat
      /\ pageCancelled \in Nat /\ m.action = "none" /\ Arrived(m.gen, Words)
  BY <1>1, HeadFacts DEF Pred
<1>3. pageCancelled' = IF m.action = "cancel" THEN Larger(pageCancelled, m.gen) ELSE pageCancelled
  BY <1>1, <1>2
<1>4. CASE ~(m.gen = w.gen /\ Live(w))
  <2>1. UNCHANGED <<w, up, rendered>>
    BY <1>4 DEF DeliverEnd, Live
  <2> QED
    BY <1>1, <1>3, <2>1, RestKeeps
<1>5. CASE m.gen = w.gen /\ Live(w)
  <2>1. Becomes(v)
    BY <1>5 DEF DeliverEnd, Live
  <2>2. w.gen # NoGen /\ Working(w) /\ Typed /\ ~w.closed /\ w \in Worklet
    <3>1. w.gen # NoGen /\ ~(w.gen <= pageCancelled)
      BY <1>2, <1>5, GenNumbers
    <3> QED
      BY <1>5, <3>1 DEF Inv, TypeInv, WorkInv
  <2>3. w.pos + w.queue = Samples
    BY <1>2, <1>5, SamplesNat DEF Arrived
  <2>4. /\ e \in Worklet /\ e.gen = w.gen /\ e.pos = w.pos /\ e.queue = w.queue
        /\ e.state = w.state /\ e.closed = w.closed /\ e.cancel = w.cancel
        /\ e.resume = w.resume /\ e.out = w.out
    BY <2>2 DEF Worklet
  <2> HIDE DEF e
  <2>5. Working(e) /\ e.cancel = 0
    BY <2>2, <2>3, <2>4 DEF Working, Posts
  <2>6. Moves(e, v)
    BY <2>2, <2>5, CompleteIfDrainedMoves
  <2> HIDE DEF v
  <2>7. /\ Working(v) /\ v.gen = w.gen /\ v.pos = w.pos
        /\ v.queue = w.queue \/ ~Live(v)
        /\ ~(v.closed /\ Live(v))
    BY <2>2, <2>4, <2>6 DEF Moves
  <2>8. /\ w' \in Worklet /\ Typed' /\ up' \in Seq(Message)
        /\ WorkInv' /\ UpInv'
        /\ w'.gen = w.gen /\ w'.state = v.state /\ w'.pos = v.pos /\ w'.queue = v.queue
        /\ \A g \in GenId : rendered[g] <= rendered'[g]
    BY <1>1, <2>1, <2>2, <2>7, BecomesWorks
  <2>9. Live(w') => w'.pos + w'.queue = w.pos + w.queue
    BY <2>7, <2>8 DEF Live
  <2> QED
    BY <1>1, <1>3, <1>5, <2>8, <2>9, DeliveryKeeps
<1> QED
  BY <1>4, <1>5

(* A command that arrives keeps the invariant. *)
LEMMA DeliverCommandKeeps ==
  ASSUME Inv, DeliverCommand
  PROVE  Inv'
<1> DEFINE m == Head(down)
<1>1. /\ down # <<>> /\ m.kind = "command" /\ down' = Tail(down)
      /\ UNCHANGED serverVars
      /\ UNCHANGED <<ctl, flow>>
      /\ pageCancelled' = IF m.action = "cancel" THEN Larger(pageCancelled, m.gen) ELSE pageCancelled
  BY DEF DeliverCommand, Delivered, serverVars
<1>2. /\ m \in CommandMsg /\ m.gen \in Nat /\ m.gen \in GenId /\ w.gen \in Nat
      /\ pageCancelled \in Nat /\ pageCancelled < m.gen
  BY <1>1, HeadFacts
<1>3. PICK tooOld \in BOOLEAN : Becomes(ApplyCommand(w, m, tooOld))
  BY DEF DeliverCommand
<1> DEFINE v == ApplyCommand(w, m, tooOld)
<1>4. CASE w.gen = NoGen
  <2>1. v = w
    BY <1>2, <1>4, GenNumbers DEF ApplyCommand
  <2> QED
    BY <1>1, <1>3, <2>1, BecomesItself, RestKeeps
<1>5. CASE w.gen # NoGen
  <2>1. Working(w) /\ Typed /\ (w.closed /\ Live(w) => w.cancel # 0 /\ w.gen <= pageCancelled)
    BY <1>5 DEF Inv, TypeInv, WorkInv
  <2>2. \/ Moves(w, v)
        \/ m.gen = w.gen /\ Live(w) /\ m.action \notin {"duck", "pause", "resume"} /\ Cancels(w, v)
    BY <1>2, <2>1, CommandWorks
  <2>3. Becomes(v)
    BY <1>3
  <2> HIDE DEF v
  <2>4. /\ Working(v) /\ v.gen = w.gen /\ v.pos = w.pos
        /\ v.queue = w.queue \/ ~Live(v)
        /\ Live(v) => Live(w)
    BY <2>2 DEF Moves, Cancels
  <2>5. ASSUME v.closed, Live(v)
        PROVE  v.cancel # 0 /\ w.gen <= pageCancelled'
    <3>1. CASE Moves(w, v)
      <4>1. w.closed /\ Live(w) /\ v.cancel = w.cancel
        BY <2>5, <3>1 DEF Moves
      <4>2. pageCancelled <= pageCancelled'
        BY <1>1, <1>2 DEF Larger
      <4>3. pageCancelled' \in Nat
        BY <1>1, <1>2 DEF Larger
      <4> QED
        BY <1>2, <2>1, <4>1, <4>2, <4>3
    <3>2. CASE m.gen = w.gen /\ m.action \notin {"duck", "pause", "resume"} /\ Cancels(w, v)
      <4>1. v.cancel # 0
        BY <2>5, <3>2 DEF Cancels
      <4>2. m.action = "cancel"
        BY <1>2, <3>2 DEF CommandMsg
      <4> QED
        BY <1>1, <1>2, <3>2, <4>1, <4>2 DEF Larger
    <3> QED
      BY <2>2, <3>1, <3>2
  <2>6. /\ w' \in Worklet /\ Typed' /\ up' \in Seq(Message)
        /\ WorkInv' /\ UpInv'
        /\ w'.gen = w.gen /\ w'.state = v.state /\ w'.pos = v.pos /\ w'.queue = v.queue
        /\ \A g \in GenId : rendered[g] <= rendered'[g]
    BY <1>1, <1>5, <2>3, <2>4, <2>5, BecomesWorks
  <2>7. Live(w') => Live(w) /\ w'.pos + w'.queue = w.pos + w.queue
    BY <2>4, <2>6 DEF Live
  <2> QED
    BY <1>1, <2>6, <2>7, DeliveryKeeps
<1> QED
  BY <1>4, <1>5

(* A step of the worklet on its own. *)
LEMMA QuantumKeeps ==
  ASSUME Inv, NEW v, Becomes(v), UNCHANGED <<serverVars, down, pageCancelled>>,
         w.gen # NoGen, Working(v), v.gen = w.gen, Live(w),
         Live(v) => v.pos + v.queue = w.pos + w.queue,
         v.closed /\ Live(v) => w.closed /\ v.cancel = w.cancel
  PROVE  Inv'
<1>1. /\ UNCHANGED <<ctl, flow>> /\ pageCancelled' = pageCancelled /\ down' = down
      /\ UNCHANGED serverVars
      /\ UNCHANGED <<active, published, publishing, overlap, outbox>>
  BY DEF serverVars, sessionVars
<1>2. v.closed /\ Live(v) => v.cancel # 0 /\ w.gen <= pageCancelled'
  BY <1>1 DEF Inv, WorkInv
<1>3. /\ w' \in Worklet /\ Typed' /\ up' \in Seq(Message)
      /\ WorkInv' /\ UpInv'
      /\ w'.gen = w.gen /\ w'.state = v.state /\ w'.pos = v.pos /\ w'.queue = v.queue
      /\ \A g \in GenId : rendered[g] <= rendered'[g]
  BY <1>1, <1>2, BecomesWorks
<1>4. TypeInv'
  BY <1>1, <1>3, TypesKept DEF Inv, TypeInv
<1>5. SenderInv'
  BY <1>1, <1>3, SenderKept DEF Inv, SenderInv
<1>6. QuietInv'
  <2>1. QuietInv
    BY DEF Inv
  <2> QED
    BY <1>1, <2>1 DEF QuietInv, Uncancelled
<1>7. ChainInv'
  <2>1. \A g, k : Arrived(g, k) => ArrivedNext(g, k)
    BY <1>3 DEF Arrived, ArrivedNext, Live
  <2>2. ChainInv
    BY DEF Inv
  <2>3. \A g, k, n : Before(g, k, n) => BeforeNext(g, k, n)
    BY <1>1, <2>1 DEF Before, BeforeNext
  <2>4. active' = active /\ Out(active)' = Out(active)
    BY <1>1 DEF Out
  <2> QED
    BY <1>1, <2>2, <2>3, <2>4, ChainNext DEF ChainInv
<1> QED
  BY <1>3, <1>4, <1>5, <1>6, <1>7 DEF Inv

(* A worklet that sounds has an answer that has not ended. *)
LEMMA SoundingWorks ==
  ASSUME Inv, Sounding
  PROVE  w.gen # NoGen /\ Working(w) /\ Live(w) /\ Typed
<1>1. Live(w)
  BY DEF Sounding, Live
<1>2. w.gen # NoGen
  <2>1. Processor(NoGen).state = "IDLE"
    BY DEF Processor
  <2> QED
    BY <2>1 DEF Sounding, Inv, WorkInv
<1> QED
  BY <1>1, <1>2 DEF Inv, WorkInv, TypeInv

(* A quantum keeps the invariant. *)
LEMMA RenderKeeps ==
  ASSUME Inv, Render
  PROVE  Inv'
<1>1. PICK rampEnds \in BOOLEAN : Becomes(Rendered(w, rampEnds))
  BY DEF Render
<1> DEFINE v == Rendered(w, rampEnds)
<1>2. Sounding /\ w.queue > 0 /\ UNCHANGED <<serverVars, down, pageCancelled>>
  BY DEF Render, MustRender
<1>3. w.gen # NoGen /\ Working(w) /\ Live(w) /\ Typed
  BY <1>2, SoundingWorks
<1>4. /\ Working(v) /\ v.gen = w.gen
      /\ \/ v.pos = w.pos + 1 /\ (v.queue = w.queue - 1 \/ ~Live(v))
         \/ v.pos = w.pos /\ ~Live(v)
      /\ v.closed /\ Live(v) => w.closed /\ v.cancel = w.cancel
  BY <1>2, <1>3, RenderedWorks
<1>5. Becomes(v)
  BY <1>1
<1> HIDE DEF v
<1>6. Live(v) => v.pos + v.queue = w.pos + w.queue
  <2>1. w.pos \in Nat /\ w.queue \in Nat
    BY <1>3, SamplesNat DEF Working, Worklet
  <2> QED
    BY <1>4, <2>1
<1> QED
  BY <1>2, <1>3, <1>4, <1>5, <1>6, QuantumKeeps

(* A pause that takes effect keeps the invariant. *)
LEMMA TakePauseKeeps ==
  ASSUME Inv, TakePause
  PROVE  Inv'
<1> DEFINE v == PauseIfDue(w, TRUE)
<1>1. Sounding /\ Becomes(v) /\ UNCHANGED <<serverVars, down, pageCancelled>>
  BY DEF TakePause
<1>2. w.gen # NoGen /\ Working(w) /\ Live(w) /\ Typed
  BY <1>1, SoundingWorks
<1>3. Moves(w, v)
  BY <1>2, PauseIfDueMoves
<1> HIDE DEF v
<1>4. /\ Working(v) /\ v.gen = w.gen
      /\ Live(v) => v.pos + v.queue = w.pos + w.queue
      /\ v.closed /\ Live(v) => w.closed /\ v.cancel = w.cancel
  BY <1>3 DEF Moves
<1> QED
  BY <1>1, <1>2, <1>4, QuantumKeeps

-----------------------------------------------------------------------------
(* The receive loop. *)

(* The report that is received: it is no newer than what was rendered, and no *)
(* older than the cursor.                                                   *)
LEMMA ReportFacts ==
  ASSUME Inv, up # <<>>
  PROVE  LET m == Head(up)
         IN  /\ m \in Message /\ m.gen \in GenId /\ m.pos \in 0 .. Samples
             /\ m.state \in PlaybackState /\ m.word \in 0 .. Words
             /\ m.seq \in Nat /\ m.rejected \in BOOLEAN
             /\ m.pos <= rendered[m.gen]
             /\ m.gen = ctl.gen => ctl.pos <= m.pos
             /\ m.kind = "complete" => m.pos = Samples
<1>1. up \in Seq(Message)
  BY DEF Inv, TypeInv
<1>2. 1 \in Idx(up) /\ Head(up) = up[1] /\ up[1] \in Message
  BY <1>1, TailElements
<1>3. /\ up[1].pos <= rendered[up[1].gen]
      /\ up[1].gen = ctl.gen => ctl.pos <= up[1].pos
      /\ up[1].kind = "complete" => up[1].pos = Samples
  BY <1>2 DEF Inv, UpInv
<1> QED
  BY <1>2, <1>3 DEF Message

(* _text_boundary_is_fully_played counts words. *)
LEMMA FullyPlayedType ==
  ASSUME Inv, NEW g \in GenId, NEW pos \in 0 .. Samples
  PROVE  FullyPlayed(g, pos) \in 0 .. Words
<1>1. published[g] \in 0 .. Words
  BY DEF Inv, TypeInv
<1>2. pos \div WordLength \in Nat
  BY SamplesNat
<1> DEFINE d == pos \div WordLength
<1> HIDE DEF d
<1>3. d \in Nat
  BY <1>2 DEF d
<1>4. FullyPlayed(g, pos) = IF published[g] = 0 THEN 0
                            ELSE IF published[g] - 1 < d THEN published[g] - 1 ELSE d
  BY DEF FullyPlayed, Smaller, d
<1> QED
  BY <1>1, <1>3, <1>4, SamplesNat

ControllerType ==
  [gen : GenId \cup {NoGen}, state : PlaybackState, browser : BOOLEAN,
   pos : 0 .. Samples, rate : BOOLEAN, seq : Nat \ {0}, acked : Nat]

FlowType == [gen : GenId \cup {NoGen}, pos : 0 .. Samples]

(* What every handler of a report keeps to. *)
LEMMA ReportKeeps ==
  ASSUME Inv, up # <<>>, up' = Tail(up),
         UNCHANGED <<down, browserVars, published, publishing, overlap, outbox>>,
         active' \in {active, NoGen},
         cancelled' \in [GenId -> BOOLEAN], accepts' \in [GenId -> BOOLEAN],
         heard' \in [GenId -> 0 .. Words],
         ctl' \in ControllerType, flow' \in FlowType,
         ctl'.gen = ctl.gen,
         ctl'.pos = ctl.pos \/ (Head(up).gen = ctl.gen /\ ctl'.pos = Head(up).pos),
         flow'.gen \in {flow.gen, NoGen},
         flow'.pos = flow.pos \/ (Head(up).gen = flow.gen /\ flow'.pos = Head(up).pos)
  PROVE  Inv' /\ ctl'.pos >= ctl.pos
<1> DEFINE m == Head(up)
<1>0. up \in Seq(Message) /\ ctl \in ControllerType
  BY DEF Inv, TypeInv, ControllerType
<1>1. /\ up' \in Seq(Message)
      /\ 1 \in Idx(up) /\ m = up[1]
      /\ \A i \in Idx(up') : i \in Nat /\ i + 1 \in Idx(up) /\ up'[i] = up[i + 1]
  BY <1>0, TailElements
<1>2. w' = w /\ rendered' = rendered /\ pageCancelled' = pageCancelled /\ down' = down
  BY DEF browserVars
<1>3. TypeInv'
  BY <1>1, <1>2 DEF Inv, TypeInv, Typed, ControllerType, FlowType
<1>4. WorkInv'
  <2>1. WorkInv /\ (Working(w) => Working(w)')
    BY <1>2 DEF Inv, Working, Posts
  <2> QED
    BY <1>2, <2>1 DEF WorkInv
<1>5. ctl.pos \in Nat /\ ctl'.pos \in Nat /\ m.pos \in Nat
  <2>1. \A n \in 0 .. Samples : n \in Nat
    BY SamplesNat
  <2> QED
    BY <1>0, <2>1, ReportFacts DEF ControllerType
<1>6. ctl'.pos >= ctl.pos
  <2>1. CASE ctl'.pos = ctl.pos
    BY <1>5, <2>1
  <2>2. CASE m.gen = ctl.gen /\ ctl'.pos = m.pos
    <3>1. ctl.pos <= m.pos
      BY <2>2, ReportFacts
    <3> QED
      BY <1>5, <2>2, <3>1
  <2> QED
    BY <2>1, <2>2
<1>7. UpInv'
  <2>1. \A i \in Idx(up') : /\ up'[i].pos <= rendered'[up'[i].gen]
                            /\ up'[i].kind = "complete" => up'[i].pos = Samples
    BY <1>1, <1>2 DEF Inv, UpInv
  <2>2. ASSUME NEW i \in Idx(up'), NEW j \in Idx(up'), i <= j, up'[i].gen = up'[j].gen
        PROVE  up'[i].pos <= up'[j].pos
    <3>1. /\ i \in Nat /\ i + 1 \in Idx(up) /\ up'[i] = up[i + 1]
          /\ j \in Nat /\ j + 1 \in Idx(up) /\ up'[j] = up[j + 1]
      BY <1>1
    <3>2. i + 1 <= j + 1
      BY <2>2, <3>1
    <3> QED
      BY <2>2, <3>1, <3>2 DEF Inv, UpInv
  <2>3. ASSUME NEW i \in Idx(up'), up'[i].gen = ctl'.gen
        PROVE  ctl'.pos <= up'[i].pos
    <3>1. i \in Nat /\ i + 1 \in Idx(up) /\ up'[i] = up[i + 1] /\ 1 <= i + 1
      BY <1>1 DEF Idx
    <3>2. ctl.pos <= up[i + 1].pos
      <4>1. up[i + 1].gen = ctl.gen
        BY <2>3, <3>1
      <4>2. \A k \in Idx(up) : up[k].gen = ctl.gen => ctl.pos <= up[k].pos
        BY DEF Inv, UpInv
      <4> QED
        BY <3>1, <4>1, <4>2
    <3>3. m.gen = ctl.gen => m.pos <= up[i + 1].pos
      <4>1. up[i + 1].gen = ctl.gen
        BY <2>3, <3>1
      <4>2. \A k \in Idx(up) : 1 <= k /\ up[1].gen = up[k].gen => up[1].pos <= up[k].pos
        BY <1>1 DEF Inv, UpInv
      <4> QED
        BY <1>1, <3>1, <4>1, <4>2
    <3>4. CASE ctl'.pos = ctl.pos
      BY <3>1, <3>2, <3>4, Zenon
    <3>5. CASE m.gen = ctl.gen /\ ctl'.pos = m.pos
      BY <3>1, <3>3, <3>5, Zenon
    <3> QED
      BY <3>4, <3>5
  <2>4. ctl'.gen # NoGen => ctl'.pos <= rendered'[ctl'.gen]
    BY <1>2, ReportFacts DEF Inv, UpInv
  <2>5. flow'.gen # NoGen => flow'.pos <= rendered'[flow'.gen]
    BY <1>2, ReportFacts DEF Inv, UpInv
  <2> QED
    BY <2>1, <2>2, <2>3, <2>4, <2>5 DEF UpInv
<1>8. SenderInv'
  <2>1. SenderInv
    BY DEF Inv
  <2>2. active' # NoGen => active' = active /\ Out(active)' = Out(active)
    BY DEF Out
  <2> QED
    BY <1>2, <2>1, <2>2 DEF SenderInv
<1>9. QuietInv'
  <2>1. QuietInv
    BY DEF Inv
  <2> QED
    BY <1>2, <2>1 DEF QuietInv, Uncancelled
<1>10. ChainInv'
  <2>1. ChainInv
    BY DEF Inv
  <2>2. \A g, k, n : Before(g, k, n) => BeforeNext(g, k, n)
    BY <1>2 DEF Before, BeforeNext, Arrived, ArrivedNext
  <2>3. active' # NoGen => active' = active /\ Out(active)' = Out(active)
    BY DEF Out
  <2> QED
    BY <1>2, <2>1, <2>2, <2>3, ChainNext DEF ChainInv
<1> QED
  BY <1>3, <1>4, <1>6, <1>7, <1>8, <1>9, <1>10 DEF Inv

(* The credit after a report. *)
LEMMA CreditedType ==
  ASSUME Inv, up # <<>>
  PROVE  /\ Credited \in FlowType /\ Credited.gen = flow.gen
         /\ Credited.pos = flow.pos \/ (Head(up).gen = flow.gen /\ Credited.pos = Head(up).pos)
         /\ flow \in FlowType
<1>1. flow \in FlowType
  BY DEF Inv, TypeInv, FlowType
<1>2. Head(up).pos \in 0 .. Samples
  BY ReportFacts
<1> QED
  BY <1>1, <1>2 DEF Credited, FlowType

(* The controller after a report. *)
LEMMA FromBrowserType ==
  ASSUME Inv, up # <<>>, NEW state \in PlaybackState
  PROVE  /\ FromBrowser(state) \in ControllerType
         /\ FromBrowser(state).gen = ctl.gen /\ FromBrowser(state).pos = Head(up).pos
         /\ ctl \in ControllerType
<1>1. ctl \in ControllerType
  BY DEF Inv, TypeInv, ControllerType
<1>2. Head(up).pos \in 0 .. Samples
  BY ReportFacts
<1> QED
  BY <1>1, <1>2 DEF FromBrowser, ControllerType

(* record_started keeps the invariant and the cursor does not go back. *)
LEMMA ReceiveStartedKeeps ==
  ASSUME Inv, ReceiveStarted
  PROVE  Inv' /\ ctl'.pos >= ctl.pos
<1>1. /\ up # <<>> /\ up' = Tail(up)
      /\ UNCHANGED <<down, browserVars, published, publishing, overlap, outbox>>
      /\ active' = active /\ cancelled' = cancelled /\ accepts' = accepts /\ heard' = heard
  BY DEF ReceiveStarted, Received, sessionVars
<1>2. /\ cancelled' \in [GenId -> BOOLEAN] /\ accepts' \in [GenId -> BOOLEAN]
      /\ heard' \in [GenId -> 0 .. Words] /\ active' \in {active, NoGen}
  BY <1>1 DEF Inv, TypeInv
<1>3. CASE Head(up).gen = ctl.gen
  <2> DEFINE b == FromBrowser("SPEAKING")
             c == [b EXCEPT !.rate = TRUE]
  <2>1. ctl' = c /\ flow' = Credited
    BY <1>3 DEF ReceiveStarted
  <2>2. b \in ControllerType /\ b.gen = ctl.gen /\ b.pos = Head(up).pos
    BY <1>1, FromBrowserType DEF PlaybackState
  <2> HIDE DEF b
  <2>3. c \in ControllerType /\ c.gen = ctl.gen /\ c.pos = Head(up).pos
    BY <2>2 DEF ControllerType
  <2> HIDE DEF c
  <2> QED
    BY <1>1, <1>2, <1>3, <2>1, <2>3, CreditedType, ReportKeeps
<1>4. CASE Head(up).gen # ctl.gen
  <2>1. ctl' = ctl /\ flow' = flow
    BY <1>4 DEF ReceiveStarted
  <2> QED
    BY <1>1, <1>2, <2>1, CreditedType, FromBrowserType, ReportKeeps DEF PlaybackState
<1> QED
  BY <1>3, <1>4

(* record_clock keeps the invariant and the cursor does not go back. *)
LEMMA ReceiveClockKeeps ==
  ASSUME Inv, ReceiveClock
  PROVE  Inv' /\ ctl'.pos >= ctl.pos
<1>1. /\ up # <<>> /\ up' = Tail(up)
      /\ UNCHANGED <<down, browserVars, published, publishing, overlap, outbox>>
      /\ active' = active /\ cancelled' = cancelled /\ accepts' = accepts /\ heard' = heard
  BY DEF ReceiveClock, Received, sessionVars
<1>2. /\ cancelled' \in [GenId -> BOOLEAN] /\ accepts' \in [GenId -> BOOLEAN]
      /\ heard' \in [GenId -> 0 .. Words] /\ active' \in {active, NoGen}
  BY <1>1 DEF Inv, TypeInv
<1> DEFINE m == Head(up)
<1>3. m.state \in PlaybackState /\ m.pos \in 0 .. Samples
  BY <1>1, ReportFacts
<1>4. CASE ctl' = ctl /\ flow' = flow
  BY <1>1, <1>2, <1>4, CreditedType, FromBrowserType, ReportKeeps DEF PlaybackState
<1>5. CASE ~(ctl' = ctl /\ flow' = flow)
  <2> DEFINE c == IF ctl.browser THEN FromBrowser(m.state) ELSE [ctl EXCEPT !.pos = m.pos]
  <2>1. m.gen = ctl.gen /\ ctl' = c /\ flow' = Credited
    BY <1>5 DEF ReceiveClock
  <2>2. FromBrowser(m.state) \in ControllerType /\ FromBrowser(m.state).gen = ctl.gen
        /\ FromBrowser(m.state).pos = m.pos /\ ctl \in ControllerType
    BY <1>1, <1>3, FromBrowserType
  <2>3. /\ [ctl EXCEPT !.pos = m.pos] \in ControllerType
        /\ [ctl EXCEPT !.pos = m.pos].gen = ctl.gen
        /\ [ctl EXCEPT !.pos = m.pos].pos = m.pos
    BY <1>3, <2>2 DEF ControllerType
  <2>4. c \in ControllerType /\ c.gen = ctl.gen /\ c.pos = m.pos
    BY <2>2, <2>3
  <2> HIDE DEF c
  <2> QED
    BY <1>1, <1>2, <2>1, <2>4, CreditedType, ReportKeeps
<1> QED
  BY <1>4, <1>5

(* record_progress keeps the invariant and the cursor does not go back. *)
LEMMA ReceiveProgressKeeps ==
  ASSUME Inv, ReceiveProgress
  PROVE  Inv' /\ ctl'.pos >= ctl.pos
<1>1. /\ up # <<>> /\ up' = Tail(up)
      /\ UNCHANGED <<down, browserVars, published, publishing, overlap, outbox>>
      /\ active' = active /\ cancelled' = cancelled /\ accepts' = accepts
  BY DEF ReceiveProgress, Received
<1>2. /\ cancelled' \in [GenId -> BOOLEAN] /\ accepts' \in [GenId -> BOOLEAN]
      /\ heard \in [GenId -> 0 .. Words] /\ active' \in {active, NoGen}
  BY <1>1 DEF Inv, TypeInv
<1> DEFINE m == Head(up)
<1>3. m.gen \in GenId /\ m.word \in 0 .. Words
  BY <1>1, ReportFacts
<1>4. CASE ctl' = ctl /\ flow' = flow /\ heard' = heard
  BY <1>1, <1>2, <1>4, CreditedType, FromBrowserType, ReportKeeps DEF PlaybackState
<1>5. CASE ~(ctl' = ctl /\ flow' = flow /\ heard' = heard)
  <2> DEFINE state == IF ctl.state = "QUEUED" THEN "SPEAKING" ELSE ctl.state
             c == FromBrowser(state)
  <2>1. m.gen = ctl.gen /\ ctl' = c /\ flow' = Credited
        /\ heard' = [heard EXCEPT ![m.gen] = Larger(@, m.word)]
    BY <1>5 DEF ReceiveProgress
  <2>2. state \in PlaybackState
    BY DEF Inv, TypeInv, PlaybackState
  <2> HIDE DEF state
  <2>3. c \in ControllerType /\ c.gen = ctl.gen /\ c.pos = m.pos
    BY <1>1, <2>2, FromBrowserType
  <2> HIDE DEF c
  <2>4. heard' \in [GenId -> 0 .. Words]
    BY <1>2, <1>3, <2>1 DEF Larger
  <2> QED
    BY <1>1, <1>2, <2>1, <2>3, <2>4, CreditedType, ReportKeeps
<1> QED
  BY <1>4, <1>5

(* _complete_playback keeps the invariant and the cursor does not go back. *)
LEMMA ReceiveCompleteKeeps ==
  ASSUME Inv, ReceiveComplete
  PROVE  Inv' /\ ctl'.pos >= ctl.pos
<1>1. /\ up # <<>> /\ up' = Tail(up)
      /\ UNCHANGED <<down, browserVars, published, publishing, overlap, outbox>>
      /\ cancelled' = cancelled
  BY DEF ReceiveComplete, Received
<1> DEFINE m == Head(up)
<1>2. /\ cancelled' \in [GenId -> BOOLEAN] /\ accepts \in [GenId -> BOOLEAN]
      /\ heard \in [GenId -> 0 .. Words]
  BY <1>1 DEF Inv, TypeInv
<1>3. CASE m.gen # active
  <2>1. ctl' = ctl /\ flow' = flow /\ heard' = heard /\ accepts' = accepts /\ active' = active
    BY <1>3 DEF ReceiveComplete
  <2> QED
    BY <1>1, <1>2, <2>1, CreditedType, FromBrowserType, ReportKeeps DEF PlaybackState
<1>4. CASE m.gen = active
  <2> DEFINE c == FromBrowser("COMPLETED")
  <2>1. /\ ctl' = c /\ flow' = Credited /\ heard' = [heard EXCEPT ![m.gen] = Words]
        /\ accepts' = [accepts EXCEPT ![m.gen] = FALSE] /\ active' = NoGen
    BY <1>4 DEF ReceiveComplete
  <2>2. m.gen \in GenId /\ m.gen = ctl.gen
    BY <1>1, <1>4, ReportFacts, GenNumbers DEF Inv, SenderInv
  <2>3. c \in ControllerType /\ c.gen = ctl.gen /\ c.pos = m.pos
    BY <1>1, FromBrowserType DEF PlaybackState
  <2> HIDE DEF c
  <2>4. heard' \in [GenId -> 0 .. Words] /\ accepts' \in [GenId -> BOOLEAN]
    <3>1. Words \in 0 .. Words
      BY SamplesNat
    <3> QED
      BY <1>2, <2>1, <3>1
  <2> QED
    BY <1>1, <1>2, <2>1, <2>2, <2>3, <2>4, CreditedType, ReportKeeps
<1> QED
  BY <1>3, <1>4

(* _acknowledge_playback_command keeps the invariant and the cursor does not *)
(* go back.                                                                 *)
LEMMA ReceiveAckKeeps ==
  ASSUME Inv, ReceiveAck
  PROVE  Inv' /\ ctl'.pos >= ctl.pos
<1> DEFINE m == Head(up)
           g == m.gen
           rejects == m.rejected /\ active = g /\ ~cancelled[g]
           stops == m.state = "CANCELLED" /\ (cancelled[g] \/ rejects) /\ accepts[g]
           acked == [ctl EXCEPT !.acked = Larger(@, m.seq)]
           applied == [acked EXCEPT !.state = m.state, !.pos = m.pos, !.browser = TRUE]
<1>1. /\ up # <<>> /\ up' = Tail(up)
      /\ UNCHANGED <<down, browserVars, published, publishing, overlap, outbox>>
  BY DEF ReceiveAck, Received
<1>2. /\ cancelled \in [GenId -> BOOLEAN] /\ accepts \in [GenId -> BOOLEAN]
      /\ heard \in [GenId -> 0 .. Words] /\ ctl \in ControllerType
  BY DEF Inv, TypeInv, ControllerType
<1>3. /\ g \in GenId /\ m.pos \in 0 .. Samples /\ m.seq \in Nat /\ m.state \in PlaybackState
      /\ m.rejected \in BOOLEAN
  BY <1>1, ReportFacts
<1>4. acked \in ControllerType /\ acked.gen = ctl.gen /\ acked.pos = ctl.pos
  BY <1>2, <1>3 DEF ControllerType, Larger
<1>5. CASE ~AckApplies
  <2>1. /\ ctl' \in {acked, ctl}
        /\ cancelled' = cancelled /\ active' = active /\ flow' = flow /\ heard' = heard
        /\ accepts' = accepts
    BY <1>5 DEF ReceiveAck
  <2> HIDE DEF acked
  <2> QED
    BY <1>1, <1>2, <1>4, <2>1, CreditedType, ReportKeeps
<1>6. CASE AckApplies
  <2> HIDE DEF acked
  <2>1. applied \in ControllerType /\ applied.gen = ctl.gen /\ applied.pos = m.pos
    BY <1>3, <1>4 DEF ControllerType
  <2>2. /\ ctl' = IF rejects THEN Estimated(applied, "CANCELLED") ELSE applied
        /\ cancelled' = [cancelled EXCEPT ![g] = @ \/ rejects]
        /\ active' = IF rejects THEN NoGen ELSE active
        /\ flow' = IF rejects THEN [Credited EXCEPT !.gen = NoGen] ELSE Credited
        /\ heard' = IF stops THEN [heard EXCEPT ![g] = Larger(@, FullyPlayed(g, m.pos))]
                    ELSE heard
        /\ accepts' = [accepts EXCEPT ![g] = @ /\ ~stops]
    BY <1>6 DEF ReceiveAck, acked
  <2> HIDE DEF applied
  <2>3. /\ Estimated(applied, "CANCELLED") \in ControllerType
        /\ Estimated(applied, "CANCELLED").gen = ctl.gen
        /\ Estimated(applied, "CANCELLED").pos = m.pos
    BY <2>1 DEF Estimated, ControllerType, PlaybackState
  <2>4. ctl' \in ControllerType /\ ctl'.gen = ctl.gen /\ ctl'.pos = m.pos
    BY <2>1, <2>2, <2>3
  <2>5. g = ctl.gen
    BY <1>6 DEF AckApplies
  <2>6. Credited \in FlowType /\ Credited.gen = flow.gen
        /\ (Credited.pos = flow.pos \/ (g = flow.gen /\ Credited.pos = m.pos))
    BY <1>1, CreditedType
  <2>7. /\ flow' \in FlowType /\ flow'.gen \in {flow.gen, NoGen}
        /\ flow'.pos = Credited.pos
    BY <2>2, <2>6 DEF FlowType
  <2>8. FullyPlayed(g, m.pos) \in 0 .. Words
    BY <1>3, FullyPlayedType
  <2>9. heard' \in [GenId -> 0 .. Words]
    BY <1>2, <1>3, <2>2, <2>8 DEF Larger
  <2>10. cancelled' \in [GenId -> BOOLEAN]
    <3>1. (cancelled[g] \/ rejects) \in BOOLEAN
      OBVIOUS
    <3> QED
      BY <1>2, <2>2, <3>1
  <2>11. accepts' \in [GenId -> BOOLEAN]
    <3>1. (accepts[g] /\ ~stops) \in BOOLEAN
      OBVIOUS
    <3> QED
      BY <1>2, <2>2, <3>1
  <2>12. active' \in {active, NoGen}
    BY <2>2
  <2> QED
    BY <1>1, <2>4, <2>5, <2>6, <2>7, <2>9, <2>10, <2>11, <2>12, ReportKeeps
<1> QED
  BY <1>5, <1>6

-----------------------------------------------------------------------------
(* The session. *)

(* The parts of the invariant an unchanged browser and its reports keep. *)
LEMMA BrowserRests ==
  ASSUME Inv, UNCHANGED <<up, browserVars>>, ctl'.gen = ctl.gen, ctl'.pos = ctl.pos,
         flow'.gen \in {flow.gen, NoGen}, flow'.pos = flow.pos
  PROVE  WorkInv' /\ UpInv'
<1>1. w' = w /\ rendered' = rendered /\ pageCancelled' = pageCancelled /\ up' = up
  BY DEF browserVars
<1>2. WorkInv'
  <2>1. WorkInv /\ (Working(w) => Working(w)')
    BY <1>1 DEF Inv, Working, Posts
  <2> QED
    BY <1>1, <2>1 DEF WorkInv
<1>3. UpInv'
  <2>1. UpInv
    BY DEF Inv
  <2> QED
    BY <1>1, <2>1 DEF UpInv
<1> QED
  BY <1>2, <1>3

(* Giving up on an answer that was stopped keeps the invariant. *)
LEMMA StopTimeoutKeeps ==
  ASSUME Inv, NEW g \in GenId, StopTimeout(g)
  PROVE  Inv' /\ ctl' = ctl
<1>1. /\ UNCHANGED <<active, cancelled, heard, published, publishing, overlap, outbox, ctl, flow,
                     down, up, browserVars>>
      /\ accepts' = [accepts EXCEPT ![g] = FALSE]
  BY DEF StopTimeout
<1>2. w' = w /\ rendered' = rendered /\ pageCancelled' = pageCancelled
  BY <1>1 DEF browserVars
<1>3. WorkInv' /\ UpInv'
  BY <1>1, BrowserRests
<1>4. TypeInv'
  BY <1>1, <1>2 DEF Inv, TypeInv, Typed
<1>5. SenderInv'
  <2>1. SenderInv
    BY DEF Inv
  <2> QED
    BY <1>1, <1>2, <2>1 DEF SenderInv, Out
<1>6. QuietInv'
  <2>1. QuietInv
    BY DEF Inv
  <2> QED
    BY <1>1, <1>2, <2>1 DEF QuietInv, Uncancelled
<1>7. ChainInv'
  <2>1. ChainInv
    BY DEF Inv
  <2> QED
    BY <1>1, <1>2, <2>1 DEF ChainInv, Before, Arrived, Out
<1> QED
  BY <1>1, <1>3, <1>4, <1>5, <1>6, <1>7 DEF Inv

(* A word from the synthesizer keeps the invariant. *)
LEMMA SynthesizeWordKeeps ==
  ASSUME Inv, SynthesizeWord
  PROVE  Inv' /\ ctl' = ctl
<1>1. /\ UNCHANGED <<active, cancelled, accepts, heard, overlap, outbox, ctl, flow,
                     down, up, browserVars>>
      /\ active # NoGen /\ ~publishing /\ published[active] < Words
      /\ publishing' = TRUE /\ published' = [published EXCEPT ![active] = @ + 1]
  BY DEF SynthesizeWord
<1>2. w' = w /\ rendered' = rendered /\ pageCancelled' = pageCancelled
  BY <1>1 DEF browserVars
<1>3. WorkInv' /\ UpInv'
  BY <1>1, BrowserRests
<1>4. /\ active \in GenId /\ published \in [GenId -> 0 .. Words] /\ published[active] \in Nat
      /\ active = ctl.gen
  BY <1>1, SamplesNat DEF Inv, TypeInv, SenderInv
<1>5. published' \in [GenId -> 0 .. Words] /\ published'[active] = published[active] + 1
  <2>1. published[active] + 1 \in 0 .. Words
    BY <1>1, <1>4, SamplesNat
  <2> QED
    BY <1>1, <1>4, <2>1
<1>6. TypeInv'
  BY <1>1, <1>2, <1>5 DEF Inv, TypeInv, Typed
<1>7. Out(active)' = Out(active)
  BY <1>1, <1>4, <1>5 DEF Out
<1>8. SenderInv'
  <2>1. SenderInv
    BY DEF Inv
  <2>2. published'[active] >= 1
    BY <1>4, <1>5
  <2>3. \A g \in GenId : g > ctl.gen => published'[g] = 0
    <3>1. active \in Nat /\ \A g \in GenId : g \in Nat
      BY <1>4, GenNumbers
    <3> QED
      BY <1>1, <1>4, <2>1, <3>1 DEF SenderInv
  <2> QED
    BY <1>1, <1>2, <1>7, <2>1, <2>2, <2>3 DEF SenderInv
<1>9. QuietInv'
  <2>1. QuietInv
    BY DEF Inv
  <2> QED
    BY <1>1, <1>2, <2>1 DEF QuietInv, Uncancelled
<1>10. ChainInv'
  <2>1. ChainInv
    BY DEF Inv
  <2>2. \A g, k, n : Before(g, k, n) => BeforeNext(g, k, n)
    BY <1>1, <1>2 DEF Before, BeforeNext, Arrived, ArrivedNext
  <2> QED
    BY <1>1, <1>7, <2>1, <2>2, ChainNext DEF ChainInv
<1> QED
  BY <1>1, <1>3, <1>6, <1>8, <1>9, <1>10 DEF Inv

(* A message of the current answer joins the socket. *)
LEMMA SendKeeps ==
  ASSUME Inv, NEW m \in Sent, down' = Append(down, m), Uncancelled, m.gen = ctl.gen,
         UNCHANGED <<ctl, pageCancelled>>,
         \A i \in Idx(outbox') :
           /\ outbox'[i].gen = ctl.gen
           /\ outbox'[i].action = "cancel" => i = Len(outbox') /\ overlap' = NoGen,
         m.action = "cancel" =>
           active' = NoGen /\ ~(overlap' # NoGen /\ overlap' = ctl.gen) /\ outbox' = <<>>
  PROVE  down' \in Seq(Sent) /\ QuietInv'
<1>1. /\ down' \in Seq(Sent) /\ Len(down) \in Nat /\ Len(down') = Len(down) + 1
      /\ \A i \in Idx(down') : \/ i \in Idx(down) /\ down'[i] = down[i]
                               \/ i = Len(down) + 1 /\ down'[i] = m
  BY DownAppend
<1>2. ctl.gen \in Nat
  <2>1. ctl.gen \in GenId \cup {NoGen}
    BY DEF Inv, TypeInv
  <2> QED
    BY <2>1, GenNumbers
<1>3. \A i \in Idx(down') : pageCancelled < down'[i].gen /\ down'[i].gen <= ctl.gen
  <2>1. \A i \in Idx(down) : pageCancelled < down[i].gen /\ down[i].gen <= ctl.gen
    BY DEF Inv, QuietInv
  <2>2. pageCancelled < m.gen /\ m.gen <= ctl.gen
    BY <1>2 DEF Uncancelled
  <2> QED
    BY <1>1, <2>1, <2>2
<1>4. ASSUME NEW i \in Idx(down'), NEW j \in Idx(down'), i < j, down'[i].action = "cancel"
      PROVE  down'[i].gen < down'[j].gen
  <2>1. i \in Idx(down) /\ down'[i] = down[i]
    <3>1. i # Len(down) + 1
      BY <1>1, <1>4 DEF Idx
    <3> QED
      BY <1>1, <3>1
  <2>2. CASE j \in Idx(down) /\ down'[j] = down[j]
    BY <1>4, <2>1, <2>2 DEF Inv, QuietInv
  <2>3. CASE down'[j] = m
    BY <1>4, <2>1, <2>3 DEF Uncancelled
  <2> QED
    BY <1>1, <2>2, <2>3
<1>5. ASSUME active' # NoGen \/ (overlap' # NoGen /\ overlap' = ctl'.gen) \/ outbox' # <<>>
      PROVE  Uncancelled'
  <2>1. m.action # "cancel"
    BY <1>5
  <2> QED
    BY <1>1, <2>1 DEF Uncancelled
<1>6. pageCancelled' <= ctl'.gen
  BY DEF Inv, QuietInv
<1> QED
  BY <1>1, <1>3, <1>4, <1>5, <1>6 DEF QuietInv

(* What has arrived or is on its way stays so when the socket grows. *)
LEMMA AppendBefore ==
  ASSUME Inv, NEW m \in Sent, down' = Append(down, m), w' = w
  PROVE  /\ \A g, k : \A n \in 0 .. Len(down) : Before(g, k, n) => BeforeNext(g, k, n)
         /\ \A g, k : Before(g, k, Len(down)) => BeforeNext(g, k, Len(down'))
         /\ \A g, k : IsWord(m, g, k) => BeforeNext(g, k, Len(down'))
<1>1. /\ Len(down) \in Nat /\ Len(down') = Len(down) + 1
      /\ \A i \in Idx(down) : down'[i] = down[i]
      /\ down'[Len(down')] = m
  <2>1. /\ down \in Seq(Sent) /\ Len(down) \in Nat /\ Len(down') = Len(down) + 1
        /\ \A i \in Idx(down) : down'[i] = down[i]
        /\ down'[Len(down) + 1] = m
    BY DownAppend
  <2> QED
    BY <2>1
<1>2. \A g, k : Arrived(g, k) => ArrivedNext(g, k)
  BY DEF Arrived, ArrivedNext
<1>3. ASSUME NEW g, NEW k, NEW n \in 0 .. Len(down), Before(g, k, n)
      PROVE  BeforeNext(g, k, n) /\ BeforeNext(g, k, n + 1)
  <2>1. CASE Arrived(g, k)
    BY <1>2, <2>1 DEF BeforeNext
  <2>2. CASE \E i \in 1 .. n : IsWord(down[i], g, k)
    <3>1. PICK i \in 1 .. n : IsWord(down[i], g, k)
      BY <2>2
    <3>2. i \in Idx(down) /\ i \in 1 .. n + 1
      BY <1>1, <3>1 DEF Idx
    <3>3. IsWord(down'[i], g, k)
      BY <1>1, <3>1, <3>2
    <3> QED
      BY <3>1, <3>2, <3>3 DEF BeforeNext
  <2> QED
    BY <1>3, <2>1, <2>2 DEF Before
<1>4. ASSUME NEW g, NEW k, IsWord(m, g, k)
      PROVE  BeforeNext(g, k, Len(down'))
  <2>1. Len(down') \in 1 .. Len(down')
    BY <1>1
  <2> QED
    BY <1>1, <1>4, <2>1 DEF BeforeNext
<1>5. Len(down) \in 0 .. Len(down)
  BY <1>1
<1>6. ASSUME NEW g, NEW k, Before(g, k, Len(down))
      PROVE  BeforeNext(g, k, Len(down'))
  <2>1. \A n \in 0 .. Len(down) : Before(g, k, n) => BeforeNext(g, k, n + 1)
    BY <1>3
  <2> QED
    BY <1>1, <1>5, <1>6, <2>1
<1> QED
  BY <1>3, <1>4, <1>6

(* The active answer is the one of the controller and no cancel of it was   *)
(* sent.                                                                    *)
LEMMA ActiveFacts ==
  ASSUME Inv, active # NoGen
  PROVE  /\ active \in GenId /\ active = ctl.gen /\ Uncancelled
         /\ published[active] \in 0 .. Words
         /\ Before(active, Out(active), Len(down))
         /\ \A i \in Idx(down) : down[i].kind = "word" /\ down[i].gen = active => down[i].word <= Out(active)
         /\ Out(active) * WordLength <= rendered[active] + Window
  BY DEF Inv, TypeInv, SenderInv, QuietInv, ChainInv

(* Commands not sent yet stay the controller's. *)
LEMMA OutboxKept ==
  ASSUME Inv, UNCHANGED <<outbox, ctl, overlap>>
  PROVE  \A i \in Idx(outbox') :
           /\ outbox'[i].gen = ctl.gen
           /\ outbox'[i].action = "cancel" => i = Len(outbox') /\ overlap' = NoGen
  BY DEF Inv, QuietInv

(* A word that has credit keeps the invariant. *)
LEMMA SendWordKeeps ==
  ASSUME Inv, SendWord
  PROVE  Inv' /\ ctl' = ctl
<1> DEFINE m == [kind |-> "word", gen |-> active, action |-> "none",
                 seq |-> 0, boundary |-> 0, word |-> published[active]]
<1>1. /\ UNCHANGED <<active, cancelled, accepts, heard, published, overlap, outbox, ctl, flow,
                     up, browserVars>>
      /\ active # NoGen /\ publishing /\ publishing' = FALSE /\ flow.gen = active
      /\ published[active] * WordLength <= flow.pos + Window
      /\ down' = Append(down, m)
  BY DEF SendWord, CreditAllows
<1>2. w' = w /\ rendered' = rendered /\ pageCancelled' = pageCancelled
  BY <1>1 DEF browserVars
<1>3. /\ active \in GenId /\ active = ctl.gen /\ Uncancelled
      /\ published[active] \in 0 .. Words
      /\ Before(active, Out(active), Len(down))
      /\ \A i \in Idx(down) : down[i].kind = "word" /\ down[i].gen = active => down[i].word <= Out(active)
      /\ Out(active) * WordLength <= rendered[active] + Window
  BY <1>1, ActiveFacts
<1>4. published[active] >= 1
  BY <1>1 DEF Inv, SenderInv
<1>5. published[active] \in 1 .. Words /\ published[active] \in Nat
  BY <1>3, <1>4, SamplesNat
<1>6. m \in Sent /\ m.gen = ctl.gen /\ m.action = "none" /\ m.kind = "word"
      /\ m.word = published[active]
  BY <1>3, <1>5 DEF Sent, WordMsg
<1>7. Out(active) = published[active] - 1 /\ Out(active)' = published[active]
  BY <1>1, <1>5 DEF Out
<1> HIDE DEF m
<1>8. WorkInv' /\ UpInv'
  BY <1>1, BrowserRests
<1>9. down' \in Seq(Sent) /\ QuietInv'
  BY <1>1, <1>2, <1>3, <1>6, OutboxKept, SendKeeps
<1>10. TypeInv'
  BY <1>1, <1>2, <1>9 DEF Inv, TypeInv, Typed
<1>11. SenderInv'
  <2>1. SenderInv
    BY DEF Inv
  <2>2. Out(active)' * WordLength <= rendered'[active] + Window
    <3>1. flow.pos <= rendered[active]
      BY <1>1 DEF Inv, UpInv
    <3>2. flow.pos \in Nat /\ rendered[active] \in Nat /\ published[active] * WordLength \in Nat
      <4>1. \A n \in 0 .. Samples : n \in Nat
        BY SamplesNat
      <4>2. flow.pos \in 0 .. Samples /\ rendered[active] \in 0 .. Samples
        BY <1>3 DEF Inv, TypeInv, Typed
      <4>3. published[active] * WordLength \in Nat
        BY <1>5, SamplesNat
      <4> QED
        BY <4>1, <4>2, <4>3
    <3> QED
      BY <1>1, <1>2, <1>7, <3>1, <3>2, GenNumbers
  <2> QED
    BY <1>1, <1>2, <2>1, <2>2 DEF SenderInv
<1>12. ChainInv'
  <2>0. /\ Len(down) \in Nat /\ Len(down') = Len(down) + 1
        /\ \A i \in Idx(down') : \/ i \in Idx(down) /\ down'[i] = down[i]
                                 \/ i = Len(down) + 1 /\ down'[i] = m
    BY <1>1, <1>6, DownAppend
  <2>1. ASSUME NEW i \in Idx(down'), down'[i].kind \in {"word", "end"}
        PROVE  BeforeNext(down'[i].gen, Pred(down'[i]), i - 1)
    <3>1. CASE i \in Idx(down) /\ down'[i] = down[i]
      <4>1. Before(down[i].gen, Pred(down[i]), i - 1)
        BY <2>1, <3>1 DEF Inv, ChainInv
      <4>2. i - 1 \in 0 .. Len(down)
        BY <2>0, <3>1 DEF Idx
      <4> QED
        BY <1>1, <1>2, <1>6, <3>1, <4>1, <4>2, AppendBefore
    <3>2. CASE i = Len(down) + 1 /\ down'[i] = m
      <4>1. Before(active, Out(active), i - 1) /\ i - 1 \in 0 .. Len(down)
        BY <1>3, <2>0, <3>2
      <4>2. Pred(m) = Out(active) /\ m.gen = active
        BY <1>3, <1>6, <1>7 DEF Pred
      <4>3. BeforeNext(active, Out(active), i - 1)
        BY <1>1, <1>2, <1>6, <4>1, AppendBefore
      <4> QED
        BY <3>2, <4>2, <4>3
    <3> QED
      BY <2>0, <3>1, <3>2
  <2>2. ASSUME NEW i \in Idx(down'), NEW j \in Idx(down'), i < j, down'[i].gen = down'[j].gen,
               down'[i].kind = "word", down'[j].kind = "word"
        PROVE  down'[i].word < down'[j].word
    <3>1. i \in Idx(down) /\ down'[i] = down[i]
      <4>1. i # Len(down) + 1
        BY <2>0, <2>2 DEF Idx
      <4> QED
        BY <2>0, <4>1
    <3>2. CASE j \in Idx(down) /\ down'[j] = down[j]
      BY <2>2, <3>1, <3>2 DEF Inv, ChainInv
    <3>3. CASE down'[j] = m
      <4>1. down[i].word <= published[active] - 1 /\ down[i].word \in 1 .. Words
        BY <1>3, <1>6, <1>7, <2>2, <3>1, <3>3, DownFacts
      <4> QED
        BY <1>5, <1>6, <3>1, <3>3, <4>1, SamplesNat
    <3> QED
      BY <2>0, <3>2, <3>3
  <2>3. BeforeNext(active', Out(active)', Len(down'))
    <3>1. IsWord(m, active, published[active])
      BY <1>3, <1>6 DEF IsWord
    <3>2. BeforeNext(active, published[active], Len(down'))
      BY <1>1, <1>2, <1>6, <3>1, AppendBefore
    <3> QED
      BY <1>1, <1>7, <3>2
  <2>4. ASSUME NEW i \in Idx(down'), down'[i].kind = "word", down'[i].gen = active'
        PROVE  down'[i].word <= Out(active)'
    <3>1. CASE i \in Idx(down) /\ down'[i] = down[i]
      <4>1. down[i].word <= published[active] - 1 /\ down[i].word \in 1 .. Words
        BY <1>1, <1>3, <1>7, <2>4, <3>1, DownFacts
      <4> QED
        BY <1>5, <1>7, <3>1, <4>1, SamplesNat
    <3>2. CASE down'[i] = m
      BY <1>5, <1>6, <1>7, <3>2
    <3> QED
      BY <2>0, <3>1, <3>2
  <2> QED
    BY <2>1, <2>2, <2>3, <2>4, ChainNext
<1> QED
  BY <1>1, <1>8, <1>9, <1>10, <1>11, <1>12 DEF Inv

(* A message that is no word joins the chain behind all words. *)
LEMMA OtherChain ==
  ASSUME Inv, NEW m \in Sent, down' = Append(down, m), m.kind # "word",
         w' = w, UNCHANGED <<published, publishing>>, active' \in {active, NoGen},
         m.kind = "end" => active # NoGen /\ m.gen = active /\ Out(active) = Words
  PROVE  ChainInv'
<1>0. /\ Len(down) \in Nat /\ Len(down') = Len(down) + 1
      /\ \A i \in Idx(down') : \/ i \in Idx(down) /\ down'[i] = down[i]
                               \/ i = Len(down) + 1 /\ down'[i] = m
  BY DownAppend
<1>1. ASSUME NEW i \in Idx(down'), down'[i].kind \in {"word", "end"}
      PROVE  BeforeNext(down'[i].gen, Pred(down'[i]), i - 1)
  <2>1. CASE i \in Idx(down) /\ down'[i] = down[i]
    <3>1. Before(down[i].gen, Pred(down[i]), i - 1)
      BY <1>1, <2>1 DEF Inv, ChainInv
    <3>2. i - 1 \in 0 .. Len(down)
      BY <1>0, <2>1 DEF Idx
    <3> QED
      BY <2>1, <3>1, <3>2, AppendBefore
  <2>2. CASE i = Len(down) + 1 /\ down'[i] = m
    <3>1. m.kind = "end" /\ active # NoGen /\ m.gen = active /\ Pred(m) = Out(active)
      BY <1>1, <2>2 DEF Pred
    <3>2. Before(active, Out(active), i - 1) /\ i - 1 \in 0 .. Len(down)
      BY <1>0, <2>2, <3>1, ActiveFacts
    <3>3. BeforeNext(active, Out(active), i - 1)
      BY <3>2, AppendBefore
    <3> QED
      BY <2>2, <3>1, <3>3
  <2> QED
    BY <1>0, <2>1, <2>2
<1>2. ASSUME NEW i \in Idx(down'), NEW j \in Idx(down'), i < j, down'[i].gen = down'[j].gen,
             down'[i].kind = "word", down'[j].kind = "word"
      PROVE  down'[i].word < down'[j].word
  <2>1. i \in Idx(down) /\ down'[i] = down[i] /\ j \in Idx(down) /\ down'[j] = down[j]
    BY <1>0, <1>2
  <2> QED
    BY <1>2, <2>1 DEF Inv, ChainInv
<1>3. ASSUME active' # NoGen
      PROVE  /\ BeforeNext(active', Out(active)', Len(down'))
             /\ \A i \in Idx(down') :
                  down'[i].kind = "word" /\ down'[i].gen = active' => down'[i].word <= Out(active)'
  <2>1. active' = active /\ active # NoGen /\ Out(active)' = Out(active)
    BY <1>3 DEF Out
  <2>2. BeforeNext(active, Out(active), Len(down'))
    BY <2>1, ActiveFacts, AppendBefore
  <2>3. \A i \in Idx(down') :
          down'[i].kind = "word" /\ down'[i].gen = active => down'[i].word <= Out(active)
    BY <1>0, <2>1, ActiveFacts
  <2> QED
    BY <2>1, <2>2, <2>3
<1> QED
  BY <1>1, <1>2, <1>3, ChainNext

(* The end of an answer, sent after its last word, keeps the invariant. *)
LEMMA SendEndKeeps ==
  ASSUME Inv, SendEnd
  PROVE  Inv' /\ ctl' = ctl
<1> DEFINE m == [kind |-> "end", gen |-> active, action |-> "none",
                 seq |-> 0, boundary |-> 0, word |-> 0]
<1>1. /\ UNCHANGED <<active, cancelled, accepts, heard, published, publishing, overlap, outbox,
                     ctl, flow, up, browserVars>>
      /\ active # NoGen /\ ~publishing /\ published[active] = Words
      /\ down' = Append(down, m)
  BY DEF SendEnd
<1>2. w' = w /\ rendered' = rendered /\ pageCancelled' = pageCancelled
  BY <1>1 DEF browserVars
<1>3. active \in GenId /\ active = ctl.gen /\ Uncancelled
  BY <1>1, ActiveFacts
<1>4. m \in Sent /\ m.gen = active /\ m.action = "none" /\ m.kind = "end"
  BY <1>3 DEF Sent, EndMsg
<1> HIDE DEF m
<1>5. WorkInv' /\ UpInv'
  BY <1>1, BrowserRests
<1>6. down' \in Seq(Sent) /\ QuietInv'
  BY <1>1, <1>2, <1>3, <1>4, OutboxKept, SendKeeps
<1>7. TypeInv'
  BY <1>1, <1>2, <1>6 DEF Inv, TypeInv, Typed
<1>8. SenderInv'
  <2>1. SenderInv
    BY DEF Inv
  <2> QED
    BY <1>1, <1>2, <2>1 DEF SenderInv, Out
<1>9. ChainInv'
  <2>1. Out(active) = Words
    BY <1>1, SamplesNat DEF Out
  <2> QED
    BY <1>1, <1>2, <1>4, <2>1, OtherChain
<1> QED
  BY <1>1, <1>5, <1>6, <1>7, <1>8, <1>9 DEF Inv

(* A command that is sent keeps the invariant. *)
LEMMA SendCommandKeeps ==
  ASSUME Inv, SendCommand
  PROVE  Inv' /\ ctl' = ctl
<1> DEFINE m == Head(outbox)
<1>0. outbox \in Seq(CommandMsg)
  BY DEF Inv, TypeInv
<1>1. /\ UNCHANGED <<cancelled, accepts, heard, published, publishing, overlap, ctl,
                     up, browserVars>>
      /\ outbox # <<>> /\ outbox' = Tail(outbox)
      /\ down' = Append(down, m)
      /\ active' = IF m.action = "cancel" THEN NoGen ELSE active
      /\ flow' = IF m.action = "cancel" THEN [flow EXCEPT !.gen = NoGen] ELSE flow
  BY DEF SendCommand
<1>2. w' = w /\ rendered' = rendered /\ pageCancelled' = pageCancelled
  BY <1>1 DEF browserVars
<1>3. /\ outbox' \in Seq(CommandMsg) /\ Len(outbox) \in Nat /\ Len(outbox') = Len(outbox) - 1
      /\ 1 \in Idx(outbox) /\ m = outbox[1] /\ m \in CommandMsg
      /\ \A i \in Idx(outbox') : i \in Nat /\ i + 1 \in Idx(outbox) /\ outbox'[i] = outbox[i + 1]
  BY <1>0, <1>1, TailElements
<1>4. m \in Sent /\ m.kind = "command"
  BY <1>3 DEF Sent, CommandMsg
<1>5. m.gen = ctl.gen /\ (m.action = "cancel" => Len(outbox) = 1 /\ overlap = NoGen)
  BY <1>3 DEF Inv, QuietInv
<1>6. Uncancelled
  BY <1>1 DEF Inv, QuietInv
<1>7. flow' \in FlowType /\ flow'.gen \in {flow.gen, NoGen} /\ flow'.pos = flow.pos
  <2>1. flow \in FlowType
    BY DEF Inv, TypeInv, FlowType
  <2> QED
    BY <1>1, <2>1 DEF FlowType
<1> HIDE DEF m
<1>8. WorkInv' /\ UpInv'
  BY <1>1, <1>7, BrowserRests
<1>9. m.action = "cancel" => outbox' = <<>>
  <2> SUFFICES ASSUME m.action = "cancel" PROVE outbox' = <<>>
    OBVIOUS
  <2>0. Len(outbox) = 1
    BY <1>5
  <2>1. Len(outbox') = 0
    BY <1>3, <2>0
  <2> QED
    BY <1>3, <2>1, EmptySeq
<1>10. \A i \in Idx(outbox') :
           /\ outbox'[i].gen = ctl.gen
           /\ outbox'[i].action = "cancel" => i = Len(outbox') /\ overlap' = NoGen
  <2> SUFFICES ASSUME NEW i \in Idx(outbox')
               PROVE  /\ outbox'[i].gen = ctl.gen
                      /\ outbox'[i].action = "cancel" => i = Len(outbox') /\ overlap' = NoGen
    OBVIOUS
  <2>1. i \in Nat /\ i + 1 \in Idx(outbox) /\ outbox'[i] = outbox[i + 1]
    BY <1>3
  <2>2. /\ outbox[i + 1].gen = ctl.gen
        /\ outbox[i + 1].action = "cancel" => i + 1 = Len(outbox) /\ overlap = NoGen
    BY <2>1 DEF Inv, QuietInv
  <2>3. i + 1 = Len(outbox) => i = Len(outbox')
    BY <1>3, <2>1
  <2>4. overlap' = overlap
    BY <1>1
  <2>5. outbox'[i].gen = ctl.gen
    BY <2>1, <2>2
  <2>6. outbox'[i].action = "cancel" => i = Len(outbox') /\ overlap' = NoGen
    BY <2>1, <2>2, <2>3, <2>4
  <2> QED
    BY <2>5, <2>6
<1>11. down' \in Seq(Sent) /\ QuietInv'
  BY <1>1, <1>2, <1>4, <1>5, <1>6, <1>9, <1>10, SendKeeps
<1>12. TypeInv'
  BY <1>1, <1>2, <1>3, <1>7, <1>11 DEF Inv, TypeInv, Typed, FlowType
<1>13. SenderInv'
  <2>1. SenderInv
    BY DEF Inv
  <2>2. active' # NoGen => active' = active
    BY <1>1
  <2> QED
    BY <1>1, <1>2, <2>1, <2>2 DEF SenderInv, Out
<1>14. ChainInv'
  <2>1. active' \in {active, NoGen}
    BY <1>1
  <2> QED
    BY <1>1, <1>2, <1>4, <2>1, OtherChain
<1> QED
  BY <1>1, <1>8, <1>11, <1>12, <1>13, <1>14 DEF Inv

(* replace_generation leaves a controller of its type. *)
LEMMA ResetRecord ==
  ASSUME NEW Gens, NEW States, NEW Positions, NEW Ids,
         NEW r \in [gen : Gens, state : States, browser : BOOLEAN, pos : Positions,
                    rate : BOOLEAN, seq : Ids, acked : Nat],
         NEW g \in Gens, NEW q \in States, NEW n \in Positions, NEW b \in BOOLEAN,
         NEW k \in Ids, NEW a \in Nat,
         NEW c, c = [r EXCEPT !.gen = g, !.state = q, !.pos = n, !.browser = b,
                              !.seq = k, !.acked = a]
  PROVE  /\ c \in [gen : Gens, state : States, browser : BOOLEAN, pos : Positions,
                   rate : BOOLEAN, seq : Ids, acked : Nat]
         /\ c.gen = g /\ c.pos = n
  OBVIOUS

(* A new answer keeps the invariant. *)
LEMMA StartAnswerKeeps ==
  ASSUME Inv, StartAnswer
  PROVE  Inv' /\ ctl'.gen # ctl.gen
<1>1. /\ UNCHANGED <<cancelled, accepts, heard, published, overlap, outbox, down, up, browserVars>>
      /\ active = NoGen /\ outbox = <<>> /\ overlap = NoGen
      /\ ctl.gen < MaxGenerations
      /\ active' = ctl.gen + 1
      /\ ctl' = [ctl EXCEPT !.gen = active', !.state = "QUEUED", !.pos = 0, !.browser = FALSE,
                            !.seq = 1, !.acked = 0]
      /\ flow' = [gen |-> active', pos |-> 0]
      /\ publishing' = FALSE
  BY DEF StartAnswer, ReplaceGeneration
<1>2. w' = w /\ rendered' = rendered /\ pageCancelled' = pageCancelled
  BY <1>1 DEF browserVars
<1>3. /\ ctl \in ControllerType /\ ctl.gen \in GenId \cup {NoGen} /\ ctl.gen \in Nat
      /\ w.gen \in GenId \cup {NoGen} /\ w.gen \in Nat /\ w.gen <= ctl.gen
      /\ published \in [GenId -> 0 .. Words] /\ rendered \in [GenId -> 0 .. Samples]
      /\ pageCancelled \in GenId \cup {NoGen} /\ pageCancelled \in Nat /\ up \in Seq(Message)
  <2>1. /\ ctl \in ControllerType /\ ctl.gen \in GenId \cup {NoGen}
        /\ w.gen \in GenId \cup {NoGen} /\ w.gen <= ctl.gen
        /\ published \in [GenId -> 0 .. Words] /\ rendered \in [GenId -> 0 .. Samples]
        /\ pageCancelled \in GenId \cup {NoGen} /\ up \in Seq(Message)
    BY DEF Inv, TypeInv, Worklet, Typed, SenderInv, ControllerType
  <2> QED
    BY <2>1, GenNumbers
<1>4. active' \in GenId /\ active' \in Nat /\ active' > ctl.gen /\ active' # NoGen
  BY <1>1, <1>3, GenNumbers DEF GenId
<1>5. 0 \in 0 .. Samples
  BY SamplesNat
<1>6. ctl' \in ControllerType /\ ctl'.gen = active' /\ ctl'.pos = 0
  <2>1. "QUEUED" \in PlaybackState
    BY DEF PlaybackState
  <2>2. 1 \in Nat \ {0} /\ 0 \in Nat /\ FALSE \in BOOLEAN
    OBVIOUS
  <2>3. ctl \in ControllerType
    BY <1>3
  <2> QED
    BY <1>1, <1>4, <1>5, <2>1, <2>2, <2>3, ResetRecord, Zenon DEF ControllerType
<1>7. flow' \in FlowType /\ flow'.gen = active' /\ flow'.pos = 0
  BY <1>1, <1>4, <1>5 DEF FlowType
<1>8. TypeInv'
  BY <1>1, <1>2, <1>4, <1>6, <1>7 DEF Inv, TypeInv, Typed, ControllerType, FlowType
<1>9. WorkInv'
  <2>1. WorkInv /\ (Working(w) => Working(w)')
    BY <1>2 DEF Inv, Working, Posts
  <2> QED
    BY <1>2, <2>1 DEF WorkInv
<1>10. \A g \in GenId : rendered[g] \in Nat
  BY <1>3, SamplesNat
<1>11. UpInv'
  <2>1. UpInv
    BY DEF Inv
  <2>2. \A i \in Idx(up) : 0 <= up[i].pos
    BY <1>3, MessageTypes
  <2>3. 0 <= rendered[active']
    BY <1>4, <1>10
  <2> QED
    BY <1>1, <1>2, <1>6, <1>7, <2>1, <2>2, <2>3 DEF UpInv
<1>12. published[active'] = 0
  BY <1>4 DEF Inv, SenderInv
<1>13. Out(active)' = 0
  <2>1. published'[active'] = 0 /\ publishing' = FALSE
    BY <1>1, <1>12
  <2>2. publishing' = FALSE => Out(active)' = published'[active'] - 0
    BY Zenon DEF Out
  <2>3. \A n : n = 0 => n - 0 = 0
    OBVIOUS
  <2>4. published'[active'] - 0 = 0
    BY <2>1, <2>3, Zenon
  <2> QED
    BY <2>1, <2>2, <2>4, Zenon
<1>14. SenderInv'
  <2>1. \A g \in GenId : g > ctl'.gen => published'[g] = 0
    <3>1. \A g \in GenId : g \in Nat
      BY GenNumbers
    <3> QED
      BY <1>1, <1>3, <1>4, <1>6, <3>1 DEF Inv, SenderInv
  <2>2. 0 * WordLength <= rendered'[active'] + Window
    BY <1>2, <1>4, <1>10, SamplesNat, GenNumbers
  <2>3. w'.gen <= ctl'.gen
    BY <1>2, <1>3, <1>4, <1>6
  <2> QED
    BY <1>1, <1>6, <1>13, <2>1, <2>2, <2>3 DEF SenderInv
<1>15. QuietInv'
  <2>1. pageCancelled' < ctl'.gen
    BY <1>2, <1>3, <1>4, <1>6 DEF Inv, QuietInv
  <2>2. \A i \in Idx(down) : /\ pageCancelled < down[i].gen /\ down[i].gen <= ctl.gen
                             /\ down[i].gen \in Nat
    <3>1. \A i \in Idx(down) : pageCancelled < down[i].gen /\ down[i].gen <= ctl.gen
      BY DEF Inv, QuietInv
    <3>2. \A i \in Idx(down) : down[i].gen \in GenId
      BY DownFacts
    <3> QED
      BY <3>1, <3>2, GenNumbers
  <2>3. \A i \in Idx(down') : /\ pageCancelled' < down'[i].gen /\ down'[i].gen < ctl'.gen
                              /\ down'[i].gen <= ctl'.gen
    BY <1>1, <1>2, <1>3, <1>4, <1>6, <2>2
  <2>4. Uncancelled'
    BY <2>1, <2>3 DEF Uncancelled
  <2>5. pageCancelled' <= ctl'.gen
    BY <1>2, <1>3, <1>4, <1>6, <2>1
  <2>6. \A i, j \in Idx(down') :
          i < j /\ down'[i].action = "cancel" => down'[i].gen < down'[j].gen
    BY <1>1 DEF Inv, QuietInv
  <2>7. Idx(outbox') = {}
    BY <1>1 DEF Idx
  <2> QED
    BY <2>3, <2>4, <2>5, <2>6, <2>7 DEF QuietInv
<1>16. ChainInv'
  <2>1. ChainInv
    BY DEF Inv
  <2>2. \A g, k, n : Before(g, k, n) => BeforeNext(g, k, n)
    BY <1>1, <1>2 DEF Before, BeforeNext, Arrived, ArrivedNext
  <2>3. BeforeNext(active', 0, Len(down'))
    BY <1>2, <1>3, <1>4 DEF BeforeNext, ArrivedNext
  <2>4. \A i \in Idx(down') : down'[i].gen # active'
    <3>1. \A i \in Idx(down) : down[i].gen <= ctl.gen /\ down[i].gen \in Nat
      BY DownFacts, GenNumbers DEF Inv, QuietInv
    <3> QED
      BY <1>1, <1>3, <1>4, <3>1
  <2> QED
    BY <1>1, <1>13, <2>1, <2>2, <2>3, <2>4, ChainNext DEF ChainInv
<1>17. ctl'.gen # ctl.gen
  BY <1>3, <1>4, <1>6
<1> QED
  BY <1>8, <1>9, <1>11, <1>14, <1>15, <1>16, <1>17 DEF Inv

(* The commands of the controller are commands. *)
LEMMA CommandType ==
  ASSUME Inv, ctl.gen # NoGen, NEW action \in {"duck", "pause", "resume", "cancel"},
         NEW seq \in Nat \ {0}, NEW boundary \in Nat
  PROVE  /\ Command(action, seq, boundary) \in CommandMsg
         /\ Command(action, seq, boundary).gen = ctl.gen
         /\ Command(action, seq, boundary).action = action
<1>1. ctl.gen \in GenId
  BY DEF Inv, TypeInv
<1> QED
  BY <1>1 DEF Command, CommandMsg

(* What the user does leaves the socket and the answers alone. *)
LEMMA UserKeeps ==
  ASSUME Inv, outbox = <<>>, UNCHANGED <<active, published, publishing, flow, down, up, browserVars>>,
         accepts' = accepts, heard' = heard, cancelled' \in [GenId -> BOOLEAN],
         overlap' \in {NoGen, active, overlap}, outbox' \in Seq(CommandMsg), ctl' \in ControllerType,
         ctl'.gen = ctl.gen, ctl'.pos = ctl.pos,
         \A i \in Idx(outbox') :
           /\ outbox'[i].gen = ctl.gen
           /\ outbox'[i].action = "cancel" => i = Len(outbox') /\ overlap' = NoGen,
         outbox' # <<>> => active # NoGen \/ (overlap # NoGen /\ overlap = ctl.gen)
  PROVE  Inv'
<1>1. w' = w /\ rendered' = rendered /\ pageCancelled' = pageCancelled
  BY DEF browserVars
<1>2. WorkInv' /\ UpInv'
  BY BrowserRests
<1>3. TypeInv'
  BY <1>1 DEF Inv, TypeInv, Typed, ControllerType
<1>4. SenderInv'
  <2>1. SenderInv
    BY DEF Inv
  <2> QED
    BY <1>1, <2>1 DEF SenderInv, Out
<1>5. QuietInv'
  <2>1. QuietInv
    BY DEF Inv
  <2>2. ASSUME active' # NoGen \/ (overlap' # NoGen /\ overlap' = ctl'.gen) \/ outbox' # <<>>
        PROVE  Uncancelled'
    <3>1. active # NoGen \/ (overlap # NoGen /\ overlap = ctl.gen)
      BY <2>2
    <3>2. Uncancelled
      BY <2>1, <3>1 DEF QuietInv
    <3> QED
      BY <1>1, <3>2 DEF Uncancelled
  <2> QED
    BY <1>1, <2>1, <2>2 DEF QuietInv
<1>6. ChainInv'
  <2>1. ChainInv
    BY DEF Inv
  <2>2. \A g, k, n : Before(g, k, n) => BeforeNext(g, k, n)
    BY <1>1 DEF Before, BeforeNext, Arrived, ArrivedNext
  <2>3. Out(active)' = Out(active)
    BY DEF Out
  <2> QED
    BY <1>1, <2>1, <2>2, <2>3, ChainNext DEF ChainInv
<1> QED
  BY <1>2, <1>3, <1>4, <1>5, <1>6 DEF Inv

(* The controller after issuing commands. *)
LEMMA ControllerCommand ==
  ASSUME Inv, NEW state \in PlaybackState
  PROVE  /\ ctl \in ControllerType /\ ctl.seq \in Nat \ {0}
         /\ Estimated(ctl, state) \in ControllerType
         /\ Estimated(ctl, state).gen = ctl.gen /\ Estimated(ctl, state).pos = ctl.pos
         /\ \A n \in {1, 2} :
              LET c == [Estimated(ctl, state) EXCEPT !.seq = @ + n]
              IN  c \in ControllerType /\ c.gen = ctl.gen /\ c.pos = ctl.pos
<1>1. ctl \in ControllerType
  BY DEF Inv, TypeInv, ControllerType
<1>2. ctl.seq \in Nat \ {0}
  BY <1>1 DEF ControllerType
<1> DEFINE e == Estimated(ctl, state)
<1>3. e \in ControllerType /\ e.gen = ctl.gen /\ e.pos = ctl.pos
  BY <1>1 DEF Estimated, ControllerType
<1> HIDE DEF e
<1>4. \A n \in {1, 2} : LET c == [e EXCEPT !.seq = @ + n]
                        IN  c \in ControllerType /\ c.gen = ctl.gen /\ c.pos = ctl.pos
  BY <1>3 DEF ControllerType
<1> QED
  BY <1>1, <1>2, <1>3, <1>4 DEF e

(* A queue of one command. *)
LEMMA SingleCommand ==
  ASSUME NEW c \in CommandMsg
  PROVE  /\ <<c>> \in Seq(CommandMsg)
         /\ Len(<<c>>) = 1
         /\ \A i \in Idx(<<c>>) : i = 1 /\ <<c>>[i] = c
  BY DEF Idx

(* The boundary of a pause is a position. *)
LEMMA NextBoundaryType ==
  ASSUME Inv
  PROVE  NextBoundary \in Nat
<1>1. ctl.pos \in 0 .. Samples
  BY DEF Inv, TypeInv
<1>2. ctl.pos \in Nat /\ ctl.pos \div WordLength \in Nat
  BY <1>1, SamplesNat
<1>3. (ctl.pos \div WordLength + 1) * WordLength \in Nat
  <2> DEFINE d == ctl.pos \div WordLength
  <2>1. d \in Nat
    BY <1>2
  <2> HIDE DEF d
  <2>2. (d + 1) * WordLength \in Nat
    BY <2>1, SamplesNat
  <2> QED
    BY <2>2 DEF d
<1>4. NoBoundary \in Nat
  BY SamplesNat DEF NoBoundary
<1> QED
  BY <1>3, <1>4 DEF NextBoundary

(* An overlap that begins keeps the invariant. *)
LEMMA StartOverlapKeeps ==
  ASSUME Inv, StartOverlap
  PROVE  Inv' /\ ctl'.pos = ctl.pos
<1>1. /\ UNCHANGED <<active, cancelled, accepts, heard, published, publishing, flow, down, up,
                     browserVars>>
      /\ active # NoGen /\ outbox = <<>> /\ overlap' = active
  BY DEF StartOverlap
<1>2. cancelled' \in [GenId -> BOOLEAN]
  BY <1>1 DEF Inv, TypeInv
<1>3. CASE ~ctl.rate
  <2>1. outbox' = <<>> /\ ctl' = ctl
    BY <1>1, <1>3 DEF StartOverlap
  <2>2. outbox' \in Seq(CommandMsg) /\ Idx(outbox') = {}
    BY <2>1 DEF Idx
  <2>3. ctl' \in ControllerType
    BY <2>1 DEF Inv, TypeInv, ControllerType
  <2> QED
    BY <1>1, <1>2, <2>1, <2>2, <2>3, UserKeeps
<1>4. CASE ctl.rate
  <2> DEFINE d == Command("duck", ctl.seq, 0)
             p == Command("pause", ctl.seq + 1, NextBoundary)
             c == [Estimated(ctl, "DRAINING_TO_BOUNDARY") EXCEPT !.seq = @ + 2]
  <2>1. outbox' = <<d, p>> /\ ctl' = c
    BY <1>4 DEF StartOverlap
  <2>2. /\ ctl.seq \in Nat \ {0} /\ ctl.seq + 1 \in Nat \ {0}
        /\ c \in ControllerType /\ c.gen = ctl.gen /\ c.pos = ctl.pos
    <3>1. "DRAINING_TO_BOUNDARY" \in PlaybackState /\ 2 \in {1, 2}
      BY DEF PlaybackState
    <3>2. /\ ctl.seq \in Nat \ {0}
          /\ c \in ControllerType /\ c.gen = ctl.gen /\ c.pos = ctl.pos
      BY <3>1, ControllerCommand
    <3> QED
      BY <3>2
  <2>3. ctl.gen # NoGen
    BY <1>1 DEF Inv, SenderInv
  <2>4. /\ d \in CommandMsg /\ d.gen = ctl.gen /\ d.action = "duck"
        /\ p \in CommandMsg /\ p.gen = ctl.gen /\ p.action = "pause"
    BY <2>2, <2>3, CommandType, NextBoundaryType
  <2> HIDE DEF d, p, c
  <2>5. /\ outbox' \in Seq(CommandMsg)
        /\ \A i \in Idx(outbox') : outbox'[i] \in {d, p}
    BY <2>1, <2>4 DEF Idx
  <2>6. \A i \in Idx(outbox') : outbox'[i].gen = ctl.gen /\ outbox'[i].action # "cancel"
    BY <2>4, <2>5
  <2> QED
    BY <1>1, <1>2, <2>1, <2>2, <2>5, <2>6, UserKeeps
<1> QED
  BY <1>3, <1>4

(* An overlap that was feedback keeps the invariant. *)
LEMMA ResumeOverlapKeeps ==
  ASSUME Inv, ResumeOverlap
  PROVE  Inv' /\ ctl'.pos = ctl.pos
<1>1. /\ UNCHANGED <<active, cancelled, accepts, heard, published, publishing, flow, down, up,
                     browserVars>>
      /\ overlap # NoGen /\ outbox = <<>> /\ overlap' = NoGen
  BY DEF ResumeOverlap
<1>2. cancelled' \in [GenId -> BOOLEAN]
  BY <1>1 DEF Inv, TypeInv
<1>3. CASE outbox' = outbox /\ ctl' = ctl
  <2>1. outbox' \in Seq(CommandMsg) /\ Idx(outbox') = {}
    BY <1>1, <1>3 DEF Idx
  <2>2. ctl' \in ControllerType
    BY <1>3 DEF Inv, TypeInv, ControllerType
  <2> QED
    BY <1>1, <1>2, <1>3, <2>1, <2>2, UserKeeps
<1>4. CASE ~(outbox' = outbox /\ ctl' = ctl)
  <2> DEFINE m == Command("resume", ctl.seq, 0)
             c == [Estimated(ctl, "RESUMING") EXCEPT !.seq = @ + 1]
  <2>1. ctl.gen = overlap /\ outbox' = <<m>> /\ ctl' = c
    BY <1>4 DEF ResumeOverlap
  <2>2. /\ ctl.seq \in Nat \ {0}
        /\ c \in ControllerType /\ c.gen = ctl.gen /\ c.pos = ctl.pos
    <3>1. "RESUMING" \in PlaybackState /\ 1 \in {1, 2}
      BY DEF PlaybackState
    <3> QED
      BY <3>1, ControllerCommand
  <2>3. m \in CommandMsg /\ m.gen = ctl.gen /\ m.action = "resume"
    BY <1>1, <2>1, <2>2, CommandType
  <2> HIDE DEF m, c
  <2>4. /\ outbox' \in Seq(CommandMsg)
        /\ \A i \in Idx(outbox') : outbox'[i] = m
    BY <2>1, <2>3, SingleCommand
  <2>5. \A i \in Idx(outbox') : outbox'[i].gen = ctl.gen /\ outbox'[i].action # "cancel"
    BY <2>3, <2>4
  <2> QED
    BY <1>1, <1>2, <2>1, <2>2, <2>4, <2>5, UserKeeps
<1> QED
  BY <1>3, <1>4

(* A cancelled answer keeps the invariant. *)
LEMMA CancelAnswerKeeps ==
  ASSUME Inv, CancelAnswer
  PROVE  Inv' /\ ctl'.pos = ctl.pos
<1>1. /\ UNCHANGED <<active, accepts, heard, published, publishing, flow, down, up, browserVars>>
      /\ outbox = <<>> /\ overlap' = NoGen
  BY DEF CancelAnswer
<1>2. CASE active = NoGen
  <2>1. outbox' = <<>> /\ ctl' = ctl /\ cancelled' = cancelled
    BY <1>1, <1>2 DEF CancelAnswer
  <2>2. outbox' \in Seq(CommandMsg) /\ Idx(outbox') = {}
    BY <2>1 DEF Idx
  <2>3. ctl' \in ControllerType /\ cancelled' \in [GenId -> BOOLEAN]
    BY <2>1 DEF Inv, TypeInv, ControllerType
  <2> QED
    BY <1>1, <2>1, <2>2, <2>3, UserKeeps
<1>3. CASE active # NoGen
  <2> DEFINE m == Command("cancel", ctl.seq, 0)
             c == [Estimated(ctl, "CANCELLED") EXCEPT !.seq = @ + 1]
  <2>1. outbox' = <<m>> /\ ctl' = c /\ cancelled' = [cancelled EXCEPT ![active] = TRUE]
    BY <1>3 DEF CancelAnswer
  <2>2. /\ ctl.seq \in Nat \ {0}
        /\ c \in ControllerType /\ c.gen = ctl.gen /\ c.pos = ctl.pos
    <3>1. "CANCELLED" \in PlaybackState /\ 1 \in {1, 2}
      BY DEF PlaybackState
    <3> QED
      BY <3>1, ControllerCommand
  <2>3. ctl.gen # NoGen /\ active \in GenId
    BY <1>3 DEF Inv, TypeInv, SenderInv
  <2>4. m \in CommandMsg /\ m.gen = ctl.gen /\ m.action = "cancel"
    BY <2>2, <2>3, CommandType
  <2>5. cancelled' \in [GenId -> BOOLEAN]
    BY <2>1, <2>3 DEF Inv, TypeInv
  <2> HIDE DEF m, c
  <2>6. /\ outbox' \in Seq(CommandMsg) /\ Len(outbox') = 1
        /\ \A i \in Idx(outbox') : i = 1 /\ outbox'[i] = m
    BY <2>1, <2>4, SingleCommand
  <2>7. \A i \in Idx(outbox') : outbox'[i].gen = ctl.gen /\ i = Len(outbox')
    BY <2>4, <2>6
  <2> QED
    BY <1>1, <1>3, <2>1, <2>2, <2>5, <2>6, <2>7, UserKeeps
<1> QED
  BY <1>2, <1>3

-----------------------------------------------------------------------------
(* The invariant holds at the start. *)
LEMMA InvInit == Init => Inv
<1> SUFFICES ASSUME Init PROVE Inv
  OBVIOUS
<1>1. /\ active = NoGen /\ publishing = FALSE /\ overlap = NoGen
      /\ outbox = <<>> /\ down = <<>> /\ up = <<>> /\ pageCancelled = 0
      /\ w = Processor(NoGen)
      /\ cancelled = [g \in GenId |-> FALSE] /\ accepts = [g \in GenId |-> TRUE]
      /\ heard = [g \in GenId |-> 0] /\ published = [g \in GenId |-> 0]
      /\ rendered = [g \in GenId |-> 0]
      /\ flow = [gen |-> NoGen, pos |-> 0]
      /\ ctl = [gen |-> NoGen, state |-> "IDLE", browser |-> FALSE, pos |-> 0,
                rate |-> FALSE, seq |-> 1, acked |-> 0]
  BY DEF Init
<1>2. /\ 0 \in 0 .. Samples /\ 0 \in 0 .. Words /\ NoBoundary \in Nat /\ "IDLE" \in PlaybackState
  BY SamplesNat DEF NoBoundary, PlaybackState
<1>3. /\ w \in Worklet /\ w.gen = NoGen /\ w.out = <<>> /\ ~w.closed
  <2> DEFINE q(word0, pos0, n, stop, state) ==
               [gen |-> NoGen, state |-> state, pos |-> pos0, queue |-> pos0, words |-> word0,
                reported |-> word0, clocked |-> n, gain |-> "full", ramp |-> "none",
                duck |-> n, pause |-> n, stop |-> stop, resume |-> n, cancel |-> n,
                closed |-> FALSE, ended |-> FALSE, started |-> FALSE, out |-> <<>>]
             x == q(0, 0, 0, NoBoundary, "IDLE")
  <2>1. \A word0 \in 0 .. Words, pos0 \in 0 .. Samples, n \in Nat, stop \in Nat, state \in PlaybackState :
          q(word0, pos0, n, stop, state) \in Worklet
    BY DEF Worklet
  <2>2. w = x
    BY <1>1 DEF Processor
  <2>3. x.gen = NoGen /\ x.out = <<>> /\ ~x.closed
    OBVIOUS
  <2>4. x \in Worklet
    <3> HIDE DEF q
    <3> QED
      BY <1>2, <2>1
  <2> QED
    BY <2>2, <2>3, <2>4
<1>4. Typed /\ \A g \in GenId : rendered[g] = 0 /\ published[g] = 0
  BY <1>1, <1>2 DEF Typed
<1>5. TypeInv
  <2>1. /\ outbox \in Seq(CommandMsg) /\ down \in Seq(Sent) /\ up \in Seq(Message)
    BY <1>1
  <2>2. ctl \in [gen : GenId \cup {NoGen}, state : PlaybackState, browser : BOOLEAN,
                 pos : 0 .. Samples, rate : BOOLEAN, seq : Nat \ {0}, acked : Nat]
    BY <1>1, <1>2
  <2>3. flow \in [gen : GenId \cup {NoGen}, pos : 0 .. Samples]
    BY <1>1, <1>2
  <2>4. /\ cancelled \in [GenId -> BOOLEAN] /\ accepts \in [GenId -> BOOLEAN]
        /\ heard \in [GenId -> 0 .. Words] /\ published \in [GenId -> 0 .. Words]
    BY <1>1, <1>2
  <2>5. pageCancelled \in GenId \cup {NoGen}
    BY <1>1 DEF NoGen
  <2> QED
    BY <1>1, <1>3, <1>4, <2>1, <2>2, <2>3, <2>4, <2>5 DEF TypeInv
<1>6. WorkInv
  BY <1>1, <1>3, <1>4 DEF WorkInv
<1>7. Idx(up) = {} /\ Idx(down) = {} /\ Idx(outbox) = {}
  BY <1>1 DEF Idx
<1>8. ctl.gen = NoGen /\ flow.gen = NoGen
  BY <1>1
<1>9. UpInv
  BY <1>7, <1>8 DEF UpInv
<1>10. SenderInv
  BY <1>1, <1>3, <1>4, <1>8 DEF SenderInv, NoGen
<1>11. QuietInv
  BY <1>1, <1>7, <1>8 DEF QuietInv, NoGen
<1>12. ChainInv
  BY <1>1, <1>7 DEF ChainInv
<1> QED
  BY <1>5, <1>6, <1>9, <1>10, <1>11, <1>12 DEF Inv

(* Every step keeps the invariant, and none takes the cursor of an answer   *)
(* back.                                                                    *)
LEMMA InvStep ==
  ASSUME Inv, [Next]_vars
  PROVE  Inv' /\ (ctl'.gen = ctl.gen => ctl'.pos >= ctl.pos)
<1>0. ctl.pos \in Nat /\ ctl.pos >= ctl.pos
  <2>1. ctl.pos \in 0 .. Samples
    BY DEF Inv, TypeInv
  <2> QED
    BY <2>1, SamplesNat
<1>1. CASE DeliverWord
  BY <1>0, <1>1, DeliverWordKeeps DEF DeliverWord, serverVars
<1>2. CASE DeliverEnd
  BY <1>0, <1>2, DeliverEndKeeps DEF DeliverEnd, serverVars
<1>3. CASE DeliverCommand
  BY <1>0, <1>3, DeliverCommandKeeps DEF DeliverCommand, serverVars
<1>4. CASE Render
  BY <1>0, <1>4, RenderKeeps DEF Render, serverVars
<1>5. CASE TakePause
  BY <1>0, <1>5, TakePauseKeeps DEF TakePause, serverVars
<1>6. CASE Receive
  BY <1>6, ReceiveStartedKeeps, ReceiveClockKeeps, ReceiveProgressKeeps,
     ReceiveCompleteKeeps, ReceiveAckKeeps DEF Receive
<1>7. CASE Sending
  BY <1>0, <1>7, SynthesizeWordKeeps, SendWordKeeps, SendEndKeeps DEF Sending
<1>8. CASE User
  BY <1>0, <1>8, StartAnswerKeeps, StartOverlapKeeps, ResumeOverlapKeeps, CancelAnswerKeeps DEF User
<1>9. CASE SendCommand
  BY <1>0, <1>9, SendCommandKeeps
<1>10. CASE \E g \in GenId : StopTimeout(g)
  BY <1>0, <1>10, StopTimeoutKeeps
<1>11. CASE UNCHANGED vars
  <2>1. /\ UNCHANGED <<active, cancelled, accepts, heard, published, publishing, overlap,
                       outbox, ctl, flow, down, up, pageCancelled, w, rendered>>
    BY <1>11 DEF vars, serverVars, sessionVars, browserVars
  <2>2. TypeInv' /\ SenderInv' /\ QuietInv' /\ ChainInv' /\ UpInv'
    BY <2>1 DEF Inv, TypeInv, Typed, SenderInv, Out, QuietInv, Uncancelled, ChainInv,
                Before, Arrived, UpInv
  <2>3. WorkInv'
    <3>1. WorkInv /\ (Working(w) => Working(w)')
      BY <2>1 DEF Inv, Working, Posts
    <3> QED
      BY <2>1, <3>1 DEF WorkInv
  <2> QED
    BY <1>0, <2>1, <2>2, <2>3 DEF Inv
<1> QED
  BY <1>1, <1>2, <1>3, <1>4, <1>5, <1>6, <1>7, <1>8, <1>9, <1>10, <1>11 DEF Next, Browser, Deliver

(* The inductive invariant holds of every behaviour. *)
THEOREM Invariant == Spec => []Inv
<1>1. Inv /\ [Next]_vars => Inv'
  BY InvStep
<1> QED
  BY InvInit, <1>1, PTL DEF Spec

(* The invariant contains the types. *)
LEMMA TypesFromInv == Inv => TypeOK
<1> SUFFICES ASSUME Inv PROVE TypeOK
  OBVIOUS
<1>1. up \in Seq(Message)
  BY DEF Inv, TypeInv
<1>2. \A i \in 1 .. Len(up) : up[i] \in Message
  BY <1>1
<1> QED
  BY <1>2 DEF Inv, TypeInv, TypeOK, Worklet, Typed

(* Every variable has its type: no report, command or credit takes a cursor, *)
(* a queue or a word count of playback out of its range.                    *)
THEOREM TypeCorrect == Spec => []TypeOK
  BY Invariant, TypesFromInv, PTL

(* record_clock, record_progress and acknowledge write the controller's     *)
(* cursor from reports that travel while commands cross them; whatever the  *)
(* order, the cursor is never ahead of what the browser rendered of that    *)
(* answer.                                                                  *)
THEOREM CursorNeverAhead == Spec => []CursorTrails
<1>1. Inv => CursorTrails
  BY DEF Inv, UpInv, CursorTrails
<1> QED
  BY Invariant, <1>1, PTL

(* record_started, record_progress and record_complete take the position of *)
(* the report as it is; the cursor of an answer still never goes back.      *)
THEOREM CursorNeverBack == Spec => CursorMonotone
<1>1. Inv /\ [Next]_vars => [ctl'.gen = ctl.gen => ctl'.pos >= ctl.pos]_vars
  BY InvStep
<1> QED
  BY Invariant, <1>1, PTL DEF Spec, CursorMonotone

(* wait_until_send_allowed decides on a credited position that lags behind  *)
(* the browser; never more than Window samples are between session and      *)
(* loudspeaker.                                                             *)
THEOREM TransportIsBounded == Spec => []TransportBounded
<1>1. Inv => TransportBounded
  BY DEF Inv, SenderInv, Out, TransportBounded
<1> QED
  BY Invariant, <1>1, PTL
=============================================================================
