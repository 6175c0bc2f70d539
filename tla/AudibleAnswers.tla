---------------------------- MODULE AudibleAnswers ----------------------------
(***************************************************************************)
(* What playback promises: answers sound one after another, an answer that *)
(* was silenced never sounds again, and the session counts a word as heard *)
(* only when all its samples have sounded.  PlaybackProtocol implements it.*)
(***************************************************************************)
EXTENDS Naturals

CONSTANTS
  MaxGenerations,  \* answers, at least one
  WordLength       \* samples of a word, at least one

GenId == 1 .. MaxGenerations

VARIABLES
  sounding,  \* the latest answer the browser has taken up, 0 for none
  silent,    \* answers that will not sound any more
  rendered,  \* samples of each answer that have sounded
  heard      \* words of each answer the session counts as heard

vars == <<sounding, silent, rendered, heard>>

Init ==
  /\ sounding = 0
  /\ silent = {}
  /\ rendered = [g \in GenId |-> 0]
  /\ heard = [g \in GenId |-> 0]

(* A newer answer silences the older ones for good. *)
TakeUp(g) ==
  /\ g > sounding
  /\ g \notin silent
  /\ sounding' = g
  /\ silent' = silent \cup {h \in GenId : h < g}
  /\ UNCHANGED <<rendered, heard>>

Silence ==
  /\ silent' \in SUBSET GenId
  /\ silent \subseteq silent'
  /\ UNCHANGED <<sounding, rendered, heard>>

(* One sample sounds; it may be the last one. *)
Sound ==
  /\ sounding # 0
  /\ sounding \notin silent
  /\ rendered' = [rendered EXCEPT ![sounding] = @ + 1]
  /\ silent' \in {silent, silent \cup {sounding}}
  /\ UNCHANGED <<sounding, heard>>

Hear(g, words) ==
  /\ words > heard[g]
  /\ words * WordLength <= rendered[g]
  /\ heard' = [heard EXCEPT ![g] = words]
  /\ UNCHANGED <<sounding, silent, rendered>>

Next ==
  \/ \E g \in GenId : TakeUp(g)
  \/ Silence
  \/ Sound
  \/ \E g \in GenId : \E words \in 1 .. rendered[g] : Hear(g, words)

Spec == Init /\ [][Next]_vars
=============================================================================
