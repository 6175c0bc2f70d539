----------------------- MODULE AlignmentTransaction -----------------------
(***************************************************************************)
(* The files of one retained sample while its reviewed alignment is made   *)
(* physical (src/app/local/alignment_migration/filesystem_transaction.py). *)
(* A track is rewritten into a staged file; a pending sidecar that names   *)
(* the original and the aligned content is the commit record; the staged   *)
(* files are then renamed over the canonical ones, whose originals become  *)
(* backups; the sidecar is linked to its final name last.                  *)
(*                                                                         *)
(* A file is its content: hashes are compared, so "original" and "aligned" *)
(* stand for the bytes a hash identifies.  Every open, write, rename, link *)
(* and unlink that another run could find half done is a step.  The module *)
(* has no specification of its own: AlignmentMigration drives it.          *)
(***************************************************************************)
EXTENDS Naturals

VARIABLES
  changed,    \* tracks whose aligned content differs from the original one
  canonical,  \* content of each track's WAV file
  staged,     \* content of each *.alignment.staged file
  backup,     \* content of each *.alignment.bak file
  pending,    \* the *.alignment.json.pending sidecar
  final,      \* the *.alignment.json sidecar
  command,    \* what the running process was asked to do
  step,       \* where it stands
  track       \* the track its loop is at

files == <<changed, canonical, staged, backup, pending, final>>
process == <<command, step, track>>

Track == {"speaker1", "speaker2"}

(* Both loops over the tracks run speaker 1 first (_track_pairs).          *)
IsLast(t) == t = "speaker2"

Aligned(t) == IF t \in changed THEN "aligned" ELSE "original"

(* A zero shift changes no track; any other shift delays one of them.      *)
ZeroShift == changed = {}

CanonicalAligned == \A t \in Track : canonical[t] = Aligned(t)

HasArtifacts ==
  \/ pending # "absent"
  \/ \E t \in Track : staged[t] # "absent" \/ backup[t] # "absent"

(* The next track of a loop, or the step that follows the loop.            *)
Advance(loop, after) ==
  IF IsLast(track)
  THEN /\ step' = after
       /\ track' = "speaker1"
  ELSE /\ step' = loop
       /\ track' = "speaker2"

Goto(s) == /\ step' = s
           /\ UNCHANGED <<command, track>>

(* An exception reaches the caller, or a command has done its work.        *)
Exit == /\ command' = "none"
        /\ step' = "idle"
        /\ track' = "speaker1"

LeaveTransaction_ConfirmFirst ==
  IF command = "apply" THEN Goto("confirm") ELSE Exit

(* Where the sample's transaction ends: apply goes on to the database, the *)
(* exported recover_alignment_transaction returns to its caller.           *)
LeaveTransaction ==
  IF command = "apply" THEN Goto("reconcile") ELSE Exit

Completion_NoSidecar == IF ZeroShift THEN "reconcile" ELSE "install"

(* _complete_pending_transaction has nothing to install without a shift.   *)
Completion == IF ZeroShift THEN "promote" ELSE "install"

-----------------------------------------------------------------------------
FindFinal_RefusePending ==
  /\ step \in {"apply", "recover"}
  /\ final = "complete"
  /\ IF ~CanonicalAligned \/ pending # "absent" THEN Exit ELSE LeaveTransaction
  /\ UNCHANGED files

(* apply_alignment_transaction and recover_alignment_transaction: what the *)
(* files that exist decide.  A final sidecar is loaded and checked against *)
(* the canonical audio; a pending one beside it was left by a kill.        *)
FindFinal ==
  /\ step \in {"apply", "recover"}
  /\ final = "complete"
  /\ IF ~CanonicalAligned THEN Exit
     ELSE IF pending # "absent" THEN Goto("unlink")
     ELSE LeaveTransaction
  /\ UNCHANGED files

(* A pending sidecar is loaded first: half a sidecar is no valid one.      *)
FindPending ==
  /\ step \in {"apply", "recover"}
  /\ final = "absent"
  /\ pending # "absent"
  /\ IF pending = "complete" THEN Goto(Completion) ELSE Exit
  /\ UNCHANGED files

(* Staged files or backups without a sidecar: "manual inspection".         *)
FindDebris ==
  /\ step = "apply"
  /\ final = "absent"
  /\ pending = "absent"
  /\ HasArtifacts
  /\ Exit
  /\ UNCHANGED files

BeginFresh_SidecarFirst ==
  /\ step = "apply"
  /\ final = "absent"
  /\ ~HasArtifacts
  /\ Goto("pend")
  /\ UNCHANGED files

BeginFresh ==
  /\ step = "apply"
  /\ final = "absent"
  /\ ~HasArtifacts
  /\ Goto(IF ZeroShift THEN "pend" ELSE "stage")
  /\ UNCHANGED files

-----------------------------------------------------------------------------
(* Staging: rewrite_pcm_wave and _write_pending_sidecar create their file  *)
(* exclusively, then fill and sync it.                                     *)

CreateStaged ==
  /\ step = "stage"
  /\ staged[track] = "absent"
  /\ staged' = [staged EXCEPT ![track] = "partial"]
  /\ Goto("rewrite")
  /\ UNCHANGED <<changed, canonical, backup, pending, final>>

FinishStaged ==
  /\ step = "rewrite"
  /\ staged' = [staged EXCEPT ![track] = Aligned(track)]
  /\ Advance("stage", "pend")
  /\ UNCHANGED <<changed, canonical, backup, pending, final, command>>

CreatePending ==
  /\ step = "pend"
  /\ pending = "absent"
  /\ pending' = "partial"
  /\ Goto("serialize")
  /\ UNCHANGED <<changed, canonical, staged, backup, final>>

FinishPending ==
  /\ step = "serialize"
  /\ pending' = "complete"
  /\ Goto(Completion)
  /\ UNCHANGED <<changed, canonical, staged, backup, final>>

(* An error before the pending sidecar exists removes the staged files; a  *)
(* failing rewrite has removed its own output already.                     *)
StagingFails ==
  /\ step \in {"stage", "rewrite", "pend"}
  /\ staged' = [t \in Track |-> "absent"]
  /\ Exit
  /\ UNCHANGED <<changed, canonical, backup, pending, final>>

-----------------------------------------------------------------------------
(* _install_aligned_track, which accepts what an earlier run left behind.  *)

SkipInstalled ==
  /\ step = "install"
  /\ canonical[track] = Aligned(track)
  /\ staged' = [staged EXCEPT ![track] = "absent"]
  /\ Advance("install", "promote")
  /\ UNCHANGED <<changed, canonical, backup, pending, final, command>>

BackUpOriginal ==
  /\ step = "install"
  /\ track \in changed
  /\ canonical[track] = "original"
  /\ staged[track] = "aligned"
  /\ canonical' = [canonical EXCEPT
       ![track] = IF backup[track] = "absent" THEN "absent" ELSE "original"]
  /\ backup' = [backup EXCEPT ![track] = "original"]
  /\ Goto("replace")
  /\ UNCHANGED <<changed, staged, pending, final>>

(* The canonical file is missing: both other copies must be there.         *)
FindMissing ==
  /\ step = "install"
  /\ canonical[track] = "absent"
  /\ backup[track] = "original"
  /\ staged[track] = Aligned(track)
  /\ Goto("replace")
  /\ UNCHANGED files

ReplaceCanonical ==
  /\ step = "replace"
  /\ canonical' = [canonical EXCEPT ![track] = staged[track]]
  /\ staged' = [staged EXCEPT ![track] = "absent"]
  /\ Advance("install", "promote")
  /\ UNCHANGED <<changed, backup, pending, final, command>>

(* _promote_sidecar, after every canonical file has been hashed again.     *)
LinkFinal ==
  /\ step = "promote"
  /\ CanonicalAligned
  /\ final = "absent"
  /\ final' = "complete"
  /\ Goto("unlink")
  /\ UNCHANGED <<changed, canonical, staged, backup, pending>>

UnlinkPending ==
  /\ step = "unlink"
  /\ pending' = "absent"
  /\ LeaveTransaction
  /\ UNCHANGED <<changed, canonical, staged, backup, final>>

-----------------------------------------------------------------------------
RemoveBackup_OneTrack ==
  /\ step = "confirm"
  /\ final = "complete"
  /\ CanonicalAligned
  /\ backup' = [backup EXCEPT ![track] = "absent"]
  /\ Goto("invalid")
  /\ UNCHANGED <<changed, canonical, staged, pending, final>>

RemoveBackup_Restores ==
  /\ step = "confirm"
  /\ final = "complete"
  /\ CanonicalAligned
  /\ canonical' = [canonical EXCEPT
       ![track] = IF backup[track] = "absent" THEN @ ELSE backup[track]]
  /\ backup' = [backup EXCEPT ![track] = "absent"]
  /\ Advance("confirm", "invalid")
  /\ UNCHANGED <<changed, staged, pending, final, command>>

(* confirm_database_reconciliation: the originals go last.                 *)
RemoveBackup ==
  /\ step = "confirm"
  /\ final = "complete"
  /\ CanonicalAligned
  /\ backup' = [backup EXCEPT ![track] = "absent"]
  /\ Advance("confirm", "invalid")
  /\ UNCHANGED <<changed, canonical, staged, pending, final, command>>

-----------------------------------------------------------------------------
FilesInit ==
  /\ changed \in SUBSET Track
  /\ canonical = [t \in Track |-> "original"]
  /\ staged = [t \in Track |-> "absent"]
  /\ backup = [t \in Track |-> "absent"]
  /\ pending = "absent"
  /\ final = "absent"

FileStep ==
  \/ FindFinal \/ FindPending \/ FindDebris \/ BeginFresh
  \/ CreateStaged \/ FinishStaged \/ CreatePending \/ FinishPending
  \/ SkipInstalled \/ BackUpOriginal \/ FindMissing \/ ReplaceCanonical
  \/ LinkFinal \/ UnlinkPending \/ RemoveBackup

FilesOK ==
  /\ changed \in SUBSET Track
  /\ canonical \in [Track -> {"absent", "original", "aligned"}]
  /\ staged \in [Track -> {"absent", "partial", "original", "aligned"}]
  /\ backup \in [Track -> {"absent", "original"}]
  /\ pending \in {"absent", "partial", "complete"}
  /\ final \in {"absent", "complete"}
  /\ track \in Track
=============================================================================
