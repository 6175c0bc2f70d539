------------------------ MODULE AlignmentMigration ------------------------
(***************************************************************************)
(* The one-time alignment migration of the corpus, as the command line     *)
(* runs and reruns it (src/app/local/alignment_migration/service.py and    *)
(* cli.py): the file transaction of a retained sample, the reconciliation  *)
(* of its database rows, the deletion of the samples reviewed as invalid   *)
(* with their directories, and the removal of the derived rows.            *)
(*                                                                         *)
(* The process may be killed between any two steps, and an operation of    *)
(* the file system or the database may raise; files and committed rows     *)
(* stay.  A database transaction is one step (psycopg commits or rolls     *)
(* back), except that its outcome may be unknown to the process.           *)
(***************************************************************************)
EXTENDS AlignmentTransaction

CONSTANTS
  Invalids,    \* how many samples were reviewed as invalid
  MaxCrashes   \* bound on the kills and failures of one behaviour

ASSUME CountAssumption ==
  /\ Invalids \in Nat \ {0}
  /\ MaxCrashes \in Nat

VARIABLES
  rows,        \* the retained sample's rows: describe the original or the
               \* aligned audio
  reviews,     \* the stored review that holds the sample's offset
  invalidRows, \* the rows of the invalid samples
  dir,         \* where the directory of each invalid sample is
  crashes

store == <<rows, reviews, invalidRows, dir>>
vars == <<files, process, store, crashes>>

Invalid == 1 .. Invalids

-----------------------------------------------------------------------------
(* preflight: an offset for the sample, its tracks in their place (and     *)
(* aligned, once there is a sidecar), and every directory of an invalid    *)
(* sample that still has rows.                                             *)
Preflight ==
  /\ reviews = "stored" \/ final = "complete"
  /\ \A t \in Track : canonical[t] # "absent"
  /\ final = "complete" => CanonicalAligned
  /\ invalidRows = "stored" => \A i \in Invalid : dir[i] = "canonical"

(* The apply command: cli.py runs dry_run, which is the preflight, before  *)
(* anything else.                                                          *)
LaunchApply ==
  /\ step = "idle"
  /\ Preflight
  /\ command' = "apply"
  /\ step' = "directories"
  /\ track' = "speaker1"
  /\ UNCHANGED <<files, store, crashes>>

(* recover_alignment_transaction is exported and can be called for one     *)
(* sample, as the tests do; no command does.                               *)
LaunchRecovery ==
  /\ step = "idle"
  /\ pending # "absent"
  /\ command' = "recover"
  /\ step' = "recover"
  /\ track' = "speaker1"
  /\ UNCHANGED <<files, store, crashes>>

(* _recover_invalid_directory_state: all directories staged, or none.      *)
RecoverDirectories ==
  LET stagedIds == {i \in Invalid : dir[i] = "staged"}
  IN  /\ step = "directories"
      /\ IF stagedIds = {} THEN Goto("apply")
         ELSE IF stagedIds = Invalid THEN Goto("settle")
         ELSE Exit
      /\ UNCHANGED <<files, store, crashes>>

(* Rows that are gone take their directories with them; rows that are not  *)
(* get them back.  Then the preflight runs again.                          *)
SettleDirectory ==
  /\ step = "settle"
  /\ \E i \in Invalid :
       /\ dir[i] = "staged"
       /\ \A j \in Invalid : j < i => dir[j] # "staged"
       /\ dir' = [dir EXCEPT ![i] = IF invalidRows = "stored"
                                    THEN "canonical" ELSE "absent"]
       /\ Goto(IF i = Invalids THEN "apply" ELSE "settle")
  /\ UNCHANGED <<files, rows, reviews, invalidRows, crashes>>

Transact == FileStep /\ UNCHANGED <<store, crashes>>

(* reconcile_sample, unless the rows agree with the sidecar already.       *)
ReconcileRows ==
  /\ step = "reconcile"
  /\ CanonicalAligned
  /\ rows' = "aligned"
  /\ Goto("confirm")
  /\ UNCHANGED <<files, reviews, invalidRows, dir, crashes>>

-----------------------------------------------------------------------------
(* _delete_invalid_samples.                                                *)

StageDirectory_PurgesFirst ==
  /\ step = "invalid"
  /\ invalidRows = "stored"
  /\ \E i \in Invalid :
       /\ dir[i] = "canonical"
       /\ \A j \in Invalid : j < i => dir[j] = "staged"
       /\ dir' = [dir EXCEPT ![i] = "staged"]
       /\ Goto(IF i = Invalids THEN "purge" ELSE "invalid")
  /\ UNCHANGED <<files, rows, reviews, invalidRows, crashes>>

StageDirectory ==
  /\ step = "invalid"
  /\ invalidRows = "stored"
  /\ \E i \in Invalid :
       /\ dir[i] = "canonical"
       /\ \A j \in Invalid : j < i => dir[j] = "staged"
       /\ dir' = [dir EXCEPT ![i] = "staged"]
       /\ Goto(IF i = Invalids THEN "delete" ELSE "invalid")
  /\ UNCHANGED <<files, rows, reviews, invalidRows, crashes>>

(* The plan holds no invalid sample: its loops are empty.                  *)
NothingInvalid ==
  /\ step = "invalid"
  /\ invalidRows = "deleted"
  /\ Goto("derived")
  /\ UNCHANGED <<files, store, crashes>>

DeleteInvalidRows ==
  /\ step = "delete"
  /\ invalidRows' = "deleted"
  /\ Goto("purge")
  /\ UNCHANGED <<files, rows, reviews, dir, crashes>>

PurgeDirectory ==
  /\ step = "purge"
  /\ \E i \in Invalid :
       /\ dir[i] = "staged"
       /\ \A j \in Invalid : j < i => dir[j] # "staged"
       /\ dir' = [dir EXCEPT ![i] = "absent"]
       /\ Goto(IF i = Invalids THEN "derived" ELSE "purge")
  /\ UNCHANGED <<files, rows, reviews, invalidRows, crashes>>

(* An error while the directories are staged or the rows deleted moves the *)
(* directories back, the last one first.  A commit that the connection     *)
(* does not live to confirm raises like one that was rolled back.          *)
DeletionFails ==
  /\ step \in {"invalid", "delete"}
  /\ invalidRows = "stored"
  /\ crashes < MaxCrashes
  /\ crashes' = crashes + 1
  /\ \/ UNCHANGED invalidRows
     \/ /\ step = "delete"
        /\ invalidRows' = "deleted"
  /\ Goto("rollback")
  /\ UNCHANGED <<files, rows, reviews, dir>>

RollBackDirectory ==
  /\ step = "rollback"
  /\ \E i \in Invalid :
       /\ dir[i] = "staged"
       /\ \A j \in Invalid : j > i => dir[j] # "staged"
       /\ dir' = [dir EXCEPT ![i] = "canonical"]
  /\ UNCHANGED <<files, process, rows, reviews, invalidRows, crashes>>

RolledBack ==
  /\ step = "rollback"
  /\ \A i \in Invalid : dir[i] # "staged"
  /\ Exit
  /\ UNCHANGED <<files, store, crashes>>

-----------------------------------------------------------------------------
(* clean_derived_state deletes the stored reviews.                         *)
CleanDerivedState ==
  /\ step = "derived"
  /\ reviews' = "deleted"
  /\ Goto("audit")
  /\ UNCHANGED <<files, rows, invalidRows, dir, crashes>>

(* What _audit_post_migration_sources demands.                             *)
AuditPasses ==
  /\ Preflight
  /\ invalidRows = "deleted"
  /\ reviews = "deleted"
  /\ rows = "aligned"
  /\ final = "complete"
  /\ ~HasArtifacts
  /\ \A i \in Invalid : dir[i] = "absent"

Audit ==
  /\ step = "audit"
  /\ Exit
  /\ UNCHANGED <<files, store, crashes>>

-----------------------------------------------------------------------------
(* The process is killed, or an operation raises where nothing cleans up.  *)
Crash ==
  /\ step # "idle"
  /\ crashes < MaxCrashes
  /\ crashes' = crashes + 1
  /\ Exit
  /\ UNCHANGED <<files, store>>

FailStaging ==
  /\ crashes < MaxCrashes
  /\ crashes' = crashes + 1
  /\ StagingFails
  /\ UNCHANGED store

Init ==
  /\ FilesInit
  /\ command = "none"
  /\ step = "idle"
  /\ track = "speaker1"
  /\ rows = "original"
  /\ reviews = "stored"
  /\ invalidRows = "stored"
  /\ dir = [i \in Invalid |-> "canonical"]
  /\ crashes = 0

Progress ==
  \/ RecoverDirectories \/ SettleDirectory
  \/ Transact
  \/ ReconcileRows
  \/ StageDirectory \/ NothingInvalid \/ DeleteInvalidRows \/ PurgeDirectory
  \/ RollBackDirectory \/ RolledBack
  \/ CleanDerivedState \/ Audit

Next ==
  \/ LaunchApply \/ LaunchRecovery
  \/ Progress
  \/ DeletionFails \/ FailStaging \/ Crash

Spec == Init /\ [][Next]_vars

(* A process that is not killed goes on, and the operator runs the apply   *)
(* command again until it succeeds.                                        *)
FairSpec == Spec /\ WF_vars(Progress) /\ SF_vars(LaunchApply)

-----------------------------------------------------------------------------
Step == {"idle", "directories", "settle", "apply", "recover", "stage",
         "rewrite", "pend", "serialize", "install", "replace", "promote",
         "unlink", "reconcile", "confirm", "invalid", "delete", "purge",
         "rollback", "derived", "audit"}

(* The types of the state.                                                 *)
TypeOK ==
  /\ FilesOK
  /\ command \in {"none", "apply", "recover"}
  /\ step \in Step
  /\ rows \in {"original", "aligned"}
  /\ reviews \in {"stored", "deleted"}
  /\ invalidRows \in {"stored", "deleted"}
  /\ dir \in [Invalid -> {"canonical", "staged", "absent"}]
  /\ crashes \in 0 .. MaxCrashes

(* The recording as it was made is on disk until the aligned one is in its *)
(* place, its sidecar is final and the database describes it: whatever the *)
(* process was killed in, nothing is lost.                                 *)
OriginalKept ==
  \A t \in Track :
    \/ "original" \in {canonical[t], backup[t]}
    \/ final = "complete" /\ CanonicalAligned /\ rows = "aligned"

(* A final sidecar describes the audio it lies beside, and a complete      *)
(* pending one can be completed by any later run: of every track not yet   *)
(* installed the aligned content is staged and the original is where the   *)
(* installation looks for it.                                              *)
SidecarsAreTrue ==
  /\ final = "complete" => CanonicalAligned
  /\ pending = "complete" =>
       \A t \in Track :
         \/ canonical[t] = Aligned(t)
         \/ /\ staged[t] = Aligned(t)
            /\ "original" \in {canonical[t], backup[t]}

(* The database describes aligned audio only when a sidecar proves it, and *)
(* the offset of the sample is always known from its review or sidecar.    *)
DatabaseFollowsFiles ==
  /\ rows = "aligned" => final = "complete"
  /\ reviews = "stored" \/ final = "complete"

(* No directory of an invalid sample is removed while its rows exist.      *)
RowsKeepDirectories ==
  invalidRows = "stored" => \A i \in Invalid : dir[i] # "absent"

(* Whatever is recorded, in a sidecar or in the database, can be relied on *)
(* after a kill: the three together.                                       *)
RecordsAreTrue ==
  /\ SidecarsAreTrue
  /\ DatabaseFollowsFiles
  /\ RowsKeepDirectories

(* An apply that reaches its audit passes it, unless an earlier deletion   *)
(* was committed without the process knowing and put directories back.     *)
AuditSucceeds ==
  step = "audit" => AuditPasses \/ \E i \in Invalid : dir[i] = "canonical"

(* An aligned recording is never shifted again or taken away: a repeated   *)
(* run installs nothing twice.                                             *)
AlignedOnce ==
  [][\A t \in Track :
       canonical[t] = "aligned" => canonical'[t] = "aligned"]_vars

(* The places where a kill leaves what a rerun of the command refuses.     *)
CanonicalGap == \E t \in Track : canonical[t] = "absent"
UnrecordedStaging ==
  pending # "complete" /\ final = "absent" /\ HasArtifacts
StagedDirectories ==
  LET stagedIds == {i \in Invalid : dir[i] = "staged"}
  IN  \/ stagedIds # {} /\ invalidRows = "stored"
      \/ stagedIds # {} /\ stagedIds # Invalid
OrphanDirectories ==
  invalidRows = "deleted" /\ \E i \in Invalid : dir[i] = "canonical"

(* Rerunning the command completes the migration after every kill, except  *)
(* in four windows: a track renamed away and not yet replaced, staged      *)
(* files without a readable sidecar, a set of invalid directories that is  *)
(* partly staged or staged with its rows still there, and directories put  *)
(* back after a commit of unknown outcome.                                 *)
RerunsComplete ==
  \/ <>(step = "audit" /\ AuditPasses)
  \/ <>[](\/ CanonicalGap \/ UnrecordedStaging
          \/ StagedDirectories \/ OrphanDirectories)
=============================================================================
