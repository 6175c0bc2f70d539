---------------------- MODULE AlignmentMigration_proofs ----------------------
(***************************************************************************)
(* Proofs about AlignmentMigration, for any number of invalid samples and  *)
(* any number of kills: the recording as it was made is never lost, what   *)
(* sidecars and rows say is true of the files, and an apply that reaches   *)
(* its audit passes it.                                                    *)
(***************************************************************************)
EXTENDS AlignmentMigration, TLAPS

(* The content of a track, and which copies of it exist.                   *)
TracksInv ==
  \A t \in Track :
    /\ t \notin changed => canonical[t] = "original" /\ backup[t] = "absent"
    /\ canonical[t] = "absent" => backup[t] = "original" /\ staged[t] = "aligned"
    /\ canonical[t] = "original" => backup[t] = "absent"
    /\ canonical[t] = "aligned" =>
         backup[t] = "original" \/ (final = "complete" /\ rows = "aligned")

(* What the sidecars and the database rows say.                            *)
RecordsInv ==
  /\ final = "complete" => CanonicalAligned
  /\ rows = "aligned" => final = "complete"
  /\ reviews = "deleted" => final = "complete"
  /\ pending = "complete" =>
       \A t \in Track : canonical[t] = Aligned(t) \/ staged[t] = Aligned(t)

(* What the step of the process says of the files.                         *)
StepsInv ==
  /\ step \in {"stage", "rewrite", "pend", "serialize"} =>
       /\ final = "absent" /\ pending # "complete"
       /\ \A t \in Track : canonical[t] = "original" /\ backup[t] = "absent"
  /\ step \in {"directories", "settle", "apply", "recover", "pend",
              "serialize", "promote", "unlink", "reconcile"} =>
       track = "speaker1"
  /\ step \in {"stage", "rewrite"} /\ track = "speaker2" =>
       staged["speaker1"] = Aligned("speaker1")
  /\ step \in {"pend", "serialize"} /\ ~ZeroShift =>
       \A t \in Track : staged[t] = Aligned(t)
  /\ step \in {"install", "replace", "promote"} =>
       final = "absent" /\ pending = "complete"
  /\ step = "replace" =>
       track \in changed /\ canonical[track] = "absent"
  /\ step \in {"unlink", "reconcile"} => final = "complete"
  /\ step \in {"confirm", "invalid", "delete", "purge", "derived", "audit"} =>
       rows = "aligned"

(* Directories of the invalid samples.                                     *)
RowsInv ==
  /\ step = "purge" => invalidRows = "deleted"
  /\ invalidRows = "stored" => \A i \in Invalid : dir[i] # "absent"

(* What is left of the transaction behind the promotion of its sidecar.    *)
RemainsInv ==
  /\ final = "complete" \/ step = "promote" \/ ZeroShift =>
       \A t \in Track : staged[t] = "absent"
  /\ step \in {"install", "replace"} /\ track = "speaker2" =>
       staged["speaker1"] = "absent"
  /\ step \in {"reconcile", "confirm", "invalid", "delete", "purge",
              "derived", "audit"} => pending = "absent"
  /\ step = "confirm" /\ track = "speaker2" => backup["speaker1"] = "absent"
  /\ step \in {"invalid", "delete", "purge", "derived", "audit"} =>
       \A t \in Track : backup[t] = "absent"
  /\ step = "audit" => reviews = "deleted"
  /\ step \in {"stage", "rewrite"} => ~ZeroShift

(* Where the directories of the invalid samples are.                       *)
NoneStaged == \A i \in Invalid : dir[i] # "staged"

DirectoriesInv ==
  /\ step \in {"directories", "settle", "apply", "reconcile", "confirm"} =>
       command = "apply"
  /\ step = "recover" => command = "recover"
  /\ /\ command = "apply"
     /\ step \in {"apply", "stage", "rewrite", "pend", "serialize", "install",
                 "replace", "promote", "unlink", "reconcile", "confirm"}
     => NoneStaged
  /\ step = "invalid" /\ invalidRows = "deleted" => NoneStaged
  /\ step = "delete" => \A i \in Invalid : dir[i] = "staged"
  /\ step = "purge" => /\ \A i \in Invalid : dir[i] \in {"staged", "absent"}
                       /\ dir[Invalids] = "staged"
  /\ step \in {"derived", "audit"} => invalidRows = "deleted" /\ NoneStaged

SafetyInv == TypeOK /\ TracksInv /\ RecordsInv /\ StepsInv /\ RowsInv

AuditInv == SafetyInv /\ RemainsInv /\ DirectoriesInv

-----------------------------------------------------------------------------
(* Every step keeps the types.                                             *)
LEMMA TypeStep ==
  SafetyInv /\ [Next]_vars => TypeOK'
  <1> SUFFICES ASSUME SafetyInv, [Next]_vars
               PROVE  TypeOK'
    OBVIOUS
  <1> USE DEF SafetyInv, TracksInv, StepsInv, TypeOK, FilesOK, Track, Step,
     Invalid, LeaveTransaction, Completion, Aligned, Goto, Exit, Advance,
        IsLast, files, process, store
  <1>1. CASE LaunchApply
    BY <1>1 DEF LaunchApply
  <1>2. CASE LaunchRecovery
    BY <1>2 DEF LaunchRecovery
  <1>3. CASE RecoverDirectories
    BY <1>3 DEF RecoverDirectories
  <1>4. CASE SettleDirectory
    BY <1>4, CountAssumption DEF SettleDirectory
  <1>5. CASE Transact
    <2>1. CASE FindFinal
      BY <1>5, <2>1 DEF Transact, FindFinal
    <2>2. CASE FindPending
      BY <1>5, <2>2 DEF Transact, FindPending
    <2>3. CASE FindDebris
      BY <1>5, <2>3 DEF Transact, FindDebris
    <2>4. CASE BeginFresh
      BY <1>5, <2>4 DEF Transact, BeginFresh
    <2>5. CASE CreateStaged
      BY <1>5, <2>5 DEF Transact, CreateStaged
    <2>6. CASE FinishStaged
      BY <1>5, <2>6 DEF Transact, FinishStaged
    <2>7. CASE CreatePending
      BY <1>5, <2>7 DEF Transact, CreatePending
    <2>8. CASE FinishPending
      BY <1>5, <2>8 DEF Transact, FinishPending
    <2>9. CASE SkipInstalled
      BY <1>5, <2>9 DEF Transact, SkipInstalled
    <2>10. CASE BackUpOriginal
      BY <1>5, <2>10 DEF Transact, BackUpOriginal
    <2>11. CASE FindMissing
      BY <1>5, <2>11 DEF Transact, FindMissing
    <2>12. CASE ReplaceCanonical
      BY <1>5, <2>12 DEF Transact, ReplaceCanonical
    <2>13. CASE LinkFinal
      BY <1>5, <2>13 DEF Transact, LinkFinal
    <2>14. CASE UnlinkPending
      BY <1>5, <2>14 DEF Transact, UnlinkPending
    <2>15. CASE RemoveBackup
      BY <1>5, <2>15 DEF Transact, RemoveBackup
    <2> QED
      BY <1>5, <2>1, <2>2, <2>3, <2>4, <2>5, <2>6, <2>7, <2>8, <2>9, <2>10,
         <2>11, <2>12, <2>13, <2>14, <2>15 DEF Transact, FileStep
  <1>6. CASE ReconcileRows
    BY <1>6 DEF ReconcileRows
  <1>7. CASE StageDirectory
    BY <1>7 DEF StageDirectory
  <1>8. CASE NothingInvalid
    BY <1>8 DEF NothingInvalid
  <1>9. CASE DeleteInvalidRows
    BY <1>9 DEF DeleteInvalidRows
  <1>10. CASE PurgeDirectory
    BY <1>10 DEF PurgeDirectory
  <1>11. CASE RollBackDirectory
    BY <1>11 DEF RollBackDirectory
  <1>12. CASE RolledBack
    BY <1>12 DEF RolledBack
  <1>13. CASE CleanDerivedState
    BY <1>13 DEF CleanDerivedState
  <1>14. CASE Audit
    BY <1>14 DEF Audit
  <1>15. CASE DeletionFails
    BY <1>15, CountAssumption DEF DeletionFails
  <1>16. CASE FailStaging
    BY <1>16, CountAssumption DEF FailStaging, StagingFails
  <1>17. CASE Crash
    BY <1>17, CountAssumption DEF Crash
  <1>18. CASE UNCHANGED vars
    BY <1>18 DEF vars
  <1> QED
    BY <1>1, <1>2, <1>3, <1>4, <1>5, <1>6, <1>7, <1>8, <1>9, <1>10, <1>11,
       <1>12, <1>13, <1>14, <1>15, <1>16, <1>17, <1>18 DEF Next, Progress

(* Every step keeps a copy of each track's original and aligned content.   *)
LEMMA TracksStep ==
  SafetyInv /\ [Next]_vars => TracksInv'
  <1> SUFFICES ASSUME SafetyInv, [Next]_vars
               PROVE  TracksInv'
    OBVIOUS
  <1> USE DEF SafetyInv, TypeOK, FilesOK, Track, Step, TracksInv, RecordsInv,
     StepsInv, CanonicalAligned, Aligned, HasArtifacts, LeaveTransaction,
        Goto, Exit, Advance, IsLast, files, process, store
  <1>1. CASE LaunchApply
    BY <1>1 DEF LaunchApply
  <1>2. CASE LaunchRecovery
    BY <1>2 DEF LaunchRecovery
  <1>3. CASE RecoverDirectories
    BY <1>3 DEF RecoverDirectories
  <1>4. CASE SettleDirectory
    BY <1>4 DEF SettleDirectory
  <1>5. CASE Transact
    <2>1. CASE FindFinal
      BY <1>5, <2>1 DEF Transact, FindFinal
    <2>2. CASE FindPending
      BY <1>5, <2>2 DEF Transact, FindPending
    <2>3. CASE FindDebris
      BY <1>5, <2>3 DEF Transact, FindDebris
    <2>4. CASE BeginFresh
      BY <1>5, <2>4 DEF Transact, BeginFresh
    <2>5. CASE CreateStaged
      BY <1>5, <2>5 DEF Transact, CreateStaged
    <2>6. CASE FinishStaged
      BY <1>5, <2>6 DEF Transact, FinishStaged
    <2>7. CASE CreatePending
      BY <1>5, <2>7 DEF Transact, CreatePending
    <2>8. CASE FinishPending
      BY <1>5, <2>8 DEF Transact, FinishPending
    <2>9. CASE SkipInstalled
      BY <1>5, <2>9 DEF Transact, SkipInstalled
    <2>10. CASE BackUpOriginal
      BY <1>5, <2>10 DEF Transact, BackUpOriginal
    <2>11. CASE FindMissing
      BY <1>5, <2>11 DEF Transact, FindMissing
    <2>12. CASE ReplaceCanonical
      BY <1>5, <2>12 DEF Transact, ReplaceCanonical
    <2>13. CASE LinkFinal
      BY <1>5, <2>13 DEF Transact, LinkFinal
    <2>14. CASE UnlinkPending
      BY <1>5, <2>14 DEF Transact, UnlinkPending
    <2>15. CASE RemoveBackup
      BY <1>5, <2>15 DEF Transact, RemoveBackup
    <2> QED
      BY <1>5, <2>1, <2>2, <2>3, <2>4, <2>5, <2>6, <2>7, <2>8, <2>9, <2>10,
         <2>11, <2>12, <2>13, <2>14, <2>15 DEF Transact, FileStep
  <1>6. CASE ReconcileRows
    BY <1>6 DEF ReconcileRows
  <1>7. CASE StageDirectory
    BY <1>7 DEF StageDirectory
  <1>8. CASE NothingInvalid
    BY <1>8 DEF NothingInvalid
  <1>9. CASE DeleteInvalidRows
    BY <1>9 DEF DeleteInvalidRows
  <1>10. CASE PurgeDirectory
    BY <1>10 DEF PurgeDirectory
  <1>11. CASE RollBackDirectory
    BY <1>11 DEF RollBackDirectory
  <1>12. CASE RolledBack
    BY <1>12 DEF RolledBack
  <1>13. CASE CleanDerivedState
    BY <1>13 DEF CleanDerivedState
  <1>14. CASE Audit
    BY <1>14 DEF Audit
  <1>15. CASE DeletionFails
    BY <1>15 DEF DeletionFails
  <1>16. CASE FailStaging
    BY <1>16 DEF FailStaging, StagingFails
  <1>17. CASE Crash
    BY <1>17 DEF Crash
  <1>18. CASE UNCHANGED vars
    BY <1>18 DEF vars
  <1> QED
    BY <1>1, <1>2, <1>3, <1>4, <1>5, <1>6, <1>7, <1>8, <1>9, <1>10, <1>11,
       <1>12, <1>13, <1>14, <1>15, <1>16, <1>17, <1>18 DEF Next, Progress

(* Every step keeps sidecars and rows true.                                *)
LEMMA RecordsStep ==
  SafetyInv /\ [Next]_vars => RecordsInv'
  <1> SUFFICES ASSUME SafetyInv, [Next]_vars
               PROVE  RecordsInv'
    OBVIOUS
  <1> USE DEF SafetyInv, TypeOK, FilesOK, Track, Step, TracksInv, RecordsInv,
     StepsInv, CanonicalAligned, Aligned, ZeroShift, LeaveTransaction, Goto,
        Exit, Advance, IsLast, files, process, store
  <1>1. CASE LaunchApply
    BY <1>1 DEF LaunchApply
  <1>2. CASE LaunchRecovery
    BY <1>2 DEF LaunchRecovery
  <1>3. CASE RecoverDirectories
    BY <1>3 DEF RecoverDirectories
  <1>4. CASE SettleDirectory
    BY <1>4 DEF SettleDirectory
  <1>5. CASE Transact
    <2>1. CASE FindFinal
      BY <1>5, <2>1 DEF Transact, FindFinal
    <2>2. CASE FindPending
      BY <1>5, <2>2 DEF Transact, FindPending
    <2>3. CASE FindDebris
      BY <1>5, <2>3 DEF Transact, FindDebris
    <2>4. CASE BeginFresh
      BY <1>5, <2>4 DEF Transact, BeginFresh
    <2>5. CASE CreateStaged
      BY <1>5, <2>5 DEF Transact, CreateStaged
    <2>6. CASE FinishStaged
      BY <1>5, <2>6 DEF Transact, FinishStaged
    <2>7. CASE CreatePending
      BY <1>5, <2>7 DEF Transact, CreatePending
    <2>8. CASE FinishPending
      BY <1>5, <2>8 DEF Transact, FinishPending
    <2>9. CASE SkipInstalled
      BY <1>5, <2>9 DEF Transact, SkipInstalled
    <2>10. CASE BackUpOriginal
      BY <1>5, <2>10 DEF Transact, BackUpOriginal
    <2>11. CASE FindMissing
      BY <1>5, <2>11 DEF Transact, FindMissing
    <2>12. CASE ReplaceCanonical
      BY <1>5, <2>12 DEF Transact, ReplaceCanonical
    <2>13. CASE LinkFinal
      BY <1>5, <2>13 DEF Transact, LinkFinal
    <2>14. CASE UnlinkPending
      BY <1>5, <2>14 DEF Transact, UnlinkPending
    <2>15. CASE RemoveBackup
      BY <1>5, <2>15 DEF Transact, RemoveBackup
    <2> QED
      BY <1>5, <2>1, <2>2, <2>3, <2>4, <2>5, <2>6, <2>7, <2>8, <2>9, <2>10,
         <2>11, <2>12, <2>13, <2>14, <2>15 DEF Transact, FileStep
  <1>6. CASE ReconcileRows
    BY <1>6 DEF ReconcileRows
  <1>7. CASE StageDirectory
    BY <1>7 DEF StageDirectory
  <1>8. CASE NothingInvalid
    BY <1>8 DEF NothingInvalid
  <1>9. CASE DeleteInvalidRows
    BY <1>9 DEF DeleteInvalidRows
  <1>10. CASE PurgeDirectory
    BY <1>10 DEF PurgeDirectory
  <1>11. CASE RollBackDirectory
    BY <1>11 DEF RollBackDirectory
  <1>12. CASE RolledBack
    BY <1>12 DEF RolledBack
  <1>13. CASE CleanDerivedState
    BY <1>13 DEF CleanDerivedState
  <1>14. CASE Audit
    BY <1>14 DEF Audit
  <1>15. CASE DeletionFails
    BY <1>15 DEF DeletionFails
  <1>16. CASE FailStaging
    BY <1>16 DEF FailStaging, StagingFails
  <1>17. CASE Crash
    BY <1>17 DEF Crash
  <1>18. CASE UNCHANGED vars
    BY <1>18 DEF vars
  <1> QED
    BY <1>1, <1>2, <1>3, <1>4, <1>5, <1>6, <1>7, <1>8, <1>9, <1>10, <1>11,
       <1>12, <1>13, <1>14, <1>15, <1>16, <1>17, <1>18 DEF Next, Progress

(* An apply that finds no file of a transaction finds the recording as it  *)
(* was made.                                                               *)
LEMMA FreshIsOriginal ==
  ASSUME SafetyInv, BeginFresh
  PROVE  /\ \A t \in Track : canonical[t] = "original" /\ backup[t] = "absent"
         /\ pending = "absent"
         /\ final = "absent"
  BY DEF SafetyInv, TypeOK, FilesOK, TracksInv, BeginFresh, HasArtifacts

(* Every step finds the files the next one relies on.                      *)
LEMMA StepsStep ==
  SafetyInv /\ [Next]_vars => StepsInv'
  <1> SUFFICES ASSUME SafetyInv, [Next]_vars
               PROVE  StepsInv'
    OBVIOUS
  <1> USE DEF SafetyInv, TypeOK, FilesOK, Track, Step, TracksInv, RecordsInv,
     StepsInv, CanonicalAligned, Aligned, HasArtifacts, ZeroShift,
        Completion, LeaveTransaction, Goto, Exit, Advance, IsLast, files,
           process, store
  <1>1. CASE LaunchApply
    BY <1>1 DEF LaunchApply
  <1>2. CASE LaunchRecovery
    BY <1>2 DEF LaunchRecovery
  <1>3. CASE RecoverDirectories
    BY <1>3 DEF RecoverDirectories
  <1>4. CASE SettleDirectory
    BY <1>4 DEF SettleDirectory
  <1>5. CASE Transact
    <2>1. CASE FindFinal
      BY <1>5, <2>1 DEF Transact, FindFinal
    <2>2. CASE FindPending
      BY <1>5, <2>2 DEF Transact, FindPending
    <2>3. CASE FindDebris
      BY <1>5, <2>3 DEF Transact, FindDebris
    <2>4. CASE BeginFresh
      BY <1>5, <2>4, FreshIsOriginal DEF Transact, BeginFresh
    <2>5. CASE CreateStaged
      BY <1>5, <2>5 DEF Transact, CreateStaged
    <2>6. CASE FinishStaged
      BY <1>5, <2>6 DEF Transact, FinishStaged
    <2>7. CASE CreatePending
      BY <1>5, <2>7 DEF Transact, CreatePending
    <2>8. CASE FinishPending
      BY <1>5, <2>8 DEF Transact, FinishPending
    <2>9. CASE SkipInstalled
      BY <1>5, <2>9 DEF Transact, SkipInstalled
    <2>10. CASE BackUpOriginal
      BY <1>5, <2>10 DEF Transact, BackUpOriginal
    <2>11. CASE FindMissing
      BY <1>5, <2>11 DEF Transact, FindMissing
    <2>12. CASE ReplaceCanonical
      BY <1>5, <2>12 DEF Transact, ReplaceCanonical
    <2>13. CASE LinkFinal
      BY <1>5, <2>13 DEF Transact, LinkFinal
    <2>14. CASE UnlinkPending
      BY <1>5, <2>14 DEF Transact, UnlinkPending
    <2>15. CASE RemoveBackup
      BY <1>5, <2>15 DEF Transact, RemoveBackup
    <2> QED
      BY <1>5, <2>1, <2>2, <2>3, <2>4, <2>5, <2>6, <2>7, <2>8, <2>9, <2>10,
         <2>11, <2>12, <2>13, <2>14, <2>15 DEF Transact, FileStep
  <1>6. CASE ReconcileRows
    BY <1>6 DEF ReconcileRows
  <1>7. CASE StageDirectory
    BY <1>7 DEF StageDirectory
  <1>8. CASE NothingInvalid
    BY <1>8 DEF NothingInvalid
  <1>9. CASE DeleteInvalidRows
    BY <1>9 DEF DeleteInvalidRows
  <1>10. CASE PurgeDirectory
    BY <1>10 DEF PurgeDirectory
  <1>11. CASE RollBackDirectory
    BY <1>11 DEF RollBackDirectory
  <1>12. CASE RolledBack
    BY <1>12 DEF RolledBack
  <1>13. CASE CleanDerivedState
    BY <1>13 DEF CleanDerivedState
  <1>14. CASE Audit
    BY <1>14 DEF Audit
  <1>15. CASE DeletionFails
    BY <1>15 DEF DeletionFails
  <1>16. CASE FailStaging
    BY <1>16 DEF FailStaging, StagingFails
  <1>17. CASE Crash
    BY <1>17 DEF Crash
  <1>18. CASE UNCHANGED vars
    BY <1>18 DEF vars
  <1> QED
    BY <1>1, <1>2, <1>3, <1>4, <1>5, <1>6, <1>7, <1>8, <1>9, <1>10, <1>11,
       <1>12, <1>13, <1>14, <1>15, <1>16, <1>17, <1>18 DEF Next, Progress

(* Directories go only after the rows.                                     *)
LEMMA RowsStep ==
  TypeOK /\ RowsInv /\ [Next]_vars => RowsInv'
  <1> SUFFICES ASSUME TypeOK /\ RowsInv, [Next]_vars
               PROVE  RowsInv'
    OBVIOUS
  <1> USE DEF TypeOK, FilesOK, Track, Step, Invalid, RowsInv,
     LeaveTransaction, Completion, Goto, Exit, Advance, IsLast, files,
        process, store
  <1>1. CASE LaunchApply
    BY <1>1 DEF LaunchApply
  <1>2. CASE LaunchRecovery
    BY <1>2 DEF LaunchRecovery
  <1>3. CASE RecoverDirectories
    BY <1>3 DEF RecoverDirectories
  <1>4. CASE SettleDirectory
    BY <1>4 DEF SettleDirectory
  <1>5. CASE Transact
    <2>1. CASE FindFinal
      BY <1>5, <2>1 DEF Transact, FindFinal
    <2>2. CASE FindPending
      BY <1>5, <2>2 DEF Transact, FindPending
    <2>3. CASE FindDebris
      BY <1>5, <2>3 DEF Transact, FindDebris
    <2>4. CASE BeginFresh
      BY <1>5, <2>4 DEF Transact, BeginFresh
    <2>5. CASE CreateStaged
      BY <1>5, <2>5 DEF Transact, CreateStaged
    <2>6. CASE FinishStaged
      BY <1>5, <2>6 DEF Transact, FinishStaged
    <2>7. CASE CreatePending
      BY <1>5, <2>7 DEF Transact, CreatePending
    <2>8. CASE FinishPending
      BY <1>5, <2>8 DEF Transact, FinishPending
    <2>9. CASE SkipInstalled
      BY <1>5, <2>9 DEF Transact, SkipInstalled
    <2>10. CASE BackUpOriginal
      BY <1>5, <2>10 DEF Transact, BackUpOriginal
    <2>11. CASE FindMissing
      BY <1>5, <2>11 DEF Transact, FindMissing
    <2>12. CASE ReplaceCanonical
      BY <1>5, <2>12 DEF Transact, ReplaceCanonical
    <2>13. CASE LinkFinal
      BY <1>5, <2>13 DEF Transact, LinkFinal
    <2>14. CASE UnlinkPending
      BY <1>5, <2>14 DEF Transact, UnlinkPending
    <2>15. CASE RemoveBackup
      BY <1>5, <2>15 DEF Transact, RemoveBackup
    <2> QED
      BY <1>5, <2>1, <2>2, <2>3, <2>4, <2>5, <2>6, <2>7, <2>8, <2>9, <2>10,
         <2>11, <2>12, <2>13, <2>14, <2>15 DEF Transact, FileStep
  <1>6. CASE ReconcileRows
    BY <1>6 DEF ReconcileRows
  <1>7. CASE StageDirectory
    BY <1>7 DEF StageDirectory
  <1>8. CASE NothingInvalid
    BY <1>8 DEF NothingInvalid
  <1>9. CASE DeleteInvalidRows
    BY <1>9 DEF DeleteInvalidRows
  <1>10. CASE PurgeDirectory
    BY <1>10 DEF PurgeDirectory
  <1>11. CASE RollBackDirectory
    BY <1>11 DEF RollBackDirectory
  <1>12. CASE RolledBack
    BY <1>12 DEF RolledBack
  <1>13. CASE CleanDerivedState
    BY <1>13 DEF CleanDerivedState
  <1>14. CASE Audit
    BY <1>14 DEF Audit
  <1>15. CASE DeletionFails
    BY <1>15 DEF DeletionFails
  <1>16. CASE FailStaging
    BY <1>16 DEF FailStaging, StagingFails
  <1>17. CASE Crash
    BY <1>17 DEF Crash
  <1>18. CASE UNCHANGED vars
    BY <1>18 DEF vars
  <1> QED
    BY <1>1, <1>2, <1>3, <1>4, <1>5, <1>6, <1>7, <1>8, <1>9, <1>10, <1>11,
       <1>12, <1>13, <1>14, <1>15, <1>16, <1>17, <1>18 DEF Next, Progress

(* Every step clears what it leaves behind.                                *)
LEMMA RemainsStep ==
  AuditInv /\ [Next]_vars => RemainsInv'
  <1> SUFFICES ASSUME AuditInv, [Next]_vars
               PROVE  RemainsInv'
    OBVIOUS
  <1> USE DEF AuditInv, SafetyInv, TypeOK, FilesOK, Track, Step, TracksInv,
     StepsInv, RemainsInv, Aligned, HasArtifacts, ZeroShift, Completion,
        LeaveTransaction, Goto, Exit, Advance, IsLast, files, process, store
  <1>1. CASE LaunchApply
    BY <1>1 DEF LaunchApply
  <1>2. CASE LaunchRecovery
    BY <1>2 DEF LaunchRecovery
  <1>3. CASE RecoverDirectories
    BY <1>3 DEF RecoverDirectories
  <1>4. CASE SettleDirectory
    BY <1>4 DEF SettleDirectory
  <1>5. CASE Transact
    <2>1. CASE FindFinal
      BY <1>5, <2>1 DEF Transact, FindFinal
    <2>2. CASE FindPending
      BY <1>5, <2>2 DEF Transact, FindPending
    <2>3. CASE FindDebris
      BY <1>5, <2>3 DEF Transact, FindDebris
    <2>4. CASE BeginFresh
      BY <1>5, <2>4, FreshIsOriginal DEF Transact, BeginFresh
    <2>5. CASE CreateStaged
      BY <1>5, <2>5 DEF Transact, CreateStaged
    <2>6. CASE FinishStaged
      BY <1>5, <2>6 DEF Transact, FinishStaged
    <2>7. CASE CreatePending
      BY <1>5, <2>7 DEF Transact, CreatePending
    <2>8. CASE FinishPending
      BY <1>5, <2>8 DEF Transact, FinishPending
    <2>9. CASE SkipInstalled
      BY <1>5, <2>9 DEF Transact, SkipInstalled
    <2>10. CASE BackUpOriginal
      BY <1>5, <2>10 DEF Transact, BackUpOriginal
    <2>11. CASE FindMissing
      BY <1>5, <2>11 DEF Transact, FindMissing
    <2>12. CASE ReplaceCanonical
      BY <1>5, <2>12 DEF Transact, ReplaceCanonical
    <2>13. CASE LinkFinal
      BY <1>5, <2>13 DEF Transact, LinkFinal
    <2>14. CASE UnlinkPending
      BY <1>5, <2>14 DEF Transact, UnlinkPending
    <2>15. CASE RemoveBackup
      BY <1>5, <2>15 DEF Transact, RemoveBackup
    <2> QED
      BY <1>5, <2>1, <2>2, <2>3, <2>4, <2>5, <2>6, <2>7, <2>8, <2>9, <2>10,
         <2>11, <2>12, <2>13, <2>14, <2>15 DEF Transact, FileStep
  <1>6. CASE ReconcileRows
    BY <1>6 DEF ReconcileRows
  <1>7. CASE StageDirectory
    BY <1>7 DEF StageDirectory
  <1>8. CASE NothingInvalid
    BY <1>8 DEF NothingInvalid
  <1>9. CASE DeleteInvalidRows
    BY <1>9 DEF DeleteInvalidRows
  <1>10. CASE PurgeDirectory
    BY <1>10 DEF PurgeDirectory
  <1>11. CASE RollBackDirectory
    BY <1>11 DEF RollBackDirectory
  <1>12. CASE RolledBack
    BY <1>12 DEF RolledBack
  <1>13. CASE CleanDerivedState
    BY <1>13 DEF CleanDerivedState
  <1>14. CASE Audit
    BY <1>14 DEF Audit
  <1>15. CASE DeletionFails
    BY <1>15 DEF DeletionFails
  <1>16. CASE FailStaging
    BY <1>16 DEF FailStaging, StagingFails
  <1>17. CASE Crash
    BY <1>17 DEF Crash
  <1>18. CASE UNCHANGED vars
    BY <1>18 DEF vars
  <1> QED
    BY <1>1, <1>2, <1>3, <1>4, <1>5, <1>6, <1>7, <1>8, <1>9, <1>10, <1>11,
       <1>12, <1>13, <1>14, <1>15, <1>16, <1>17, <1>18 DEF Next, Progress

(* Every loop over the directories ends with all of them moved.            *)
LEMMA DirectoriesStep ==
  AuditInv /\ [Next]_vars => DirectoriesInv'
  <1> SUFFICES ASSUME AuditInv, [Next]_vars
               PROVE  DirectoriesInv'
    OBVIOUS
  <1> USE DEF AuditInv, SafetyInv, TypeOK, FilesOK, Track, Step, RowsInv,
     DirectoriesInv, NoneStaged, Invalid, LeaveTransaction, Completion, Goto,
        Exit, Advance, IsLast, files, process, store
  <1>1. CASE LaunchApply
    BY <1>1 DEF LaunchApply
  <1>2. CASE LaunchRecovery
    BY <1>2 DEF LaunchRecovery
  <1>3. CASE RecoverDirectories
    BY <1>3, CountAssumption DEF RecoverDirectories
  <1>4. CASE SettleDirectory
    BY <1>4, CountAssumption DEF SettleDirectory
  <1>5. CASE Transact
    <2>1. CASE FindFinal
      BY <1>5, <2>1 DEF Transact, FindFinal
    <2>2. CASE FindPending
      BY <1>5, <2>2 DEF Transact, FindPending
    <2>3. CASE FindDebris
      BY <1>5, <2>3 DEF Transact, FindDebris
    <2>4. CASE BeginFresh
      BY <1>5, <2>4 DEF Transact, BeginFresh
    <2>5. CASE CreateStaged
      BY <1>5, <2>5 DEF Transact, CreateStaged
    <2>6. CASE FinishStaged
      BY <1>5, <2>6 DEF Transact, FinishStaged
    <2>7. CASE CreatePending
      BY <1>5, <2>7 DEF Transact, CreatePending
    <2>8. CASE FinishPending
      BY <1>5, <2>8 DEF Transact, FinishPending
    <2>9. CASE SkipInstalled
      BY <1>5, <2>9 DEF Transact, SkipInstalled
    <2>10. CASE BackUpOriginal
      BY <1>5, <2>10 DEF Transact, BackUpOriginal
    <2>11. CASE FindMissing
      BY <1>5, <2>11 DEF Transact, FindMissing
    <2>12. CASE ReplaceCanonical
      BY <1>5, <2>12 DEF Transact, ReplaceCanonical
    <2>13. CASE LinkFinal
      BY <1>5, <2>13 DEF Transact, LinkFinal
    <2>14. CASE UnlinkPending
      BY <1>5, <2>14 DEF Transact, UnlinkPending
    <2>15. CASE RemoveBackup
      BY <1>5, <2>15 DEF Transact, RemoveBackup
    <2> QED
      BY <1>5, <2>1, <2>2, <2>3, <2>4, <2>5, <2>6, <2>7, <2>8, <2>9, <2>10,
         <2>11, <2>12, <2>13, <2>14, <2>15 DEF Transact, FileStep
  <1>6. CASE ReconcileRows
    BY <1>6 DEF ReconcileRows
  <1>7. CASE StageDirectory
    BY <1>7, CountAssumption DEF StageDirectory
  <1>8. CASE NothingInvalid
    BY <1>8 DEF NothingInvalid
  <1>9. CASE DeleteInvalidRows
    BY <1>9, CountAssumption DEF DeleteInvalidRows
  <1>10. CASE PurgeDirectory
    BY <1>10, CountAssumption DEF PurgeDirectory
  <1>11. CASE RollBackDirectory
    BY <1>11 DEF RollBackDirectory
  <1>12. CASE RolledBack
    BY <1>12 DEF RolledBack
  <1>13. CASE CleanDerivedState
    BY <1>13 DEF CleanDerivedState
  <1>14. CASE Audit
    BY <1>14 DEF Audit
  <1>15. CASE DeletionFails
    BY <1>15 DEF DeletionFails
  <1>16. CASE FailStaging
    BY <1>16 DEF FailStaging, StagingFails
  <1>17. CASE Crash
    BY <1>17 DEF Crash
  <1>18. CASE UNCHANGED vars
    BY <1>18 DEF vars
  <1> QED
    BY <1>1, <1>2, <1>3, <1>4, <1>5, <1>6, <1>7, <1>8, <1>9, <1>10, <1>11,
       <1>12, <1>13, <1>14, <1>15, <1>16, <1>17, <1>18 DEF Next, Progress

-----------------------------------------------------------------------------
LEMMA SafetyInit == Init => SafetyInv
  BY CountAssumption
  DEF Init, FilesInit, SafetyInv, TypeOK, FilesOK, Track, Step, Invalid,
      TracksInv, RecordsInv, StepsInv, RowsInv, ZeroShift

LEMMA SafetyHolds == Spec => []SafetyInv
  <1>1. SafetyInv /\ [Next]_vars => SafetyInv'
    BY TypeStep, TracksStep, RecordsStep, StepsStep, RowsStep DEF SafetyInv
  <1>2. QED
    BY SafetyInit, <1>1, PTL DEF Spec

(* The types of AlignmentMigration hold in every reachable state.          *)
THEOREM TypeCorrect == Spec => []TypeOK
  BY SafetyHolds, PTL DEF SafetyInv

(* The recording as it was made is on disk until the aligned one, its      *)
(* final sidecar and the database rows have replaced it                    *)
(* (_install_aligned_track, confirm_database_reconciliation).              *)
THEOREM OriginalIsKept == Spec => []OriginalKept
  <1>1. SafetyInv => OriginalKept
    BY DEF SafetyInv, TypeOK, FilesOK, Track, TracksInv, RecordsInv, OriginalKept
  <1>2. QED
    BY SafetyHolds, <1>1, PTL

(* A final sidecar is true of the audio beside it and a complete pending   *)
(* one can be completed, after any kill (_complete_pending_transaction).   *)
THEOREM SidecarsAreAlwaysTrue == Spec => []SidecarsAreTrue
  <1>1. SafetyInv => SidecarsAreTrue
    BY DEF SafetyInv, TypeOK, FilesOK, Track, TracksInv, RecordsInv,
           SidecarsAreTrue, CanonicalAligned, Aligned
  <1>2. QED
    BY SafetyHolds, <1>1, PTL

(* Rows describe aligned audio only beside a final sidecar, and the offset *)
(* of a sample survives in its review or in its sidecar.                   *)
THEOREM DatabaseIsBehindFiles == Spec => []DatabaseFollowsFiles
  <1>1. SafetyInv => DatabaseFollowsFiles
    BY DEF SafetyInv, TypeOK, RecordsInv, DatabaseFollowsFiles
  <1>2. QED
    BY SafetyHolds, <1>1, PTL

(* No directory of an invalid sample goes before its rows have.            *)
THEOREM DirectoriesOutliveRows == Spec => []RowsKeepDirectories
  <1>1. SafetyInv => RowsKeepDirectories
    BY DEF SafetyInv, RowsInv, RowsKeepDirectories
  <1>2. QED
    BY SafetyHolds, <1>1, PTL

(* The three: every sidecar and every row can be relied on after a kill.   *)
THEOREM RecordsAreAlwaysTrue == Spec => []RecordsAreTrue
  <1>1. SidecarsAreTrue /\ DatabaseFollowsFiles /\ RowsKeepDirectories
           => RecordsAreTrue
    BY DEF RecordsAreTrue
  <1>2. QED
    BY SidecarsAreAlwaysTrue, DatabaseIsBehindFiles, DirectoriesOutliveRows,
       <1>1, PTL

(* An aligned recording stays the canonical one: no rerun shifts it again  *)
(* or renames it away (the first test of _install_aligned_track).          *)
THEOREM AlignsOnce == Spec => AlignedOnce
  <1> DEFINE Stays == \A t \in Track :
        canonical[t] = "aligned" => canonical'[t] = "aligned"
  <1>1. SafetyInv /\ [Next]_vars => Stays
    <2> SUFFICES ASSUME SafetyInv, [Next]_vars
                 PROVE  Stays
      OBVIOUS
    <2> USE DEF SafetyInv, TypeOK, FilesOK, Track, TracksInv, StepsInv
    <2>1. CASE BackUpOriginal
      BY <2>1 DEF BackUpOriginal
    <2>2. CASE ReplaceCanonical
      BY <2>2 DEF ReplaceCanonical
    <2>3. CASE UNCHANGED canonical
      BY <2>3
    <2>4. BackUpOriginal \/ ReplaceCanonical \/ UNCHANGED canonical
      BY DEF Next, Progress, Transact, FileStep, vars, files, LaunchApply,
             LaunchRecovery, RecoverDirectories, SettleDirectory, FindFinal,
             FindPending, FindDebris, BeginFresh, CreateStaged, FinishStaged,
             CreatePending, FinishPending, SkipInstalled, FindMissing,
             LinkFinal, UnlinkPending, RemoveBackup, ReconcileRows,
             StageDirectory, NothingInvalid, DeleteInvalidRows,
             PurgeDirectory, RollBackDirectory, RolledBack,
             CleanDerivedState, Audit, DeletionFails, FailStaging,
             StagingFails, Crash
    <2> QED
      BY <2>1, <2>2, <2>3, <2>4
  <1>2. Stays => [\A t \in Track :
                   canonical[t] = "aligned" => canonical'[t] = "aligned"]_vars
    OBVIOUS
  <1>3. QED
    BY SafetyHolds, <1>1, <1>2, PTL DEF Spec, AlignedOnce

LEMMA AuditInit == Init => AuditInv
  BY SafetyInit
  DEF Init, FilesInit, AuditInv, RemainsInv, DirectoriesInv, NoneStaged,
      Track, Invalid

LEMMA AuditHolds == Spec => []AuditInv
  <1>1. AuditInv /\ [Next]_vars => AuditInv'
    BY TypeStep, TracksStep, RecordsStep, StepsStep, RowsStep, RemainsStep,
       DirectoriesStep DEF AuditInv, SafetyInv
  <1>2. QED
    BY AuditInit, <1>1, PTL DEF Spec

(* An apply that reaches its audit passes it, whatever kills and failures  *)
(* came before, unless directories were put back after a commit of unknown *)
(* outcome (apply, _audit_post_migration_sources).                         *)
THEOREM AuditIsPassed == Spec => []AuditSucceeds
  <1>1. AuditInv => AuditSucceeds
    BY DEF AuditInv, SafetyInv, TypeOK, FilesOK, Track, RecordsInv, StepsInv,
           RemainsInv, DirectoriesInv, NoneStaged, AuditSucceeds, AuditPasses,
           Preflight, HasArtifacts, CanonicalAligned, Aligned
  <1>2. QED
    BY AuditHolds, <1>1, PTL
=============================================================================
