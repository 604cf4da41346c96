--------------------------- MODULE UpdaterProofs ----------------------------
(***************************************************************************)
(* What holds of the updater for every number of versions, operations,     *)
(* failures and holder sessions.                                           *)
(***************************************************************************)
EXTENDS Updater, TLAPS

-----------------------------------------------------------------------------
(* Type correctness.                                                       *)

\* Every program counter an action of the updater assigns is one of Pcs.
LEMMA PcMembers ==
  /\ "rb_stop" \in Pcs /\ "rb_gate" \in Pcs /\ "rb_stale" \in Pcs
  /\ "rb_check" \in Pcs /\ "rb_holder" \in Pcs /\ "rb_ready" \in Pcs
  /\ "rb_probe_restore" \in Pcs /\ "rb_restore_env" \in Pcs
  /\ "rb_restore_compose" \in Pcs /\ "rb_probe_worker" \in Pcs
  /\ "rb_worker" \in Pcs /\ "rb_probe_up" \in Pcs /\ "rb_up" \in Pcs
  /\ "rb_probe_verify" \in Pcs /\ "rb_verifying" \in Pcs
  /\ "rb_health" \in Pcs /\ "rb_probe_end" \in Pcs
  /\ "rb_watchdog_off" \in Pcs /\ "rb_disable" \in Pcs /\ "rb_release" \in Pcs
  /\ "rb_fail_gate" \in Pcs /\ "rb_fail_stop" \in Pcs
  /\ "rb_fail_mark" \in Pcs /\ "ap_validate" \in Pcs
  /\ "ap_backup_env" \in Pcs /\ "ap_backup_compose" \in Pcs
  /\ "ap_backup_ready" \in Pcs /\ "ap_mark_switched" \in Pcs
  /\ "ap_rename_compose" \in Pcs /\ "ap_rename_env" \in Pcs
  /\ "ap_migrate" \in Pcs /\ "ap_up" \in Pcs /\ "ap_verifying" \in Pcs
  /\ "ap_health" \in Pcs /\ "dl_manifest" \in Pcs /\ "dl_compose" \in Pcs
  /\ "dl_env" \in Pcs /\ "dl_ready" \in Pcs /\ "fail_operation" \in Pcs
  /\ "fail_recovery" \in Pcs /\ "rb_done" \in Pcs /\ "check" \in Pcs
  /\ "restart" \in Pcs /\ "ap_finalizing" \in Pcs /\ "ap_launch" \in Pcs
  /\ "down" \in Pcs /\ "boot" \in Pcs /\ "ready" \in Pcs
  BY DEF Pcs, ActivePcs, DownloadPcs, EarlyApplyPcs, SwitchedApplyPcs, RollbackPcs,
         PreparePcs, CompletePcs, RollbackErrorPcs, FailPcs

\* Every phase, stage and error an action of the updater writes is one of the
\* values the state file may hold.
LEMMA StateMembers ==
  /\ "idle" \in Phases /\ "checking" \in Phases /\ "available" \in Phases
  /\ "downloading" \in Phases /\ "ready_to_apply" \in Phases /\ "applying" \in Phases
  /\ "restarting" \in Phases /\ "verifying" \in Phases /\ "finalizing" \in Phases
  /\ "succeeded" \in Phases /\ "failed" \in Phases /\ "rolled_back" \in Phases
  /\ "none" \in Stages /\ "preparing_backup" \in Stages /\ "backup_ready" \in Stages
  /\ "files_switched" \in Stages /\ "rolling_back" \in Stages
  /\ "none" \in Errors /\ "operation_failed" \in Errors
  /\ "rollback_recovery_required" \in Errors
  BY DEF Phases, Stages, Errors

BackupPcs == EarlyApplyPcs \cup SwitchedApplyPcs \cup RollbackPcs
               \cup {"ap_finalizing", "ap_launch"}

\* An apply or a rollback on its way names the backup of an operation.
BackupNamed == pc \in BackupPcs => bk \in OpIds

\* TypeOK is not inductive: a rollback reads the backup its local names.
TypeInv == TypeOK /\ BackupNamed

\* Which program counters belong to an apply or a rollback.
LEMMA BackupPcMembers ==
  /\ "rb_stop" \in BackupPcs /\ "rb_gate" \in BackupPcs
  /\ "rb_stale" \in BackupPcs /\ "rb_check" \in BackupPcs
  /\ "rb_holder" \in BackupPcs /\ "rb_ready" \in BackupPcs
  /\ "rb_probe_restore" \in BackupPcs /\ "rb_restore_env" \in BackupPcs
  /\ "rb_restore_compose" \in BackupPcs /\ "rb_probe_worker" \in BackupPcs
  /\ "rb_worker" \in BackupPcs /\ "rb_probe_up" \in BackupPcs
  /\ "rb_up" \in BackupPcs /\ "rb_probe_verify" \in BackupPcs
  /\ "rb_verifying" \in BackupPcs /\ "rb_health" \in BackupPcs
  /\ "rb_probe_end" \in BackupPcs /\ "rb_watchdog_off" \in BackupPcs
  /\ "rb_disable" \in BackupPcs /\ "rb_release" \in BackupPcs
  /\ "rb_fail_gate" \in BackupPcs /\ "rb_fail_stop" \in BackupPcs
  /\ "rb_fail_mark" \in BackupPcs /\ "ap_validate" \in BackupPcs
  /\ "ap_backup_env" \in BackupPcs /\ "ap_backup_compose" \in BackupPcs
  /\ "ap_backup_ready" \in BackupPcs /\ "ap_mark_switched" \in BackupPcs
  /\ "ap_rename_compose" \in BackupPcs /\ "ap_rename_env" \in BackupPcs
  /\ "ap_migrate" \in BackupPcs /\ "ap_up" \in BackupPcs
  /\ "ap_verifying" \in BackupPcs /\ "ap_health" \in BackupPcs
  /\ "rb_done" \in BackupPcs /\ "ap_finalizing" \in BackupPcs
  /\ "ap_launch" \in BackupPcs
  /\ "check" \notin BackupPcs /\ "restart" \notin BackupPcs
  /\ "dl_manifest" \notin BackupPcs /\ "dl_compose" \notin BackupPcs
  /\ "dl_env" \notin BackupPcs /\ "dl_ready" \notin BackupPcs
  /\ "fail_operation" \notin BackupPcs /\ "fail_recovery" \notin BackupPcs
  /\ "down" \notin BackupPcs /\ "boot" \notin BackupPcs
  /\ "ready" \notin BackupPcs
  BY DEF BackupPcs, EarlyApplyPcs, SwitchedApplyPcs, RollbackPcs, PreparePcs,
         CompletePcs, RollbackErrorPcs

\* What a step leaves alone keeps its type.
LEMMA Frame ==
  ASSUME TypeOK
  PROVE  /\ UNCHANGED gateVars => GateTypeOK'
         /\ UNCHANGED state => (state \in StateType)'
         /\ UNCHANGED disk => DiskTypeOK'
         /\ UNCHANGED svc => (svc \in [Containers -> Contents])'
         /\ UNCHANGED pc => (pc \in Pcs)'
         /\ UNCHANGED local => LocalTypeOK'
         /\ UNCHANGED finalizer => FinalizerTypeOK'
         /\ UNCHANGED counters => CounterTypeOK'
  BY DEF TypeOK, GateTypeOK, DiskTypeOK, LocalTypeOK, FinalizerTypeOK, CounterTypeOK,
         StateType, Containers, Contents, Pcs, gateVars, disk, local, finalizer, counters

\* The default state of a fresh updater is well typed.
LEMMA InitType == Init => TypeOK
  <1> SUFFICES ASSUME Init PROVE TypeOK
    OBVIOUS
  <1>0. 0 \in 0..MaxOps /\ 0 \in 0..MaxFaults
    BY UpdaterAssumption
  <1> USE UpdaterAssumption, MaxHoldersAssumption DEF Init
  <1>1. GateTypeOK
    <2>1. 0 \in 0..MaxHolders /\ "none" \in Mutations
      BY DEF Mutations
    <2>2. gateTable \in BOOLEAN
      BY DEF GateInit
    <2> QED
      BY <2>1, <2>2 DEF GateInit, GateTypeOK
  <1>2. state \in StateType
    BY DEF StateType, Versions, OpIds, Contents, Phases, Stages, Errors, NoBackup
  <1>3. pc \in Pcs
    BY PcMembers
  <1>4. 1 \in Contents /\ NoVersion \in Contents
    BY DEF Contents, Versions
  <1>5. DiskTypeOK
    BY <1>4 DEF DiskTypeOK
  <1>6. LocalTypeOK /\ FinalizerTypeOK
    BY DEF LocalTypeOK, FinalizerTypeOK
  <1>8. CounterTypeOK
    BY <1>0 DEF CounterTypeOK
  <1>7. svc \in [Containers -> Contents]
    BY <1>4
  <1> QED
    BY <1>1, <1>2, <1>3, <1>5, <1>6, <1>7, <1>8 DEF TypeOK

\* What an interrupted step leaves behind is well typed.
LEMMA ResidueType ==
  ASSUME TypeInv, Residue
  PROVE  /\ DiskTypeOK'
         /\ svc' \in [Containers -> Contents]
         /\ gateTable' \in BOOLEAN /\ (gateTable => gateTable')
  <1> USE DEF TypeInv, TypeOK, LocalTypeOK, DiskTypeOK, GateTypeOK, Contents
  <1>1. CASE UNCHANGED <<disk, svc, gateTable>>
    BY <1>1 DEF disk
  <1>2. CASE /\ EmptyBackup("env") \/ EmptyBackup("compose")
             /\ UNCHANGED <<files, staged, svc, gateTable>>
    <2>1. CASE EmptyBackup("env")
      <3>1. backups' = [backups EXCEPT ![bk].env = Empty]
        BY <2>1 DEF EmptyBackup
      <3> QED
        BY <1>2, <3>1
    <2>2. CASE EmptyBackup("compose")
      <3>1. backups' = [backups EXCEPT ![bk].compose = Empty]
        BY <2>2 DEF EmptyBackup
      <3> QED
        BY <1>2, <3>1
    <2> QED
      BY <1>2, <2>1, <2>2
  <1>3. CASE /\ \/ files' = [files EXCEPT !.env = Empty]
                \/ files' = [files EXCEPT !.compose = Empty]
             /\ UNCHANGED <<staged, backups, svc, gateTable>>
    BY <1>3
  <1>4. CASE /\ \/ SomeContainersAt(man)
                \/ SomeContainersAt(files.env)
                \/ SomeContainersAt(NoVersion)
             /\ UNCHANGED <<disk, gateTable>>
    BY <1>4 DEF SomeContainersAt, disk
  <1>5. CASE /\ gateTable' = (gateTable \/ man >= GateVersion)
             /\ UNCHANGED <<disk, svc>>
    BY <1>5 DEF disk
  <1> QED
    BY <1>1, <1>2, <1>3, <1>4, <1>5 DEF Residue

\* A statement that committed without an answer leaves the gate well typed.
LEMMA StatementResidueType ==
  ASSUME TypeInv, StatementResidue
  PROVE  GateTypeOK'
  <1> USE MaxHoldersAssumption DEF TypeInv, TypeOK, GateTypeOK
  <1>1. CASE EnableGate
    BY <1>1 DEF EnableGate
  <1>2. CASE ReleaseHolder
    BY <1>2 DEF ReleaseHolder
  <1>3. CASE StartHolder
    BY <1>3 DEF StartHolder
  <1>4. CASE DisableGate
    BY <1>4 DEF DisableGate
  <1> QED
    BY <1>1, <1>2, <1>3, <1>4 DEF StatementResidue

-----------------------------------------------------------------------------
(* The groups of steps the proofs go by.                                   *)

DownloadStep == \/ DownloadCompose \/ DownloadEnv \/ DownloadReady \/ RestartServices

ApplyStep ==
  \/ ApplyValidate \/ ApplyBackupEnv \/ ApplyBackupCompose \/ ApplyBackupReady
  \/ ApplyMarkSwitched \/ ApplyRenameCompose \/ ApplyRenameEnv \/ ApplyMigrate
  \/ ApplyUp \/ ApplyVerifying \/ ApplyHealthy \/ ApplyFinalizing \/ ApplyLaunch

PrepareStep ==
  \/ RbStop \/ RbGate \/ RbStale \/ RbCheck \/ RbCheckRefuses \/ RbHolder
  \/ RbReady \/ RbReadyTimeout

CompleteStep ==
  \/ RbProbe \/ RbRestoreEnv \/ RbRestoreCompose \/ RbWorker \/ RbUp
  \/ RbVerifying \/ RbHealth \/ ClearWatchdog \/ RbWatchdogOff \/ RbDisable
  \/ RbRelease \/ RbDone

FailureStep == RbFailGate \/ RbFailStop \/ RbFailMark \/ HandleOperationFailure

RecoveryStep == Restart \/ RecoverInterruptedOperation \/ ReconcileFinalizing

\* Admitting an operation keeps every variable in its domain.
LEMMA StartType == TypeInv /\ StartStep => TypeInv'
  <1> SUFFICES ASSUME TypeInv, StartStep PROVE TypeInv'
    OBVIOUS
  <1>1. CASE StartCheck
    <2>0. nextOp + 1 \in OpIds
      BY <1>1, UpdaterAssumption
      DEF StartCheck, Admitted, TypeInv, TypeOK, CounterTypeOK, OpIds
    <2>1. state' \in StateType
      BY <1>1, StateMembers, <2>0
      DEF StartCheck, StartOperation, Admitted, TypeInv, TypeOK, StateType
    <2>2. CounterTypeOK'
      BY <1>1, UpdaterAssumption
      DEF StartCheck, StartOperation, Admitted, TypeInv, TypeOK, CounterTypeOK,
          counters
    <2>3. pc' \in Pcs /\ BackupNamed'
      BY <1>1, PcMembers, BackupPcMembers
      DEF StartCheck, StartOperation, Admitted, TypeInv, TypeOK, BackupNamed,
          local
    <2> QED
      BY <1>1, <2>1, <2>2, <2>3, Frame
      DEF StartCheck, StartOperation, Admitted, TypeInv, TypeOK, disk, counters
  <1>2. CASE StartDownload
    <2>0. nextOp + 1 \in OpIds
      BY <1>2, UpdaterAssumption
      DEF StartDownload, Admitted, TypeInv, TypeOK, CounterTypeOK, OpIds
    <2>1. state' \in StateType
      BY <1>2, StateMembers, <2>0
      DEF StartDownload, StartOperation, Admitted, TypeInv, TypeOK, StateType
    <2>2. CounterTypeOK'
      BY <1>2, UpdaterAssumption
      DEF StartDownload, StartOperation, Admitted, TypeInv, TypeOK,
          CounterTypeOK, counters
    <2>3. pc' \in Pcs /\ BackupNamed'
      BY <1>2, PcMembers, BackupPcMembers
      DEF StartDownload, StartOperation, Admitted, TypeInv, TypeOK, BackupNamed,
          local
    <2> QED
      BY <1>2, <2>1, <2>2, <2>3, Frame
      DEF StartDownload, StartOperation, Admitted, TypeInv, TypeOK, disk,
          counters
  <1>3. CASE StartApply
    <2>0. nextOp + 1 \in OpIds
      BY <1>3, UpdaterAssumption
      DEF StartApply, Admitted, TypeInv, TypeOK, CounterTypeOK, OpIds
    <2>1. state' \in StateType
      BY <1>3, StateMembers, <2>0
      DEF StartApply, StartOperation, Admitted, TypeInv, TypeOK, StateType
    <2>2. LocalTypeOK'
      BY <1>3, <2>0
      DEF StartApply, StartOperation, Admitted, TypeInv, TypeOK, LocalTypeOK,
          local
    <2>3. CounterTypeOK'
      BY <1>3, UpdaterAssumption
      DEF StartApply, StartOperation, Admitted, TypeInv, TypeOK, CounterTypeOK,
          counters
    <2>4. pc' \in Pcs /\ BackupNamed'
      BY <1>3, PcMembers, BackupPcMembers, <2>0
      DEF StartApply, StartOperation, Admitted, TypeInv, TypeOK, BackupNamed,
          local
    <2> QED
      BY <1>3, <2>1, <2>2, <2>3, <2>4, Frame
      DEF StartApply, StartOperation, Admitted, TypeInv, TypeOK, disk, counters,
          local
  <1>4. CASE StartRestart
    <2>0. nextOp + 1 \in OpIds
      BY <1>4, UpdaterAssumption
      DEF StartRestart, Admitted, TypeInv, TypeOK, CounterTypeOK, OpIds
    <2>1. state' \in StateType
      BY <1>4, StateMembers, <2>0
      DEF StartRestart, StartOperation, Admitted, TypeInv, TypeOK, StateType
    <2>2. CounterTypeOK'
      BY <1>4, UpdaterAssumption
      DEF StartRestart, StartOperation, Admitted, TypeInv, TypeOK,
          CounterTypeOK, counters
    <2>3. pc' \in Pcs /\ BackupNamed'
      BY <1>4, PcMembers, BackupPcMembers
      DEF StartRestart, StartOperation, Admitted, TypeInv, TypeOK, BackupNamed,
          local
    <2> QED
      BY <1>4, <2>1, <2>2, <2>3, Frame
      DEF StartRestart, StartOperation, Admitted, TypeInv, TypeOK, disk,
          counters
  <1>5. CASE StartRollback
    <2>0. nextOp + 1 \in OpIds
      BY <1>5, UpdaterAssumption
      DEF StartRollback, Admitted, TypeInv, TypeOK, CounterTypeOK, OpIds
    <2>1. state' \in StateType
      BY <1>5, StateMembers, <2>0
      DEF StartRollback, StartOperation, RollbackBackup, BackupUsable, TypeInv,
          TypeOK, StateType, CounterTypeOK
    <2>2. LocalTypeOK'
      BY <1>5, <2>0
      DEF StartRollback, StartOperation, RollbackBackup, BackupUsable, TypeInv,
          TypeOK, LocalTypeOK, local, StateType
    <2>3. CounterTypeOK'
      BY <1>5, UpdaterAssumption
      DEF StartRollback, StartOperation, RollbackBackup, Admitted, TypeInv,
          TypeOK, CounterTypeOK, counters
    <2>4. pc' \in Pcs /\ BackupNamed'
      BY <1>5, PcMembers, BackupPcMembers, <2>0
      DEF StartRollback, StartOperation, RollbackBackup, BackupUsable, TypeInv,
          TypeOK, BackupNamed, local, StateType
    <2> QED
      BY <1>5, <2>1, <2>2, <2>3, <2>4, Frame
      DEF StartRollback, StartOperation, RollbackBackup, TypeInv, TypeOK, disk,
          counters, local
  <1> QED
    BY <1>1, <1>2, <1>3, <1>4, <1>5 DEF StartStep

\* Downloading and restarting keep the types.
LEMMA DownloadType == TypeInv /\ DownloadStep => TypeInv'
  <1> SUFFICES ASSUME TypeInv, DownloadStep PROVE TypeInv'
    OBVIOUS
  <1>1. CASE DownloadCompose
    <2>1. DiskTypeOK'
      BY <1>1
      DEF DownloadCompose, TypeInv, TypeOK, DiskTypeOK, disk, LocalTypeOK,
          Contents
    <2>2. pc' \in Pcs /\ BackupNamed'
      BY <1>1, PcMembers, BackupPcMembers
      DEF DownloadCompose, TypeInv, TypeOK, BackupNamed, local
    <2> QED
      BY <1>1, <2>1, <2>2, Frame DEF DownloadCompose, TypeInv, TypeOK
  <1>2. CASE DownloadEnv
    <2>1. DiskTypeOK'
      BY <1>2
      DEF DownloadEnv, TypeInv, TypeOK, DiskTypeOK, disk, LocalTypeOK, Contents
    <2>2. pc' \in Pcs /\ BackupNamed'
      BY <1>2, PcMembers, BackupPcMembers
      DEF DownloadEnv, TypeInv, TypeOK, BackupNamed, local
    <2> QED
      BY <1>2, <2>1, <2>2, Frame DEF DownloadEnv, TypeInv, TypeOK
  <1>3. CASE DownloadReady
    <2>1. state' \in StateType
      BY <1>3, StateMembers
      DEF DownloadReady, EndOperation, TypeInv, TypeOK, StateType, LocalTypeOK
    <2>2. pc' \in Pcs /\ BackupNamed'
      BY <1>3, PcMembers, BackupPcMembers
      DEF DownloadReady, EndOperation, TypeInv, TypeOK, BackupNamed, local
    <2> QED
      BY <1>3, <2>1, <2>2, Frame
      DEF DownloadReady, EndOperation, TypeInv, TypeOK
  <1>4. CASE RestartServices
    <2>1. state' \in StateType
      BY <1>4, StateMembers
      DEF RestartServices, EndOperation, TypeInv, TypeOK, StateType
    <2>2. svc' \in [Containers -> Contents]
      BY <1>4
      DEF RestartServices, EndOperation, TypeInv, TypeOK, Contents, DiskTypeOK
    <2>3. pc' \in Pcs /\ BackupNamed'
      BY <1>4, PcMembers, BackupPcMembers
      DEF RestartServices, EndOperation, TypeInv, TypeOK, BackupNamed, local
    <2> QED
      BY <1>4, <2>1, <2>2, <2>3, Frame
      DEF RestartServices, EndOperation, TypeInv, TypeOK
  <1> QED
    BY <1>1, <1>2, <1>3, <1>4 DEF DownloadStep

\* Every step of applyUpdate keeps the types.
LEMMA ApplyType == TypeInv /\ ApplyStep => TypeInv'
  <1> SUFFICES ASSUME TypeInv, ApplyStep PROVE TypeInv'
    OBVIOUS
  <1>1. CASE ApplyValidate
    <2>1. LocalTypeOK'
      BY <1>1
      DEF ApplyValidate, TypeInv, TypeOK, LocalTypeOK, local, StagedAssetsValid
    <2>2. pc' \in Pcs /\ BackupNamed'
      BY <1>1, PcMembers, BackupPcMembers
      DEF ApplyValidate, TypeInv, TypeOK, BackupNamed, local
    <2> QED
      BY <1>1, <2>1, <2>2, Frame DEF ApplyValidate, TypeInv, TypeOK
  <1>2. CASE ApplyBackupEnv
    <2>1. DiskTypeOK'
      BY <1>2 DEF ApplyBackupEnv, TypeInv, TypeOK, DiskTypeOK, disk
    <2>2. pc' \in Pcs /\ BackupNamed'
      BY <1>2, PcMembers, BackupPcMembers
      DEF ApplyBackupEnv, TypeInv, TypeOK, BackupNamed, local
    <2> QED
      BY <1>2, <2>1, <2>2, Frame DEF ApplyBackupEnv, TypeInv, TypeOK
  <1>3. CASE ApplyBackupCompose
    <2>1. DiskTypeOK'
      BY <1>3 DEF ApplyBackupCompose, TypeInv, TypeOK, DiskTypeOK, disk
    <2>2. pc' \in Pcs /\ BackupNamed'
      BY <1>3, PcMembers, BackupPcMembers
      DEF ApplyBackupCompose, TypeInv, TypeOK, BackupNamed, local
    <2> QED
      BY <1>3, <2>1, <2>2, Frame DEF ApplyBackupCompose, TypeInv, TypeOK
  <1>4. CASE ApplyBackupReady
    <2>1. state' \in StateType
      BY <1>4, StateMembers DEF ApplyBackupReady, TypeInv, TypeOK, StateType
    <2>2. pc' \in Pcs /\ BackupNamed'
      BY <1>4, PcMembers, BackupPcMembers
      DEF ApplyBackupReady, TypeInv, TypeOK, BackupNamed, local
    <2> QED
      BY <1>4, <2>1, <2>2, Frame DEF ApplyBackupReady, TypeInv, TypeOK
  <1>5. CASE ApplyMarkSwitched
    <2>1. state' \in StateType
      BY <1>5, StateMembers DEF ApplyMarkSwitched, TypeInv, TypeOK, StateType
    <2>2. pc' \in Pcs /\ BackupNamed'
      BY <1>5, PcMembers, BackupPcMembers
      DEF ApplyMarkSwitched, TypeInv, TypeOK, BackupNamed, local
    <2> QED
      BY <1>5, <2>1, <2>2, Frame DEF ApplyMarkSwitched, TypeInv, TypeOK
  <1>6. CASE ApplyRenameCompose
    <2>1. DiskTypeOK'
      BY <1>6
      DEF ApplyRenameCompose, TypeInv, TypeOK, DiskTypeOK, disk, Contents
    <2>2. pc' \in Pcs /\ BackupNamed'
      BY <1>6, PcMembers, BackupPcMembers
      DEF ApplyRenameCompose, TypeInv, TypeOK, BackupNamed, local
    <2> QED
      BY <1>6, <2>1, <2>2, Frame DEF ApplyRenameCompose, TypeInv, TypeOK
  <1>7. CASE ApplyRenameEnv
    <2>1. DiskTypeOK'
      BY <1>7 DEF ApplyRenameEnv, TypeInv, TypeOK, DiskTypeOK, disk, Contents
    <2>2. pc' \in Pcs /\ BackupNamed'
      BY <1>7, PcMembers, BackupPcMembers
      DEF ApplyRenameEnv, TypeInv, TypeOK, BackupNamed, local
    <2> QED
      BY <1>7, <2>1, <2>2, Frame DEF ApplyRenameEnv, TypeInv, TypeOK
  <1>8. CASE ApplyMigrate
    <2>1. GateTypeOK'
      BY <1>8, MaxHoldersAssumption
      DEF ApplyMigrate, TypeInv, TypeOK, GateTypeOK, gateVars
    <2>2. pc' \in Pcs /\ BackupNamed'
      BY <1>8, PcMembers, BackupPcMembers
      DEF ApplyMigrate, TypeInv, TypeOK, BackupNamed, local
    <2> QED
      BY <1>8, <2>1, <2>2, Frame DEF ApplyMigrate, TypeInv, TypeOK
  <1>9. CASE ApplyUp
    <2>1. svc' \in [Containers -> Contents]
      BY <1>9 DEF ApplyUp, TypeInv, TypeOK, Contents, LocalTypeOK
    <2>2. pc' \in Pcs /\ BackupNamed'
      BY <1>9, PcMembers, BackupPcMembers
      DEF ApplyUp, TypeInv, TypeOK, BackupNamed, local
    <2> QED
      BY <1>9, <2>1, <2>2, Frame DEF ApplyUp, TypeInv, TypeOK
  <1>10. CASE ApplyVerifying
    <2>1. state' \in StateType
      BY <1>10, StateMembers DEF ApplyVerifying, TypeInv, TypeOK, StateType
    <2>2. pc' \in Pcs /\ BackupNamed'
      BY <1>10, PcMembers, BackupPcMembers
      DEF ApplyVerifying, TypeInv, TypeOK, BackupNamed, local
    <2> QED
      BY <1>10, <2>1, <2>2, Frame DEF ApplyVerifying, TypeInv, TypeOK
  <1>11. CASE ApplyHealthy
    <2>1. pc' \in Pcs /\ BackupNamed'
      BY <1>11, PcMembers, BackupPcMembers
      DEF ApplyHealthy, TypeInv, TypeOK, BackupNamed, local
    <2> QED
      BY <1>11, <2>1, Frame DEF ApplyHealthy, TypeInv, TypeOK
  <1>12. CASE ApplyFinalizing
    <2>1. state' \in StateType
      BY <1>12, StateMembers
      DEF ApplyFinalizing, TypeInv, TypeOK, StateType, LocalTypeOK, Contents
    <2>2. pc' \in Pcs /\ BackupNamed'
      BY <1>12, PcMembers, BackupPcMembers
      DEF ApplyFinalizing, TypeInv, TypeOK, BackupNamed, local
    <2> QED
      BY <1>12, <2>1, <2>2, Frame DEF ApplyFinalizing, TypeInv, TypeOK
  <1>13. CASE ApplyLaunch
    <2>1. FinalizerTypeOK'
      BY <1>13
      DEF ApplyLaunch, EndOperation, TypeInv, TypeOK, FinalizerTypeOK,
          finalizer, LocalTypeOK
    <2>2. pc' \in Pcs /\ BackupNamed'
      BY <1>13, PcMembers, BackupPcMembers
      DEF ApplyLaunch, EndOperation, TypeInv, TypeOK, BackupNamed, local
    <2> QED
      BY <1>13, <2>1, <2>2, Frame DEF ApplyLaunch, EndOperation, TypeInv, TypeOK
  <1> QED
    BY <1>1, <1>2, <1>3, <1>4, <1>5, <1>6, <1>7, <1>8, <1>9, <1>10, <1>11,
       <1>12, <1>13 DEF ApplyStep

\* Every step of prepareProjectionRollback keeps the types.
LEMMA PrepareType == TypeInv /\ PrepareStep => TypeInv'
  <1> SUFFICES ASSUME TypeInv, PrepareStep PROVE TypeInv'
    OBVIOUS
  <1>1. CASE RbStop
    <2>1. svc' \in [Containers -> Contents]
      BY <1>1 DEF RbStop, Stopped, TypeInv, TypeOK, Contents
    <2>2. pc' \in Pcs /\ BackupNamed'
      BY <1>1, PcMembers, BackupPcMembers
      DEF RbStop, Stopped, TypeInv, TypeOK, BackupNamed, local
    <2> QED
      BY <1>1, <2>1, <2>2, Frame DEF RbStop, Stopped, TypeInv, TypeOK
  <1>2. CASE RbGate
    <2>1. GateTypeOK'
      BY <1>2, MaxHoldersAssumption
      DEF RbGate, EnableGate, TypeInv, TypeOK, GateTypeOK, gateVars
    <2>2. pc' \in Pcs /\ BackupNamed'
      BY <1>2, PcMembers, BackupPcMembers
      DEF RbGate, EnableGate, TypeInv, TypeOK, BackupNamed, local
    <2> QED
      BY <1>2, <2>1, <2>2, Frame DEF RbGate, EnableGate, TypeInv, TypeOK
  <1>3. CASE RbStale
    <2>1. GateTypeOK'
      BY <1>3, MaxHoldersAssumption
      DEF RbStale, ReleaseHolder, TypeInv, TypeOK, GateTypeOK, gateVars
    <2>2. pc' \in Pcs /\ BackupNamed'
      BY <1>3, PcMembers, BackupPcMembers
      DEF RbStale, ReleaseHolder, TypeInv, TypeOK, BackupNamed, local
    <2> QED
      BY <1>3, <2>1, <2>2, Frame DEF RbStale, ReleaseHolder, TypeInv, TypeOK
  <1>4. CASE RbCheck
    <2>1. GateTypeOK'
      BY <1>4, MaxHoldersAssumption
      DEF RbCheck, AssertSafe, TypeInv, TypeOK, GateTypeOK, gateVars
    <2>2. pc' \in Pcs /\ BackupNamed'
      BY <1>4, PcMembers, BackupPcMembers
      DEF RbCheck, AssertSafe, TypeInv, TypeOK, BackupNamed, local
    <2> QED
      BY <1>4, <2>1, <2>2, Frame DEF RbCheck, AssertSafe, TypeInv, TypeOK
  <1>5. CASE RbCheckRefuses
    <2>1. pc' \in Pcs /\ BackupNamed'
      BY <1>5, PcMembers, BackupPcMembers
      DEF RbCheckRefuses, RollbackErrorPc, TypeInv, TypeOK, BackupNamed, local
    <2> QED
      BY <1>5, <2>1, Frame DEF RbCheckRefuses, RollbackErrorPc, TypeInv, TypeOK
  <1>6. CASE RbHolder
    <2>1. GateTypeOK'
      BY <1>6, MaxHoldersAssumption
      DEF RbHolder, StartHolder, TypeInv, TypeOK, GateTypeOK, gateVars
    <2>2. pc' \in Pcs /\ BackupNamed'
      BY <1>6, PcMembers, BackupPcMembers
      DEF RbHolder, StartHolder, TypeInv, TypeOK, BackupNamed, local
    <2> QED
      BY <1>6, <2>1, <2>2, Frame DEF RbHolder, StartHolder, TypeInv, TypeOK
  <1>7. CASE RbReady
    <2>1. LocalTypeOK'
      BY <1>7 DEF RbReady, TypeInv, TypeOK, LocalTypeOK, local
    <2>2. pc' \in Pcs /\ BackupNamed'
      BY <1>7, PcMembers, BackupPcMembers
      DEF RbReady, TypeInv, TypeOK, BackupNamed, local
    <2> QED
      BY <1>7, <2>1, <2>2, Frame DEF RbReady, TypeInv, TypeOK
  <1>8. CASE RbReadyTimeout
    <2>1. pc' \in Pcs /\ BackupNamed'
      BY <1>8, PcMembers, BackupPcMembers
      DEF RbReadyTimeout, RollbackErrorPc, TypeInv, TypeOK, BackupNamed, local
    <2> QED
      BY <1>8, <2>1, Frame DEF RbReadyTimeout, RollbackErrorPc, TypeInv, TypeOK
  <1> QED
    BY <1>1, <1>2, <1>3, <1>4, <1>5, <1>6, <1>7, <1>8 DEF PrepareStep

\* Every step of completeProjectionRollback keeps the types.
LEMMA CompleteType == TypeInv /\ CompleteStep => TypeInv'
  <1> SUFFICES ASSUME TypeInv, CompleteStep PROVE TypeInv'
    OBVIOUS
  <1>1. CASE RbProbe
    <2>1. pc' \in Pcs /\ BackupNamed'
      BY <1>1, PcMembers, BackupPcMembers
      DEF RbProbe, AfterProbe, ProbePcs, TypeInv, TypeOK, BackupNamed, local
    <2> QED
      BY <1>1, <2>1, Frame DEF RbProbe, AfterProbe, ProbePcs, TypeInv, TypeOK
  <1>2. CASE RbRestoreEnv
    <2>1. DiskTypeOK'
      BY <1>2, BackupPcMembers
      DEF RbRestoreEnv, TypeInv, TypeOK, DiskTypeOK, disk, BackupNamed
    <2>2. pc' \in Pcs /\ BackupNamed'
      BY <1>2, PcMembers, BackupPcMembers
      DEF RbRestoreEnv, TypeInv, TypeOK, BackupNamed, local
    <2> QED
      BY <1>2, <2>1, <2>2, Frame DEF RbRestoreEnv, TypeInv, TypeOK
  <1>3. CASE RbRestoreCompose
    <2>1. DiskTypeOK'
      BY <1>3, BackupPcMembers
      DEF RbRestoreCompose, TypeInv, TypeOK, DiskTypeOK, disk, BackupNamed
    <2>2. pc' \in Pcs /\ BackupNamed'
      BY <1>3, PcMembers, BackupPcMembers
      DEF RbRestoreCompose, TypeInv, TypeOK, BackupNamed, local
    <2> QED
      BY <1>3, <2>1, <2>2, Frame DEF RbRestoreCompose, TypeInv, TypeOK
  <1>4. CASE RbWorker
    <2>1. svc' \in [Containers -> Contents]
      BY <1>4 DEF RbWorker, ComposeUp, TypeInv, TypeOK, Contents, DiskTypeOK
    <2>2. pc' \in Pcs /\ BackupNamed'
      BY <1>4, PcMembers, BackupPcMembers
      DEF RbWorker, ComposeUp, TypeInv, TypeOK, BackupNamed, local
    <2> QED
      BY <1>4, <2>1, <2>2, Frame DEF RbWorker, ComposeUp, TypeInv, TypeOK
  <1>5. CASE RbUp
    <2>1. svc' \in [Containers -> Contents]
      BY <1>5 DEF RbUp, ComposeUp, TypeInv, TypeOK, Contents, DiskTypeOK
    <2>2. pc' \in Pcs /\ BackupNamed'
      BY <1>5, PcMembers, BackupPcMembers
      DEF RbUp, ComposeUp, TypeInv, TypeOK, BackupNamed, local
    <2> QED
      BY <1>5, <2>1, <2>2, Frame DEF RbUp, ComposeUp, TypeInv, TypeOK
  <1>6. CASE RbVerifying
    <2>1. state' \in StateType
      BY <1>6, StateMembers DEF RbVerifying, TypeInv, TypeOK, StateType
    <2>2. pc' \in Pcs /\ BackupNamed'
      BY <1>6, PcMembers, BackupPcMembers
      DEF RbVerifying, TypeInv, TypeOK, BackupNamed, local
    <2> QED
      BY <1>6, <2>1, <2>2, Frame DEF RbVerifying, TypeInv, TypeOK
  <1>7. CASE RbHealth
    <2>1. pc' \in Pcs /\ BackupNamed'
      BY <1>7, PcMembers, BackupPcMembers
      DEF RbHealth, TypeInv, TypeOK, BackupNamed, local
    <2> QED
      BY <1>7, <2>1, Frame DEF RbHealth, TypeInv, TypeOK
  <1>8. CASE ClearWatchdog
    <2>1. LocalTypeOK'
      BY <1>8 DEF ClearWatchdog, TypeInv, TypeOK, LocalTypeOK, local
    <2>2. pc' \in Pcs /\ BackupNamed'
      BY <1>8, PcMembers, BackupPcMembers
      DEF ClearWatchdog, TypeInv, TypeOK, BackupNamed, local
    <2> QED
      BY <1>8, <2>1, <2>2, Frame DEF ClearWatchdog, TypeInv, TypeOK
  <1>9. CASE RbWatchdogOff
    <2>1. pc' \in Pcs /\ BackupNamed'
      BY <1>9, PcMembers, BackupPcMembers
      DEF RbWatchdogOff, TypeInv, TypeOK, BackupNamed, local
    <2> QED
      BY <1>9, <2>1, Frame DEF RbWatchdogOff, TypeInv, TypeOK
  <1>10. CASE RbDisable
    <2>1. GateTypeOK'
      BY <1>10, MaxHoldersAssumption
      DEF RbDisable, DisableGate, TypeInv, TypeOK, GateTypeOK, gateVars
    <2>2. pc' \in Pcs /\ BackupNamed'
      BY <1>10, PcMembers, BackupPcMembers
      DEF RbDisable, DisableGate, TypeInv, TypeOK, BackupNamed, local
    <2> QED
      BY <1>10, <2>1, <2>2, Frame DEF RbDisable, DisableGate, TypeInv, TypeOK
  <1>11. CASE RbRelease
    <2>1. GateTypeOK'
      BY <1>11, MaxHoldersAssumption
      DEF RbRelease, ReleaseHolder, TypeInv, TypeOK, GateTypeOK, gateVars
    <2>2. pc' \in Pcs /\ BackupNamed'
      BY <1>11, PcMembers, BackupPcMembers
      DEF RbRelease, ReleaseHolder, TypeInv, TypeOK, BackupNamed, local
    <2> QED
      BY <1>11, <2>1, <2>2, Frame DEF RbRelease, ReleaseHolder, TypeInv, TypeOK
  <1>12. CASE RbDone
    <2>1. state' \in StateType
      BY <1>12, StateMembers, BackupPcMembers
      DEF RbDone, EndOperation, NoBackup, TypeInv, TypeOK, StateType,
          BackupNamed, DiskTypeOK
    <2>2. pc' \in Pcs /\ BackupNamed'
      BY <1>12, PcMembers, BackupPcMembers
      DEF RbDone, EndOperation, NoBackup, TypeInv, TypeOK, BackupNamed, local
    <2> QED
      BY <1>12, <2>1, <2>2, Frame
      DEF RbDone, EndOperation, NoBackup, TypeInv, TypeOK
  <1> QED
    BY <1>1, <1>2, <1>3, <1>4, <1>5, <1>6, <1>7, <1>8, <1>9, <1>10, <1>11, <1>12
    DEF CompleteStep

\* The failure handlers keep the types.
LEMMA FailureType == TypeInv /\ FailureStep => TypeInv'
  <1> SUFFICES ASSUME TypeInv, FailureStep PROVE TypeInv'
    OBVIOUS
  <1>1. CASE RbFailGate
    <2>1. GateTypeOK'
      BY <1>1, MaxHoldersAssumption
      DEF RbFailGate, EnableGate, TypeInv, TypeOK, GateTypeOK, gateVars
    <2>2. pc' \in Pcs /\ BackupNamed'
      BY <1>1, PcMembers, BackupPcMembers
      DEF RbFailGate, EnableGate, TypeInv, TypeOK, BackupNamed, local
    <2> QED
      BY <1>1, <2>1, <2>2, Frame DEF RbFailGate, EnableGate, TypeInv, TypeOK
  <1>2. CASE RbFailStop
    <2>1. svc' \in [Containers -> Contents]
      BY <1>2
      DEF RbFailStop, Stopped, RollbackErrorPc, TypeInv, TypeOK, Contents
    <2>2. pc' \in Pcs /\ BackupNamed'
      BY <1>2, PcMembers, BackupPcMembers
      DEF RbFailStop, Stopped, RollbackErrorPc, TypeInv, TypeOK, BackupNamed,
          local
    <2> QED
      BY <1>2, <2>1, <2>2, Frame
      DEF RbFailStop, Stopped, RollbackErrorPc, TypeInv, TypeOK
  <1>3. CASE RbFailMark
    <2>1. state' \in StateType
      BY <1>3, StateMembers
      DEF RbFailMark, TypeInv, TypeOK, StateType, LocalTypeOK
    <2>2. pc' \in Pcs /\ BackupNamed'
      BY <1>3, PcMembers, BackupPcMembers
      DEF RbFailMark, TypeInv, TypeOK, BackupNamed, local
    <2> QED
      BY <1>3, <2>1, <2>2, Frame DEF RbFailMark, TypeInv, TypeOK
  <1>4. CASE HandleOperationFailure
    <2>1. state' \in StateType
      BY <1>4, StateMembers
      DEF HandleOperationFailure, EndOperation, TypeInv, TypeOK, StateType
    <2>2. pc' \in Pcs /\ BackupNamed'
      BY <1>4, PcMembers, BackupPcMembers
      DEF HandleOperationFailure, EndOperation, TypeInv, TypeOK, BackupNamed,
          local
    <2> QED
      BY <1>4, <2>1, <2>2, Frame
      DEF HandleOperationFailure, EndOperation, TypeInv, TypeOK
  <1> QED
    BY <1>1, <1>2, <1>3, <1>4 DEF FailureStep

\* A restart and what it recovers keep the types.
LEMMA RecoveryType == TypeInv /\ RecoveryStep => TypeInv'
  <1> SUFFICES ASSUME TypeInv, RecoveryStep PROVE TypeInv'
    OBVIOUS
  <1>1. CASE Restart
    <2>1. pc' \in Pcs /\ BackupNamed'
      BY <1>1, PcMembers, BackupPcMembers
      DEF Restart, TypeInv, TypeOK, BackupNamed, local
    <2> QED
      BY <1>1, <2>1, Frame DEF Restart, TypeInv, TypeOK
  <1>2. CASE RecoverInterruptedOperation
    <2>1. state' \in StateType
      BY <1>2, StateMembers
      DEF RecoverInterruptedOperation, Stopped, FinalizedState,
          InterruptedState, TypeInv, TypeOK, StateType
    <2>2. svc' \in [Containers -> Contents]
      BY <1>2
      DEF RecoverInterruptedOperation, Stopped, FinalizedState,
          InterruptedState, TypeInv, TypeOK, Contents
    <2>3. pc' \in Pcs /\ BackupNamed'
      BY <1>2, PcMembers, BackupPcMembers
      DEF RecoverInterruptedOperation, Stopped, FinalizedState,
          InterruptedState, TypeInv, TypeOK, BackupNamed, local
    <2> QED
      BY <1>2, <2>1, <2>2, <2>3, Frame
      DEF RecoverInterruptedOperation, Stopped, FinalizedState,
          InterruptedState, TypeInv, TypeOK
  <1>3. CASE ReconcileFinalizing
    <2>1. state' \in StateType
      BY <1>3, StateMembers
      DEF ReconcileFinalizing, FinalizedState, TypeInv, TypeOK, StateType
    <2>2. pc' \in Pcs /\ BackupNamed'
      BY <1>3, PcMembers, BackupPcMembers
      DEF ReconcileFinalizing, FinalizedState, TypeInv, TypeOK, BackupNamed,
          local
    <2> QED
      BY <1>3, <2>1, <2>2, Frame
      DEF ReconcileFinalizing, FinalizedState, TypeInv, TypeOK
  <1> QED
    BY <1>1, <1>2, <1>3 DEF RecoveryStep

\* The watchdog keeps the types.
LEMMA WatchdogType == TypeInv /\ WatchdogStep => TypeInv'
  <1> SUFFICES ASSUME TypeInv, WatchdogStep PROVE TypeInv'
    OBVIOUS
  <1>1. CASE Watchdog
    <2>1. LocalTypeOK'
      BY <1>1 DEF Watchdog, TypeInv, TypeOK, LocalTypeOK, local
    <2>2. pc' \in Pcs /\ BackupNamed'
      BY <1>1, PcMembers, BackupPcMembers
      DEF Watchdog, TypeInv, TypeOK, BackupNamed, local
    <2> QED
      BY <1>1, <2>1, <2>2, Frame DEF Watchdog, TypeInv, TypeOK
  <1>2. CASE WatchdogStop
    <2>1. svc' \in [Containers -> Contents]
      BY <1>2 DEF WatchdogStop, Stopped, AfterTick, TypeInv, TypeOK, Contents
    <2>2. LocalTypeOK'
      BY <1>2
      DEF WatchdogStop, Stopped, AfterTick, TypeInv, TypeOK, LocalTypeOK, local
    <2>3. pc' \in Pcs /\ BackupNamed'
      BY <1>2, PcMembers, BackupPcMembers
      DEF WatchdogStop, Stopped, AfterTick, TypeInv, TypeOK, BackupNamed, local
    <2> QED
      BY <1>2, <2>1, <2>2, <2>3, Frame
      DEF WatchdogStop, Stopped, AfterTick, TypeInv, TypeOK
  <1> QED
    BY <1>1, <1>2 DEF WatchdogStep

\* The finalizer container keeps the types.
LEMMA FinalizerType == TypeInv /\ FinalizerStep => TypeInv'
  <1> SUFFICES ASSUME TypeInv, FinalizerStep PROVE TypeInv'
    OBVIOUS
  <1>1. CASE FinalizerPatch
    <2>1. state' \in StateType
      BY <1>1, StateMembers
      DEF FinalizerPatch, TypeInv, TypeOK, StateType, FinalizerTypeOK, Contents
    <2>2. FinalizerTypeOK'
      BY <1>1 DEF FinalizerPatch, TypeInv, TypeOK, FinalizerTypeOK, finalizer
    <2>3. pc' \in Pcs /\ BackupNamed'
      BY <1>1, PcMembers, BackupPcMembers
      DEF FinalizerPatch, TypeInv, TypeOK, BackupNamed, local
    <2> QED
      BY <1>1, <2>1, <2>2, <2>3, Frame DEF FinalizerPatch, TypeInv, TypeOK
  <1>2. CASE FinalizerReplace
    <2>1. LocalTypeOK'
      BY <1>2 DEF FinalizerReplace, Die, TypeInv, TypeOK, LocalTypeOK, local
    <2>2. FinalizerTypeOK'
      BY <1>2
      DEF FinalizerReplace, Die, TypeInv, TypeOK, FinalizerTypeOK, finalizer
    <2>3. pc' \in Pcs /\ BackupNamed'
      BY <1>2, PcMembers, BackupPcMembers
      DEF FinalizerReplace, Die, TypeInv, TypeOK, BackupNamed, local
    <2> QED
      BY <1>2, <2>1, <2>2, <2>3, Frame
      DEF FinalizerReplace, Die, TypeInv, TypeOK
  <1>3. CASE FinalizerDone
    <2>1. state' \in StateType
      BY <1>3, StateMembers
      DEF FinalizerDone, FinalizerSucceeded, TypeInv, TypeOK, StateType,
          FinalizerTypeOK, Contents
    <2>2. FinalizerTypeOK'
      BY <1>3
      DEF FinalizerDone, FinalizerSucceeded, TypeInv, TypeOK, FinalizerTypeOK,
          finalizer
    <2>3. pc' \in Pcs /\ BackupNamed'
      BY <1>3, PcMembers, BackupPcMembers
      DEF FinalizerDone, FinalizerSucceeded, TypeInv, TypeOK, BackupNamed, local
    <2> QED
      BY <1>3, <2>1, <2>2, <2>3, Frame
      DEF FinalizerDone, FinalizerSucceeded, TypeInv, TypeOK
  <1> QED
    BY <1>1, <1>2, <1>3 DEF FinalizerStep

\* Failures and crashes keep the types.
LEMMA FaultType == TypeInv /\ FaultStep => TypeInv'
  <1> SUFFICES ASSUME TypeInv, FaultStep PROVE TypeInv'
    OBVIOUS
  <1>1. CASE OperationFails
    <2>1. DiskTypeOK'
      BY <1>1, ResidueType DEF OperationFails, TypeInv, TypeOK, DiskTypeOK, disk
    <2>2. svc' \in [Containers -> Contents]
      BY <1>1, ResidueType DEF OperationFails, TypeInv, TypeOK, Contents
    <2>3. CounterTypeOK'
      BY <1>1, UpdaterAssumption
      DEF OperationFails, Fault, otherGateVars, TypeInv, TypeOK, CounterTypeOK,
          counters
    <2>4. GateTypeOK'
      BY <1>1, MaxHoldersAssumption, ResidueType
      DEF OperationFails, Fault, otherGateVars, TypeInv, TypeOK, GateTypeOK,
          gateVars
    <2>5. pc' \in Pcs /\ BackupNamed'
      BY <1>1, PcMembers, BackupPcMembers
      DEF OperationFails, Fault, otherGateVars, TypeInv, TypeOK, BackupNamed,
          local
    <2> QED
      BY <1>1, <2>1, <2>2, <2>3, <2>4, <2>5, Frame
      DEF OperationFails, Fault, otherGateVars, TypeInv, TypeOK
  <1>2. CASE SwitchedApplyFails
    <2>1. DiskTypeOK'
      BY <1>2, ResidueType
      DEF SwitchedApplyFails, TypeInv, TypeOK, DiskTypeOK, disk
    <2>2. svc' \in [Containers -> Contents]
      BY <1>2, ResidueType DEF SwitchedApplyFails, TypeInv, TypeOK, Contents
    <2>3. LocalTypeOK'
      BY <1>2
      DEF SwitchedApplyFails, Fault, otherGateVars, TypeInv, TypeOK,
          LocalTypeOK, local
    <2>4. CounterTypeOK'
      BY <1>2, UpdaterAssumption
      DEF SwitchedApplyFails, Fault, otherGateVars, TypeInv, TypeOK,
          CounterTypeOK, counters
    <2>5. GateTypeOK'
      BY <1>2, MaxHoldersAssumption, ResidueType
      DEF SwitchedApplyFails, Fault, otherGateVars, TypeInv, TypeOK, GateTypeOK,
          gateVars
    <2>6. pc' \in Pcs /\ BackupNamed'
      BY <1>2, PcMembers, BackupPcMembers
      DEF SwitchedApplyFails, Fault, otherGateVars, TypeInv, TypeOK,
          BackupNamed, local, BackupPcs
    <2> QED
      BY <1>2, <2>1, <2>2, <2>3, <2>4, <2>5, <2>6, Frame
      DEF SwitchedApplyFails, Fault, otherGateVars, TypeInv, TypeOK
  <1>3. CASE RollbackFails
    <2>1. DiskTypeOK'
      BY <1>3, ResidueType DEF RollbackFails, TypeInv, TypeOK, DiskTypeOK, disk
    <2>2. svc' \in [Containers -> Contents]
      BY <1>3, ResidueType DEF RollbackFails, TypeInv, TypeOK, Contents
    <2>3. CounterTypeOK'
      BY <1>3, UpdaterAssumption
      DEF RollbackFails, Fault, RollbackErrorPc, otherGateVars, TypeInv, TypeOK,
          CounterTypeOK, counters
    <2>4. GateTypeOK'
      BY <1>3, MaxHoldersAssumption, ResidueType, StatementResidueType
      DEF RollbackFails, Fault, RollbackErrorPc, otherGateVars, TypeInv, TypeOK,
          GateTypeOK, gateVars
    <2>5. pc' \in Pcs /\ BackupNamed'
      BY <1>3, PcMembers, BackupPcMembers
      DEF RollbackFails, Fault, RollbackErrorPc, otherGateVars, TypeInv, TypeOK,
          BackupNamed, local, BackupPcs
    <2> QED
      BY <1>3, <2>1, <2>2, <2>3, <2>4, <2>5, Frame
      DEF RollbackFails, Fault, RollbackErrorPc, otherGateVars, TypeInv, TypeOK
  <1>4. CASE ApplyLaunchFails
    <2>1. state' \in StateType
      BY <1>4, StateMembers
      DEF ApplyLaunchFails, EndOperation, Fault, TypeInv, TypeOK, StateType
    <2>2. FinalizerTypeOK'
      BY <1>4
      DEF ApplyLaunchFails, EndOperation, Fault, TypeInv, TypeOK,
          FinalizerTypeOK, finalizer, LocalTypeOK
    <2>3. CounterTypeOK'
      BY <1>4, UpdaterAssumption
      DEF ApplyLaunchFails, EndOperation, Fault, TypeInv, TypeOK, CounterTypeOK,
          counters
    <2>4. pc' \in Pcs /\ BackupNamed'
      BY <1>4, PcMembers, BackupPcMembers
      DEF ApplyLaunchFails, EndOperation, Fault, TypeInv, TypeOK, BackupNamed,
          local
    <2> QED
      BY <1>4, <2>1, <2>2, <2>3, <2>4, Frame
      DEF ApplyLaunchFails, EndOperation, Fault, TypeInv, TypeOK
  <1>5. CASE WatchdogStopFails
    <2>1. LocalTypeOK'
      BY <1>5
      DEF WatchdogStopFails, Fault, AfterTick, TypeInv, TypeOK, LocalTypeOK,
          local
    <2>2. CounterTypeOK'
      BY <1>5, UpdaterAssumption
      DEF WatchdogStopFails, Fault, AfterTick, TypeInv, TypeOK, CounterTypeOK,
          counters
    <2>3. pc' \in Pcs /\ BackupNamed'
      BY <1>5, PcMembers, BackupPcMembers
      DEF WatchdogStopFails, Fault, AfterTick, TypeInv, TypeOK, BackupNamed,
          local
    <2> QED
      BY <1>5, <2>1, <2>2, <2>3, Frame
      DEF WatchdogStopFails, Fault, AfterTick, TypeInv, TypeOK
  <1>6. CASE Crash
    <2>1. DiskTypeOK'
      BY <1>6, ResidueType DEF Crash, TypeInv, TypeOK, DiskTypeOK, disk
    <2>2. svc' \in [Containers -> Contents]
      BY <1>6, ResidueType DEF Crash, TypeInv, TypeOK, Contents
    <2>3. LocalTypeOK'
      BY <1>6
      DEF Crash, Fault, otherGateVars, Die, TypeInv, TypeOK, LocalTypeOK, local
    <2>4. CounterTypeOK'
      BY <1>6, UpdaterAssumption
      DEF Crash, Fault, otherGateVars, Die, TypeInv, TypeOK, CounterTypeOK,
          counters
    <2>5. GateTypeOK'
      BY <1>6, MaxHoldersAssumption, ResidueType
      DEF Crash, Fault, otherGateVars, Die, TypeInv, TypeOK, GateTypeOK,
          gateVars
    <2>6. pc' \in Pcs /\ BackupNamed'
      BY <1>6, PcMembers, BackupPcMembers
      DEF Crash, Fault, otherGateVars, Die, TypeInv, TypeOK, BackupNamed, local
    <2> QED
      BY <1>6, <2>1, <2>2, <2>3, <2>4, <2>5, <2>6, Frame
      DEF Crash, Fault, otherGateVars, Die, TypeInv, TypeOK
  <1>7. CASE RecoverFails
    <2>1. svc' \in [Containers -> Contents]
      BY <1>7
      DEF RecoverFails, Fault, SomeContainersAt, Die, TypeInv, TypeOK, Contents
    <2>2. LocalTypeOK'
      BY <1>7
      DEF RecoverFails, Fault, SomeContainersAt, Die, TypeInv, TypeOK,
          LocalTypeOK, local
    <2>3. CounterTypeOK'
      BY <1>7, UpdaterAssumption
      DEF RecoverFails, Fault, SomeContainersAt, Die, TypeInv, TypeOK,
          CounterTypeOK, counters
    <2>4. pc' \in Pcs /\ BackupNamed'
      BY <1>7, PcMembers, BackupPcMembers
      DEF RecoverFails, Fault, SomeContainersAt, Die, TypeInv, TypeOK,
          BackupNamed, local
    <2> QED
      BY <1>7, <2>1, <2>2, <2>3, <2>4, Frame
      DEF RecoverFails, Fault, SomeContainersAt, Die, TypeInv, TypeOK
  <1>8. CASE FinalizerFails
    <2>1. state' \in StateType
      BY <1>8, StateMembers
      DEF FinalizerFails, Fault, FinalizerSucceeded, TypeInv, TypeOK, StateType,
          FinalizerTypeOK, Contents
    <2>2. FinalizerTypeOK'
      BY <1>8
      DEF FinalizerFails, Fault, FinalizerSucceeded, TypeInv, TypeOK,
          FinalizerTypeOK, finalizer
    <2>3. CounterTypeOK'
      BY <1>8, UpdaterAssumption
      DEF FinalizerFails, Fault, FinalizerSucceeded, TypeInv, TypeOK,
          CounterTypeOK, counters
    <2>4. pc' \in Pcs /\ BackupNamed'
      BY <1>8, PcMembers, BackupPcMembers
      DEF FinalizerFails, Fault, FinalizerSucceeded, TypeInv, TypeOK,
          BackupNamed, local
    <2> QED
      BY <1>8, <2>1, <2>2, <2>3, <2>4, Frame
      DEF FinalizerFails, Fault, FinalizerSucceeded, TypeInv, TypeOK
  <1>9. CASE FinalizerKilled
    <2>1. FinalizerTypeOK'
      BY <1>9
      DEF FinalizerKilled, Fault, TypeInv, TypeOK, FinalizerTypeOK, finalizer
    <2>2. CounterTypeOK'
      BY <1>9, UpdaterAssumption
      DEF FinalizerKilled, Fault, TypeInv, TypeOK, CounterTypeOK, counters
    <2>3. pc' \in Pcs /\ BackupNamed'
      BY <1>9, PcMembers, BackupPcMembers
      DEF FinalizerKilled, Fault, TypeInv, TypeOK, BackupNamed, local
    <2> QED
      BY <1>9, <2>1, <2>2, <2>3, Frame
      DEF FinalizerKilled, Fault, TypeInv, TypeOK
  <1>10. CASE LoseHolder
    <2>1. CounterTypeOK'
      BY <1>10, UpdaterAssumption
      DEF LoseHolder, Fault, HolderLost, TypeInv, TypeOK, CounterTypeOK,
          counters
    <2>2. GateTypeOK'
      BY <1>10, MaxHoldersAssumption
      DEF LoseHolder, Fault, HolderLost, TypeInv, TypeOK, GateTypeOK, gateVars
    <2>3. pc' \in Pcs /\ BackupNamed'
      BY <1>10, PcMembers, BackupPcMembers
      DEF LoseHolder, Fault, HolderLost, TypeInv, TypeOK, BackupNamed, local
    <2> QED
      BY <1>10, <2>1, <2>2, <2>3, Frame
      DEF LoseHolder, Fault, HolderLost, TypeInv, TypeOK
  <1> QED
    BY <1>1, <1>2, <1>3, <1>4, <1>5, <1>6, <1>7, <1>8, <1>9, <1>10 DEF FaultStep

\* What a published manifest brings keeps the types.
LEMMA FetchType == TypeInv /\ FetchStep => TypeInv'
  <1> SUFFICES ASSUME TypeInv, NEW v \in Versions, CheckFinds(v) \/ DownloadManifest(v)
               PROVE  TypeInv'
    BY DEF FetchStep
  <1>1. CASE CheckFinds(v)
    <2>1. state' \in StateType
      BY <1>1, StateMembers DEF CheckFinds, TypeInv, TypeOK, StateType
    <2>2. pc' \in Pcs /\ BackupNamed'
      BY <1>1, PcMembers, BackupPcMembers DEF CheckFinds, EndOperation, BackupNamed
    <2> QED
      BY <1>1, <2>1, <2>2, Frame DEF CheckFinds, TypeInv, TypeOK
  <1>2. CASE DownloadManifest(v)
    <2>1. DiskTypeOK'
      BY <1>2 DEF DownloadManifest, TypeInv, TypeOK, DiskTypeOK, Contents
    <2>2. LocalTypeOK'
      BY <1>2 DEF DownloadManifest, TypeInv, TypeOK, LocalTypeOK
    <2>3. pc' \in Pcs /\ BackupNamed'
      BY <1>2, PcMembers, BackupPcMembers DEF DownloadManifest, BackupNamed
    <2> QED
      BY <1>2, <2>1, <2>2, <2>3, Frame DEF DownloadManifest, TypeInv, TypeOK
  <1> QED
    BY <1>1, <1>2

\* The API's mutations and the holder sessions keep the types.
LEMMA DatabaseType == TypeInv /\ (ApiMutates \/ DatabaseStep) => TypeInv'
  <1> SUFFICES ASSUME TypeInv, ApiMutates \/ DatabaseStep PROVE TypeInv'
    OBVIOUS
  <1>1. UNCHANGED updaterVars
    BY DEF ApiMutates, DatabaseStep
  <1>2. GateTypeOK'
    <2> USE MaxHoldersAssumption DEF TypeInv, TypeOK, GateTypeOK, Mutations
    <2>1. CASE ApiMutates
      BY <2>1 DEF ApiMutates, MutLock
    <2>2. CASE MutCheckGate
      BY <2>2 DEF MutCheckGate
    <2>3. CASE MutFinish
      BY <2>3 DEF MutFinish
    <2>4. CASE HolderAcquire
      BY <2>4 DEF HolderAcquire
    <2>5. CASE HolderExit
      BY <2>5 DEF HolderExit
    <2> QED
      BY <2>1, <2>2, <2>3, <2>4, <2>5 DEF DatabaseStep, MutStep, HolderStep
  <1>3. BackupNamed'
    BY <1>1 DEF TypeInv, BackupNamed, updaterVars
  <1> QED
    BY <1>1, <1>2, <1>3, Frame
    DEF TypeInv, TypeOK, updaterVars, disk, local, finalizer, counters

\* Every step keeps the types and the name of the backup.
LEMMA NextType == TypeInv /\ [Next]_vars => TypeInv'
  <1> SUFFICES ASSUME TypeInv, [Next]_vars PROVE TypeInv'
    OBVIOUS
  <1>1. CASE UNCHANGED vars
    <2>1. BackupNamed'
      BY <1>1 DEF TypeInv, BackupNamed, vars, updaterVars
    <2> QED
      BY <1>1, <2>1, Frame
      DEF TypeInv, TypeOK, vars, updaterVars, disk, local, finalizer, counters
  <1>2. CASE OperationStep
    BY <1>2, FetchType, DownloadType, ApplyType, PrepareType, CompleteType, FailureType
    DEF OperationStep, DownloadStep, ApplyStep, PrepareStep, CompleteStep, FailureStep
  <1>3. CASE RecoveryStep
    BY <1>3, RecoveryType
  <1> QED
    BY <1>1, <1>2, <1>3, StartType, WatchdogType, FinalizerType, FaultType, DatabaseType
    DEF Next, ProcessStep, RecoveryStep

\* A fresh updater has no operation on its way.
LEMMA InitTypeInv == Init => TypeInv
  BY InitType, BackupPcMembers DEF Init, TypeInv, BackupNamed

\* For every number of versions, operations, failures and waiting holder
\* sessions: every state the updater writes to update-state.json is one its
\* reader accepts (TypeOK), and an apply or a rollback on its way names the
\* backup directory of an operation (BackupNamed).
THEOREM TypeCorrect == Spec => [](TypeOK /\ BackupNamed)
  BY InitTypeInv, NextType, PTL DEF Spec, TypeInv

-----------------------------------------------------------------------------
(* The gate has an owner, and the state file one writer.                   *)

\* The state file says that a rollback is on its way, or will be once the
\* process has died.
Owing == /\ state.phase \in {"applying", "verifying"}
         /\ state.stage \in {"files_switched", "rolling_back"}

\* Where the gate may be active: a rollback, and the handler of its failure.
GatedPcs == (RollbackPcs \ {"rb_done"}) \cup {"fail_recovery"}

\* Where the process runs no operation.
IdlePcs == {"down", "boot", "ready"}

OwnedGate == gate => Owing \/ (state.phase = "failed" /\ RecoveryRequired)
RollbackOwes == pc \in RollbackPcs \cup SwitchedApplyPcs \cup {"fail_recovery"} => Owing
ApplyPhase == pc \in EarlyApplyPcs => state.phase = "applying"
OthersUngated == pc \in ActivePcs \ GatedPcs => ~gate
LaunchPhase == pc = "ap_launch" => state.phase = "finalizing"
FinalizerAlone == fin # "absent" => pc \in IdlePcs /\ state.phase = "finalizing"

\* The inductive invariant: GateIsOwned says nothing of the steps that will
\* activate the gate or write the next state, this does.
OwnerInv == /\ OwnedGate /\ RollbackOwes /\ ApplyPhase
            /\ OthersUngated /\ LaunchPhase /\ FinalizerAlone

\* Admitting an operation preserves the ownership.
LEMMA StartOwner ==
  ASSUME ~AmbiguousLaunch, ~WriteFaults, TypeOK, OwnerInv, StartStep
  PROVE  OwnerInv'
  <1> USE DEF Owing, GatedPcs, IdlePcs, OwnedGate, RollbackOwes, ApplyPhase,
              OthersUngated, LaunchPhase, FinalizerAlone, OwnerInv,
              RecoveryRequired, ActivePcs, DownloadPcs, EarlyApplyPcs,
              SwitchedApplyPcs, RollbackPcs, PreparePcs, CompletePcs,
              RollbackErrorPcs, FailPcs, TypeOK, StateType, gateVars, finalizer
  <1>1. CASE StartCheck
    BY <1>1 DEF StartCheck, StartOperation, Admitted, MutatingPhases
  <1>2. CASE StartDownload
    BY <1>2 DEF StartDownload, StartOperation, Admitted, MutatingPhases
  <1>3. CASE StartApply
    BY <1>3 DEF StartApply, StartOperation, Admitted, MutatingPhases
  <1>4. CASE StartRestart
    BY <1>4 DEF StartRestart, StartOperation, Admitted, MutatingPhases
  <1>5. CASE StartRollback
    BY <1>5 DEF StartRollback, StartOperation, Admitted, MutatingPhases
  <1> QED
    BY <1>1, <1>2, <1>3, <1>4, <1>5 DEF StartStep

\* Downloading and restarting preserves the ownership.
LEMMA DownloadOwner ==
  ASSUME ~AmbiguousLaunch, ~WriteFaults, TypeOK, OwnerInv, DownloadStep
  PROVE  OwnerInv'
  <1> USE DEF Owing, GatedPcs, IdlePcs, OwnedGate, RollbackOwes, ApplyPhase,
              OthersUngated, LaunchPhase, FinalizerAlone, OwnerInv,
              RecoveryRequired, ActivePcs, DownloadPcs, EarlyApplyPcs,
              SwitchedApplyPcs, RollbackPcs, PreparePcs, CompletePcs,
              RollbackErrorPcs, FailPcs, TypeOK, StateType, gateVars, finalizer
  <1>1. CASE DownloadCompose
    BY <1>1 DEF DownloadCompose
  <1>2. CASE DownloadEnv
    BY <1>2 DEF DownloadEnv
  <1>3. CASE DownloadReady
    BY <1>3 DEF DownloadReady, EndOperation
  <1>4. CASE RestartServices
    BY <1>4 DEF RestartServices, EndOperation
  <1> QED
    BY <1>1, <1>2, <1>3, <1>4 DEF DownloadStep

\* Every step of applyUpdate preserves the ownership.
LEMMA ApplyOwner ==
  ASSUME ~AmbiguousLaunch, ~WriteFaults, TypeOK, OwnerInv, ApplyStep
  PROVE  OwnerInv'
  <1> USE DEF Owing, GatedPcs, IdlePcs, OwnedGate, RollbackOwes, ApplyPhase,
              OthersUngated, LaunchPhase, FinalizerAlone, OwnerInv,
              RecoveryRequired, ActivePcs, DownloadPcs, EarlyApplyPcs,
              SwitchedApplyPcs, RollbackPcs, PreparePcs, CompletePcs,
              RollbackErrorPcs, FailPcs, TypeOK, StateType, gateVars, finalizer
  <1>1. CASE ApplyValidate
    BY <1>1 DEF ApplyValidate
  <1>2. CASE ApplyBackupEnv
    BY <1>2 DEF ApplyBackupEnv
  <1>3. CASE ApplyBackupCompose
    BY <1>3 DEF ApplyBackupCompose
  <1>4. CASE ApplyBackupReady
    BY <1>4 DEF ApplyBackupReady
  <1>5. CASE ApplyMarkSwitched
    BY <1>5 DEF ApplyMarkSwitched
  <1>6. CASE ApplyRenameCompose
    BY <1>6 DEF ApplyRenameCompose
  <1>7. CASE ApplyRenameEnv
    BY <1>7 DEF ApplyRenameEnv
  <1>8. CASE ApplyMigrate
    BY <1>8 DEF ApplyMigrate
  <1>9. CASE ApplyUp
    BY <1>9 DEF ApplyUp
  <1>10. CASE ApplyVerifying
    BY <1>10 DEF ApplyVerifying
  <1>11. CASE ApplyHealthy
    BY <1>11 DEF ApplyHealthy
  <1>12. CASE ApplyFinalizing
    BY <1>12 DEF ApplyFinalizing
  <1>13. CASE ApplyLaunch
    BY <1>13 DEF ApplyLaunch, EndOperation
  <1> QED
    BY <1>1, <1>2, <1>3, <1>4, <1>5, <1>6, <1>7, <1>8, <1>9, <1>10, <1>11,
       <1>12, <1>13 DEF ApplyStep

\* Every step of prepareProjectionRollback preserves the ownership.
LEMMA PrepareOwner ==
  ASSUME ~AmbiguousLaunch, ~WriteFaults, TypeOK, OwnerInv, PrepareStep
  PROVE  OwnerInv'
  <1> USE DEF Owing, GatedPcs, IdlePcs, OwnedGate, RollbackOwes, ApplyPhase,
              OthersUngated, LaunchPhase, FinalizerAlone, OwnerInv,
              RecoveryRequired, ActivePcs, DownloadPcs, EarlyApplyPcs,
              SwitchedApplyPcs, RollbackPcs, PreparePcs, CompletePcs,
              RollbackErrorPcs, FailPcs, TypeOK, StateType, gateVars, finalizer
  <1>1. CASE RbStop
    BY <1>1 DEF RbStop, Stopped
  <1>2. CASE RbGate
    BY <1>2 DEF RbGate, EnableGate
  <1>3. CASE RbStale
    BY <1>3 DEF RbStale, ReleaseHolder
  <1>4. CASE RbCheck
    BY <1>4 DEF RbCheck, AssertSafe, CheckUnblocked, RollbackSafe
  <1>5. CASE RbCheckRefuses
    BY <1>5 DEF RbCheckRefuses, RollbackErrorPc, CheckUnblocked, RollbackSafe
  <1>6. CASE RbHolder
    BY <1>6 DEF RbHolder, StartHolder
  <1>7. CASE RbReady
    BY <1>7 DEF RbReady, HolderReady
  <1>8. CASE RbReadyTimeout
    BY <1>8 DEF RbReadyTimeout, RollbackErrorPc
  <1> QED
    BY <1>1, <1>2, <1>3, <1>4, <1>5, <1>6, <1>7, <1>8 DEF PrepareStep

\* Every step of completeProjectionRollback preserves the ownership.
LEMMA CompleteOwner ==
  ASSUME ~AmbiguousLaunch, ~WriteFaults, TypeOK, OwnerInv, CompleteStep
  PROVE  OwnerInv'
  <1> USE DEF Owing, GatedPcs, IdlePcs, OwnedGate, RollbackOwes, ApplyPhase,
              OthersUngated, LaunchPhase, FinalizerAlone, OwnerInv,
              RecoveryRequired, ActivePcs, DownloadPcs, EarlyApplyPcs,
              SwitchedApplyPcs, RollbackPcs, PreparePcs, CompletePcs,
              RollbackErrorPcs, FailPcs, TypeOK, StateType, gateVars, finalizer
  <1>1. CASE RbProbe
    BY <1>1 DEF RbProbe, AfterProbe, ProbePcs, HolderReady
  <1>2. CASE RbRestoreEnv
    BY <1>2 DEF RbRestoreEnv
  <1>3. CASE RbRestoreCompose
    BY <1>3 DEF RbRestoreCompose
  <1>4. CASE RbWorker
    BY <1>4 DEF RbWorker, ComposeUp
  <1>5. CASE RbUp
    BY <1>5 DEF RbUp, ComposeUp
  <1>6. CASE RbVerifying
    BY <1>6 DEF RbVerifying
  <1>7. CASE RbHealth
    BY <1>7 DEF RbHealth, HolderReady
  <1>8. CASE ClearWatchdog
    BY <1>8 DEF ClearWatchdog
  <1>9. CASE RbWatchdogOff
    BY <1>9 DEF RbWatchdogOff
  <1>10. CASE RbDisable
    BY <1>10 DEF RbDisable, DisableGate
  <1>11. CASE RbRelease
    BY <1>11 DEF RbRelease, ReleaseHolder, ReleasePossible
  <1>12. CASE RbDone
    BY <1>12 DEF RbDone, EndOperation, NoBackup
  <1> QED
    BY <1>1, <1>2, <1>3, <1>4, <1>5, <1>6, <1>7, <1>8, <1>9, <1>10, <1>11, <1>12
    DEF CompleteStep

\* Every failure handler preserves the ownership.
LEMMA FailureOwner ==
  ASSUME ~AmbiguousLaunch, ~WriteFaults, TypeOK, OwnerInv, FailureStep
  PROVE  OwnerInv'
  <1> USE DEF Owing, GatedPcs, IdlePcs, OwnedGate, RollbackOwes, ApplyPhase,
              OthersUngated, LaunchPhase, FinalizerAlone, OwnerInv,
              RecoveryRequired, ActivePcs, DownloadPcs, EarlyApplyPcs,
              SwitchedApplyPcs, RollbackPcs, PreparePcs, CompletePcs,
              RollbackErrorPcs, FailPcs, TypeOK, StateType, gateVars, finalizer
  <1>1. CASE RbFailGate
    BY <1>1 DEF RbFailGate, EnableGate
  <1>2. CASE RbFailStop
    BY <1>2 DEF RbFailStop, Stopped, RollbackErrorPc
  <1>3. CASE RbFailMark
    BY <1>3 DEF RbFailMark
  <1>4. CASE HandleOperationFailure
    BY <1>4 DEF HandleOperationFailure, EndOperation
  <1> QED
    BY <1>1, <1>2, <1>3, <1>4 DEF FailureStep

\* A restart with what it recovers preserves the ownership.
LEMMA RecoveryOwner ==
  ASSUME ~AmbiguousLaunch, ~WriteFaults, TypeOK, OwnerInv, RecoveryStep
  PROVE  OwnerInv'
  <1> USE DEF Owing, GatedPcs, IdlePcs, OwnedGate, RollbackOwes, ApplyPhase,
              OthersUngated, LaunchPhase, FinalizerAlone, OwnerInv,
              RecoveryRequired, ActivePcs, DownloadPcs, EarlyApplyPcs,
              SwitchedApplyPcs, RollbackPcs, PreparePcs, CompletePcs,
              RollbackErrorPcs, FailPcs, TypeOK, StateType, gateVars, finalizer
  <1>1. CASE Restart
    BY <1>1 DEF Restart
  <1>2. CASE RecoverInterruptedOperation
    BY <1>2, ZenonT(40)
    DEF RecoverInterruptedOperation, Stopped, FinalizedState, InterruptedState,
        NeedsRollback, FinalizerGone, MutatingPhases
  <1>3. CASE ReconcileFinalizing
    BY <1>3 DEF ReconcileFinalizing, FinalizedState, FinalizerGone
  <1> QED
    BY <1>1, <1>2, <1>3 DEF RecoveryStep

\* The watchdog preserves the ownership.
LEMMA WatchdogOwner ==
  ASSUME ~AmbiguousLaunch, ~WriteFaults, TypeOK, OwnerInv, WatchdogStep
  PROVE  OwnerInv'
  <1> USE DEF Owing, GatedPcs, IdlePcs, OwnedGate, RollbackOwes, ApplyPhase,
              OthersUngated, LaunchPhase, FinalizerAlone, OwnerInv,
              RecoveryRequired, ActivePcs, DownloadPcs, EarlyApplyPcs,
              SwitchedApplyPcs, RollbackPcs, PreparePcs, CompletePcs,
              RollbackErrorPcs, FailPcs, TypeOK, StateType, gateVars, finalizer
  <1>1. CASE Watchdog
    BY <1>1 DEF Watchdog, HolderReady
  <1>2. CASE WatchdogStop
    BY <1>2 DEF WatchdogStop, Stopped, AfterTick
  <1> QED
    BY <1>1, <1>2 DEF WatchdogStep

\* The finalizer container preserves the ownership.
LEMMA FinalizerOwner ==
  ASSUME ~AmbiguousLaunch, ~WriteFaults, TypeOK, OwnerInv, FinalizerStep
  PROVE  OwnerInv'
  <1> USE DEF Owing, GatedPcs, IdlePcs, OwnedGate, RollbackOwes, ApplyPhase,
              OthersUngated, LaunchPhase, FinalizerAlone, OwnerInv,
              RecoveryRequired, ActivePcs, DownloadPcs, EarlyApplyPcs,
              SwitchedApplyPcs, RollbackPcs, PreparePcs, CompletePcs,
              RollbackErrorPcs, FailPcs, TypeOK, StateType, gateVars, finalizer
  <1>1. CASE FinalizerPatch
    BY <1>1 DEF FinalizerPatch
  <1>2. CASE FinalizerReplace
    BY <1>2 DEF FinalizerReplace, Die
  <1>3. CASE FinalizerDone
    BY <1>3 DEF FinalizerDone, FinalizerSucceeded
  <1> QED
    BY <1>1, <1>2, <1>3 DEF FinalizerStep

\* Every failure and every crash preserves the ownership.
LEMMA FaultOwner ==
  ASSUME ~AmbiguousLaunch, ~WriteFaults, TypeOK, OwnerInv, FaultStep
  PROVE  OwnerInv'
  <1> USE DEF Owing, GatedPcs, IdlePcs, OwnedGate, RollbackOwes, ApplyPhase,
              OthersUngated, LaunchPhase, FinalizerAlone, OwnerInv,
              RecoveryRequired, ActivePcs, DownloadPcs, EarlyApplyPcs,
              SwitchedApplyPcs, RollbackPcs, PreparePcs, CompletePcs,
              RollbackErrorPcs, FailPcs, TypeOK, StateType, gateVars, finalizer
  <1>1. CASE OperationFails
    BY <1>1 DEF OperationFails, Fault, otherGateVars, MayFail, WritePcs
  <1>2. CASE SwitchedApplyFails
    BY <1>2 DEF SwitchedApplyFails, Fault, otherGateVars, MayFail, WritePcs
  <1>3. CASE RollbackFails
    BY <1>3
    DEF RollbackFails, Fault, RollbackErrorPc, otherGateVars, StatementResidue,
        StartHolder, EnableGate, ReleaseHolder, DisableGate, MayFail, WritePcs
  <1>4. CASE ApplyLaunchFails
    BY <1>4 DEF ApplyLaunchFails, EndOperation, Fault
  <1>5. CASE WatchdogStopFails
    BY <1>5 DEF WatchdogStopFails, Fault, AfterTick
  <1>6. CASE Crash
    BY <1>6 DEF Crash, Fault, otherGateVars, Die
  <1>7. CASE RecoverFails
    BY <1>7 DEF RecoverFails, Fault, Die, NeedsRollback
  <1>8. CASE FinalizerFails
    BY <1>8 DEF FinalizerFails, Fault, FinalizerSucceeded
  <1>9. CASE FinalizerKilled
    BY <1>9 DEF FinalizerKilled, Fault
  <1>10. CASE LoseHolder
    BY <1>10 DEF LoseHolder, Fault, HolderLost
  <1> QED
    BY <1>1, <1>2, <1>3, <1>4, <1>5, <1>6, <1>7, <1>8, <1>9, <1>10 DEF FaultStep

\* A published manifest preserves the ownership.
LEMMA FetchOwner ==
  ASSUME ~AmbiguousLaunch, ~WriteFaults, TypeOK, OwnerInv, FetchStep
  PROVE  OwnerInv'
  <1> USE DEF Owing, GatedPcs, IdlePcs, OwnedGate, RollbackOwes, ApplyPhase,
              OthersUngated, LaunchPhase, FinalizerAlone, OwnerInv,
              RecoveryRequired, ActivePcs, DownloadPcs, EarlyApplyPcs,
              SwitchedApplyPcs, RollbackPcs, PreparePcs, CompletePcs,
              RollbackErrorPcs, FailPcs, TypeOK, StateType, gateVars, finalizer,
              local, disk, counters
  <1>1. PICK v \in Versions : CheckFinds(v) \/ DownloadManifest(v)
    BY DEF FetchStep
  <1>2. CASE CheckFinds(v)
    BY <1>2 DEF CheckFinds, EndOperation
  <1>3. CASE DownloadManifest(v)
    BY <1>3 DEF DownloadManifest
  <1> QED
    BY <1>1, <1>2, <1>3

\* The API's mutations and the holder sessions preserve the ownership.
LEMMA DatabaseOwner ==
  ASSUME ~AmbiguousLaunch, ~WriteFaults, TypeOK, OwnerInv, ApiMutates \/ DatabaseStep
  PROVE  OwnerInv'
  <1> USE DEF Owing, GatedPcs, IdlePcs, OwnedGate, RollbackOwes, ApplyPhase,
              OthersUngated, LaunchPhase, FinalizerAlone, OwnerInv,
              RecoveryRequired, ActivePcs, DownloadPcs, EarlyApplyPcs,
              SwitchedApplyPcs, RollbackPcs, PreparePcs, CompletePcs,
              RollbackErrorPcs, FailPcs, TypeOK, StateType, gateVars, finalizer,
              local, disk, counters
  <1>1. CASE ApiMutates
    BY <1>1 DEF ApiMutates, MutLock, updaterVars
  <1>2. CASE MutCheckGate /\ UNCHANGED updaterVars
    BY <1>2 DEF MutCheckGate, updaterVars
  <1>3. CASE MutFinish /\ UNCHANGED updaterVars
    BY <1>3 DEF MutFinish, updaterVars
  <1>4. CASE HolderAcquire /\ UNCHANGED updaterVars
    BY <1>4 DEF HolderAcquire, updaterVars
  <1>5. CASE HolderExit /\ UNCHANGED updaterVars
    BY <1>5 DEF HolderExit, updaterVars
  <1> QED
    BY <1>1, <1>2, <1>3, <1>4, <1>5 DEF DatabaseStep, MutStep, HolderStep

\* Every step preserves the ownership.
LEMMA NextOwner ==
  ASSUME ~AmbiguousLaunch, ~WriteFaults, TypeOK, OwnerInv, [Next]_vars
  PROVE  OwnerInv'
  <1>1. CASE UNCHANGED vars
    BY <1>1
    DEF vars, updaterVars, Owing, GatedPcs, IdlePcs, OwnedGate, RollbackOwes,
        ApplyPhase, OthersUngated, LaunchPhase, FinalizerAlone, OwnerInv,
        RecoveryRequired, ActivePcs, DownloadPcs, EarlyApplyPcs,
        SwitchedApplyPcs, RollbackPcs, PreparePcs, CompletePcs,
        RollbackErrorPcs, FailPcs, TypeOK, gateVars, local, counters
  <1>2. CASE OperationStep
    BY <1>2, FetchOwner, DownloadOwner, ApplyOwner, PrepareOwner, CompleteOwner, FailureOwner
    DEF OperationStep, DownloadStep, ApplyStep, PrepareStep, CompleteStep, FailureStep
  <1>3. CASE RecoveryStep
    BY <1>3, RecoveryOwner
  <1> QED
    BY <1>1, <1>2, <1>3, StartOwner, WatchdogOwner, FinalizerOwner, FaultOwner, DatabaseOwner
    DEF Next, ProcessStep, RecoveryStep

\* A fresh updater has neither a gate nor a finalizer.
LEMMA InitOwner == Init => OwnerInv
  BY DEF Init, GateInit, OwnerInv, OwnedGate, RollbackOwes, ApplyPhase, OthersUngated,
         LaunchPhase, FinalizerAlone, GatedPcs, IdlePcs, ActivePcs, DownloadPcs,
         EarlyApplyPcs, SwitchedApplyPcs, RollbackPcs, PreparePcs, CompletePcs,
         RollbackErrorPcs, FailPcs

\* However often it fails, crashes and restarts, an updater whose state writes
\* succeed never leaves the persistent gate active without a rollback on its
\* way or a `rollback_recovery_required` that owes one.
THEOREM GateOwnership ==
  ASSUME ~AmbiguousLaunch, ~WriteFaults
  PROVE  Spec => []GateIsOwned
  <1>1. Init => OwnerInv
    BY InitOwner
  <1>2. TypeOK /\ OwnerInv /\ [Next]_vars => OwnerInv'
    BY NextOwner
  <1>3. OwnerInv => GateIsOwned
    BY DEF OwnerInv, OwnedGate, Owing, GateIsOwned
  <1> QED
    BY <1>1, <1>2, <1>3, TypeCorrect, PTL DEF Spec

\* While the finalizer container of a completed update runs, no operation of
\* the updater does, as long as `docker run` tells whether it started one.
THEOREM FinalizerWritesAlone ==
  ASSUME ~AmbiguousLaunch, ~WriteFaults
  PROVE  Spec => []SingleWriter
  <1>1. Init => OwnerInv
    BY InitOwner
  <1>2. TypeOK /\ OwnerInv /\ [Next]_vars => OwnerInv'
    BY NextOwner
  <1>3. OwnerInv => SingleWriter
    BY DEF OwnerInv, FinalizerAlone, IdlePcs, SingleWriter
  <1> QED
    BY <1>1, <1>2, <1>3, TypeCorrect, PTL DEF Spec

-----------------------------------------------------------------------------
(* The database stays frozen until the gate is closed.                     *)

\* After the safety check, until the API has been started again.
AfterCheckPcs == {"rb_holder", "rb_ready", "rb_probe_restore", "rb_restore_env",
                  "rb_restore_compose", "rb_probe_worker", "rb_worker", "rb_probe_up",
                  "rb_up"}

\* From the arming of the watchdog until the gate is closed.
GuardedPcs == CompletePcs \ {"rb_release"}

LockExcludes == held => mut = "none"
MutationKnowsGate == mut = "locked" => gateTable
ApiStopped == pc \in {"rb_gate", "rb_stale", "rb_check"} => svc["api"] = NoVersion
QuietAfterCheck ==
  pc \in AfterCheckPcs => svc["api"] = NoVersion /\ mut = "none" /\ ~thawed
GateStaysActive == pc \in AfterCheckPcs \cup GuardedPcs => (gateTable => gate)
OneHolder == pc = "rb_ready" => lateHolder \/ (pending = 1 /\ ~held) \/ pending = 0
FrozenWhileHeld ==
  pc \in GuardedPcs => lateHolder \/ (pending = 0 /\ (held => ~thawed))

\* The inductive invariant behind FrozenUntilDisabled: without a late holder
\* the lock can be regained by nobody once it is lost, so that a gate closed
\* with the lock held was guarded without interruption.
FreezeInv == /\ LockExcludes /\ MutationKnowsGate /\ ApiStopped /\ QuietAfterCheck
             /\ GateStaysActive /\ OneHolder /\ FrozenWhileHeld

\* Admitting an operation preserves the freeze.
LEMMA StartFreeze ==
  ASSUME TypeOK, FreezeInv, StartStep
  PROVE  FreezeInv'
  <1> USE MaxHoldersAssumption, UpdaterAssumption
      DEF AfterCheckPcs, GuardedPcs, LockExcludes, MutationKnowsGate,
          ApiStopped, QuietAfterCheck, GateStaysActive, OneHolder,
          FrozenWhileHeld, FreezeInv, SwitchedApplyPcs, EarlyApplyPcs,
          DownloadPcs, FailPcs, RollbackPcs, PreparePcs, CompletePcs,
          RollbackErrorPcs, TypeOK, GateTypeOK, gateVars, disk, Containers
  <1>1. CASE StartCheck
    BY <1>1 DEF StartCheck, StartOperation, Admitted
  <1>2. CASE StartDownload
    BY <1>2 DEF StartDownload, StartOperation, Admitted
  <1>3. CASE StartApply
    BY <1>3 DEF StartApply, StartOperation, Admitted
  <1>4. CASE StartRestart
    BY <1>4 DEF StartRestart, StartOperation, Admitted
  <1>5. CASE StartRollback
    BY <1>5 DEF StartRollback, StartOperation, Admitted
  <1> QED
    BY <1>1, <1>2, <1>3, <1>4, <1>5 DEF StartStep

\* Downloading and restarting preserves the freeze.
LEMMA DownloadFreeze ==
  ASSUME TypeOK, FreezeInv, DownloadStep
  PROVE  FreezeInv'
  <1> USE MaxHoldersAssumption, UpdaterAssumption
      DEF AfterCheckPcs, GuardedPcs, LockExcludes, MutationKnowsGate,
          ApiStopped, QuietAfterCheck, GateStaysActive, OneHolder,
          FrozenWhileHeld, FreezeInv, SwitchedApplyPcs, EarlyApplyPcs,
          DownloadPcs, FailPcs, RollbackPcs, PreparePcs, CompletePcs,
          RollbackErrorPcs, TypeOK, GateTypeOK, gateVars, disk, Containers
  <1>1. CASE DownloadCompose
    BY <1>1 DEF DownloadCompose
  <1>2. CASE DownloadEnv
    BY <1>2 DEF DownloadEnv
  <1>3. CASE DownloadReady
    BY <1>3 DEF DownloadReady, EndOperation
  <1>4. CASE RestartServices
    BY <1>4 DEF RestartServices, EndOperation
  <1> QED
    BY <1>1, <1>2, <1>3, <1>4 DEF DownloadStep

\* Every step of applyUpdate preserves the freeze.
LEMMA ApplyFreeze ==
  ASSUME TypeOK, FreezeInv, ApplyStep
  PROVE  FreezeInv'
  <1> USE MaxHoldersAssumption, UpdaterAssumption
      DEF AfterCheckPcs, GuardedPcs, LockExcludes, MutationKnowsGate,
          ApiStopped, QuietAfterCheck, GateStaysActive, OneHolder,
          FrozenWhileHeld, FreezeInv, SwitchedApplyPcs, EarlyApplyPcs,
          DownloadPcs, FailPcs, RollbackPcs, PreparePcs, CompletePcs,
          RollbackErrorPcs, TypeOK, GateTypeOK, gateVars, disk, Containers
  <1>1. CASE ApplyValidate
    BY <1>1 DEF ApplyValidate
  <1>2. CASE ApplyBackupEnv
    BY <1>2 DEF ApplyBackupEnv
  <1>3. CASE ApplyBackupCompose
    BY <1>3 DEF ApplyBackupCompose
  <1>4. CASE ApplyBackupReady
    BY <1>4 DEF ApplyBackupReady
  <1>5. CASE ApplyMarkSwitched
    BY <1>5 DEF ApplyMarkSwitched
  <1>6. CASE ApplyRenameCompose
    BY <1>6 DEF ApplyRenameCompose
  <1>7. CASE ApplyRenameEnv
    BY <1>7 DEF ApplyRenameEnv
  <1>8. CASE ApplyMigrate
    BY <1>8 DEF ApplyMigrate
  <1>9. CASE ApplyUp
    BY <1>9 DEF ApplyUp
  <1>10. CASE ApplyVerifying
    BY <1>10 DEF ApplyVerifying
  <1>11. CASE ApplyHealthy
    BY <1>11 DEF ApplyHealthy
  <1>12. CASE ApplyFinalizing
    BY <1>12 DEF ApplyFinalizing
  <1>13. CASE ApplyLaunch
    BY <1>13 DEF ApplyLaunch, EndOperation
  <1> QED
    BY <1>1, <1>2, <1>3, <1>4, <1>5, <1>6, <1>7, <1>8, <1>9, <1>10, <1>11,
       <1>12, <1>13 DEF ApplyStep

\* Every step of prepareProjectionRollback preserves the freeze.
LEMMA PrepareFreeze ==
  ASSUME TypeOK, FreezeInv, PrepareStep
  PROVE  FreezeInv'
  <1> USE MaxHoldersAssumption, UpdaterAssumption
      DEF AfterCheckPcs, GuardedPcs, LockExcludes, MutationKnowsGate,
          ApiStopped, QuietAfterCheck, GateStaysActive, OneHolder,
          FrozenWhileHeld, FreezeInv, SwitchedApplyPcs, EarlyApplyPcs,
          DownloadPcs, FailPcs, RollbackPcs, PreparePcs, CompletePcs,
          RollbackErrorPcs, TypeOK, GateTypeOK, gateVars, disk, Containers
  <1>1. CASE RbStop
    BY <1>1 DEF RbStop, Stopped
  <1>2. CASE RbGate
    BY <1>2 DEF RbGate, EnableGate
  <1>3. CASE RbStale
    BY <1>3 DEF RbStale, ReleaseHolder
  <1>4. CASE RbCheck
    BY <1>4 DEF RbCheck, AssertSafe, CheckUnblocked, RollbackSafe
  <1>5. CASE RbCheckRefuses
    BY <1>5 DEF RbCheckRefuses, RollbackErrorPc, CheckUnblocked, RollbackSafe
  <1>6. CASE RbHolder
    <2>1. pending' = pending + 1 /\ held' = held /\ pending \in Nat
      BY <1>6 DEF RbHolder, StartHolder
    <2>2. lateHolder' = (lateHolder \/ pending > 0 \/ held)
      BY <1>6 DEF RbHolder, StartHolder
    <2>3. lateHolder' \/ (pending' = 1 /\ ~held')
      <3>1. CASE pending > 0 \/ held
        BY <2>2, <3>1
      <3>2. CASE ~(pending > 0) /\ ~held
        BY <2>1, <3>2
      <3> QED
        BY <3>1, <3>2
    <2> QED
      BY <1>6, <2>3 DEF RbHolder, StartHolder
  <1>7. CASE RbReady
    BY <1>7 DEF RbReady, HolderReady
  <1>8. CASE RbReadyTimeout
    BY <1>8 DEF RbReadyTimeout, RollbackErrorPc
  <1> QED
    BY <1>1, <1>2, <1>3, <1>4, <1>5, <1>6, <1>7, <1>8 DEF PrepareStep

\* Every step of completeProjectionRollback preserves the freeze.
LEMMA CompleteFreeze ==
  ASSUME TypeOK, FreezeInv, CompleteStep
  PROVE  FreezeInv'
  <1> USE MaxHoldersAssumption, UpdaterAssumption
      DEF AfterCheckPcs, GuardedPcs, LockExcludes, MutationKnowsGate,
          ApiStopped, QuietAfterCheck, GateStaysActive, OneHolder,
          FrozenWhileHeld, FreezeInv, SwitchedApplyPcs, EarlyApplyPcs,
          DownloadPcs, FailPcs, RollbackPcs, PreparePcs, CompletePcs,
          RollbackErrorPcs, TypeOK, GateTypeOK, gateVars, disk, Containers
  <1>1. CASE RbProbe
    BY <1>1 DEF RbProbe, AfterProbe, ProbePcs, HolderReady
  <1>2. CASE RbRestoreEnv
    BY <1>2 DEF RbRestoreEnv
  <1>3. CASE RbRestoreCompose
    BY <1>3 DEF RbRestoreCompose
  <1>4. CASE RbWorker
    BY <1>4 DEF RbWorker, ComposeUp
  <1>5. CASE RbUp
    BY <1>5 DEF RbUp, ComposeUp
  <1>6. CASE RbVerifying
    BY <1>6 DEF RbVerifying
  <1>7. CASE RbHealth
    BY <1>7 DEF RbHealth, HolderReady
  <1>8. CASE ClearWatchdog
    BY <1>8 DEF ClearWatchdog
  <1>9. CASE RbWatchdogOff
    BY <1>9 DEF RbWatchdogOff
  <1>10. CASE RbDisable
    BY <1>10 DEF RbDisable, DisableGate
  <1>11. CASE RbRelease
    BY <1>11 DEF RbRelease, ReleaseHolder, ReleasePossible
  <1>12. CASE RbDone
    BY <1>12 DEF RbDone, EndOperation
  <1> QED
    BY <1>1, <1>2, <1>3, <1>4, <1>5, <1>6, <1>7, <1>8, <1>9, <1>10, <1>11, <1>12
    DEF CompleteStep

\* Every failure handler preserves the freeze.
LEMMA FailureFreeze ==
  ASSUME TypeOK, FreezeInv, FailureStep
  PROVE  FreezeInv'
  <1> USE MaxHoldersAssumption, UpdaterAssumption
      DEF AfterCheckPcs, GuardedPcs, LockExcludes, MutationKnowsGate,
          ApiStopped, QuietAfterCheck, GateStaysActive, OneHolder,
          FrozenWhileHeld, FreezeInv, SwitchedApplyPcs, EarlyApplyPcs,
          DownloadPcs, FailPcs, RollbackPcs, PreparePcs, CompletePcs,
          RollbackErrorPcs, TypeOK, GateTypeOK, gateVars, disk, Containers
  <1>1. CASE RbFailGate
    BY <1>1 DEF RbFailGate, EnableGate
  <1>2. CASE RbFailStop
    BY <1>2 DEF RbFailStop, Stopped, RollbackErrorPc
  <1>3. CASE RbFailMark
    BY <1>3 DEF RbFailMark
  <1>4. CASE HandleOperationFailure
    BY <1>4 DEF HandleOperationFailure, EndOperation
  <1> QED
    BY <1>1, <1>2, <1>3, <1>4 DEF FailureStep

\* A restart with what it recovers preserves the freeze.
LEMMA RecoveryFreeze ==
  ASSUME TypeOK, FreezeInv, RecoveryStep
  PROVE  FreezeInv'
  <1> USE MaxHoldersAssumption, UpdaterAssumption
      DEF AfterCheckPcs, GuardedPcs, LockExcludes, MutationKnowsGate,
          ApiStopped, QuietAfterCheck, GateStaysActive, OneHolder,
          FrozenWhileHeld, FreezeInv, SwitchedApplyPcs, EarlyApplyPcs,
          DownloadPcs, FailPcs, RollbackPcs, PreparePcs, CompletePcs,
          RollbackErrorPcs, TypeOK, GateTypeOK, gateVars, disk, Containers
  <1>1. CASE Restart
    BY <1>1 DEF Restart
  <1>2. CASE RecoverInterruptedOperation
    BY <1>2 DEF RecoverInterruptedOperation, Stopped
  <1>3. CASE ReconcileFinalizing
    BY <1>3 DEF ReconcileFinalizing
  <1> QED
    BY <1>1, <1>2, <1>3 DEF RecoveryStep

\* The watchdog preserves the freeze.
LEMMA WatchdogFreeze ==
  ASSUME TypeOK, FreezeInv, WatchdogStep
  PROVE  FreezeInv'
  <1> USE MaxHoldersAssumption, UpdaterAssumption
      DEF AfterCheckPcs, GuardedPcs, LockExcludes, MutationKnowsGate,
          ApiStopped, QuietAfterCheck, GateStaysActive, OneHolder,
          FrozenWhileHeld, FreezeInv, SwitchedApplyPcs, EarlyApplyPcs,
          DownloadPcs, FailPcs, RollbackPcs, PreparePcs, CompletePcs,
          RollbackErrorPcs, TypeOK, GateTypeOK, gateVars, disk, Containers
  <1>1. CASE Watchdog
    BY <1>1 DEF Watchdog, HolderReady
  <1>2. CASE WatchdogStop
    BY <1>2 DEF WatchdogStop, Stopped, AfterTick
  <1> QED
    BY <1>1, <1>2 DEF WatchdogStep

\* The finalizer container preserves the freeze.
LEMMA FinalizerFreeze ==
  ASSUME TypeOK, FreezeInv, FinalizerStep
  PROVE  FreezeInv'
  <1> USE MaxHoldersAssumption, UpdaterAssumption
      DEF AfterCheckPcs, GuardedPcs, LockExcludes, MutationKnowsGate,
          ApiStopped, QuietAfterCheck, GateStaysActive, OneHolder,
          FrozenWhileHeld, FreezeInv, SwitchedApplyPcs, EarlyApplyPcs,
          DownloadPcs, FailPcs, RollbackPcs, PreparePcs, CompletePcs,
          RollbackErrorPcs, TypeOK, GateTypeOK, gateVars, disk, Containers
  <1>1. CASE FinalizerPatch
    BY <1>1 DEF FinalizerPatch
  <1>2. CASE FinalizerReplace
    BY <1>2 DEF FinalizerReplace, Die
  <1>3. CASE FinalizerDone
    BY <1>3 DEF FinalizerDone
  <1> QED
    BY <1>1, <1>2, <1>3 DEF FinalizerStep

\* Every failure and every crash preserves the freeze.
LEMMA FaultFreeze ==
  ASSUME TypeOK, FreezeInv, FaultStep
  PROVE  FreezeInv'
  <1> USE MaxHoldersAssumption, UpdaterAssumption
      DEF AfterCheckPcs, GuardedPcs, LockExcludes, MutationKnowsGate,
          ApiStopped, QuietAfterCheck, GateStaysActive, OneHolder,
          FrozenWhileHeld, FreezeInv, SwitchedApplyPcs, EarlyApplyPcs,
          DownloadPcs, FailPcs, RollbackPcs, PreparePcs, CompletePcs,
          RollbackErrorPcs, TypeOK, GateTypeOK, gateVars, disk, Containers
  <1>1. CASE OperationFails
    BY <1>1
    DEF OperationFails, Fault, Residue, SomeContainersAt, otherGateVars,
        MayFail, WritePcs
  <1>2. CASE SwitchedApplyFails
    BY <1>2
    DEF SwitchedApplyFails, Fault, Residue, SomeContainersAt, otherGateVars,
        MayFail, WritePcs
  <1>3. CASE RollbackFails
    BY <1>3
    DEF RollbackFails, Fault, RollbackErrorPc, Residue, SomeContainersAt,
        otherGateVars, StatementResidue, StartHolder, EnableGate, ReleaseHolder,
        DisableGate, MayFail, WritePcs
  <1>4. CASE ApplyLaunchFails
    BY <1>4 DEF ApplyLaunchFails, EndOperation, Fault
  <1>5. CASE WatchdogStopFails
    BY <1>5 DEF WatchdogStopFails, Fault, AfterTick
  <1>6. CASE Crash
    BY <1>6 DEF Crash, Fault, Residue, SomeContainersAt, otherGateVars, Die
  <1>7. CASE RecoverFails
    BY <1>7 DEF RecoverFails, Fault, SomeContainersAt, Die
  <1>8. CASE FinalizerFails
    BY <1>8 DEF FinalizerFails, Fault
  <1>9. CASE FinalizerKilled
    BY <1>9 DEF FinalizerKilled, Fault
  <1>10. CASE LoseHolder
    BY <1>10 DEF LoseHolder, Fault, HolderLost
  <1> QED
    BY <1>1, <1>2, <1>3, <1>4, <1>5, <1>6, <1>7, <1>8, <1>9, <1>10 DEF FaultStep

\* A published manifest preserves the freeze.
LEMMA FetchFreeze ==
  ASSUME TypeOK, FreezeInv, FetchStep
  PROVE  FreezeInv'
  <1> USE MaxHoldersAssumption, UpdaterAssumption
      DEF AfterCheckPcs, GuardedPcs, LockExcludes, MutationKnowsGate,
          ApiStopped, QuietAfterCheck, GateStaysActive, OneHolder,
          FrozenWhileHeld, FreezeInv, SwitchedApplyPcs, EarlyApplyPcs,
          DownloadPcs, FailPcs, RollbackPcs, PreparePcs, CompletePcs,
          RollbackErrorPcs, TypeOK, GateTypeOK, gateVars, disk, local,
          Containers
  <1>1. PICK v \in Versions : CheckFinds(v) \/ DownloadManifest(v)
    BY DEF FetchStep
  <1>2. CASE CheckFinds(v)
    BY <1>2 DEF CheckFinds, EndOperation
  <1>3. CASE DownloadManifest(v)
    BY <1>3 DEF DownloadManifest
  <1> QED
    BY <1>1, <1>2, <1>3

\* The API's mutations and the holder sessions preserve the freeze.
LEMMA DatabaseFreeze ==
  ASSUME TypeOK, FreezeInv, ApiMutates \/ DatabaseStep
  PROVE  FreezeInv'
  <1> USE MaxHoldersAssumption, UpdaterAssumption
      DEF AfterCheckPcs, GuardedPcs, LockExcludes, MutationKnowsGate,
          ApiStopped, QuietAfterCheck, GateStaysActive, OneHolder,
          FrozenWhileHeld, FreezeInv, SwitchedApplyPcs, EarlyApplyPcs,
          DownloadPcs, FailPcs, RollbackPcs, PreparePcs, CompletePcs,
          RollbackErrorPcs, TypeOK, GateTypeOK, gateVars, disk, local,
          Containers
  <1>1. CASE ApiMutates
    BY <1>1 DEF ApiMutates, MutLock, updaterVars
  <1>2. CASE MutCheckGate /\ UNCHANGED updaterVars
    BY <1>2 DEF MutCheckGate, updaterVars
  <1>3. CASE MutFinish /\ UNCHANGED updaterVars
    BY <1>3 DEF MutFinish, updaterVars
  <1>4. CASE HolderAcquire /\ UNCHANGED updaterVars
    BY <1>4 DEF HolderAcquire, updaterVars
  <1>5. CASE HolderExit /\ UNCHANGED updaterVars
    BY <1>5 DEF HolderExit, updaterVars
  <1> QED
    BY <1>1, <1>2, <1>3, <1>4, <1>5 DEF DatabaseStep, MutStep, HolderStep

\* Every step preserves the freeze.
LEMMA NextFreeze ==
  ASSUME TypeOK, FreezeInv, [Next]_vars
  PROVE  FreezeInv'
  <1>1. CASE UNCHANGED vars
    BY <1>1
    DEF vars, updaterVars, AfterCheckPcs, GuardedPcs, LockExcludes,
        MutationKnowsGate, ApiStopped, QuietAfterCheck, GateStaysActive,
        OneHolder, FrozenWhileHeld, FreezeInv, SwitchedApplyPcs, EarlyApplyPcs,
        DownloadPcs, FailPcs, RollbackPcs, PreparePcs, CompletePcs,
        RollbackErrorPcs, TypeOK, GateTypeOK, gateVars, local, Containers
  <1>2. CASE OperationStep
    BY <1>2, FetchFreeze, DownloadFreeze, ApplyFreeze, PrepareFreeze, CompleteFreeze, FailureFreeze
    DEF OperationStep, DownloadStep, ApplyStep, PrepareStep, CompleteStep, FailureStep
  <1>3. CASE RecoveryStep
    BY <1>3, RecoveryFreeze
  <1> QED
    BY <1>1, <1>2, <1>3, StartFreeze, WatchdogFreeze, FinalizerFreeze, FaultFreeze, DatabaseFreeze
    DEF Next, ProcessStep, RecoveryStep

\* A fresh updater runs no rollback.
LEMMA InitFreeze == Init => FreezeInv
  BY DEF Init, GateInit, FreezeInv, LockExcludes, MutationKnowsGate, ApiStopped,
         QuietAfterCheck, GateStaysActive, OneHolder, FrozenWhileHeld, AfterCheckPcs,
         GuardedPcs, CompletePcs

\* A rollback closes the gate only over a database no mutation has touched
\* since the safety check, or after a holder of an earlier attempt took over:
\* for every number of holders, failures and versions, and whatever writes fail.
THEOREM FrozenRollback == Spec => FrozenUntilDisabled
  <1>1. Init => FreezeInv
    BY InitFreeze
  <1>2. TypeOK /\ FreezeInv /\ [Next]_vars => FreezeInv'
    BY NextFreeze
  <1>3. TypeOK /\ FreezeInv /\ [Next]_vars
          => [pc = "rb_disable" /\ pc' = "rb_release" => ~thawed \/ lateHolder]_vars
    <2> SUFFICES ASSUME FreezeInv, [Next]_vars, pc = "rb_disable", pc' = "rb_release"
                 PROVE  ~thawed \/ lateHolder
      OBVIOUS
    <2>1. held
      <3>1. pc # pc' /\ Next
        BY DEF vars, updaterVars
      <3>2. RbDisable
        BY <3>1
        DEF Next, StartStep, ProcessStep, OperationStep, FetchStep, WatchdogStep, FinalizerStep,
            FaultStep, CheckFinds, DownloadManifest, StartOperation, ApiMutates,
            DatabaseStep, updaterVars, EndOperation, Die, RollbackErrorPc,
            AfterProbe, ProbePcs, ComposeUp, SwitchedApplyPcs, EarlyApplyPcs,
            DownloadPcs, CompletePcs, FailPcs, StartCheck, StartDownload,
            StartApply, StartRestart, StartRollback, DownloadCompose,
            DownloadEnv, DownloadReady, RestartServices, ApplyValidate,
            ApplyBackupEnv, ApplyBackupCompose, ApplyBackupReady,
            ApplyMarkSwitched, ApplyRenameCompose, ApplyRenameEnv, ApplyMigrate,
            ApplyUp, ApplyVerifying, ApplyHealthy, ApplyFinalizing, ApplyLaunch,
            RbStop, RbGate, RbStale, RbCheck, RbCheckRefuses, RbHolder, RbReady,
            RbReadyTimeout, RbProbe, RbRestoreEnv, RbRestoreCompose, RbWorker,
            RbUp, RbVerifying, RbHealth, ClearWatchdog, RbWatchdogOff,
            RbDisable, RbRelease, RbDone, RbFailGate, RbFailStop, RbFailMark,
            HandleOperationFailure, Restart, RecoverInterruptedOperation,
            ReconcileFinalizing, Watchdog, WatchdogStop, FinalizerPatch,
            FinalizerReplace, FinalizerDone, OperationFails, SwitchedApplyFails,
            RollbackFails, ApplyLaunchFails, WatchdogStopFails, Crash,
            RecoverFails, FinalizerFails, FinalizerKilled, LoseHolder
      <3> QED
        BY <3>2 DEF RbDisable
    <2> QED
      BY <2>1 DEF FreezeInv, FrozenWhileHeld, GuardedPcs, CompletePcs
  <1> QED
    BY <1>1, <1>2, <1>3, TypeCorrect, PTL DEF Spec, FrozenUntilDisabled

-----------------------------------------------------------------------------
(* The release stays recoverable, and a failed rollback fails closed.      *)

\* The files and the containers are those of the current version.
AtCurrent ==
  /\ files = [env |-> state.cur, compose |-> state.cur]
  /\ \A c \in Containers : svc[c] \in {state.cur, NoVersion}

\* A backup that a rollback can restore, or one whose own copy was cut short.
Retriable(o) == o \in OpIds /\ (CompleteBackup(o) \/ CutShort(o))

\* The backup that InterruptedState would name.
OwedOp == IF state.rbOp = NoOp THEN state.opId ELSE state.rbOp

\* The current version is always known.
CurrentNamed == state.cur \in Versions

\* Only an owed rollback excuses a release that is not at its current version.
ConsistentUnlessOwed == Owing \/ RecoveryRequired \/ AtCurrent
RecoveryAtRest == RecoveryRequired => state.phase = "failed" /\ pc \in IdlePcs
StageNamed ==
  /\ state.phase = "applying" => state.stage # "none"
  /\ state.phase = "verifying" => Owing
  /\ state.phase = "failed" /\ ~RecoveryRequired => state.stage # "files_switched"
OwedBackup == Owing => Retriable(OwedOp)
RecoveryBackup == RecoveryRequired => Retriable(state.opId)

\* What the state file says of the release.
StateInv == /\ CurrentNamed /\ ConsistentUnlessOwed /\ RecoveryAtRest
            /\ StageNamed /\ OwedBackup /\ RecoveryBackup

\* An empty backup directory, and one with both files of a version.
NoFiles == [env |-> NoVersion, compose |-> NoVersion]
Copies(v) == [env |-> v, compose |-> v]

BackupBegun ==
  state.phase = "applying" /\ state.stage = "preparing_backup"
    => /\ state.opId \in OpIds /\ state.rbOp = NoOp
       /\ backups[state.opId].env \in {NoVersion, Empty, state.cur}
       /\ backups[state.opId].compose \in {NoVersion, Empty, state.cur}
BackupDone ==
  state.phase = "applying" /\ state.stage = "backup_ready"
    => /\ state.opId \in OpIds /\ state.rbOp = NoOp
       /\ backups[state.opId] = Copies(state.cur)
Evidence ==
  state.last.op # NoOp
    => /\ state.last.target \in Versions
       /\ \E v \in Versions : /\ v < state.last.target
                              /\ backups[state.last.op] = Copies(v)
FreshBackups == \A o \in OpIds : o > nextOp => backups[o] = NoFiles

\* What the backup of an interrupted apply holds.
BackupInv == BackupBegun /\ BackupDone

\* What the other backup directories hold.
EvidenceInv == Evidence /\ FreshBackups

ApplyPcs == EarlyApplyPcs \cup SwitchedApplyPcs \cup {"ap_finalizing"}

\* The backup of an apply, at each of its steps.
ApplyBackup ==
  /\ pc \in {"ap_validate", "ap_backup_env"} => backups[bk] = NoFiles
  /\ pc = "ap_backup_compose" => backups[bk] = [NoFiles EXCEPT !.env = state.cur]
  /\ pc \in ApplyPcs \ {"ap_validate", "ap_backup_env", "ap_backup_compose"}
       => backups[bk] = Copies(state.cur)

StagedPcs == {"ap_backup_env", "ap_backup_compose", "ap_backup_ready",
              "ap_mark_switched", "ap_rename_compose"}

\* The staged files, until they are renamed.
ApplyStaged ==
  /\ pc \in StagedPcs => staged.compose = man /\ staged.env = man
  /\ pc = "ap_rename_env" => staged.env = man

\* The active files and containers, once they are switched.
ApplySwitched ==
  /\ pc = "ap_rename_compose" => AtCurrent
  /\ pc = "ap_rename_env" => files = [env |-> state.cur, compose |-> man]
  /\ pc \in {"ap_rename_env", "ap_migrate", "ap_up"}
       => \A c \in Containers : svc[c] \in {state.cur, NoVersion}
  /\ pc \in {"ap_migrate", "ap_up", "ap_verifying", "ap_health", "ap_finalizing"}
       => files = Copies(man)
  /\ pc \in {"ap_verifying", "ap_health", "ap_finalizing"}
       => svc = [c \in Containers |-> man]

ApplyLocals ==
  /\ pc \in ApplyPcs => bk = state.opId /\ bk <= nextOp /\ state.rbOp = NoOp
  /\ pc \in ApplyPcs \ {"ap_validate"} => man \in Versions /\ man > state.cur
  /\ pc \in EarlyApplyPcs \ {"ap_mark_switched"} => state.stage = "preparing_backup"
  /\ pc = "ap_mark_switched" => state.stage = "backup_ready"
  /\ pc = "ap_finalizing" => Owing
  /\ pc = "ap_launch" => man = state.cur
  /\ fin # "absent" => finTarget = state.cur
  /\ pc \in {"check", "restart", "fail_operation", "ap_launch"} \cup DownloadPcs
              \cup EarlyApplyPcs => ~Owing /\ state.stage # "files_switched"

ApplyInv == ApplyBackup /\ ApplyStaged /\ ApplySwitched /\ ApplyLocals

\* The backup a rollback restores from.
RollbackFrom ==
  pc \in RollbackPcs =>
    /\ backups[bk].env \in Versions
    /\ backups[bk].compose \in {backups[bk].env, Empty}
    /\ IF auto THEN /\ state.rbOp = NoOp /\ state.opId = bk
                    /\ backups[bk] = Copies(state.cur)
               ELSE state.rbOp = bk
FailedFrom == pc = "fail_recovery" => state.rbOp = NoOp /\ Retriable(state.opId)

RestoredPcs == {"rb_probe_worker", "rb_worker", "rb_probe_up", "rb_up",
                "rb_probe_verify", "rb_verifying", "rb_health", "rb_probe_end",
                "rb_watchdog_off", "rb_disable", "rb_release", "rb_done"}
RunningPcs == RestoredPcs \ {"rb_probe_worker", "rb_worker"}

\* What a rollback has restored and started so far.
RollbackFiles ==
  /\ pc = "rb_restore_compose" => files.env = backups[bk].env
  /\ pc \in RestoredPcs => files = backups[bk]
  /\ pc \in RunningPcs => files.compose # Empty
  /\ pc \in RestoredPcs => \A c \in Containers : svc[c] \in {files.env, NoVersion}

\* Where completeProjectionRollback has its watchdog.
WatchedPcs == (CompletePcs \ {"rb_disable", "rb_release"}) \cup {"rb_fail_gate"}
Watched == watchdog # "off" => pc \in WatchedPcs

RollbackInv == RollbackFrom /\ FailedFrom /\ RollbackFiles /\ Watched

\* Where the services are down: from the stop of a rollback to its restart.
StoppedPcs == {"rb_gate", "rb_stale", "rb_check", "rb_holder", "rb_ready",
               "rb_probe_restore", "rb_restore_env", "rb_restore_compose",
               "rb_probe_worker", "rb_worker"}
ClosedInv ==
  /\ pc \in StoppedPcs => svc = Stopped
  /\ pc \in {"rb_fail_mark", "fail_recovery"} \/ RecoveryRequired
       => stopFailed \/ svc = Stopped

\* The inductive invariant behind ReleaseRecoverable and FailClosed.  What a boot
\* or a failure handler will find is already there at every step before it: the
\* release is at its current version unless the state file owes a rollback, and
\* then the backup the recovery will name can be retried from.
ReleaseInv == StateInv /\ BackupInv /\ EvidenceInv /\ ApplyInv /\ RollbackInv
                /\ ClosedInv

\* A step that writes no backup keeps the evidence and the fresh directories.
LEMMA EvidenceStays ==
  ASSUME TypeInv, TypeInv', EvidenceInv, UNCHANGED backups,
         state'.last \in {state.last, NoBackup}, nextOp' \in {nextOp, nextOp + 1}
  PROVE  EvidenceInv'
  <1>1. Evidence'
    <2> SUFFICES ASSUME state'.last.op # NoOp
                 PROVE  /\ state'.last.target \in Versions
                        /\ \E v \in Versions : /\ v < state'.last.target
                                               /\ backups'[state'.last.op] = Copies(v)
      BY DEF Evidence, Copies
    <2>1. state'.last = state.last
      BY DEF NoBackup
    <2> QED
      BY <2>1 DEF EvidenceInv, Evidence
  <1>2. FreshBackups'
    BY DEF EvidenceInv, FreshBackups, NoFiles, TypeInv, TypeOK, CounterTypeOK, OpIds
  <1> QED
    BY <1>1, <1>2 DEF EvidenceInv

\* Nor does the copy of a backup that is not complete yet disturb them.
LEMMA EvidenceElsewhere ==
  ASSUME TypeInv, TypeInv', EvidenceInv, bk \in OpIds, bk <= nextOp,
         backups[bk].compose = NoVersion,
         \A o \in OpIds \ {bk} : backups'[o] = backups[o],
         state'.last = state.last, nextOp' = nextOp
  PROVE  EvidenceInv'
  <1>1. Evidence'
    <2> SUFFICES ASSUME state.last.op # NoOp
                 PROVE  /\ state.last.target \in Versions
                        /\ \E v \in Versions : /\ v < state.last.target
                                               /\ backups'[state.last.op] = Copies(v)
      BY DEF Evidence, Copies
    <2>1. state.last.op \in OpIds
      BY DEF TypeInv, TypeOK, StateType
    <2>2. PICK v \in Versions : /\ state.last.target \in Versions
                               /\ v < state.last.target
                               /\ backups[state.last.op] = Copies(v)
      BY DEF EvidenceInv, Evidence
    <2>3. state.last.op # bk
      BY <2>2, UpdaterAssumption DEF Copies
    <2> QED
      BY <2>1, <2>2, <2>3
  <1>2. FreshBackups'
    BY DEF EvidenceInv, FreshBackups, NoFiles, TypeInv, TypeOK, CounterTypeOK, OpIds
  <1> QED
    BY <1>1, <1>2 DEF EvidenceInv

\* What an interrupted step leaves of the backups keeps the evidence.
LEMMA ResidueEvidence ==
  ASSUME TypeInv, TypeInv', ReleaseInv, Residue, UNCHANGED <<state, nextOp>>
  PROVE  EvidenceInv'
  <1>0. EvidenceInv
    BY DEF ReleaseInv
  <1>1. CASE UNCHANGED backups
    BY <1>0, <1>1, EvidenceStays
  <1>2. CASE pc \in {"ap_backup_env", "ap_backup_compose"}
             /\ (EmptyBackup("env") \/ EmptyBackup("compose"))
    <2>1. bk \in OpIds
      BY <1>2 DEF TypeInv, BackupNamed, BackupPcs, EarlyApplyPcs
    <2>2. bk <= nextOp /\ backups[bk].compose = NoVersion
      BY <1>2 DEF ReleaseInv, ApplyInv, ApplyLocals, ApplyBackup, ApplyPcs,
                  EarlyApplyPcs, NoFiles
    <2>3. \A o \in OpIds \ {bk} : backups'[o] = backups[o]
      BY <1>2 DEF EmptyBackup, TypeInv, TypeOK, DiskTypeOK
    <2> QED
      BY <1>0, <2>1, <2>2, <2>3, EvidenceElsewhere
  <1> QED
    BY <1>1, <1>2 DEF Residue, disk

\* The backup a rollback works with can be tried again.
LEMMA UsableIsRetriable ==
  ASSUME TypeOK, NEW o \in OpIds, backups[o].env \in Versions,
         backups[o].compose \in {backups[o].env, Empty}
  PROVE  Retriable(o)
  <1>1. backups[o] = [env |-> backups[o].env, compose |-> backups[o].compose]
    BY DEF TypeOK, DiskTypeOK
  <1> QED
    BY <1>1 DEF Retriable, CompleteBackup, CutShort

\* Admitting an operation preserves the release.
LEMMA StartRelease ==
  ASSUME ~AmbiguousLaunch, ~WriteFaults, TypeInv, TypeInv', OwnerInv, ReleaseInv,
         StartStep
  PROVE  ReleaseInv'
  <1> USE UpdaterAssumption DEF TypeInv, TypeOK, LocalTypeOK, DiskTypeOK,
      CounterTypeOK, StateType, Contents, gateVars, finalizer, disk, counters,
      local, ActivePcs, DownloadPcs, EarlyApplyPcs, SwitchedApplyPcs,
      RollbackPcs, PreparePcs, CompletePcs, RollbackErrorPcs, FailPcs,
      IdlePcs, ApplyPcs, StagedPcs, RestoredPcs, RunningPcs, OwnerInv,
      RollbackOwes, ApplyPhase, LaunchPhase, FinalizerAlone, StateInv,
      CurrentNamed, ConsistentUnlessOwed, RecoveryAtRest, StageNamed,
      OwedBackup, RecoveryBackup, AtCurrent, Retriable, OwedOp, Owing,
      RecoveryRequired, BackupInv, BackupBegun, BackupDone, NoFiles, Copies,
      ApplyInv, ApplyBackup, ApplyStaged, ApplySwitched, ApplyLocals,
      ClosedInv, StoppedPcs, RollbackInv, RollbackFrom, FailedFrom,
      RollbackFiles, WatchedPcs, Watched, CompleteBackup, CutShort,
      ReleaseInv, NoBackup, Stopped
  <1>1. CASE StartCheck
    <2>1. StateInv' /\ BackupInv' /\ ApplyInv'
      BY <1>1 DEF StartCheck, StartOperation, Admitted, MutatingPhases
    <2>2. RollbackInv' /\ ClosedInv'
      BY <1>1 DEF StartCheck, StartOperation, Admitted, MutatingPhases
    <2>3. EvidenceInv'
      BY <1>1, EvidenceStays DEF StartCheck, StartOperation, Admitted,
          MutatingPhases
    <2> QED
      BY <2>1, <2>2, <2>3
  <1>2. CASE StartDownload
    <2>1. StateInv' /\ BackupInv' /\ ApplyInv'
      BY <1>2 DEF StartDownload, StartOperation, Admitted, MutatingPhases
    <2>2. RollbackInv' /\ ClosedInv'
      BY <1>2 DEF StartDownload, StartOperation, Admitted, MutatingPhases
    <2>3. EvidenceInv'
      BY <1>2, EvidenceStays DEF StartDownload, StartOperation, Admitted,
          MutatingPhases
    <2> QED
      BY <2>1, <2>2, <2>3
  <1>3. CASE StartApply
    <2>0. /\ nextOp + 1 \in OpIds /\ nextOp + 1 > nextOp
          /\ backups[nextOp + 1] = NoFiles
      BY <1>3 DEF StartApply, Admitted, OpIds, EvidenceInv, FreshBackups
    <2>1. StateInv'
      BY <1>3 DEF StartApply, StartOperation, Admitted, MutatingPhases
    <2>2. BackupInv'
      BY <1>3, <2>0 DEF StartApply, StartOperation, Admitted, MutatingPhases
    <2>3. ApplyInv'
      BY <1>3, <2>0 DEF StartApply, StartOperation, Admitted, MutatingPhases
    <2>4. RollbackInv'
      BY <1>3 DEF StartApply, StartOperation, Admitted, MutatingPhases
    <2>5. ClosedInv'
      BY <1>3 DEF StartApply, StartOperation, Admitted, MutatingPhases
    <2>6. EvidenceInv'
      BY <1>3, EvidenceStays DEF StartApply, StartOperation, Admitted,
          MutatingPhases
    <2> QED
      BY <2>1, <2>2, <2>3, <2>4, <2>5, <2>6
  <1>4. CASE StartRestart
    <2>1. StateInv' /\ BackupInv' /\ ApplyInv'
      BY <1>4 DEF StartRestart, StartOperation, Admitted, MutatingPhases
    <2>2. RollbackInv' /\ ClosedInv'
      BY <1>4 DEF StartRestart, StartOperation, Admitted, MutatingPhases
    <2>3. EvidenceInv'
      BY <1>4, EvidenceStays DEF StartRestart, StartOperation, Admitted,
          MutatingPhases
    <2> QED
      BY <2>1, <2>2, <2>3
  <1>5. CASE StartRollback
    <2>0. PICK o \in OpIds : /\ o = RollbackBackup /\ backups[o].env \in Versions
                             /\ backups[o].compose \in {backups[o].env, Empty}
      <3>1. RollbackBackup # NoOp /\ backups[RollbackBackup].env \in Versions
            /\ backups[RollbackBackup].compose # NoVersion
        BY <1>5 DEF StartRollback, BackupUsable
      <3>2. CASE RecoveryRequired
        <4>1. RollbackBackup = state.opId
          BY <3>2 DEF RollbackBackup
        <4> QED
          BY <3>1, <3>2, <4>1
      <3>3. CASE ~RecoveryRequired
        <4>1. RollbackBackup = state.last.op
          BY <3>1, <3>3 DEF RollbackBackup
        <4>2. state.last.op \in OpIds
          BY <3>1, <4>1
        <4>3. PICK v \in Versions : backups[state.last.op] = Copies(v)
          BY <3>1, <4>1 DEF EvidenceInv, Evidence
        <4> QED
          BY <3>1, <4>1, <4>2, <4>3
      <3> QED
        BY <3>2, <3>3
    <2>1. StateInv'
      BY <1>5, <2>0 DEF StartRollback, StartOperation, Admitted, MutatingPhases
    <2>2. BackupInv'
      BY <1>5 DEF StartRollback, StartOperation, Admitted, MutatingPhases,
          RollbackBackup, BackupUsable
    <2>3. ApplyInv'
      BY <1>5 DEF StartRollback, StartOperation, Admitted, MutatingPhases,
          RollbackBackup, BackupUsable
    <2>4. RollbackInv'
      BY <1>5, <2>0 DEF StartRollback, StartOperation, Admitted, MutatingPhases
    <2>5. ClosedInv'
      BY <1>5 DEF StartRollback, StartOperation, Admitted, MutatingPhases,
          RollbackBackup, BackupUsable
    <2>6. EvidenceInv'
      BY <1>5, EvidenceStays DEF StartRollback, StartOperation, Admitted,
          MutatingPhases, RollbackBackup, BackupUsable
    <2> QED
      BY <2>1, <2>2, <2>3, <2>4, <2>5, <2>6
  <1> QED
    BY <1>1, <1>2, <1>3, <1>4, <1>5 DEF StartStep

\* Downloading and restarting preserves the release.
LEMMA DownloadRelease ==
  ASSUME ~AmbiguousLaunch, ~WriteFaults, TypeInv, TypeInv', OwnerInv, ReleaseInv,
         DownloadStep
  PROVE  ReleaseInv'
  <1> USE UpdaterAssumption DEF TypeInv, TypeOK, LocalTypeOK, DiskTypeOK,
      CounterTypeOK, StateType, Contents, gateVars, finalizer, disk, counters,
      local, ActivePcs, DownloadPcs, EarlyApplyPcs, SwitchedApplyPcs,
      RollbackPcs, PreparePcs, CompletePcs, RollbackErrorPcs, FailPcs,
      IdlePcs, ApplyPcs, StagedPcs, RestoredPcs, RunningPcs, OwnerInv,
      RollbackOwes, ApplyPhase, LaunchPhase, FinalizerAlone, StateInv,
      CurrentNamed, ConsistentUnlessOwed, RecoveryAtRest, StageNamed,
      OwedBackup, RecoveryBackup, AtCurrent, Retriable, OwedOp, Owing,
      RecoveryRequired, BackupInv, BackupBegun, BackupDone, NoFiles, Copies,
      ApplyInv, ApplyBackup, ApplyStaged, ApplySwitched, ApplyLocals,
      ClosedInv, StoppedPcs, RollbackInv, RollbackFrom, FailedFrom,
      RollbackFiles, WatchedPcs, Watched, CompleteBackup, CutShort,
      ReleaseInv, NoBackup, Stopped
  <1>1. CASE DownloadCompose
    <2>1. StateInv' /\ BackupInv' /\ ApplyInv'
      BY <1>1 DEF DownloadCompose
    <2>2. RollbackInv' /\ ClosedInv'
      BY <1>1 DEF DownloadCompose
    <2>3. EvidenceInv'
      BY <1>1, EvidenceStays DEF DownloadCompose
    <2> QED
      BY <2>1, <2>2, <2>3
  <1>2. CASE DownloadEnv
    <2>1. StateInv' /\ BackupInv' /\ ApplyInv'
      BY <1>2 DEF DownloadEnv
    <2>2. RollbackInv' /\ ClosedInv'
      BY <1>2 DEF DownloadEnv
    <2>3. EvidenceInv'
      BY <1>2, EvidenceStays DEF DownloadEnv
    <2> QED
      BY <2>1, <2>2, <2>3
  <1>3. CASE DownloadReady
    <2>1. StateInv' /\ BackupInv' /\ ApplyInv'
      BY <1>3 DEF DownloadReady, EndOperation
    <2>2. RollbackInv' /\ ClosedInv'
      BY <1>3 DEF DownloadReady, EndOperation
    <2>3. EvidenceInv'
      BY <1>3, EvidenceStays DEF DownloadReady, EndOperation
    <2> QED
      BY <2>1, <2>2, <2>3
  <1>4. CASE RestartServices
    <2>1. StateInv' /\ BackupInv' /\ ApplyInv'
      BY <1>4 DEF RestartServices, EndOperation
    <2>2. RollbackInv' /\ ClosedInv'
      BY <1>4 DEF RestartServices, EndOperation
    <2>3. EvidenceInv'
      BY <1>4, EvidenceStays DEF RestartServices, EndOperation
    <2> QED
      BY <2>1, <2>2, <2>3
  <1> QED
    BY <1>1, <1>2, <1>3, <1>4 DEF DownloadStep

\* Every step of applyUpdate preserves the release.
LEMMA ApplyRelease ==
  ASSUME ~AmbiguousLaunch, ~WriteFaults, TypeInv, TypeInv', OwnerInv, ReleaseInv,
         ApplyStep
  PROVE  ReleaseInv'
  <1> USE UpdaterAssumption DEF TypeInv, TypeOK, LocalTypeOK, DiskTypeOK,
      CounterTypeOK, StateType, Contents, gateVars, finalizer, disk, counters,
      local, ActivePcs, DownloadPcs, EarlyApplyPcs, SwitchedApplyPcs,
      RollbackPcs, PreparePcs, CompletePcs, RollbackErrorPcs, FailPcs,
      IdlePcs, ApplyPcs, StagedPcs, RestoredPcs, RunningPcs, OwnerInv,
      RollbackOwes, ApplyPhase, LaunchPhase, FinalizerAlone, StateInv,
      CurrentNamed, ConsistentUnlessOwed, RecoveryAtRest, StageNamed,
      OwedBackup, RecoveryBackup, AtCurrent, Retriable, OwedOp, Owing,
      RecoveryRequired, BackupInv, BackupBegun, BackupDone, NoFiles, Copies,
      ApplyInv, ApplyBackup, ApplyStaged, ApplySwitched, ApplyLocals,
      ClosedInv, StoppedPcs, RollbackInv, RollbackFrom, FailedFrom,
      RollbackFiles, WatchedPcs, Watched, CompleteBackup, CutShort,
      ReleaseInv, NoBackup, Stopped
  <1>1. CASE ApplyValidate
    <2>1. StateInv' /\ BackupInv' /\ ApplyInv'
      BY <1>1 DEF ApplyValidate, StagedAssetsValid
    <2>2. RollbackInv' /\ ClosedInv'
      BY <1>1 DEF ApplyValidate, StagedAssetsValid
    <2>3. EvidenceInv'
      BY <1>1, EvidenceStays DEF ApplyValidate, StagedAssetsValid
    <2> QED
      BY <2>1, <2>2, <2>3
  <1>2. CASE ApplyBackupEnv
    <2>1. StateInv'
      BY <1>2 DEF ApplyBackupEnv
    <2>2. BackupInv'
      BY <1>2 DEF ApplyBackupEnv
    <2>3. ApplyInv'
      BY <1>2 DEF ApplyBackupEnv
    <2>4. RollbackInv'
      BY <1>2 DEF ApplyBackupEnv
    <2>5. ClosedInv'
      BY <1>2 DEF ApplyBackupEnv
    <2>6. EvidenceInv'
      <3>1. backups' = [backups EXCEPT ![bk] = [@ EXCEPT !.env = files.env]]
        BY <1>2 DEF ApplyBackupEnv
      <3>2. bk \in OpIds /\ bk <= nextOp /\ backups[bk] = NoFiles
        BY <1>2 DEF ApplyBackupEnv, BackupNamed, BackupPcs
      <3> QED
        BY <1>2, <3>1, <3>2, EvidenceElsewhere DEF ApplyBackupEnv
    <2> QED
      BY <2>1, <2>2, <2>3, <2>4, <2>5, <2>6
  <1>3. CASE ApplyBackupCompose
    <2>1. StateInv'
      BY <1>3 DEF ApplyBackupCompose
    <2>2. BackupInv'
      BY <1>3 DEF ApplyBackupCompose
    <2>3. ApplyInv'
      BY <1>3 DEF ApplyBackupCompose
    <2>4. RollbackInv'
      BY <1>3 DEF ApplyBackupCompose
    <2>5. ClosedInv'
      BY <1>3 DEF ApplyBackupCompose
    <2>6. EvidenceInv'
      <3>1. backups' = [backups EXCEPT ![bk] = [@ EXCEPT !.compose = files.compose]]
        BY <1>3 DEF ApplyBackupCompose
      <3>2. bk \in OpIds /\ bk <= nextOp /\ backups[bk].compose = NoVersion
        BY <1>3 DEF ApplyBackupCompose, BackupNamed, BackupPcs
      <3> QED
        BY <1>3, <3>1, <3>2, EvidenceElsewhere DEF ApplyBackupCompose
    <2> QED
      BY <2>1, <2>2, <2>3, <2>4, <2>5, <2>6
  <1>4. CASE ApplyBackupReady
    <2>1. StateInv' /\ BackupInv' /\ ApplyInv'
      BY <1>4 DEF ApplyBackupReady
    <2>2. RollbackInv' /\ ClosedInv'
      BY <1>4 DEF ApplyBackupReady
    <2>3. EvidenceInv'
      BY <1>4, EvidenceStays DEF ApplyBackupReady
    <2> QED
      BY <2>1, <2>2, <2>3
  <1>5. CASE ApplyMarkSwitched
    <2>1. StateInv' /\ BackupInv' /\ ApplyInv'
      BY <1>5 DEF ApplyMarkSwitched
    <2>2. RollbackInv' /\ ClosedInv'
      BY <1>5 DEF ApplyMarkSwitched
    <2>3. EvidenceInv'
      BY <1>5, EvidenceStays DEF ApplyMarkSwitched
    <2> QED
      BY <2>1, <2>2, <2>3
  <1>6. CASE ApplyRenameCompose
    <2>1. StateInv' /\ BackupInv' /\ ApplyInv'
      BY <1>6 DEF ApplyRenameCompose
    <2>2. RollbackInv' /\ ClosedInv'
      BY <1>6 DEF ApplyRenameCompose
    <2>3. EvidenceInv'
      BY <1>6, EvidenceStays DEF ApplyRenameCompose
    <2> QED
      BY <2>1, <2>2, <2>3
  <1>7. CASE ApplyRenameEnv
    <2>1. StateInv' /\ BackupInv' /\ ApplyInv'
      BY <1>7 DEF ApplyRenameEnv
    <2>2. RollbackInv' /\ ClosedInv'
      BY <1>7 DEF ApplyRenameEnv
    <2>3. EvidenceInv'
      BY <1>7, EvidenceStays DEF ApplyRenameEnv
    <2> QED
      BY <2>1, <2>2, <2>3
  <1>8. CASE ApplyMigrate
    <2>1. StateInv' /\ BackupInv' /\ ApplyInv'
      BY <1>8 DEF ApplyMigrate
    <2>2. RollbackInv' /\ ClosedInv'
      BY <1>8 DEF ApplyMigrate
    <2>3. EvidenceInv'
      BY <1>8, EvidenceStays DEF ApplyMigrate
    <2> QED
      BY <2>1, <2>2, <2>3
  <1>9. CASE ApplyUp
    <2>1. StateInv' /\ BackupInv' /\ ApplyInv'
      BY <1>9 DEF ApplyUp
    <2>2. RollbackInv' /\ ClosedInv'
      BY <1>9 DEF ApplyUp
    <2>3. EvidenceInv'
      BY <1>9, EvidenceStays DEF ApplyUp
    <2> QED
      BY <2>1, <2>2, <2>3
  <1>10. CASE ApplyVerifying
    <2>1. StateInv' /\ BackupInv' /\ ApplyInv'
      BY <1>10 DEF ApplyVerifying
    <2>2. RollbackInv' /\ ClosedInv'
      BY <1>10 DEF ApplyVerifying
    <2>3. EvidenceInv'
      BY <1>10, EvidenceStays DEF ApplyVerifying
    <2> QED
      BY <2>1, <2>2, <2>3
  <1>11. CASE ApplyHealthy
    <2>1. StateInv' /\ BackupInv' /\ ApplyInv'
      BY <1>11 DEF ApplyHealthy
    <2>2. RollbackInv' /\ ClosedInv'
      BY <1>11 DEF ApplyHealthy
    <2>3. EvidenceInv'
      BY <1>11, EvidenceStays DEF ApplyHealthy
    <2> QED
      BY <2>1, <2>2, <2>3
  <1>12. CASE ApplyFinalizing
    <2>1. StateInv'
      BY <1>12 DEF ApplyFinalizing
    <2>2. BackupInv'
      BY <1>12 DEF ApplyFinalizing
    <2>3. ApplyInv'
      BY <1>12 DEF ApplyFinalizing
    <2>4. RollbackInv'
      BY <1>12 DEF ApplyFinalizing
    <2>5. ClosedInv'
      BY <1>12 DEF ApplyFinalizing
    <2>6. EvidenceInv'
      <3>1. /\ state'.last = [op |-> bk, target |-> man]
            /\ UNCHANGED <<backups, nextOp>>
        BY <1>12 DEF ApplyFinalizing
      <3>2. /\ state.cur \in Versions /\ man \in Versions /\ state.cur < man
            /\ backups[bk] = Copies(state.cur)
        BY <1>12 DEF ApplyFinalizing, Versions
      <3>3. Evidence'
        BY <3>1, <3>2 DEF Evidence
      <3>4. FreshBackups'
        BY <3>1 DEF EvidenceInv, FreshBackups
      <3> QED
        BY <3>3, <3>4 DEF EvidenceInv
    <2> QED
      BY <2>1, <2>2, <2>3, <2>4, <2>5, <2>6
  <1>13. CASE ApplyLaunch
    <2>1. StateInv' /\ BackupInv' /\ ApplyInv'
      BY <1>13 DEF ApplyLaunch, EndOperation
    <2>2. RollbackInv' /\ ClosedInv'
      BY <1>13 DEF ApplyLaunch, EndOperation
    <2>3. EvidenceInv'
      BY <1>13, EvidenceStays DEF ApplyLaunch, EndOperation
    <2> QED
      BY <2>1, <2>2, <2>3
  <1> QED
    BY <1>1, <1>2, <1>3, <1>4, <1>5, <1>6, <1>7, <1>8, <1>9, <1>10, <1>11,
        <1>12, <1>13 DEF ApplyStep

\* Every step of prepareProjectionRollback preserves the release.
LEMMA PrepareRelease ==
  ASSUME ~AmbiguousLaunch, ~WriteFaults, TypeInv, TypeInv', OwnerInv, ReleaseInv,
         PrepareStep
  PROVE  ReleaseInv'
  <1> USE UpdaterAssumption DEF TypeInv, TypeOK, LocalTypeOK, DiskTypeOK,
      CounterTypeOK, StateType, Contents, gateVars, finalizer, disk, counters,
      local, ActivePcs, DownloadPcs, EarlyApplyPcs, SwitchedApplyPcs,
      RollbackPcs, PreparePcs, CompletePcs, RollbackErrorPcs, FailPcs,
      IdlePcs, ApplyPcs, StagedPcs, RestoredPcs, RunningPcs, OwnerInv,
      RollbackOwes, ApplyPhase, LaunchPhase, FinalizerAlone, StateInv,
      CurrentNamed, ConsistentUnlessOwed, RecoveryAtRest, StageNamed,
      OwedBackup, RecoveryBackup, AtCurrent, Retriable, OwedOp, Owing,
      RecoveryRequired, BackupInv, BackupBegun, BackupDone, NoFiles, Copies,
      ApplyInv, ApplyBackup, ApplyStaged, ApplySwitched, ApplyLocals,
      ClosedInv, StoppedPcs, RollbackInv, RollbackFrom, FailedFrom,
      RollbackFiles, WatchedPcs, Watched, CompleteBackup, CutShort,
      ReleaseInv, NoBackup, Stopped
  <1>1. CASE RbStop
    <2>1. StateInv' /\ BackupInv' /\ ApplyInv'
      BY <1>1 DEF RbStop
    <2>2. RollbackInv' /\ ClosedInv'
      BY <1>1 DEF RbStop
    <2>3. EvidenceInv'
      BY <1>1, EvidenceStays DEF RbStop
    <2> QED
      BY <2>1, <2>2, <2>3
  <1>2. CASE RbGate
    <2>1. StateInv' /\ BackupInv' /\ ApplyInv'
      BY <1>2, SMTT(30) DEF RbGate, EnableGate
    <2>2. RollbackInv' /\ ClosedInv'
      BY <1>2 DEF RbGate, EnableGate
    <2>3. EvidenceInv'
      BY <1>2, EvidenceStays DEF RbGate, EnableGate
    <2> QED
      BY <2>1, <2>2, <2>3
  <1>3. CASE RbStale
    <2>1. StateInv' /\ BackupInv' /\ ApplyInv'
      BY <1>3, SMTT(30) DEF RbStale, ReleaseHolder
    <2>2. RollbackInv' /\ ClosedInv'
      BY <1>3 DEF RbStale, ReleaseHolder
    <2>3. EvidenceInv'
      BY <1>3, EvidenceStays DEF RbStale, ReleaseHolder
    <2> QED
      BY <2>1, <2>2, <2>3
  <1>4. CASE RbCheck
    <2>1. StateInv' /\ BackupInv' /\ ApplyInv'
      BY <1>4 DEF RbCheck, AssertSafe, CheckUnblocked, RollbackSafe
    <2>2. RollbackInv' /\ ClosedInv'
      BY <1>4 DEF RbCheck, AssertSafe, CheckUnblocked, RollbackSafe
    <2>3. EvidenceInv'
      BY <1>4, EvidenceStays DEF RbCheck, AssertSafe, CheckUnblocked,
          RollbackSafe
    <2> QED
      BY <2>1, <2>2, <2>3
  <1>5. CASE RbCheckRefuses
    <2>1. StateInv' /\ BackupInv' /\ ApplyInv'
      BY <1>5, ZenonT(40) DEF RbCheckRefuses, RollbackErrorPc, CheckUnblocked,
          RollbackSafe
    <2>2. RollbackInv' /\ ClosedInv'
      BY <1>5 DEF RbCheckRefuses, RollbackErrorPc, CheckUnblocked,
          RollbackSafe
    <2>3. EvidenceInv'
      BY <1>5, EvidenceStays DEF RbCheckRefuses, RollbackErrorPc,
          CheckUnblocked, RollbackSafe
    <2> QED
      BY <2>1, <2>2, <2>3
  <1>6. CASE RbHolder
    <2>1. StateInv' /\ BackupInv' /\ ApplyInv'
      BY <1>6, ZenonT(40) DEF RbHolder, StartHolder
    <2>2. RollbackInv' /\ ClosedInv'
      BY <1>6 DEF RbHolder, StartHolder
    <2>3. EvidenceInv'
      BY <1>6, EvidenceStays DEF RbHolder, StartHolder
    <2> QED
      BY <2>1, <2>2, <2>3
  <1>7. CASE RbReady
    <2>1. StateInv' /\ BackupInv' /\ ApplyInv'
      BY <1>7 DEF RbReady, HolderReady
    <2>2. RollbackInv' /\ ClosedInv'
      BY <1>7 DEF RbReady, HolderReady
    <2>3. EvidenceInv'
      BY <1>7, EvidenceStays DEF RbReady, HolderReady
    <2> QED
      BY <2>1, <2>2, <2>3
  <1>8. CASE RbReadyTimeout
    <2>1. StateInv' /\ BackupInv' /\ ApplyInv'
      BY <1>8 DEF RbReadyTimeout, RollbackErrorPc
    <2>2. RollbackInv' /\ ClosedInv'
      BY <1>8 DEF RbReadyTimeout, RollbackErrorPc
    <2>3. EvidenceInv'
      BY <1>8, EvidenceStays DEF RbReadyTimeout, RollbackErrorPc
    <2> QED
      BY <2>1, <2>2, <2>3
  <1> QED
    BY <1>1, <1>2, <1>3, <1>4, <1>5, <1>6, <1>7, <1>8 DEF PrepareStep

\* Every step of completeProjectionRollback preserves the release.
LEMMA CompleteRelease ==
  ASSUME ~AmbiguousLaunch, ~WriteFaults, TypeInv, TypeInv', OwnerInv, ReleaseInv,
         CompleteStep
  PROVE  ReleaseInv'
  <1> USE UpdaterAssumption DEF TypeInv, TypeOK, LocalTypeOK, DiskTypeOK,
      CounterTypeOK, StateType, Contents, gateVars, finalizer, disk, counters,
      local, ActivePcs, DownloadPcs, EarlyApplyPcs, SwitchedApplyPcs,
      RollbackPcs, PreparePcs, CompletePcs, RollbackErrorPcs, FailPcs,
      IdlePcs, ApplyPcs, StagedPcs, RestoredPcs, RunningPcs, OwnerInv,
      RollbackOwes, ApplyPhase, LaunchPhase, FinalizerAlone, StateInv,
      CurrentNamed, ConsistentUnlessOwed, RecoveryAtRest, StageNamed,
      OwedBackup, RecoveryBackup, AtCurrent, Retriable, OwedOp, Owing,
      RecoveryRequired, BackupInv, BackupBegun, BackupDone, NoFiles, Copies,
      ApplyInv, ApplyBackup, ApplyStaged, ApplySwitched, ApplyLocals,
      ClosedInv, StoppedPcs, RollbackInv, RollbackFrom, FailedFrom,
      RollbackFiles, WatchedPcs, Watched, CompleteBackup, CutShort,
      ReleaseInv, NoBackup, Stopped
  <1>1. CASE RbProbe
    <2>1. StateInv' /\ BackupInv' /\ ApplyInv'
      BY <1>1 DEF RbProbe, AfterProbe, ProbePcs, HolderReady
    <2>2. RollbackInv' /\ ClosedInv'
      BY <1>1 DEF RbProbe, AfterProbe, ProbePcs, HolderReady
    <2>3. EvidenceInv'
      BY <1>1, EvidenceStays DEF RbProbe, AfterProbe, ProbePcs, HolderReady
    <2> QED
      BY <2>1, <2>2, <2>3
  <1>2. CASE RbRestoreEnv
    <2>1. StateInv' /\ BackupInv' /\ ApplyInv'
      BY <1>2 DEF RbRestoreEnv
    <2>2. RollbackInv' /\ ClosedInv'
      BY <1>2 DEF RbRestoreEnv
    <2>3. EvidenceInv'
      BY <1>2, EvidenceStays DEF RbRestoreEnv
    <2> QED
      BY <2>1, <2>2, <2>3
  <1>3. CASE RbRestoreCompose
    <2>0. svc = Stopped
      BY <1>3 DEF RbRestoreCompose, ClosedInv, StoppedPcs
    <2>1. StateInv'
      BY <1>3 DEF RbRestoreCompose
    <2>2. BackupInv'
      BY <1>3 DEF RbRestoreCompose
    <2>3. ApplyInv'
      BY <1>3 DEF RbRestoreCompose
    <2>4. RollbackInv'
      <3>1. bk \in OpIds
        BY <1>3 DEF RbRestoreCompose, BackupNamed, BackupPcs
      <3>2. files' = [env |-> backups[bk].env, compose |-> backups[bk].compose]
        BY <1>3 DEF RbRestoreCompose
      <3>3. backups[bk] = [env |-> backups[bk].env, compose |-> backups[bk].compose]
        BY <3>1
      <3>4. files' = backups[bk]
        BY <3>2, <3>3
      <3> QED
        BY <1>3, <3>4, <2>0 DEF RbRestoreCompose
    <2>5. ClosedInv'
      BY <1>3 DEF RbRestoreCompose
    <2>6. EvidenceInv'
      BY <1>3, EvidenceStays DEF RbRestoreCompose
    <2> QED
      BY <2>1, <2>2, <2>3, <2>4, <2>5, <2>6
  <1>4. CASE RbWorker
    <2>1. StateInv' /\ BackupInv' /\ ApplyInv'
      BY <1>4 DEF RbWorker, ComposeUp
    <2>2. RollbackInv' /\ ClosedInv'
      BY <1>4 DEF RbWorker, ComposeUp
    <2>3. EvidenceInv'
      BY <1>4, EvidenceStays DEF RbWorker, ComposeUp
    <2> QED
      BY <2>1, <2>2, <2>3
  <1>5. CASE RbUp
    <2>1. StateInv' /\ BackupInv' /\ ApplyInv'
      BY <1>5 DEF RbUp, ComposeUp
    <2>2. RollbackInv' /\ ClosedInv'
      BY <1>5 DEF RbUp, ComposeUp
    <2>3. EvidenceInv'
      BY <1>5, EvidenceStays DEF RbUp, ComposeUp
    <2> QED
      BY <2>1, <2>2, <2>3
  <1>6. CASE RbVerifying
    <2>1. StateInv' /\ BackupInv' /\ ApplyInv'
      BY <1>6 DEF RbVerifying
    <2>2. RollbackInv' /\ ClosedInv'
      BY <1>6 DEF RbVerifying
    <2>3. EvidenceInv'
      BY <1>6, EvidenceStays DEF RbVerifying
    <2> QED
      BY <2>1, <2>2, <2>3
  <1>7. CASE RbHealth
    <2>1. StateInv' /\ BackupInv' /\ ApplyInv'
      BY <1>7 DEF RbHealth, HolderReady
    <2>2. RollbackInv' /\ ClosedInv'
      BY <1>7 DEF RbHealth, HolderReady
    <2>3. EvidenceInv'
      BY <1>7, EvidenceStays DEF RbHealth, HolderReady
    <2> QED
      BY <2>1, <2>2, <2>3
  <1>8. CASE ClearWatchdog
    <2>1. StateInv' /\ BackupInv' /\ ApplyInv'
      BY <1>8 DEF ClearWatchdog
    <2>2. RollbackInv' /\ ClosedInv'
      BY <1>8 DEF ClearWatchdog
    <2>3. EvidenceInv'
      BY <1>8, EvidenceStays DEF ClearWatchdog
    <2> QED
      BY <2>1, <2>2, <2>3
  <1>9. CASE RbWatchdogOff
    <2>1. StateInv' /\ BackupInv' /\ ApplyInv'
      BY <1>9 DEF RbWatchdogOff
    <2>2. RollbackInv' /\ ClosedInv'
      BY <1>9 DEF RbWatchdogOff
    <2>3. EvidenceInv'
      BY <1>9, EvidenceStays DEF RbWatchdogOff
    <2> QED
      BY <2>1, <2>2, <2>3
  <1>10. CASE RbDisable
    <2>1. StateInv' /\ BackupInv' /\ ApplyInv'
      BY <1>10 DEF RbDisable, DisableGate
    <2>2. RollbackInv' /\ ClosedInv'
      BY <1>10 DEF RbDisable, DisableGate
    <2>3. EvidenceInv'
      BY <1>10, EvidenceStays DEF RbDisable, DisableGate
    <2> QED
      BY <2>1, <2>2, <2>3
  <1>11. CASE RbRelease
    <2>1. StateInv' /\ BackupInv' /\ ApplyInv'
      BY <1>11 DEF RbRelease, ReleaseHolder, ReleasePossible
    <2>2. RollbackInv' /\ ClosedInv'
      BY <1>11 DEF RbRelease, ReleaseHolder, ReleasePossible
    <2>3. EvidenceInv'
      BY <1>11, EvidenceStays DEF RbRelease, ReleaseHolder, ReleasePossible
    <2> QED
      BY <2>1, <2>2, <2>3
  <1>12. CASE RbDone
    <2>1. StateInv' /\ BackupInv' /\ ApplyInv'
      BY <1>12 DEF RbDone, EndOperation
    <2>2. RollbackInv' /\ ClosedInv'
      BY <1>12 DEF RbDone, EndOperation
    <2>3. EvidenceInv'
      BY <1>12, EvidenceStays DEF RbDone, EndOperation
    <2> QED
      BY <2>1, <2>2, <2>3
  <1> QED
    BY <1>1, <1>2, <1>3, <1>4, <1>5, <1>6, <1>7, <1>8, <1>9, <1>10, <1>11,
        <1>12 DEF CompleteStep

\* Every failure handler preserves the release.
LEMMA FailureRelease ==
  ASSUME ~AmbiguousLaunch, ~WriteFaults, TypeInv, TypeInv', OwnerInv, ReleaseInv,
         FailureStep
  PROVE  ReleaseInv'
  <1> USE UpdaterAssumption DEF TypeInv, TypeOK, LocalTypeOK, DiskTypeOK,
      CounterTypeOK, StateType, Contents, gateVars, finalizer, disk, counters,
      local, ActivePcs, DownloadPcs, EarlyApplyPcs, SwitchedApplyPcs,
      RollbackPcs, PreparePcs, CompletePcs, RollbackErrorPcs, FailPcs,
      IdlePcs, ApplyPcs, StagedPcs, RestoredPcs, RunningPcs, OwnerInv,
      RollbackOwes, ApplyPhase, LaunchPhase, FinalizerAlone, StateInv,
      CurrentNamed, ConsistentUnlessOwed, RecoveryAtRest, StageNamed,
      OwedBackup, RecoveryBackup, AtCurrent, Retriable, OwedOp, Owing,
      RecoveryRequired, BackupInv, BackupBegun, BackupDone, NoFiles, Copies,
      ApplyInv, ApplyBackup, ApplyStaged, ApplySwitched, ApplyLocals,
      ClosedInv, StoppedPcs, RollbackInv, RollbackFrom, FailedFrom,
      RollbackFiles, WatchedPcs, Watched, CompleteBackup, CutShort,
      ReleaseInv, NoBackup, Stopped
  <1>1. CASE RbFailGate
    <2>1. StateInv' /\ BackupInv' /\ ApplyInv'
      BY <1>1 DEF RbFailGate, EnableGate
    <2>2. RollbackInv' /\ ClosedInv'
      BY <1>1 DEF RbFailGate, EnableGate
    <2>3. EvidenceInv'
      BY <1>1, EvidenceStays DEF RbFailGate, EnableGate
    <2> QED
      BY <2>1, <2>2, <2>3
  <1>2. CASE RbFailStop
    <2>1. StateInv' /\ BackupInv' /\ ApplyInv'
      BY <1>2 DEF RbFailStop, RollbackErrorPc
    <2>2. RollbackInv' /\ ClosedInv'
      BY <1>2 DEF RbFailStop, RollbackErrorPc
    <2>3. EvidenceInv'
      BY <1>2, EvidenceStays DEF RbFailStop, RollbackErrorPc
    <2> QED
      BY <2>1, <2>2, <2>3
  <1>3. CASE RbFailMark
    <2>0. Retriable(bk)
      BY <1>3, UsableIsRetriable DEF RbFailMark, BackupNamed, BackupPcs
    <2>1. StateInv'
      BY <1>3, <2>0 DEF RbFailMark
    <2>2. BackupInv'
      BY <1>3 DEF RbFailMark
    <2>3. ApplyInv'
      BY <1>3 DEF RbFailMark
    <2>4. RollbackInv'
      BY <1>3, <2>0 DEF RbFailMark
    <2>5. ClosedInv'
      BY <1>3 DEF RbFailMark
    <2>6. EvidenceInv'
      BY <1>3, EvidenceStays DEF RbFailMark
    <2> QED
      BY <2>1, <2>2, <2>3, <2>4, <2>5, <2>6
  <1>4. CASE HandleOperationFailure
    <2>1. StateInv'
      <3>1. CASE pc = "fail_recovery"
        BY <1>4, <3>1 DEF HandleOperationFailure, EndOperation
      <3>2. CASE pc = "fail_operation"
        <4>1. AtCurrent
          BY <3>2
        <4> QED
          BY <1>4, <3>2, <4>1 DEF HandleOperationFailure, EndOperation
      <3> QED
        BY <1>4, <3>1, <3>2 DEF HandleOperationFailure
    <2>2. BackupInv'
      BY <1>4 DEF HandleOperationFailure, EndOperation
    <2>3. ApplyInv'
      BY <1>4 DEF HandleOperationFailure, EndOperation
    <2>4. RollbackInv'
      BY <1>4 DEF HandleOperationFailure, EndOperation
    <2>5. ClosedInv'
      BY <1>4 DEF HandleOperationFailure, EndOperation
    <2>6. EvidenceInv'
      BY <1>4, EvidenceStays DEF HandleOperationFailure, EndOperation
    <2> QED
      BY <2>1, <2>2, <2>3, <2>4, <2>5, <2>6
  <1> QED
    BY <1>1, <1>2, <1>3, <1>4 DEF FailureStep

\* A restart with what it recovers preserves the release.
LEMMA RecoveryRelease ==
  ASSUME ~AmbiguousLaunch, ~WriteFaults, TypeInv, TypeInv', OwnerInv, ReleaseInv,
         RecoveryStep
  PROVE  ReleaseInv'
  <1> USE UpdaterAssumption DEF TypeInv, TypeOK, LocalTypeOK, DiskTypeOK,
      CounterTypeOK, StateType, Contents, gateVars, finalizer, disk, counters,
      local, ActivePcs, DownloadPcs, EarlyApplyPcs, SwitchedApplyPcs,
      RollbackPcs, PreparePcs, CompletePcs, RollbackErrorPcs, FailPcs,
      IdlePcs, ApplyPcs, StagedPcs, RestoredPcs, RunningPcs, OwnerInv,
      RollbackOwes, ApplyPhase, LaunchPhase, FinalizerAlone, StateInv,
      CurrentNamed, ConsistentUnlessOwed, RecoveryAtRest, StageNamed,
      OwedBackup, RecoveryBackup, AtCurrent, Retriable, OwedOp, Owing,
      RecoveryRequired, BackupInv, BackupBegun, BackupDone, NoFiles, Copies,
      ApplyInv, ApplyBackup, ApplyStaged, ApplySwitched, ApplyLocals,
      ClosedInv, StoppedPcs, RollbackInv, RollbackFrom, FailedFrom,
      RollbackFiles, WatchedPcs, Watched, CompleteBackup, CutShort,
      ReleaseInv, NoBackup, Stopped
  <1>1. CASE Restart
    <2>1. StateInv' /\ BackupInv' /\ ApplyInv'
      BY <1>1 DEF Restart
    <2>2. RollbackInv' /\ ClosedInv'
      BY <1>1 DEF Restart
    <2>3. EvidenceInv'
      BY <1>1, EvidenceStays DEF Restart
    <2> QED
      BY <2>1, <2>2, <2>3
  <1>2. CASE RecoverInterruptedOperation
    <2>a. CASE FinalizerGone /\ state' = FinalizedState /\ svc' = svc
      BY <1>2, <2>a, EvidenceStays DEF RecoverInterruptedOperation, FinalizerGone,
                                    FinalizedState
    <2>b. CASE UNCHANGED <<state, svc>>
      <3>1. /\ pc = "boot" /\ pc' = "ready"
            /\ UNCHANGED <<files, staged, backups, local, finalizer, counters>>
        BY <1>2 DEF RecoverInterruptedOperation
      <3>2. StateInv' /\ ClosedInv' /\ BackupInv' /\ ApplyInv' /\ RollbackInv'
        BY <2>b, <3>1, SMTT(30)
      <3>3. EvidenceInv'
        BY <2>b, <3>1, EvidenceStays
      <3> QED
        BY <3>2, <3>3
    <2>c. CASE /\ state.phase \in MutatingPhases \ {"finalizing"}
               /\ state' = InterruptedState
               /\ svc' = IF NeedsRollback THEN Stopped ELSE svc
      <3>1. /\ state'.phase = "failed" /\ state'.cur = state.cur
            /\ state'.stage = "none" /\ state'.rbOp = NoOp /\ state'.last = state.last
            /\ ~Owing'
        BY <2>c DEF InterruptedState
      <3>2. /\ pc = "boot" /\ pc' = "ready"
            /\ UNCHANGED <<files, staged, backups, local, finalizer, counters>>
        BY <1>2 DEF RecoverInterruptedOperation
      <3>3. StateInv' /\ ClosedInv'
        <4>1. CASE NeedsRollback
          <5>1. state'.err = "rollback_recovery_required" /\ state'.opId = OwedOp
            BY <2>c, <4>1 DEF InterruptedState
          <5>2. Retriable(OwedOp)
            <6>1. CASE ~Owing
              <7>1. /\ state.phase = "applying" /\ ReleaseFilesDiverged
                    /\ state.stage \in {"preparing_backup", "backup_ready"}
                BY <4>1, <6>1 DEF NeedsRollback, Stages
              <7>2. state.opId \in OpIds /\ OwedOp = state.opId /\ AtCurrent
                BY <6>1, <7>1
              <7> QED
                BY <7>1, <7>2 DEF ReleaseFilesDiverged
            <6> QED
              BY <6>1
          <5>3. Retriable(state.opId)'
            BY <3>2, <5>1, <5>2
          <5>4. svc' = Stopped
            BY <2>c, <4>1
          <5> QED
            BY <3>1, <3>2, <5>1, <5>3, <5>4
        <4>2. CASE ~NeedsRollback
          <5>1. state'.err = "operation_failed" /\ svc' = svc
            BY <2>c, <4>2 DEF InterruptedState
          <5>2. AtCurrent
            BY <2>c, <4>2 DEF NeedsRollback, MutatingPhases
          <5> QED
            BY <3>1, <3>2, <5>1, <5>2
        <4> QED
          BY <4>1, <4>2
      <3>4. EvidenceInv'
        BY <3>1, <3>2, EvidenceStays
      <3>5. BackupInv' /\ ApplyInv' /\ RollbackInv'
        BY <3>1, <3>2
      <3> QED
        BY <3>3, <3>4, <3>5
    <2> QED
      BY <1>2, <2>a, <2>b, <2>c DEF RecoverInterruptedOperation
  <1>3. CASE ReconcileFinalizing
    <2>1. StateInv' /\ BackupInv' /\ ApplyInv'
      BY <1>3 DEF ReconcileFinalizing, FinalizedState, FinalizerGone
    <2>2. RollbackInv' /\ ClosedInv'
      BY <1>3 DEF ReconcileFinalizing, FinalizedState, FinalizerGone
    <2>3. EvidenceInv'
      BY <1>3, EvidenceStays DEF ReconcileFinalizing, FinalizedState,
          FinalizerGone
    <2> QED
      BY <2>1, <2>2, <2>3
  <1> QED
    BY <1>1, <1>2, <1>3 DEF RecoveryStep

\* The watchdog preserves the release.
LEMMA WatchdogRelease ==
  ASSUME ~AmbiguousLaunch, ~WriteFaults, TypeInv, TypeInv', OwnerInv, ReleaseInv,
         WatchdogStep
  PROVE  ReleaseInv'
  <1> USE UpdaterAssumption DEF TypeInv, TypeOK, LocalTypeOK, DiskTypeOK,
      CounterTypeOK, StateType, Contents, gateVars, finalizer, disk, counters,
      local, ActivePcs, DownloadPcs, EarlyApplyPcs, SwitchedApplyPcs,
      RollbackPcs, PreparePcs, CompletePcs, RollbackErrorPcs, FailPcs,
      IdlePcs, ApplyPcs, StagedPcs, RestoredPcs, RunningPcs, OwnerInv,
      RollbackOwes, ApplyPhase, LaunchPhase, FinalizerAlone, StateInv,
      CurrentNamed, ConsistentUnlessOwed, RecoveryAtRest, StageNamed,
      OwedBackup, RecoveryBackup, AtCurrent, Retriable, OwedOp, Owing,
      RecoveryRequired, BackupInv, BackupBegun, BackupDone, NoFiles, Copies,
      ApplyInv, ApplyBackup, ApplyStaged, ApplySwitched, ApplyLocals,
      ClosedInv, StoppedPcs, RollbackInv, RollbackFrom, FailedFrom,
      RollbackFiles, WatchedPcs, Watched, CompleteBackup, CutShort,
      ReleaseInv, NoBackup, Stopped
  <1>1. CASE Watchdog
    <2>1. StateInv' /\ BackupInv' /\ ApplyInv'
      BY <1>1 DEF Watchdog, HolderReady
    <2>2. RollbackInv' /\ ClosedInv'
      BY <1>1 DEF Watchdog, HolderReady
    <2>3. EvidenceInv'
      BY <1>1, EvidenceStays DEF Watchdog, HolderReady
    <2> QED
      BY <2>1, <2>2, <2>3
  <1>2. CASE WatchdogStop
    <2>1. StateInv' /\ BackupInv' /\ ApplyInv'
      BY <1>2 DEF WatchdogStop, AfterTick
    <2>2. RollbackInv' /\ ClosedInv'
      BY <1>2 DEF WatchdogStop, AfterTick
    <2>3. EvidenceInv'
      BY <1>2, EvidenceStays DEF WatchdogStop, AfterTick
    <2> QED
      BY <2>1, <2>2, <2>3
  <1> QED
    BY <1>1, <1>2 DEF WatchdogStep

\* The finalizer container preserves the release.
LEMMA FinalizerRelease ==
  ASSUME ~AmbiguousLaunch, ~WriteFaults, TypeInv, TypeInv', OwnerInv, ReleaseInv,
         FinalizerStep
  PROVE  ReleaseInv'
  <1> USE UpdaterAssumption DEF TypeInv, TypeOK, LocalTypeOK, DiskTypeOK,
      CounterTypeOK, StateType, Contents, gateVars, finalizer, disk, counters,
      local, ActivePcs, DownloadPcs, EarlyApplyPcs, SwitchedApplyPcs,
      RollbackPcs, PreparePcs, CompletePcs, RollbackErrorPcs, FailPcs,
      IdlePcs, ApplyPcs, StagedPcs, RestoredPcs, RunningPcs, OwnerInv,
      RollbackOwes, ApplyPhase, LaunchPhase, FinalizerAlone, StateInv,
      CurrentNamed, ConsistentUnlessOwed, RecoveryAtRest, StageNamed,
      OwedBackup, RecoveryBackup, AtCurrent, Retriable, OwedOp, Owing,
      RecoveryRequired, BackupInv, BackupBegun, BackupDone, NoFiles, Copies,
      ApplyInv, ApplyBackup, ApplyStaged, ApplySwitched, ApplyLocals,
      ClosedInv, StoppedPcs, RollbackInv, RollbackFrom, FailedFrom,
      RollbackFiles, WatchedPcs, Watched, CompleteBackup, CutShort,
      ReleaseInv, NoBackup, Stopped
  <1>1. CASE FinalizerPatch
    <2>1. StateInv' /\ BackupInv' /\ ApplyInv'
      BY <1>1 DEF FinalizerPatch
    <2>2. RollbackInv' /\ ClosedInv'
      BY <1>1 DEF FinalizerPatch
    <2>3. EvidenceInv'
      BY <1>1, EvidenceStays DEF FinalizerPatch
    <2> QED
      BY <2>1, <2>2, <2>3
  <1>2. CASE FinalizerReplace
    <2>1. StateInv' /\ BackupInv' /\ ApplyInv'
      BY <1>2 DEF FinalizerReplace, Die
    <2>2. RollbackInv' /\ ClosedInv'
      BY <1>2 DEF FinalizerReplace, Die
    <2>3. EvidenceInv'
      BY <1>2, EvidenceStays DEF FinalizerReplace, Die
    <2> QED
      BY <2>1, <2>2, <2>3
  <1>3. CASE FinalizerDone
    <2>1. StateInv' /\ BackupInv' /\ ApplyInv'
      BY <1>3 DEF FinalizerDone, FinalizerSucceeded
    <2>2. RollbackInv' /\ ClosedInv'
      BY <1>3 DEF FinalizerDone, FinalizerSucceeded
    <2>3. EvidenceInv'
      BY <1>3, EvidenceStays DEF FinalizerDone, FinalizerSucceeded
    <2> QED
      BY <2>1, <2>2, <2>3
  <1> QED
    BY <1>1, <1>2, <1>3 DEF FinalizerStep

\* Every failure and every crash preserves the release.
LEMMA FaultRelease ==
  ASSUME ~AmbiguousLaunch, ~WriteFaults, TypeInv, TypeInv', OwnerInv, ReleaseInv,
         FaultStep
  PROVE  ReleaseInv'
  <1> USE UpdaterAssumption DEF TypeInv, TypeOK, LocalTypeOK, DiskTypeOK,
      CounterTypeOK, StateType, Contents, gateVars, finalizer, disk, counters,
      local, ActivePcs, DownloadPcs, EarlyApplyPcs, SwitchedApplyPcs,
      RollbackPcs, PreparePcs, CompletePcs, RollbackErrorPcs, FailPcs,
      IdlePcs, ApplyPcs, StagedPcs, RestoredPcs, RunningPcs, OwnerInv,
      RollbackOwes, ApplyPhase, LaunchPhase, FinalizerAlone, StateInv,
      CurrentNamed, ConsistentUnlessOwed, RecoveryAtRest, StageNamed,
      OwedBackup, RecoveryBackup, AtCurrent, Retriable, OwedOp, Owing,
      RecoveryRequired, BackupInv, BackupBegun, BackupDone, NoFiles, Copies,
      ApplyInv, ApplyBackup, ApplyStaged, ApplySwitched, ApplyLocals,
      ClosedInv, StoppedPcs, RollbackInv, RollbackFrom, FailedFrom,
      RollbackFiles, WatchedPcs, Watched, CompleteBackup, CutShort,
      ReleaseInv, NoBackup, Stopped
  <1>1. CASE OperationFails
    <2>1. StateInv'
      BY <1>1 DEF OperationFails, Fault, otherGateVars, MayFail, WritePcs,
          Residue, EmptyBackup, SomeContainersAt
    <2>2. BackupInv'
      BY <1>1 DEF OperationFails, Fault, otherGateVars, MayFail, WritePcs,
          Residue, EmptyBackup, SomeContainersAt
    <2>3. ApplyInv'
      BY <1>1 DEF OperationFails, Fault, otherGateVars, MayFail, WritePcs,
          Residue, EmptyBackup, SomeContainersAt
    <2>4. RollbackInv'
      BY <1>1 DEF OperationFails, Fault, otherGateVars, MayFail, WritePcs,
          Residue, EmptyBackup, SomeContainersAt
    <2>5. ClosedInv'
      BY <1>1 DEF OperationFails, Fault, otherGateVars, MayFail, WritePcs,
          Residue, EmptyBackup, SomeContainersAt
    <2>6. EvidenceInv'
      BY <1>1, ResidueEvidence DEF OperationFails, Fault
    <2> QED
      BY <2>1, <2>2, <2>3, <2>4, <2>5, <2>6
  <1>2. CASE SwitchedApplyFails
    <2>1. StateInv' /\ BackupInv' /\ ApplyInv'
      BY <1>2 DEF SwitchedApplyFails, Fault, otherGateVars, MayFail, WritePcs,
          Residue, EmptyBackup, SomeContainersAt
    <2>2. RollbackInv' /\ ClosedInv'
      BY <1>2 DEF SwitchedApplyFails, Fault, otherGateVars, MayFail, WritePcs,
          Residue, EmptyBackup, SomeContainersAt
    <2>3. EvidenceInv'
      BY <1>2, EvidenceStays DEF SwitchedApplyFails, Fault, otherGateVars,
          MayFail, WritePcs, Residue, EmptyBackup, SomeContainersAt
    <2> QED
      BY <2>1, <2>2, <2>3
  <1>3. CASE RollbackFails
    <2>1. StateInv'
      BY <1>3 DEF RollbackFails, Fault, RollbackErrorPc, otherGateVars,
          StatementResidue, StartHolder, EnableGate, ReleaseHolder,
          DisableGate, MayFail, WritePcs, Residue, EmptyBackup,
          SomeContainersAt
    <2>2. BackupInv'
      BY <1>3 DEF RollbackFails, Fault, RollbackErrorPc, otherGateVars,
          StatementResidue, StartHolder, EnableGate, ReleaseHolder,
          DisableGate, MayFail, WritePcs, Residue, EmptyBackup,
          SomeContainersAt
    <2>3. ApplyInv'
      BY <1>3 DEF RollbackFails, Fault, RollbackErrorPc, otherGateVars,
          StatementResidue, StartHolder, EnableGate, ReleaseHolder,
          DisableGate, MayFail, WritePcs, Residue, EmptyBackup,
          SomeContainersAt
    <2>4. RollbackInv'
      BY <1>3 DEF RollbackFails, Fault, RollbackErrorPc, otherGateVars,
          StatementResidue, StartHolder, EnableGate, ReleaseHolder,
          DisableGate, MayFail, WritePcs, Residue, EmptyBackup,
          SomeContainersAt
    <2>5. ClosedInv'
      BY <1>3 DEF RollbackFails, Fault, RollbackErrorPc, otherGateVars,
          StatementResidue, StartHolder, EnableGate, ReleaseHolder,
          DisableGate, MayFail, WritePcs, Residue, EmptyBackup,
          SomeContainersAt
    <2>6. EvidenceInv'
      BY <1>3, EvidenceStays DEF RollbackFails, Fault, RollbackErrorPc,
          otherGateVars, StatementResidue, StartHolder, EnableGate,
          ReleaseHolder, DisableGate, MayFail, WritePcs, Residue, EmptyBackup,
          SomeContainersAt
    <2> QED
      BY <2>1, <2>2, <2>3, <2>4, <2>5, <2>6
  <1>4. CASE ApplyLaunchFails
    <2>1. StateInv' /\ BackupInv' /\ ApplyInv'
      BY <1>4 DEF ApplyLaunchFails, EndOperation, Fault
    <2>2. RollbackInv' /\ ClosedInv'
      BY <1>4 DEF ApplyLaunchFails, EndOperation, Fault
    <2>3. EvidenceInv'
      BY <1>4, EvidenceStays DEF ApplyLaunchFails, EndOperation, Fault
    <2> QED
      BY <2>1, <2>2, <2>3
  <1>5. CASE WatchdogStopFails
    <2>1. StateInv'
      BY <1>5 DEF WatchdogStopFails, Fault, AfterTick
    <2>2. BackupInv'
      BY <1>5 DEF WatchdogStopFails, Fault, AfterTick
    <2>3. ApplyInv'
      BY <1>5 DEF WatchdogStopFails, Fault, AfterTick
    <2>4. RollbackInv'
      BY <1>5 DEF WatchdogStopFails, Fault, AfterTick
    <2>5. ClosedInv'
      BY <1>5 DEF WatchdogStopFails, Fault, AfterTick
    <2>6. EvidenceInv'
      BY <1>5, EvidenceStays DEF WatchdogStopFails, Fault, AfterTick
    <2> QED
      BY <2>1, <2>2, <2>3, <2>4, <2>5, <2>6
  <1>6. CASE Crash
    <2>1. StateInv'
      <3>0. state' = state /\ pc' = "down" /\ nextOp' = nextOp
        BY <1>6 DEF Crash, Die
      <3>1. CASE UNCHANGED <<disk, svc>>
        BY <3>0, <3>1
      <3>2. CASE Owing
        <4>1. UNCHANGED backups
          BY <1>6, <3>2 DEF Crash, Residue
        <4> QED
          BY <3>0, <3>2, <4>1
      <3>3. CASE ~Owing /\ ~UNCHANGED <<disk, svc>>
        BY <1>6, <3>3 DEF Crash, Die, Residue, EmptyBackup, SomeContainersAt
      <3> QED
        BY <3>1, <3>2, <3>3
    <2>2. BackupInv'
      BY <1>6 DEF Crash, Fault, otherGateVars, Die, Residue, EmptyBackup,
          SomeContainersAt
    <2>3. ApplyInv'
      BY <1>6 DEF Crash, Fault, otherGateVars, Die, Residue, EmptyBackup,
          SomeContainersAt
    <2>4. RollbackInv'
      BY <1>6 DEF Crash, Fault, otherGateVars, Die, Residue, EmptyBackup,
          SomeContainersAt
    <2>5. ClosedInv'
      BY <1>6 DEF Crash, Fault, otherGateVars, Die, Residue, EmptyBackup,
          SomeContainersAt
    <2>6. EvidenceInv'
      BY <1>6, ResidueEvidence DEF Crash, Fault
    <2> QED
      BY <2>1, <2>2, <2>3, <2>4, <2>5, <2>6
  <1>7. CASE RecoverFails
    <2>1. StateInv' /\ BackupInv' /\ ApplyInv'
      BY <1>7, SMTT(30) DEF RecoverFails, Fault, Die, NeedsRollback, SomeContainersAt
    <2>2. RollbackInv' /\ ClosedInv'
      BY <1>7 DEF RecoverFails, Fault, Die, NeedsRollback, SomeContainersAt
    <2>3. EvidenceInv'
      BY <1>7, EvidenceStays DEF RecoverFails, Fault, Die, NeedsRollback,
          SomeContainersAt
    <2> QED
      BY <2>1, <2>2, <2>3
  <1>8. CASE FinalizerFails
    <2>1. StateInv' /\ BackupInv' /\ ApplyInv'
      BY <1>8 DEF FinalizerFails, Fault, FinalizerSucceeded
    <2>2. RollbackInv' /\ ClosedInv'
      BY <1>8 DEF FinalizerFails, Fault, FinalizerSucceeded
    <2>3. EvidenceInv'
      BY <1>8, EvidenceStays DEF FinalizerFails, Fault, FinalizerSucceeded
    <2> QED
      BY <2>1, <2>2, <2>3
  <1>9. CASE FinalizerKilled
    <2>1. StateInv' /\ BackupInv' /\ ApplyInv'
      BY <1>9 DEF FinalizerKilled, Fault
    <2>2. RollbackInv' /\ ClosedInv'
      BY <1>9 DEF FinalizerKilled, Fault
    <2>3. EvidenceInv'
      BY <1>9, EvidenceStays DEF FinalizerKilled, Fault
    <2> QED
      BY <2>1, <2>2, <2>3
  <1>10. CASE LoseHolder
    <2>1. StateInv' /\ BackupInv' /\ ApplyInv'
      BY <1>10, SMTT(30) DEF LoseHolder, Fault, HolderLost
    <2>2. RollbackInv' /\ ClosedInv'
      BY <1>10 DEF LoseHolder, Fault, HolderLost
    <2>3. EvidenceInv'
      BY <1>10, EvidenceStays DEF LoseHolder, Fault, HolderLost
    <2> QED
      BY <2>1, <2>2, <2>3
  <1> QED
    BY <1>1, <1>2, <1>3, <1>4, <1>5, <1>6, <1>7, <1>8, <1>9, <1>10 DEF FaultStep
\* A published manifest preserves the release.
LEMMA FetchRelease ==
  ASSUME ~AmbiguousLaunch, ~WriteFaults, TypeInv, TypeInv', OwnerInv, ReleaseInv,
         FetchStep
  PROVE  ReleaseInv'
  <1> USE UpdaterAssumption DEF TypeInv, TypeOK, LocalTypeOK, DiskTypeOK,
      CounterTypeOK, StateType, Contents, gateVars, finalizer, disk, counters,
      local, ActivePcs, DownloadPcs, EarlyApplyPcs, SwitchedApplyPcs,
      RollbackPcs, PreparePcs, CompletePcs, RollbackErrorPcs, FailPcs,
      IdlePcs, ApplyPcs, StagedPcs, RestoredPcs, RunningPcs, OwnerInv,
      RollbackOwes, ApplyPhase, LaunchPhase, FinalizerAlone, StateInv,
      CurrentNamed, ConsistentUnlessOwed, RecoveryAtRest, StageNamed,
      OwedBackup, RecoveryBackup, AtCurrent, Retriable, OwedOp, Owing,
      RecoveryRequired, BackupInv, BackupBegun, BackupDone, NoFiles, Copies,
      ApplyInv, ApplyBackup, ApplyStaged, ApplySwitched, ApplyLocals,
      ClosedInv, StoppedPcs, RollbackInv, RollbackFrom, FailedFrom,
      RollbackFiles, WatchedPcs, Watched, CompleteBackup, CutShort,
      ReleaseInv, NoBackup, Stopped
  <1>1. PICK v \in Versions : CheckFinds(v) \/ DownloadManifest(v)
    BY DEF FetchStep
  <1>2. CASE CheckFinds(v)
    <2>1. StateInv' /\ BackupInv' /\ ApplyInv'
      BY <1>2 DEF CheckFinds, EndOperation
    <2>2. RollbackInv' /\ ClosedInv'
      BY <1>2 DEF CheckFinds, EndOperation
    <2>3. EvidenceInv'
      BY <1>2, EvidenceStays DEF CheckFinds
    <2> QED
      BY <2>1, <2>2, <2>3
  <1>3. CASE DownloadManifest(v)
    <2>1. StateInv' /\ BackupInv' /\ ApplyInv'
      BY <1>3 DEF DownloadManifest
    <2>2. RollbackInv' /\ ClosedInv'
      BY <1>3 DEF DownloadManifest
    <2>3. EvidenceInv'
      BY <1>3, EvidenceStays DEF DownloadManifest
    <2> QED
      BY <2>1, <2>2, <2>3
  <1> QED
    BY <1>1, <1>2, <1>3

\* A step that leaves the updater alone preserves the release: the mutations of
\* the API, the holder sessions, stuttering.
LEMMA DatabaseRelease ==
  ASSUME TypeInv, TypeInv', ReleaseInv, UNCHANGED updaterVars
  PROVE  ReleaseInv'
  <1> USE UpdaterAssumption DEF TypeInv, TypeOK, LocalTypeOK, DiskTypeOK,
      CounterTypeOK, StateType, Contents, gateVars, finalizer, disk, counters,
      local, ActivePcs, DownloadPcs, EarlyApplyPcs, SwitchedApplyPcs,
      RollbackPcs, PreparePcs, CompletePcs, RollbackErrorPcs, FailPcs,
      IdlePcs, ApplyPcs, StagedPcs, RestoredPcs, RunningPcs, OwnerInv,
      RollbackOwes, ApplyPhase, LaunchPhase, FinalizerAlone, StateInv,
      CurrentNamed, ConsistentUnlessOwed, RecoveryAtRest, StageNamed,
      OwedBackup, RecoveryBackup, AtCurrent, Retriable, OwedOp, Owing,
      RecoveryRequired, BackupInv, BackupBegun, BackupDone, NoFiles, Copies,
      ApplyInv, ApplyBackup, ApplyStaged, ApplySwitched, ApplyLocals,
      ClosedInv, StoppedPcs, RollbackInv, RollbackFrom, FailedFrom,
      RollbackFiles, WatchedPcs, Watched, CompleteBackup, CutShort,
      ReleaseInv, NoBackup, Stopped
  <1>1. StateInv' /\ BackupInv' /\ ApplyInv'
    BY DEF updaterVars
  <1>2. RollbackInv' /\ ClosedInv'
    BY DEF updaterVars
  <1>3. EvidenceInv'
    BY EvidenceStays DEF updaterVars
  <1> QED
    BY <1>1, <1>2, <1>3

\* Every step preserves the release.
LEMMA NextRelease ==
  ASSUME ~AmbiguousLaunch, ~WriteFaults, TypeInv, OwnerInv, ReleaseInv, [Next]_vars
  PROVE  ReleaseInv'
  <1>0. TypeInv'
    BY NextType
  <1>1. CASE UNCHANGED vars
    BY <1>0, <1>1, DatabaseRelease DEF vars
  <1>2. CASE OperationStep
    BY <1>0, <1>2, FetchRelease, DownloadRelease, ApplyRelease, PrepareRelease,
       CompleteRelease, FailureRelease
    DEF OperationStep, DownloadStep, ApplyStep, PrepareStep, CompleteStep, FailureStep
  <1>3. CASE RecoveryStep
    BY <1>0, <1>3, RecoveryRelease
  <1>4. CASE ApiMutates \/ DatabaseStep
    BY <1>0, <1>4, DatabaseRelease DEF ApiMutates, DatabaseStep
  <1> QED
    BY <1>0, <1>1, <1>2, <1>3, <1>4, StartRelease, WatchdogRelease,
       FinalizerRelease, FaultRelease
    DEF Next, ProcessStep, RecoveryStep

\* A fresh updater runs one version and owes nothing.
LEMMA InitRelease == Init => ReleaseInv
  <1> USE UpdaterAssumption DEF TypeInv, TypeOK, LocalTypeOK, DiskTypeOK,
      CounterTypeOK, StateType, Contents, gateVars, finalizer, disk, counters,
      local, ActivePcs, DownloadPcs, EarlyApplyPcs, SwitchedApplyPcs,
      RollbackPcs, PreparePcs, CompletePcs, RollbackErrorPcs, FailPcs,
      IdlePcs, ApplyPcs, StagedPcs, RestoredPcs, RunningPcs, OwnerInv,
      RollbackOwes, ApplyPhase, LaunchPhase, FinalizerAlone, StateInv,
      CurrentNamed, ConsistentUnlessOwed, RecoveryAtRest, StageNamed,
      OwedBackup, RecoveryBackup, AtCurrent, Retriable, OwedOp, Owing,
      RecoveryRequired, BackupInv, BackupBegun, BackupDone, NoFiles, Copies,
      ApplyInv, ApplyBackup, ApplyStaged, ApplySwitched, ApplyLocals,
      ClosedInv, StoppedPcs, RollbackInv, RollbackFrom, FailedFrom,
      RollbackFiles, WatchedPcs, Watched, CompleteBackup, CutShort,
      ReleaseInv, NoBackup, Stopped
  <1> SUFFICES ASSUME Init PROVE ReleaseInv
    OBVIOUS
  <1>0. 1 \in Versions
    BY DEF Versions
  <1>1. StateInv /\ BackupInv /\ ApplyInv
    BY <1>0 DEF Init
  <1>2. RollbackInv /\ ClosedInv
    BY <1>0 DEF Init
  <1>3. EvidenceInv
    BY DEF Init, EvidenceInv, Evidence, FreshBackups
  <1> QED
    BY <1>1, <1>2, <1>3

\* The release can always be carried on with: however an apply, a rollback or
\* the process was interrupted, an updater that accepts ordinary operations runs
\* one version throughout, a rollback it owes names a backup to retry from, and
\* the rollback it offers leads to an older version.
THEOREM ReleaseRecovers ==
  ASSUME ~AmbiguousLaunch, ~WriteFaults
  PROVE  Spec => []ReleaseRecoverable
  <1>1. Init => TypeInv /\ OwnerInv /\ ReleaseInv
    BY InitTypeInv, InitOwner, InitRelease
  <1>2. TypeInv /\ OwnerInv /\ ReleaseInv /\ [Next]_vars
          => (TypeInv /\ OwnerInv /\ ReleaseInv)'
    BY NextType, NextOwner, NextRelease DEF TypeInv
  <1>3. TypeInv /\ ReleaseInv => ReleaseRecoverable
    <2> SUFFICES ASSUME TypeInv, ReleaseInv PROVE ReleaseRecoverable
      OBVIOUS
    <2>1. ReleaseConsistent
      BY DEF ReleaseInv, StateInv, ConsistentUnlessOwed, AtCurrent, ReleaseConsistent,
             Settled, Owing, MutatingPhases
    <2>2. RecoveryHasBackup
      BY UpdaterAssumption
      DEF ReleaseInv, StateInv, RecoveryBackup, Retriable, RecoveryHasBackup
    <2>3. EvidenceIsOlderBackup
      BY DEF ReleaseInv, EvidenceInv, Evidence, Copies, EvidenceIsOlderBackup
    <2> QED
      BY <2>1, <2>2, <2>3 DEF TypeInv, ReleaseRecoverable
  <1> QED
    BY <1>1, <1>2, <1>3, PTL DEF Spec

\* A rollback that did not complete leaves no service running, however often it
\* was retried and wherever the process died, unless `docker stop` failed.
THEOREM FailedRollbackIsClosed ==
  ASSUME ~AmbiguousLaunch, ~WriteFaults
  PROVE  Spec => []FailClosed
  <1>1. Init => TypeInv /\ OwnerInv /\ ReleaseInv
    BY InitTypeInv, InitOwner, InitRelease
  <1>2. TypeInv /\ OwnerInv /\ ReleaseInv /\ [Next]_vars
          => (TypeInv /\ OwnerInv /\ ReleaseInv)'
    BY NextType, NextOwner, NextRelease DEF TypeInv
  <1>3. ReleaseInv => FailClosed
    BY DEF ReleaseInv, ClosedInv, FailClosed
  <1> QED
    BY <1>1, <1>2, <1>3, PTL DEF Spec

-----------------------------------------------------------------------------
(* An API from before migration 027 never meets v2 state.                  *)

\* A version that knows no gate, and a database without v2 state and without a
\* mutation that may still write some.
OlderThanGate(v) == v \in Versions /\ v < GateVersion
NoNewState == ~v2 /\ mut \in {"none", "writing_old"}

\* An API, or a release on disk, from before migration 027 has no v2 state under
\* it, nor a mutation that could still write one.
OldInv ==
  /\ OlderThanGate(svc["api"]) => NoNewState
  /\ OlderThanGate(files.env)
       => NoNewState /\ (svc["api"] \in Versions => OlderThanGate(svc["api"]))
  /\ pc \in AfterCheckPcs => ~v2

\* Admitting an operation puts no old API over v2 state.
LEMMA StartOld ==
  ASSUME ~WriteFaults, TypeInv, TypeInv', FreezeInv, ReleaseInv, OldInv, StartStep
  PROVE  OldInv'
  <1> USE UpdaterAssumption DEF TypeInv, TypeOK, GateTypeOK, LocalTypeOK,
      DiskTypeOK, Containers, Contents, Versions, gateVars, finalizer, disk,
      counters, local, OldInv, OlderThanGate, NoNewState, AfterCheckPcs,
      Mutations, Stopped
  <1>1. CASE StartCheck
    BY <1>1 DEF StartCheck, StartOperation, Admitted, MutatingPhases
  <1>2. CASE StartDownload
    BY <1>2 DEF StartDownload, StartOperation, Admitted, MutatingPhases
  <1>3. CASE StartApply
    BY <1>3 DEF StartApply, StartOperation, Admitted, MutatingPhases
  <1>4. CASE StartRestart
    BY <1>4 DEF StartRestart, StartOperation, Admitted, MutatingPhases
  <1>5. CASE StartRollback
    BY <1>5 DEF StartRollback, StartOperation, Admitted, MutatingPhases,
        RollbackBackup, BackupUsable
  <1> QED
    BY <1>1, <1>2, <1>3, <1>4, <1>5 DEF StartStep

\* Downloading and restarting puts no old API over v2 state.
LEMMA DownloadOld ==
  ASSUME ~WriteFaults, TypeInv, TypeInv', FreezeInv, ReleaseInv, OldInv, DownloadStep
  PROVE  OldInv'
  <1> USE UpdaterAssumption DEF TypeInv, TypeOK, GateTypeOK, LocalTypeOK,
      DiskTypeOK, Containers, Contents, Versions, gateVars, finalizer, disk,
      counters, local, OldInv, OlderThanGate, NoNewState, AfterCheckPcs,
      Mutations, Stopped
  <1>1. CASE DownloadCompose
    BY <1>1 DEF DownloadCompose
  <1>2. CASE DownloadEnv
    BY <1>2 DEF DownloadEnv
  <1>3. CASE DownloadReady
    BY <1>3 DEF DownloadReady, EndOperation
  <1>4. CASE RestartServices
    BY <1>4 DEF RestartServices, EndOperation, ReleaseInv, StateInv, ApplyInv,
        ApplyLocals, ConsistentUnlessOwed, RecoveryAtRest, AtCurrent, IdlePcs
  <1> QED
    BY <1>1, <1>2, <1>3, <1>4 DEF DownloadStep

\* Every step of applyUpdate puts no old API over v2 state.
LEMMA ApplyOld ==
  ASSUME ~WriteFaults, TypeInv, TypeInv', FreezeInv, ReleaseInv, OldInv, ApplyStep
  PROVE  OldInv'
  <1> USE UpdaterAssumption DEF TypeInv, TypeOK, GateTypeOK, LocalTypeOK,
      DiskTypeOK, Containers, Contents, Versions, gateVars, finalizer, disk,
      counters, local, OldInv, OlderThanGate, NoNewState, AfterCheckPcs,
      Mutations, Stopped
  <1>1. CASE ApplyValidate
    BY <1>1 DEF ApplyValidate, StagedAssetsValid
  <1>2. CASE ApplyBackupEnv
    BY <1>2 DEF ApplyBackupEnv
  <1>3. CASE ApplyBackupCompose
    BY <1>3 DEF ApplyBackupCompose
  <1>4. CASE ApplyBackupReady
    BY <1>4 DEF ApplyBackupReady
  <1>5. CASE ApplyMarkSwitched
    BY <1>5 DEF ApplyMarkSwitched
  <1>6. CASE ApplyRenameCompose
    BY <1>6 DEF ApplyRenameCompose
  <1>7. CASE ApplyRenameEnv
    BY <1>7 DEF ApplyRenameEnv, ReleaseInv, ApplyInv, ApplyStaged,
        ApplySwitched, ApplyLocals, StateInv, CurrentNamed, ApplyPcs,
        SwitchedApplyPcs, EarlyApplyPcs
  <1>8. CASE ApplyMigrate
    BY <1>8 DEF ApplyMigrate
  <1>9. CASE ApplyUp
    BY <1>9 DEF ApplyUp, ReleaseInv, ApplyInv, ApplySwitched, Copies,
        ApplyLocals, StateInv, CurrentNamed, ApplyPcs, SwitchedApplyPcs,
        EarlyApplyPcs
  <1>10. CASE ApplyVerifying
    BY <1>10 DEF ApplyVerifying
  <1>11. CASE ApplyHealthy
    BY <1>11 DEF ApplyHealthy
  <1>12. CASE ApplyFinalizing
    BY <1>12 DEF ApplyFinalizing
  <1>13. CASE ApplyLaunch
    BY <1>13 DEF ApplyLaunch, EndOperation
  <1> QED
    BY <1>1, <1>2, <1>3, <1>4, <1>5, <1>6, <1>7, <1>8, <1>9, <1>10, <1>11,
        <1>12, <1>13 DEF ApplyStep

\* Every step of prepareProjectionRollback puts no old API over v2 state.
LEMMA PrepareOld ==
  ASSUME ~WriteFaults, TypeInv, TypeInv', FreezeInv, ReleaseInv, OldInv, PrepareStep
  PROVE  OldInv'
  <1> USE UpdaterAssumption DEF TypeInv, TypeOK, GateTypeOK, LocalTypeOK,
      DiskTypeOK, Containers, Contents, Versions, gateVars, finalizer, disk,
      counters, local, OldInv, OlderThanGate, NoNewState, AfterCheckPcs,
      Mutations, Stopped
  <1>1. CASE RbStop
    BY <1>1 DEF RbStop
  <1>2. CASE RbGate
    BY <1>2 DEF RbGate, EnableGate
  <1>3. CASE RbStale
    BY <1>3 DEF RbStale, ReleaseHolder
  <1>4. CASE RbCheck
    BY <1>4 DEF RbCheck, AssertSafe, CheckUnblocked, RollbackSafe
  <1>5. CASE RbCheckRefuses
    BY <1>5 DEF RbCheckRefuses, RollbackErrorPc, CheckUnblocked, RollbackSafe
  <1>6. CASE RbHolder
    BY <1>6 DEF RbHolder, StartHolder
  <1>7. CASE RbReady
    BY <1>7 DEF RbReady, HolderReady
  <1>8. CASE RbReadyTimeout
    BY <1>8 DEF RbReadyTimeout, RollbackErrorPc
  <1> QED
    BY <1>1, <1>2, <1>3, <1>4, <1>5, <1>6, <1>7, <1>8 DEF PrepareStep

\* Every step of completeProjectionRollback puts no old API over v2 state.
LEMMA CompleteOld ==
  ASSUME ~WriteFaults, TypeInv, TypeInv', FreezeInv, ReleaseInv, OldInv, CompleteStep
  PROVE  OldInv'
  <1> USE UpdaterAssumption DEF TypeInv, TypeOK, GateTypeOK, LocalTypeOK,
      DiskTypeOK, Containers, Contents, Versions, gateVars, finalizer, disk,
      counters, local, OldInv, OlderThanGate, NoNewState, AfterCheckPcs,
      Mutations, Stopped
  <1>1. CASE RbProbe
    BY <1>1 DEF RbProbe, AfterProbe, ProbePcs, HolderReady
  <1>2. CASE RbRestoreEnv
    BY <1>2 DEF RbRestoreEnv, FreezeInv, QuietAfterCheck
  <1>3. CASE RbRestoreCompose
    BY <1>3 DEF RbRestoreCompose
  <1>4. CASE RbWorker
    BY <1>4 DEF RbWorker, ComposeUp, FreezeInv, QuietAfterCheck
  <1>5. CASE RbUp
    BY <1>5 DEF RbUp, ComposeUp, FreezeInv, QuietAfterCheck
  <1>6. CASE RbVerifying
    BY <1>6 DEF RbVerifying
  <1>7. CASE RbHealth
    BY <1>7 DEF RbHealth, HolderReady
  <1>8. CASE ClearWatchdog
    BY <1>8 DEF ClearWatchdog
  <1>9. CASE RbWatchdogOff
    BY <1>9 DEF RbWatchdogOff
  <1>10. CASE RbDisable
    BY <1>10 DEF RbDisable, DisableGate
  <1>11. CASE RbRelease
    BY <1>11 DEF RbRelease, ReleaseHolder, ReleasePossible
  <1>12. CASE RbDone
    BY <1>12 DEF RbDone, EndOperation, NoBackup
  <1> QED
    BY <1>1, <1>2, <1>3, <1>4, <1>5, <1>6, <1>7, <1>8, <1>9, <1>10, <1>11,
        <1>12 DEF CompleteStep

\* Every failure handler puts no old API over v2 state.
LEMMA FailureOld ==
  ASSUME ~WriteFaults, TypeInv, TypeInv', FreezeInv, ReleaseInv, OldInv, FailureStep
  PROVE  OldInv'
  <1> USE UpdaterAssumption DEF TypeInv, TypeOK, GateTypeOK, LocalTypeOK,
      DiskTypeOK, Containers, Contents, Versions, gateVars, finalizer, disk,
      counters, local, OldInv, OlderThanGate, NoNewState, AfterCheckPcs,
      Mutations, Stopped
  <1>1. CASE RbFailGate
    BY <1>1 DEF RbFailGate, EnableGate
  <1>2. CASE RbFailStop
    BY <1>2 DEF RbFailStop, RollbackErrorPc
  <1>3. CASE RbFailMark
    BY <1>3 DEF RbFailMark
  <1>4. CASE HandleOperationFailure
    BY <1>4 DEF HandleOperationFailure, EndOperation
  <1> QED
    BY <1>1, <1>2, <1>3, <1>4 DEF FailureStep

\* A restart with what it recovers puts no old API over v2 state.
LEMMA RecoveryOld ==
  ASSUME ~WriteFaults, TypeInv, TypeInv', FreezeInv, ReleaseInv, OldInv, RecoveryStep
  PROVE  OldInv'
  <1> USE UpdaterAssumption DEF TypeInv, TypeOK, GateTypeOK, LocalTypeOK,
      DiskTypeOK, Containers, Contents, Versions, gateVars, finalizer, disk,
      counters, local, OldInv, OlderThanGate, NoNewState, AfterCheckPcs,
      Mutations, Stopped
  <1>1. CASE Restart
    BY <1>1 DEF Restart
  <1>2. CASE RecoverInterruptedOperation
    BY <1>2 DEF RecoverInterruptedOperation, FinalizedState, InterruptedState,
        NeedsRollback, FinalizerGone, MutatingPhases, ReleaseFilesDiverged
  <1>3. CASE ReconcileFinalizing
    BY <1>3 DEF ReconcileFinalizing, FinalizedState, FinalizerGone
  <1> QED
    BY <1>1, <1>2, <1>3 DEF RecoveryStep

\* The watchdog puts no old API over v2 state.
LEMMA WatchdogOld ==
  ASSUME ~WriteFaults, TypeInv, TypeInv', FreezeInv, ReleaseInv, OldInv, WatchdogStep
  PROVE  OldInv'
  <1> USE UpdaterAssumption DEF TypeInv, TypeOK, GateTypeOK, LocalTypeOK,
      DiskTypeOK, Containers, Contents, Versions, gateVars, finalizer, disk,
      counters, local, OldInv, OlderThanGate, NoNewState, AfterCheckPcs,
      Mutations, Stopped
  <1>1. CASE Watchdog
    BY <1>1 DEF Watchdog, HolderReady
  <1>2. CASE WatchdogStop
    BY <1>2 DEF WatchdogStop, AfterTick
  <1> QED
    BY <1>1, <1>2 DEF WatchdogStep

\* The finalizer container puts no old API over v2 state.
LEMMA FinalizerOld ==
  ASSUME ~WriteFaults, TypeInv, TypeInv', FreezeInv, ReleaseInv, OldInv, FinalizerStep
  PROVE  OldInv'
  <1> USE UpdaterAssumption DEF TypeInv, TypeOK, GateTypeOK, LocalTypeOK,
      DiskTypeOK, Containers, Contents, Versions, gateVars, finalizer, disk,
      counters, local, OldInv, OlderThanGate, NoNewState, AfterCheckPcs,
      Mutations, Stopped
  <1>1. CASE FinalizerPatch
    BY <1>1 DEF FinalizerPatch
  <1>2. CASE FinalizerReplace
    BY <1>2 DEF FinalizerReplace, Die
  <1>3. CASE FinalizerDone
    BY <1>3 DEF FinalizerDone, FinalizerSucceeded
  <1> QED
    BY <1>1, <1>2, <1>3 DEF FinalizerStep

\* Every failure and every crash puts no old API over v2 state.
LEMMA FaultOld ==
  ASSUME ~WriteFaults, TypeInv, TypeInv', FreezeInv, ReleaseInv, OldInv, FaultStep
  PROVE  OldInv'
  <1> USE UpdaterAssumption DEF TypeInv, TypeOK, GateTypeOK, LocalTypeOK,
      DiskTypeOK, Containers, Contents, Versions, gateVars, finalizer, disk,
      counters, local, OldInv, OlderThanGate, NoNewState, AfterCheckPcs,
      Mutations, Stopped
  <1>1. CASE OperationFails
    BY <1>1 DEF OperationFails, Fault, otherGateVars, MayFail, WritePcs,
        Residue, EmptyBackup, SomeContainersAt, EarlyApplyPcs, DownloadPcs
  <1>2. CASE SwitchedApplyFails
    BY <1>2 DEF SwitchedApplyFails, Fault, otherGateVars, MayFail, WritePcs,
        Residue, EmptyBackup, SomeContainersAt, ReleaseInv, ApplyInv,
        ApplySwitched, Copies, ApplyLocals, StateInv, CurrentNamed, ApplyPcs,
        SwitchedApplyPcs, EarlyApplyPcs
  <1>3. CASE RollbackFails
    BY <1>3 DEF RollbackFails, Fault, RollbackErrorPc, otherGateVars,
        StatementResidue, StartHolder, EnableGate, ReleaseHolder, DisableGate,
        MayFail, WritePcs, Residue, EmptyBackup, SomeContainersAt, FreezeInv,
        QuietAfterCheck, RollbackPcs, PreparePcs, CompletePcs,
        RollbackErrorPcs
  <1>4. CASE ApplyLaunchFails
    BY <1>4 DEF ApplyLaunchFails, EndOperation, Fault
  <1>5. CASE WatchdogStopFails
    BY <1>5 DEF WatchdogStopFails, Fault, AfterTick
  <1>6. CASE Crash
    BY <1>6 DEF Crash, Fault, otherGateVars, Die, Residue, EmptyBackup,
        SomeContainersAt, ReleaseInv, ApplyInv, ApplySwitched, Copies,
        ApplyLocals, StateInv, CurrentNamed, ApplyPcs, SwitchedApplyPcs,
        EarlyApplyPcs, FreezeInv, QuietAfterCheck
  <1>7. CASE RecoverFails
    BY <1>7 DEF RecoverFails, Fault, Die, NeedsRollback, SomeContainersAt
  <1>8. CASE FinalizerFails
    BY <1>8 DEF FinalizerFails, Fault, FinalizerSucceeded
  <1>9. CASE FinalizerKilled
    BY <1>9 DEF FinalizerKilled, Fault
  <1>10. CASE LoseHolder
    BY <1>10 DEF LoseHolder, Fault, HolderLost
  <1> QED
    BY <1>1, <1>2, <1>3, <1>4, <1>5, <1>6, <1>7, <1>8, <1>9, <1>10 DEF FaultStep
\* A published manifest puts no old API over v2 state.
LEMMA FetchOld ==
  ASSUME TypeInv, OldInv, FetchStep
  PROVE  OldInv'
  <1>1. PICK v \in Versions : CheckFinds(v) \/ DownloadManifest(v)
    BY DEF FetchStep
  <1> USE DEF OldInv, OlderThanGate, NoNewState, AfterCheckPcs, gateVars, disk
  <1>2. CASE CheckFinds(v)
    BY <1>2 DEF CheckFinds, EndOperation
  <1>3. CASE DownloadManifest(v)
    BY <1>3 DEF DownloadManifest
  <1> QED
    BY <1>1, <1>2, <1>3

\* Nor does a mutation of an API that knows the gate write v2 state under one
\* that does not.
LEMMA DatabaseOld ==
  ASSUME TypeInv, FreezeInv, OldInv, ApiMutates \/ DatabaseStep
  PROVE  OldInv'
  <1> USE UpdaterAssumption DEF TypeInv, TypeOK, GateTypeOK, LocalTypeOK,
      DiskTypeOK, Containers, Contents, Versions, gateVars, finalizer, disk,
      counters, local, OldInv, OlderThanGate, NoNewState, AfterCheckPcs,
      Mutations, Stopped
  <1>1. CASE ApiMutates
    BY <1>1 DEF ApiMutates, MutLock, updaterVars, FreezeInv, QuietAfterCheck
  <1>2. CASE MutCheckGate /\ UNCHANGED updaterVars
    BY <1>2 DEF MutCheckGate, updaterVars, FreezeInv, QuietAfterCheck
  <1>3. CASE MutFinish /\ UNCHANGED updaterVars
    BY <1>3 DEF MutFinish, updaterVars, FreezeInv, QuietAfterCheck
  <1>4. CASE HolderAcquire /\ UNCHANGED updaterVars
    BY <1>4 DEF HolderAcquire, updaterVars
  <1>5. CASE HolderExit /\ UNCHANGED updaterVars
    BY <1>5 DEF HolderExit, updaterVars
  <1> QED
    BY <1>1, <1>2, <1>3, <1>4, <1>5 DEF DatabaseStep, MutStep, HolderStep

\* Every step keeps an old API away from v2 state.
LEMMA NextOld ==
  ASSUME ~WriteFaults, TypeInv, FreezeInv, ReleaseInv, OldInv, [Next]_vars
  PROVE  OldInv'
  <1>0. TypeInv'
    BY NextType
  <1>1. CASE UNCHANGED vars
    BY <1>1 DEF vars, updaterVars, gateVars, OldInv, OlderThanGate, NoNewState,
                AfterCheckPcs
  <1>2. CASE OperationStep
    BY <1>0, <1>2, FetchOld, DownloadOld, ApplyOld, PrepareOld, CompleteOld, FailureOld
    DEF OperationStep, DownloadStep, ApplyStep, PrepareStep, CompleteStep, FailureStep
  <1>3. CASE RecoveryStep
    BY <1>0, <1>3, RecoveryOld
  <1> QED
    BY <1>0, <1>1, <1>2, <1>3, StartOld, WatchdogOld, FinalizerOld, FaultOld, DatabaseOld
    DEF Next, ProcessStep, RecoveryStep

\* No order of updates, rollbacks, failures and mutations puts an API from
\* before migration 027 over v2 authorization state it cannot read.
THEOREM OldApiKeptAway ==
  ASSUME ~AmbiguousLaunch, ~WriteFaults
  PROVE  Spec => []OldApiNeverOverV2
  <1> DEFINE AllInv == TypeInv /\ OwnerInv /\ FreezeInv /\ ReleaseInv /\ OldInv
  <1>1. Init => AllInv
    <2>1. Init => OldInv
      BY UpdaterAssumption DEF Init, GateInit, OldInv, OlderThanGate, NoNewState,
             AfterCheckPcs, Containers
    <2> QED
      BY <2>1, InitTypeInv, InitOwner, InitFreeze, InitRelease
  <1>2. AllInv /\ [Next]_vars => AllInv'
    BY NextType, NextOwner, NextFreeze, NextRelease, NextOld DEF TypeInv
  <1>3. AllInv => OldApiNeverOverV2
    BY DEF OldInv, OlderThanGate, NoNewState, OldApiNeverOverV2
  <1> QED
    BY <1>1, <1>2, <1>3, PTL DEF Spec
=============================================================================
