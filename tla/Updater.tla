------------------------------- MODULE Updater ------------------------------
(***************************************************************************)
(* The release updater (apps/updater): check, download, apply, roll back   *)
(* and restart, the state file they keep, the release files they replace,  *)
(* the one-shot finalizer container, and what a restart recovers.          *)
(*                                                                         *)
(* One action per awaited effect of the background operation; `pc` names   *)
(* the effect that comes next.  Every command may fail and the process may *)
(* die before any of them; an interrupted file copy leaves an empty file.  *)
(* Versions are numbers, ordered as compareSemver orders them.             *)
(***************************************************************************)
EXTENDS RollbackGate

CONSTANTS
  MaxVersion,     \* versions are 1..MaxVersion; 1 is installed at the start
  GateVersion,    \* the first version that ships migration 027
  MaxOps,         \* bound on operations started
  MaxFaults,      \* bound on failures and crashes
  NoVersion,      \* "null" for a version or a missing file
  Empty,          \* a file that was created and not yet filled
  NoOp,           \* "null" for an operation id
  AmbiguousLaunch,\* `docker run -d` may report an error for a started finalizer
  WriteFaults     \* a write of the state file may fail and a later one succeed

Versions == 1..MaxVersion
OpIds == 1..MaxOps

ASSUME UpdaterAssumption ==
  /\ MaxVersion \in Nat /\ MaxVersion > 0
  /\ GateVersion \in Nat
  /\ MaxOps \in Nat
  /\ MaxFaults \in Nat
  /\ NoVersion \notin Versions
  /\ Empty \notin Versions
  /\ NoVersion # Empty
  /\ NoOp \notin OpIds
  /\ AmbiguousLaunch \in BOOLEAN
  /\ WriteFaults \in BOOLEAN

VARIABLES
  state,      \* update-state.json
  files,      \* the active .env.release and docker-compose.release.yml
  staged,     \* what the last download staged
  backups,    \* the backup directory of each operation
  svc,        \* versions the API and the worker containers run, or NoVersion
  pc,         \* what the updater process does next
  man,        \* local of an operation: the version of its manifest
  bk,         \* local of an apply or rollback: the operation id of its backup
  auto,       \* local: this rollback is the catch block of applyUpdate
  watchdog,   \* the 250 ms interval of completeProjectionRollback
  holderFailure, \* local: the watchdog saw the holder gone
  fin,        \* what the finalizer container does next
  finTarget,  \* its DRUVIA_FINALIZER_TARGET_VERSION
  nextOp,     \* operations started so far
  faults,     \* failures and crashes so far
  stopFailed  \* history: a `docker stop` of the services failed

updaterVars == <<state, files, staged, backups, svc, pc, man, bk, auto,
                 watchdog, holderFailure, fin, finTarget, nextOp, faults,
                 stopFailed>>
vars == <<updaterVars, gateVars>>

local == <<man, bk, auto, watchdog, holderFailure>>
finalizer == <<fin, finTarget>>
disk == <<files, staged, backups>>
counters == <<nextOp, faults, stopFailed>>

-----------------------------------------------------------------------------
(* States and phases.                                                      *)

Phases == {"idle", "checking", "available", "downloading", "ready_to_apply",
           "applying", "restarting", "verifying", "finalizing", "succeeded",
           "failed", "rolled_back"}

\* Mutant: `finalizing` is not a mutating phase.
MutatingPhases_NoFinalizing ==
  {"checking", "downloading", "applying", "restarting", "verifying"}

MutatingPhases == {"checking", "downloading", "applying", "restarting",
                   "verifying", "finalizing"}

Stages == {"none", "preparing_backup", "backup_ready", "files_switched",
           "rolling_back"}

Errors == {"none", "operation_failed", "rollback_recovery_required"}

NoBackup == [op |-> NoOp, target |-> NoVersion]

\* The steps of prepareProjectionRollback and of completeProjectionRollback.
PreparePcs == {"rb_stop", "rb_gate", "rb_stale", "rb_check", "rb_holder",
               "rb_ready"}
CompletePcs == {"rb_probe_restore", "rb_restore_env", "rb_restore_compose",
                "rb_probe_worker", "rb_worker", "rb_probe_up", "rb_up",
                "rb_probe_verify", "rb_verifying", "rb_health", "rb_probe_end",
                "rb_watchdog_off", "rb_disable", "rb_release"}
RollbackErrorPcs == {"rb_fail_gate", "rb_fail_stop", "rb_fail_mark"}
RollbackPcs == PreparePcs \cup CompletePcs \cup RollbackErrorPcs \cup {"rb_done"}

\* The steps of applyUpdate up to its `releaseFilesSwitched = true`, and after.
EarlyApplyPcs == {"ap_validate", "ap_backup_env", "ap_backup_compose",
                  "ap_backup_ready", "ap_mark_switched"}
SwitchedApplyPcs == {"ap_rename_compose", "ap_rename_env", "ap_migrate",
                     "ap_up", "ap_verifying", "ap_health"}
DownloadPcs == {"dl_manifest", "dl_compose", "dl_env", "dl_ready"}
FailPcs == {"fail_operation", "fail_recovery"}

ActivePcs == {"check", "restart"} \cup DownloadPcs \cup EarlyApplyPcs
               \cup SwitchedApplyPcs \cup {"ap_finalizing", "ap_launch"}
               \cup RollbackPcs \cup FailPcs
Pcs == {"down", "boot", "ready"} \cup ActivePcs

Containers == {"api", "worker"}
Contents == Versions \cup {NoVersion, Empty}
StateType ==
  [phase: Phases, cur: Contents, avail: Versions \cup {NoVersion},
   opId: OpIds \cup {NoOp}, stage: Stages, rbOp: OpIds \cup {NoOp},
   last: [op: OpIds \cup {NoOp}, target: Versions \cup {NoVersion}],
   err: Errors]

DiskTypeOK ==
  /\ files \in [env: Contents, compose: Contents]
  /\ staged \in [manifest: Contents, env: Contents, compose: Contents]
  /\ backups \in [OpIds -> [env: Contents, compose: Contents]]

LocalTypeOK ==
  /\ man \in Versions \cup {NoVersion}
  /\ bk \in OpIds \cup {NoOp}
  /\ auto \in BOOLEAN
  /\ watchdog \in {"off", "on", "stopping", "draining"}
  /\ holderFailure \in BOOLEAN

FinalizerTypeOK ==
  /\ fin \in {"absent", "patch", "replace", "wait"}
  /\ finTarget \in Versions \cup {NoVersion}

CounterTypeOK ==
  /\ nextOp \in 0..MaxOps
  /\ faults \in 0..MaxFaults
  /\ stopFailed \in BOOLEAN

\* Every variable stays in its domain.
TypeOK ==
  /\ GateTypeOK
  /\ state \in StateType
  /\ DiskTypeOK
  /\ svc \in [Containers -> Contents]
  /\ pc \in Pcs
  /\ LocalTypeOK
  /\ FinalizerTypeOK
  /\ CounterTypeOK

Init ==
  /\ GateInit(1 >= GateVersion)
  /\ state = [phase |-> "idle", cur |-> 1, avail |-> NoVersion, opId |-> NoOp,
              stage |-> "none", rbOp |-> NoOp, last |-> NoBackup, err |-> "none"]
  /\ files = [env |-> 1, compose |-> 1]
  /\ staged = [manifest |-> NoVersion, env |-> NoVersion, compose |-> NoVersion]
  /\ backups = [o \in OpIds |-> [env |-> NoVersion, compose |-> NoVersion]]
  /\ svc = [c \in Containers |-> 1]
  /\ pc = "boot"
  /\ man = NoVersion
  /\ bk = NoOp
  /\ auto = FALSE
  /\ watchdog = "off"
  /\ holderFailure = FALSE
  /\ fin = "absent"
  /\ finTarget = NoVersion
  /\ nextOp = 0
  /\ faults = 0
  /\ stopFailed = FALSE

Stopped == [c \in Containers |-> NoVersion]
EndOperation == pc' = "ready"
Fault == faults < MaxFaults /\ faults' = faults + 1
NoFault == faults' = faults

-----------------------------------------------------------------------------
(* startOperation: the in-memory lock is taken before the first await, so  *)
(* admission and the first write of the state are one step.                *)

Admitted(recovering) ==
  /\ pc = "ready"
  /\ nextOp < MaxOps
  /\ state.phase \notin MutatingPhases
  /\ recovering \/ state.err # "rollback_recovery_required"

StartOperation(phase, stage, backup, first) ==
  /\ nextOp' = nextOp + 1
  /\ state' = [state EXCEPT !.phase = phase, !.opId = nextOp + 1,
                            !.stage = stage, !.rbOp = backup, !.err = "none"]
  /\ pc' = first
  /\ UNCHANGED <<files, staged, backups, svc, finalizer, faults, stopFailed,
                 gateVars>>

StartCheck ==
  /\ Admitted(FALSE)
  /\ StartOperation("checking", "none", NoOp, "check")
  /\ UNCHANGED local

StartDownload ==
  /\ Admitted(FALSE)
  /\ StartOperation("downloading", "none", NoOp, "dl_manifest")
  /\ UNCHANGED local

StartApply ==
  /\ Admitted(FALSE)
  /\ state.phase = "ready_to_apply"
  /\ StartOperation("applying", "preparing_backup", NoOp, "ap_validate")
  /\ bk' = nextOp + 1
  /\ auto' = FALSE
  /\ UNCHANGED <<man, watchdog, holderFailure>>

StartRestart ==
  /\ Admitted(FALSE)
  /\ StartOperation("restarting", "none", NoOp, "restart")
  /\ UNCHANGED local

\* The backup a rollback uses: that of the failed apply it recovers, or the
\* one recorded for the version that runs now.
RollbackBackup ==
  IF /\ state.phase = "failed"
     /\ \/ state.stage = "files_switched"
        \/ state.err = "rollback_recovery_required"
  THEN state.opId
  ELSE IF state.last.op # NoOp /\ state.last.target = state.cur
       THEN state.last.op
       ELSE NoOp

\* Both files exist and the env names a version; an empty env does not.
BackupUsable(o) ==
  /\ o # NoOp
  /\ backups[o].env \in Versions
  /\ backups[o].compose # NoVersion

StartRollback ==
  /\ Admitted(TRUE)
  /\ BackupUsable(RollbackBackup)
  /\ StartOperation("applying", "rolling_back", RollbackBackup, "rb_stop")
  /\ bk' = RollbackBackup
  /\ auto' = FALSE
  /\ UNCHANGED <<man, watchdog, holderFailure>>

-----------------------------------------------------------------------------
(* Checking, downloading, restarting.  The published manifest may name any *)
(* version: the manifest URL is configuration.                             *)

Newer(v) == v > state.cur

CheckFinds(v) ==
  /\ pc = "check"
  /\ state' = IF Newer(v)
              THEN [state EXCEPT !.phase = "available", !.avail = v, !.opId = NoOp]
              ELSE [state EXCEPT !.phase = "idle", !.avail = NoVersion,
                                 !.opId = NoOp]
  /\ EndOperation
  /\ UNCHANGED <<disk, svc, local, finalizer, counters, gateVars>>

DownloadManifest(v) ==
  /\ pc = "dl_manifest"
  /\ IF Newer(v)
     THEN /\ man' = v
          /\ staged' = [staged EXCEPT !.manifest = v]
          /\ pc' = "dl_compose"
     ELSE /\ pc' = "fail_operation"
          /\ UNCHANGED <<man, staged>>
  /\ UNCHANGED <<state, files, backups, svc, bk, auto, watchdog, holderFailure,
                 finalizer, counters, gateVars>>

\* The images are pulled first; a pull changes nothing the model keeps.
DownloadCompose ==
  /\ pc = "dl_compose"
  /\ staged' = [staged EXCEPT !.compose = man]
  /\ pc' = "dl_env"
  /\ UNCHANGED <<state, files, backups, svc, local, finalizer, counters, gateVars>>

DownloadEnv ==
  /\ pc = "dl_env"
  /\ staged' = [staged EXCEPT !.env = man]
  /\ pc' = "dl_ready"
  /\ UNCHANGED <<state, files, backups, svc, local, finalizer, counters, gateVars>>

DownloadReady ==
  /\ pc = "dl_ready"
  /\ state' = [state EXCEPT !.phase = "ready_to_apply", !.avail = man,
                            !.opId = NoOp]
  /\ EndOperation
  /\ UNCHANGED <<disk, svc, local, finalizer, counters, gateVars>>

\* `compose restart` creates no container: what runs restarts as it is, what
\* is stopped starts as the last `up` made it from the active files.
RestartServices ==
  /\ pc = "restart"
  /\ state' = [state EXCEPT !.phase = "succeeded", !.opId = NoOp]
  /\ svc' = [c \in Containers |->
                IF svc[c] = NoVersion THEN files.env ELSE svc[c]]
  /\ EndOperation
  /\ UNCHANGED <<disk, local, finalizer, counters, gateVars>>

-----------------------------------------------------------------------------
(* applyUpdate.                                                            *)

StagedAssetsValid ==
  /\ staged.manifest \in Versions
  /\ staged.manifest > state.cur
  /\ staged.manifest = state.avail
  /\ staged.compose = staged.manifest
  /\ staged.env = staged.manifest

ApplyValidate ==
  /\ pc = "ap_validate"
  /\ IF StagedAssetsValid
     THEN man' = staged.manifest /\ pc' = "ap_backup_env"
     ELSE man' = man /\ pc' = "fail_operation"
  /\ UNCHANGED <<state, disk, svc, bk, auto, watchdog, holderFailure, finalizer,
                 counters, gateVars>>

ApplyBackupEnv ==
  /\ pc = "ap_backup_env"
  /\ backups' = [backups EXCEPT ![bk].env = files.env]
  /\ pc' = "ap_backup_compose"
  /\ UNCHANGED <<state, files, staged, svc, local, finalizer, counters, gateVars>>

\* Copies the compose file, dumps the database if asked to, and syncs both.
ApplyBackupCompose ==
  /\ pc = "ap_backup_compose"
  /\ backups' = [backups EXCEPT ![bk].compose = files.compose]
  /\ pc' = "ap_backup_ready"
  /\ UNCHANGED <<state, files, staged, svc, local, finalizer, counters, gateVars>>

ApplyBackupReady ==
  /\ pc = "ap_backup_ready"
  /\ state' = [state EXCEPT !.stage = "backup_ready"]
  /\ pc' = "ap_mark_switched"
  /\ UNCHANGED <<disk, svc, local, finalizer, counters, gateVars>>

\* The stage is written before the first rename, not after the last.
ApplyMarkSwitched ==
  /\ pc = "ap_mark_switched"
  /\ state' = [state EXCEPT !.stage = "files_switched"]
  /\ pc' = "ap_rename_compose"
  /\ UNCHANGED <<disk, svc, local, finalizer, counters, gateVars>>

ApplyRenameCompose ==
  /\ pc = "ap_rename_compose"
  /\ files' = [files EXCEPT !.compose = staged.compose]
  /\ staged' = [staged EXCEPT !.compose = NoVersion]
  /\ pc' = "ap_rename_env"
  /\ UNCHANGED <<state, backups, svc, local, finalizer, counters, gateVars>>

ApplyRenameEnv ==
  /\ pc = "ap_rename_env"
  /\ files' = [files EXCEPT !.env = staged.env]
  /\ staged' = [staged EXCEPT !.env = NoVersion]
  /\ pc' = "ap_migrate"
  /\ UNCHANGED <<state, backups, svc, local, finalizer, counters, gateVars>>

ApplyMigrate ==
  /\ pc = "ap_migrate"
  /\ gateTable' = (gateTable \/ man >= GateVersion)
  /\ pc' = "ap_up"
  /\ UNCHANGED <<state, disk, svc, local, finalizer, counters, gate, pending,
                 held, mut, v2, thawed, lateHolder>>

ApplyUp ==
  /\ pc = "ap_up"
  /\ svc' = [c \in Containers |-> man]
  /\ pc' = "ap_verifying"
  /\ UNCHANGED <<state, disk, local, finalizer, counters, gateVars>>

ApplyVerifying ==
  /\ pc = "ap_verifying"
  /\ state' = [state EXCEPT !.phase = "verifying"]
  /\ pc' = "ap_health"
  /\ UNCHANGED <<disk, svc, local, finalizer, counters, gateVars>>

ApplyHealthy ==
  /\ pc = "ap_health"
  /\ pc' = "ap_finalizing"
  /\ UNCHANGED <<state, disk, svc, local, finalizer, counters, gateVars>>

ApplyFinalizing ==
  /\ pc = "ap_finalizing"
  /\ state' = [state EXCEPT !.phase = "finalizing", !.cur = man, !.stage = "none",
                            !.avail = NoVersion,
                            !.last = [op |-> bk, target |-> man]]
  /\ pc' = "ap_launch"
  /\ UNCHANGED <<disk, svc, local, finalizer, counters, gateVars>>

ApplyLaunch ==
  /\ pc = "ap_launch"
  /\ fin' = "patch"
  /\ finTarget' = man
  /\ EndOperation
  /\ UNCHANGED <<state, disk, svc, local, counters, gateVars>>

\* A launch that reports an error ends the operation as a success.
ApplyLaunchFails ==
  /\ pc = "ap_launch"
  /\ Fault
  /\ state' = [state EXCEPT !.phase = "succeeded", !.opId = NoOp]
  /\ \/ UNCHANGED finalizer
     \/ AmbiguousLaunch /\ fin' = "patch" /\ finTarget' = man
  /\ EndOperation
  /\ UNCHANGED <<disk, svc, local, nextOp, stopFailed, gateVars>>

-----------------------------------------------------------------------------
(* prepareProjectionRollback, for the catch block of applyUpdate and for   *)
(* rollbackUpdate alike.                                                   *)

RbStop ==
  /\ pc = "rb_stop"
  /\ svc' = Stopped
  /\ pc' = "rb_gate"
  /\ UNCHANGED <<state, disk, local, finalizer, counters, gateVars>>

RbGate ==
  /\ pc = "rb_gate"
  /\ EnableGate
  /\ pc' = "rb_stale"
  /\ UNCHANGED <<state, disk, svc, local, finalizer, counters>>

RbStale ==
  /\ pc = "rb_stale"
  /\ ReleaseHolder
  /\ pc' = "rb_check"
  /\ UNCHANGED <<state, disk, svc, local, finalizer, counters>>

\* Mutant: an automatic rollback that fails is reported as an ordinary failure.
RollbackErrorPc_Ordinary == IF auto THEN "fail_operation" ELSE "rb_fail_mark"

\* What follows an error thrown out of the two rollback functions.
RollbackErrorPc == IF auto THEN "fail_recovery" ELSE "rb_fail_mark"

RbCheck ==
  /\ pc = "rb_check"
  /\ AssertSafe
  /\ pc' = "rb_holder"
  /\ UNCHANGED <<state, disk, svc, local, finalizer, counters>>

RbCheckRefuses ==
  /\ pc = "rb_check"
  /\ CheckUnblocked
  /\ ~RollbackSafe
  /\ pc' = RollbackErrorPc
  /\ UNCHANGED <<state, disk, svc, local, finalizer, counters, gateVars>>

RbHolder ==
  /\ pc = "rb_holder"
  /\ StartHolder
  /\ pc' = "rb_ready"
  /\ UNCHANGED <<state, disk, svc, local, finalizer, counters>>

\* The wait succeeds, and completeProjectionRollback arms its watchdog.
RbReady ==
  /\ pc = "rb_ready"
  /\ HolderReady
  /\ watchdog' = "on"
  /\ holderFailure' = FALSE
  /\ pc' = "rb_probe_restore"
  /\ UNCHANGED <<state, disk, svc, man, bk, auto, finalizer, counters, gateVars>>

\* Forty probes in vain; the holder session may still be on its way.
RbReadyTimeout ==
  /\ pc = "rb_ready"
  /\ pc' = RollbackErrorPc
  /\ UNCHANGED <<state, disk, svc, local, finalizer, counters, gateVars>>

-----------------------------------------------------------------------------
(* completeProjectionRollback.  A probe stands between any two effects.    *)

AfterProbe(p) ==
  CASE p = "rb_probe_restore" -> "rb_restore_env"
    [] p = "rb_probe_worker"  -> "rb_worker"
    [] p = "rb_probe_up"      -> "rb_up"
    [] p = "rb_probe_verify"  -> "rb_verifying"
    [] p = "rb_probe_end"     -> "rb_watchdog_off"

ProbePcs == {"rb_probe_restore", "rb_probe_worker", "rb_probe_up",
             "rb_probe_verify", "rb_probe_end"}

RbProbe ==
  /\ pc \in ProbePcs
  /\ pc' = IF HolderReady /\ ~holderFailure THEN AfterProbe(pc)
                                             ELSE "rb_fail_gate"
  /\ UNCHANGED <<state, disk, svc, local, finalizer, counters, gateVars>>

RbRestoreEnv ==
  /\ pc = "rb_restore_env"
  /\ files' = [files EXCEPT !.env = backups[bk].env]
  /\ pc' = "rb_restore_compose"
  /\ UNCHANGED <<state, staged, backups, svc, local, finalizer, counters, gateVars>>

RbRestoreCompose ==
  /\ pc = "rb_restore_compose"
  /\ files' = [files EXCEPT !.compose = backups[bk].compose]
  /\ pc' = "rb_probe_worker"
  /\ UNCHANGED <<state, staged, backups, svc, local, finalizer, counters, gateVars>>

\* `compose up` with the abort signal: nothing can start from an empty compose
\* file, and a command aborted by the watchdog may have done its work or not.
ComposeUp(containers, next) ==
  LET started == [c \in Containers |->
                    IF c \in containers THEN files.env ELSE svc[c]]
  IN  IF files.compose = Empty
      THEN /\ pc' = "rb_fail_gate"
           /\ svc' = svc
      ELSE IF holderFailure
           THEN /\ pc' = "rb_fail_gate"
                /\ svc' \in {svc, started}
           ELSE /\ pc' = next
                /\ svc' = started

RbWorker ==
  /\ pc = "rb_worker"
  /\ ComposeUp({"worker"}, "rb_probe_up")
  /\ UNCHANGED <<state, disk, local, finalizer, counters, gateVars>>

RbUp ==
  /\ pc = "rb_up"
  /\ ComposeUp(Containers, "rb_probe_verify")
  /\ UNCHANGED <<state, disk, local, finalizer, counters, gateVars>>

RbVerifying ==
  /\ pc = "rb_verifying"
  /\ state' = [state EXCEPT !.phase = "verifying"]
  /\ pc' = "rb_health"
  /\ UNCHANGED <<disk, svc, local, finalizer, counters, gateVars>>

\* pollHealthChecks probes the holder after every request.
RbHealth ==
  /\ pc = "rb_health"
  /\ pc' = IF HolderReady /\ ~holderFailure THEN "rb_probe_end" ELSE "rb_fail_gate"
  /\ UNCHANGED <<state, disk, svc, local, finalizer, counters, gateVars>>

\* The watchdog, beside the steps above: a failed probe aborts the running
\* command and stops the services, again at every tick until it is cleared.
Watchdog ==
  /\ watchdog = "on"
  /\ ~HolderReady \/ holderFailure
  /\ holderFailure' = TRUE
  /\ watchdog' = "stopping"
  /\ UNCHANGED <<state, disk, svc, pc, man, bk, auto, finalizer, counters, gateVars>>

AfterTick == IF watchdog = "draining" THEN "off" ELSE "on"

WatchdogStop ==
  /\ watchdog \in {"stopping", "draining"}
  /\ svc' = Stopped
  /\ watchdog' = AfterTick
  /\ UNCHANGED <<state, disk, pc, man, bk, auto, holderFailure, finalizer,
                 counters, gateVars>>

WatchdogStopFails ==
  /\ watchdog \in {"stopping", "draining"}
  /\ Fault
  /\ stopFailed' = TRUE
  /\ watchdog' = AfterTick
  /\ UNCHANGED <<state, disk, svc, pc, man, bk, auto, holderFailure, finalizer,
                 nextOp, gateVars>>

\* clearInterval; a tick in flight (probePending) is still awaited.
ClearWatchdog ==
  /\ pc \in {"rb_watchdog_off", "rb_fail_gate"}
  /\ watchdog \in {"on", "stopping"}
  /\ watchdog' = IF watchdog = "on" THEN "off" ELSE "draining"
  /\ UNCHANGED <<state, disk, svc, pc, man, bk, auto, holderFailure, finalizer,
                 counters, gateVars>>

RbWatchdogOff ==
  /\ pc = "rb_watchdog_off"
  /\ watchdog = "off"
  /\ pc' = IF holderFailure THEN "rb_fail_gate" ELSE "rb_disable"
  /\ UNCHANGED <<state, disk, svc, local, finalizer, counters, gateVars>>

\* Mutant: closes the gate without checking the holder again.
RbDisable_NoHolder ==
  /\ pc = "rb_disable"
  /\ gate' = FALSE
  /\ pc' = "rb_release"
  /\ UNCHANGED <<state, disk, svc, local, finalizer, counters, gateTable, pending,
                 held, mut, v2, thawed, lateHolder>>

RbDisable ==
  /\ pc = "rb_disable"
  /\ IF held
     THEN DisableGate /\ pc' = "rb_release"
     ELSE UNCHANGED gateVars /\ pc' = "rb_fail_gate"
  /\ UNCHANGED <<state, disk, svc, local, finalizer, counters>>

RbRelease ==
  /\ pc = "rb_release"
  /\ IF ReleasePossible
     THEN ReleaseHolder /\ pc' = "rb_done"
     ELSE UNCHANGED gateVars /\ pc' = "rb_fail_gate"
  /\ UNCHANGED <<state, disk, svc, local, finalizer, counters>>

\* The automatic rollback keeps the current version, which never changed; the
\* manual one takes it from the backup and drops the evidence it used up.
RbDone ==
  /\ pc = "rb_done"
  /\ state' = IF auto
              THEN [state EXCEPT !.phase = "rolled_back", !.avail = NoVersion,
                                 !.opId = NoOp, !.stage = "none",
                                 !.err = "operation_failed"]
              ELSE [state EXCEPT !.phase = "rolled_back", !.cur = backups[bk].env,
                                 !.avail = NoVersion, !.opId = NoOp,
                                 !.rbOp = NoOp, !.stage = "none", !.err = "none",
                                 !.last = IF state.last.op = bk THEN NoBackup
                                                                ELSE state.last]
  /\ EndOperation
  /\ UNCHANGED <<disk, svc, local, finalizer, counters, gateVars>>

-----------------------------------------------------------------------------
(* The catch block of completeProjectionRollback and the failure handlers. *)

RbFailGate ==
  /\ pc = "rb_fail_gate"
  /\ watchdog = "off"
  /\ EnableGate
  /\ pc' = "rb_fail_stop"
  /\ UNCHANGED <<state, disk, svc, local, finalizer, counters>>

\* Mutant: the catch block activates the gate and leaves the services running.
RbFailStop_NoStop ==
  /\ pc = "rb_fail_stop"
  /\ pc' = RollbackErrorPc
  /\ UNCHANGED <<state, disk, svc, local, finalizer, counters, gateVars>>

RbFailStop ==
  /\ pc = "rb_fail_stop"
  /\ svc' = Stopped
  /\ pc' = RollbackErrorPc
  /\ UNCHANGED <<state, disk, local, finalizer, counters, gateVars>>

RbFailMark ==
  /\ pc = "rb_fail_mark"
  /\ state' = [state EXCEPT !.opId = bk, !.rbOp = NoOp]
  /\ pc' = "fail_recovery"
  /\ UNCHANGED <<disk, svc, local, finalizer, counters, gateVars>>

HandleOperationFailure ==
  /\ pc \in FailPcs
  /\ state' = [state EXCEPT !.phase = "failed",
                            !.err = IF pc = "fail_recovery"
                                    THEN "rollback_recovery_required"
                                    ELSE "operation_failed"]
  /\ EndOperation
  /\ UNCHANGED <<disk, svc, local, finalizer, counters, gateVars>>

-----------------------------------------------------------------------------
(* Failures.  A failing step leaves nothing, or part of its effect, and    *)
(* control passes where the try blocks around it send it.                  *)

SomeContainersAt(v) ==
  \E moved \in SUBSET Containers :
    svc' = [c \in Containers |-> IF c \in moved THEN v ELSE svc[c]]

EmptyBackup(file) ==
  backups' = [backups EXCEPT ![bk] = [@ EXCEPT ![file] = Empty]]

\* What an interrupted step may leave behind.
Residue ==
  \/ UNCHANGED <<disk, svc, gateTable>>
  \/ /\ \/ pc = "ap_backup_env" /\ EmptyBackup("env")
        \/ pc = "ap_backup_compose" /\ EmptyBackup("compose")
     /\ UNCHANGED <<files, staged, svc, gateTable>>
  \/ /\ \/ pc = "rb_restore_env" /\ files' = [files EXCEPT !.env = Empty]
        \/ pc = "rb_restore_compose" /\ files' = [files EXCEPT !.compose = Empty]
     /\ UNCHANGED <<staged, backups, svc, gateTable>>
  \/ /\ \/ pc = "ap_up" /\ SomeContainersAt(man)
        \/ pc = "rb_worker" /\ files.compose # Empty /\ SomeContainersAt(files.env)
        \/ pc = "rb_up" /\ files.compose # Empty /\ SomeContainersAt(files.env)
        \/ pc \in {"restart", "rb_stop", "rb_fail_stop"}
           /\ SomeContainersAt(NoVersion)
     /\ UNCHANGED <<disk, gateTable>>
  \/ /\ pc = "ap_migrate"
     /\ gateTable' = (gateTable \/ man >= GateVersion)
     /\ UNCHANGED <<disk, svc>>

otherGateVars == <<gate, pending, held, mut, v2, thawed, lateHolder>>

\* Steps that only write the state file.
WritePcs == {"ap_backup_ready", "ap_mark_switched", "ap_verifying",
             "ap_finalizing", "rb_verifying", "rb_done", "rb_fail_mark"}

MayFail == pc \in WritePcs => WriteFaults

OperationFails ==
  /\ pc \in {"check", "restart", "ap_finalizing"} \cup DownloadPcs \cup EarlyApplyPcs
       \cup (IF auto THEN {"rb_done"} ELSE {"rb_fail_mark"})
  /\ MayFail
  /\ Fault
  /\ Residue
  /\ pc' = "fail_operation"
  /\ UNCHANGED <<state, local, finalizer, nextOp, stopFailed, otherGateVars>>

SwitchedApplyFails ==
  /\ pc \in SwitchedApplyPcs
  /\ MayFail
  /\ Fault
  /\ Residue
  /\ auto' = TRUE
  /\ pc' = "rb_stop"
  /\ UNCHANGED <<state, man, bk, watchdog, holderFailure, finalizer, nextOp,
                 stopFailed, otherGateVars>>

\* A statement may have committed although `docker exec` reports an error.
StatementResidue ==
  \/ pc \in {"rb_gate", "rb_fail_gate"} /\ EnableGate
  \/ pc \in {"rb_stale", "rb_release"} /\ ReleaseHolder
  \/ pc = "rb_holder" /\ StartHolder
  \/ pc = "rb_disable" /\ DisableGate

RollbackFails ==
  /\ pc \in RollbackPcs \ {"rb_fail_mark"}
  /\ pc = "rb_done" => ~auto
  /\ pc = "rb_fail_gate" => watchdog = "off"
  /\ MayFail
  /\ Fault
  /\ \/ Residue /\ UNCHANGED otherGateVars
     \/ StatementResidue /\ UNCHANGED <<disk, svc>>
  /\ stopFailed' = (stopFailed \/ pc \in {"rb_stop", "rb_fail_stop"})
  /\ pc' = CASE pc \in CompletePcs    -> "rb_fail_gate"
             [] pc = "rb_fail_gate"   -> "rb_fail_stop"
             [] pc = "rb_done"        -> "rb_fail_mark"
             [] OTHER                 -> RollbackErrorPc
  /\ UNCHANGED <<state, local, finalizer, nextOp>>

\* The process dies: with the host, or replaced by the finalizer.  Only what is
\* on disk, in Docker and in the database survives.
Die(next) ==
  /\ pc' = next
  /\ man' = NoVersion
  /\ bk' = NoOp
  /\ auto' = FALSE
  /\ watchdog' = "off"
  /\ holderFailure' = FALSE

Crash ==
  /\ pc # "down"
  /\ Fault
  /\ Residue
  /\ Die("down")
  /\ UNCHANGED <<state, finalizer, nextOp, stopFailed, otherGateVars>>

Restart ==
  /\ pc = "down"
  /\ pc' = "boot"
  /\ UNCHANGED <<state, disk, svc, local, finalizer, counters, gateVars>>

-----------------------------------------------------------------------------
(* recoverInterruptedOperation, before the routes are served.              *)

\* Mutant: the finalizer container is looked for at boot only, not by polls.
FinalizerGone_BootOnly ==
  /\ pc = "boot"
  /\ state.phase = "finalizing"
  /\ state.opId # NoOp
  /\ fin = "absent"

\* `finalizing` is settled when the named finalizer container is gone.
FinalizerGone == state.phase = "finalizing" /\ state.opId # NoOp /\ fin = "absent"

FinalizedState == [state EXCEPT !.phase = "succeeded", !.opId = NoOp, !.err = "none"]

ReleaseFilesDiverged ==
  LET backup == backups[state.opId]
      differs(f) == IF backup[f] = NoVersion
                    THEN state.stage # "preparing_backup"
                    ELSE backup[f] # files[f]
  IN  \/ state.opId = NoOp
      \/ files.env # state.cur
      \/ differs("env")
      \/ differs("compose")

\* Mutant: an interrupted verification is taken for an ordinary failure.
NeedsRollback_ApplyingOnly ==
  /\ state.phase = "applying"
  /\ \/ state.stage \notin {"preparing_backup", "backup_ready"}
     \/ ReleaseFilesDiverged

NeedsRollback ==
  /\ state.phase \in {"applying", "verifying"}
  /\ \/ state.stage \notin {"preparing_backup", "backup_ready"}
     \/ ReleaseFilesDiverged

InterruptedState ==
  [state EXCEPT !.phase = "failed", !.rbOp = NoOp, !.stage = "none",
                !.opId = IF NeedsRollback /\ state.rbOp # NoOp THEN state.rbOp
                                                              ELSE state.opId,
                !.err = IF NeedsRollback THEN "rollback_recovery_required"
                                         ELSE "operation_failed"]

RecoverInterruptedOperation ==
  /\ pc = "boot"
  /\ pc' = "ready"
  /\ \/ /\ FinalizerGone
        /\ state' = FinalizedState
        /\ svc' = svc
     \/ /\ state.phase \notin MutatingPhases \ {"finalizing"}
        /\ UNCHANGED <<state, svc>>
     \/ /\ state.phase \in MutatingPhases \ {"finalizing"}
        /\ state' = InterruptedState
        /\ svc' = IF NeedsRollback THEN Stopped ELSE svc
  /\ UNCHANGED <<disk, local, finalizer, counters, gateVars>>

\* A failing stop throws out of onReady: the process exits.
RecoverFails ==
  /\ pc = "boot"
  /\ NeedsRollback
  /\ Fault
  /\ SomeContainersAt(NoVersion)
  /\ stopFailed' = TRUE
  /\ Die("down")
  /\ UNCHANGED <<state, disk, finalizer, nextOp, gateVars>>

\* getStatus of a status poll.
ReconcileFinalizing ==
  /\ pc = "ready"
  /\ FinalizerGone
  /\ state' = FinalizedState
  /\ UNCHANGED <<disk, svc, pc, local, finalizer, counters, gateVars>>

-----------------------------------------------------------------------------
(* The finalizer container (finalizer.ts): its own process, writing the    *)
(* same state file.                                                        *)

FinalizerPatch ==
  /\ fin = "patch"
  /\ state' = [state EXCEPT !.phase = "finalizing", !.cur = finTarget,
                            !.avail = NoVersion, !.err = "none"]
  /\ fin' = "replace"
  /\ UNCHANGED <<disk, svc, pc, local, finTarget, counters, gateVars>>

\* `compose up -d updater` replaces the updater when its image changed.
FinalizerReplace ==
  /\ fin = "replace"
  /\ fin' = "wait"
  /\ \/ UNCHANGED <<pc, local>>
     \/ Die("down")
  /\ UNCHANGED <<state, disk, svc, finTarget, counters, gateVars>>

FinalizerSucceeded ==
  [state EXCEPT !.phase = "succeeded", !.cur = finTarget, !.avail = NoVersion,
                !.opId = NoOp, !.err = "none"]

FinalizerDone ==
  /\ fin = "wait"
  /\ pc # "down"
  /\ state' = FinalizerSucceeded
  /\ fin' = "absent"
  /\ UNCHANGED <<disk, svc, pc, local, finTarget, counters, gateVars>>

FinalizerFails ==
  /\ fin \in {"replace", "wait"}
  /\ Fault
  /\ state' = FinalizerSucceeded
  /\ fin' = "absent"
  /\ UNCHANGED <<disk, svc, pc, local, finTarget, nextOp, stopFailed, gateVars>>

FinalizerKilled ==
  /\ fin # "absent"
  /\ Fault
  /\ fin' = "absent"
  /\ UNCHANGED <<state, disk, svc, pc, local, finTarget, nextOp, stopFailed, gateVars>>

-----------------------------------------------------------------------------
(* The database and the API, beside the updater.                           *)

ApiMutates ==
  /\ svc["api"] \in Versions
  /\ MutLock(svc["api"] >= GateVersion)
  /\ UNCHANGED updaterVars

DatabaseStep == (MutStep \/ HolderStep) /\ UNCHANGED updaterVars

LoseHolder ==
  /\ HolderLost
  /\ Fault
  /\ UNCHANGED <<state, disk, svc, pc, local, finalizer, nextOp, stopFailed>>

-----------------------------------------------------------------------------
StartStep == StartCheck \/ StartDownload \/ StartApply \/ StartRestart \/ StartRollback

FetchStep == \E v \in Versions : CheckFinds(v) \/ DownloadManifest(v)

OperationStep ==
  \/ FetchStep
  \/ DownloadCompose \/ DownloadEnv \/ DownloadReady
  \/ RestartServices
  \/ ApplyValidate \/ ApplyBackupEnv \/ ApplyBackupCompose \/ ApplyBackupReady
  \/ ApplyMarkSwitched \/ ApplyRenameCompose \/ ApplyRenameEnv \/ ApplyMigrate
  \/ ApplyUp \/ ApplyVerifying \/ ApplyHealthy \/ ApplyFinalizing \/ ApplyLaunch
  \/ RbStop \/ RbGate \/ RbStale \/ RbCheck \/ RbCheckRefuses \/ RbHolder \/ RbReady
  \/ RbReadyTimeout
  \/ RbProbe \/ RbRestoreEnv \/ RbRestoreCompose \/ RbWorker \/ RbUp \/ RbVerifying
  \/ RbHealth \/ ClearWatchdog \/ RbWatchdogOff \/ RbDisable \/ RbRelease \/ RbDone
  \/ RbFailGate \/ RbFailStop \/ RbFailMark \/ HandleOperationFailure

ProcessStep ==
  OperationStep \/ Restart \/ RecoverInterruptedOperation \/ ReconcileFinalizing

WatchdogStep == Watchdog \/ WatchdogStop

FinalizerStep == FinalizerPatch \/ FinalizerReplace \/ FinalizerDone

FaultStep ==
  \/ OperationFails \/ SwitchedApplyFails \/ RollbackFails \/ ApplyLaunchFails
  \/ WatchdogStopFails \/ Crash \/ RecoverFails
  \/ FinalizerFails \/ FinalizerKilled \/ LoseHolder

Next ==
  \/ StartStep
  \/ ProcessStep
  \/ WatchdogStep
  \/ FinalizerStep
  \/ ApiMutates
  \/ DatabaseStep
  \/ FaultStep

Spec == Init /\ [][Next]_vars

\* The process runs while its container does, Docker restarts it, PostgreSQL
\* serves its sessions, and the admin UI polls the status while an update runs.
Fairness ==
  /\ WF_vars(ProcessStep)
  /\ WF_vars(WatchdogStep)
  /\ WF_vars(FinalizerStep)
  /\ WF_vars(DatabaseStep)

FairSpec == Spec /\ Fairness

-----------------------------------------------------------------------------
(* Properties.                                                             *)

RecoveryRequired == state.err = "rollback_recovery_required"

Settled == pc = "ready" /\ state.phase \notin MutatingPhases /\ ~RecoveryRequired

\* Whatever failed on the way, an updater that accepts ordinary operations has
\* both release files and every running container at its current version.
ReleaseConsistent ==
  Settled => /\ files = [env |-> state.cur, compose |-> state.cur]
             /\ \A c \in Containers : svc[c] \in {state.cur, NoVersion}

\* The persistent gate, which shuts out every Data Access mutation, is never
\* left active without the state file saying that a rollback is owed.
GateIsOwned ==
  gate => \/ state.phase \in {"applying", "verifying"}
          \/ RecoveryRequired

\* A rollback that did not complete leaves no service running, unless a
\* `docker stop` itself failed.
FailClosed == pc = "ready" /\ RecoveryRequired /\ ~stopFailed => svc = Stopped

\* An API from before migration 027 never runs over v2 authorization state.
OldApiNeverOverV2 ==
  svc["api"] \in Versions /\ svc["api"] < GateVersion => ~v2

CompleteBackup(o) ==
  \E v \in Versions : backups[o] = [env |-> v, compose |-> v]

CutShort(o) == Empty \in {backups[o].env, backups[o].compose}

\* An owed rollback names a complete backup to retry from; the one exception is
\* a backup whose own copy was cut short.
RecoveryHasBackup ==
  RecoveryRequired => /\ state.opId # NoOp
                      /\ CompleteBackup(state.opId) \/ CutShort(state.opId)

\* The evidence for a later rollback is a complete backup of an older version.
EvidenceIsOlderBackup ==
  state.last.op # NoOp /\ state.last.target = state.cur
    => \E v \in Versions : /\ v < state.cur
                            /\ backups[state.last.op] = [env |-> v, compose |-> v]

\* The release can always be carried on with: the boot accepts the state file, an
\* updater at rest runs one version throughout, an owed rollback has its backup, and
\* the one that may be asked for later leads to an older version.
ReleaseRecoverable ==
  TypeOK /\ ReleaseConsistent /\ RecoveryHasBackup /\ EvidenceIsOlderBackup

\* While the finalizer runs, the updater runs no operation of its own: the two
\* processes write the one state file without a lock.
SingleWriter == fin # "absent" => pc \in {"down", "boot", "ready"}

\* The gate is closed after a restore only if no mutation was admitted since
\* the safety check: a holder that was lost on the way is not overlooked, unless
\* a holder of an earlier attempt took its place.
FrozenUntilDisabled ==
  [][pc = "rb_disable" /\ pc' = "rb_release" => ~thawed \/ lateHolder]_vars

\* The safety check waits for a lock that a late holder took, and the holder
\* for a gate that only this rollback can close.
HungOnLateHolder == pc = "rb_check" /\ held

\* An operation ends: the phase does not stay a mutating one, under any number
\* of failures short of a new one each time.
OperationEnds ==
  state.phase \in MutatingPhases
    ~> (state.phase \notin MutatingPhases \/ HungOnLateHolder)

-----------------------------------------------------------------------------
(* What the documents claim and the code does not keep.                    *)

\* docs/agent/design-decisions.md:256: an apply interrupted before its backup is
\* complete leaves ordinary operations available after the restart.
InterruptedBackupIsRetryable ==
  [][/\ pc = "boot" /\ pc' = "ready"
     /\ state.stage = "preparing_backup"
     /\ files = [env |-> state.cur, compose |-> state.cur]
     => state'.err # "rollback_recovery_required"]_vars

\* docs/agent/playbooks.md:1576: a state left at `finalizing` settles once the
\* finalizer container is gone.
FinalizingSettles == state.phase = "finalizing" ~> state.phase # "finalizing"

\* docs/agent/playbooks.md:1577: a retried rollback clears the old holder and
\* freezes the database again, so that its preparation ends.
RollbackRetryEnds == pc \in PreparePcs ~> pc \notin PreparePcs

\* docs/agent/playbooks.md:1579: once the release files may be switched the
\* original backup id is kept, so that a rollback can find it.
SwitchedFilesKeepBackup ==
  pc = "ready" /\ state.phase \notin MutatingPhases /\ files.env # state.cur
    => RollbackBackup # NoOp
=============================================================================
