----------------------------- MODULE DeviceWipe -----------------------------
(***************************************************************************)
(* The device wipe channel of one project                                  *)
(* (apps/api/src/modules/project-auth/project-device-wipe*.ts, migration   *)
(* 026) with what shares its records: the restore of the project schema,   *)
(* the project's database user and the deletion of the project.            *)
(*                                                                         *)
(* Every call of the channel is one transaction that first takes the       *)
(* project-auth lock and then reads the runtime gate, so it is one action; *)
(* a call that is refused, times out or loses its connection rolls back    *)
(* and is no step.  A restore and a project deletion hold the lock over    *)
(* several steps.  The project schema belongs to the application: its      *)
(* three hook functions, the registrations it knows, the wipes it owes and *)
(* those it has recorded as done are modelled from how the API calls them. *)
(* Fingerprints and handles are HMACs of the deployment's secrets: two of  *)
(* them are equal when secret and input are.                               *)
(***************************************************************************)
EXTENDS Naturals, FiniteSets

CONSTANTS
  Users,         \* project users
  Devices,       \* raw binding identities
  IdemKeys,      \* idempotency keys of registrations
  Deletions,     \* deletion ids of the application
  Receipts,      \* receipts that differ in their completion time
  Secrets,       \* pairs of binding and credential secret
  Scopes,        \* what a wipe covers: the account, one session
  Hooks,         \* versions of the hook functions, by contract hash
  NoSecret, NoHook, NoTag,
  MaxRevision,   \* bound: binding revisions
  MaxBindings,   \* bound: registrations
  MaxKeys,       \* bound: signing keys
  MaxList,       \* the length of a mandate list the API accepts (100)
  MaxFaults      \* bound: changes by operators, and crashes

ASSUME DeviceWipeAssumption ==
  /\ MaxRevision \in Nat \ {0} /\ MaxBindings \in Nat /\ MaxKeys \in Nat \ {0}
  /\ MaxList \in Nat /\ MaxFaults \in Nat
  /\ {} \notin {Users, Devices, IdemKeys, Receipts, Secrets, Scopes, Hooks}
  /\ NoSecret \notin Secrets /\ NoTag \notin Secrets /\ NoHook \notin Hooks

Revisions == 1..MaxRevision
BindingIds == 1..MaxBindings
KeyIds == 1..MaxKeys

VARIABLES
  cfg,       \* druvia_project_device_wipe_configs
  key,       \* druvia_project_device_wipe_signing_keys
  bind,      \* druvia_project_device_wipe_bindings
  mand,      \* druvia_project_device_wipe_mandates
  secret,    \* the secrets this deployment runs with
  hook,      \* the hook functions of the project schema
  reg,       \* the bindings the application has registered
  owed,      \* the wipes the application asks for
  done,      \* the wipes the application has recorded as done
  backup,    \* the project schema as of the last backup
  gate,      \* druvia_project_runtime_gates
  plock,     \* the project-auth lock where it is held over several steps
  rs,        \* the restore
  dl,        \* the deletion of the project
  proj,      \* the project row, its database user and its schema
  held,      \* the bindings whose credential reached the device
  inbox,     \* the commands that reached a device
  faults

coreVars == <<cfg, key, bind, mand>>
schemaVars == <<hook, reg, owed, done>>
projectVars == <<gate, plock, rs, dl, proj>>
deviceVars == <<held, inbox>>
vars == <<coreVars, secret, schemaVars, backup, projectVars, deviceVars, faults>>

-----------------------------------------------------------------------------
(* States.                                                                 *)

\* What hookContractSelect finds for the three functions: the hash of their
\* contract, or functions that the inspection refuses.
HookStates == Hooks \cup {NoHook}
BindingRow ==
  [status : {"none", "active", "retired"}, user : Users, device : Devices,
   revision : Revisions, idem : IdemKeys, secret : Secrets, hook : Hooks]
MandateRow ==
  [status : {"none", "pending", "acknowledged"}, key : KeyIds, scope : Scopes,
   receipt : Receipts]
SchemaImage ==
  [hook : HookStates, reg : SUBSET (Devices \X Revisions),
   owed : SUBSET [device : Devices, id : Deletions, scope : Scopes],
   done : SUBSET (Devices \X Deletions)]

TypeOK ==
  /\ cfg \in [enabled : BOOLEAN, tag : Secrets \cup {NoTag}]
  /\ key \in [KeyIds -> {"none", "active", "verification_only", "retired"}]
  /\ bind \in [BindingIds -> BindingRow]
  /\ mand \in [BindingIds -> [Deletions -> MandateRow]]
  /\ secret \in Secrets \cup {NoSecret}
  /\ [hook |-> hook, reg |-> reg, owed |-> owed, done |-> done] \in SchemaImage
  /\ backup \in SchemaImage
  /\ gate \in {"none", "restoring", "recovery_required"}
  /\ plock \in {"free", "restore", "delete"}
  /\ rs \in {"idle", "restore", "replay", "failed"}
  /\ dl \in {"idle", "checked", "no_user", "no_schema"}
  /\ proj \in [row : BOOLEAN, user : BOOLEAN, schema : BOOLEAN]
  /\ held \subseteq BindingIds
  /\ inbox \subseteq BindingIds \X Deletions
  /\ faults \in 0..MaxFaults

Bound == {b \in BindingIds : bind[b].status # "none"}
Mandates(b, status) == {d \in Deletions : mand[b][d].status = status}
ActiveKeys == {k \in KeyIds : key[k] = "active"}

\* listProjectDeviceWipeVerificationKeys
Published == {k \in KeyIds : key[k] \in {"active", "verification_only"}}

AnyOf(S) == CHOOSE x \in S : TRUE

Init ==
  /\ cfg = [enabled |-> FALSE, tag |-> NoTag]
  /\ key = [k \in KeyIds |-> "none"]
  /\ bind = [b \in BindingIds |->
       [status |-> "none", user |-> AnyOf(Users), device |-> AnyOf(Devices),
        revision |-> 1, idem |-> AnyOf(IdemKeys), secret |-> AnyOf(Secrets),
        hook |-> AnyOf(Hooks)]]
  /\ mand = [b \in BindingIds |-> [d \in Deletions |->
       [status |-> "none", key |-> 1, scope |-> AnyOf(Scopes), receipt |-> AnyOf(Receipts)]]]
  /\ secret = AnyOf(Secrets)
  /\ hook = AnyOf(Hooks)
  /\ reg = {} /\ owed = {} /\ done = {}
  /\ backup = [hook |-> hook, reg |-> {}, owed |-> {}, done |-> {}]
  /\ gate = "none" /\ plock = "free" /\ rs = "idle" /\ dl = "idle"
  /\ proj = [row |-> TRUE, user |-> TRUE, schema |-> TRUE]
  /\ held = {} /\ inbox = {} /\ faults = 0

Fault == faults < MaxFaults /\ faults' = faults + 1

\* inTransaction, acquireProjectAuthProjectLock, assertDeviceWipeRuntimeAvailable:
\* the first statements of every call.
Serving == plock = "free" /\ gate = "none"

\* Mutant: any configured secrets will do, not only those the project was set up with.
SecretsMatch_Configured == secret # NoSecret

\* assertPersistedSecretVerification
SecretsMatch == secret # NoSecret /\ cfg.tag = secret

-----------------------------------------------------------------------------
(* The hook functions.                                                     *)

\* inspectDeviceWipeHookContracts, validateContract: the functions exist and
\* are owned by the project's own, otherwise powerless, database user.
HooksInspected == proj.row /\ proj.user /\ proj.schema /\ hook # NoHook

\* invocationContractCte: the hash recorded with the binding is compared in
\* the statement that calls the function.
SameContract(b) == proj.schema /\ hook = bind[b].hook

\* What the application answers to a query: the wipes it owes to a device
\* whose binding it knows and has not recorded as done.
Listed(b) ==
  IF <<bind[b].device, bind[b].revision>> \in reg
  THEN {o \in owed : o.device = bind[b].device /\ <<o.device, o.id>> \notin done}
  ELSE {}

\* An application acknowledges only a wipe it knows of.
Acknowledges(b, d) == \E o \in owed : o.device = bind[b].device /\ o.id = d

-----------------------------------------------------------------------------
(* Configuration and signing keys.                                         *)

\* insertSigningKey: the next key becomes the active one.
NextKey ==
  {k \in KeyIds : key[k] = "none" /\ \A j \in KeyIds : j < k => key[j] # "none"}

UpdateConfig(on) ==
  /\ Serving /\ proj.row
  /\ IF on
     THEN /\ secret # NoSecret
          /\ cfg.tag = NoTag \/ SecretsMatch
          /\ HooksInspected
          /\ cfg' = [enabled |-> TRUE, tag |-> secret]
          /\ IF ActiveKeys # {} THEN UNCHANGED key
             ELSE \E k \in NextKey : key' = [key EXCEPT ![k] = "active"]
     ELSE /\ cfg' = [cfg EXCEPT !.enabled = FALSE]
          /\ UNCHANGED key
  /\ UNCHANGED <<bind, mand, secret, schemaVars, backup, projectVars, deviceVars, faults>>

RotateSigningKey ==
  /\ Serving /\ cfg.enabled /\ SecretsMatch
  /\ \E k \in NextKey :
       key' = [j \in KeyIds |-> IF j = k THEN "active"
                                ELSE IF key[j] = "active" THEN "verification_only"
                                ELSE key[j]]
  /\ UNCHANGED <<cfg, bind, mand, secret, schemaVars, backup, projectVars,
                 deviceVars, faults>>

\* guard_project_device_wipe_signing_key_retirement: the trigger refuses a
\* key that pending mandates are signed with.
RetireAllowed(k) == \A b \in BindingIds, d \in Deletions :
  mand[b][d].status = "pending" => mand[b][d].key # k

RetireSigningKey(k) ==
  /\ Serving
  /\ key[k] = "verification_only"
  /\ RetireAllowed(k)
  /\ key' = [key EXCEPT ![k] = "retired"]
  /\ UNCHANGED <<cfg, bind, mand, secret, schemaVars, backup, projectVars,
                 deviceVars, faults>>

-----------------------------------------------------------------------------
(* Bindings.                                                               *)

\* The rows of the same identity HMAC.
Rows(i) == {b \in Bound : bind[b].device = i /\ bind[b].secret = secret}
\* The row of an earlier request with the same idempotency key.
Repeated(u, k) ==
  {b \in Bound : bind[b].user = u /\ bind[b].secret = secret /\ bind[b].idem = k}
NextBinding ==
  {b \in BindingIds : b \notin Bound /\ \A c \in BindingIds : c < b => c \in Bound}

Registering ==
  /\ Serving /\ secret # NoSecret
  /\ cfg.enabled /\ SecretsMatch

\* registerProjectDeviceWipeBinding of a request that was carried out: the
\* same credential again, derived anew.
RepeatRegistration(u, i, r, k) ==
  /\ Registering
  /\ \E b \in Repeated(u, k) :
       /\ bind[b].device = i /\ bind[b].revision = r
       /\ held' = held \cup {b}
  /\ UNCHANGED <<coreVars, secret, schemaVars, backup, projectVars, inbox, faults>>

\* A device belongs to one user, and its revisions only rise.
NewRevision(u, i, r) == \A b \in Rows(i) : bind[b].user = u /\ bind[b].revision < r

\* Mutant: a new revision starts without the mandates of the binding.
RegisterBinding_Clears(u, i, r, k) ==
  /\ Registering
  /\ Repeated(u, k) = {}
  /\ NewRevision(u, i, r)
  /\ HooksInspected
  /\ reg' = reg \cup {<<i, r>>}
  /\ \E b \in NextBinding :
       /\ bind' = [c \in BindingIds |->
            IF c = b
            THEN [status |-> "active", user |-> u, device |-> i, revision |-> r,
                  idem |-> k, secret |-> secret, hook |-> hook]
            ELSE IF c \in Rows(i) THEN [bind[c] EXCEPT !.status = "retired"]
            ELSE bind[c]]
       /\ mand' = [c \in BindingIds |-> IF c \in Rows(i) THEN mand[b] ELSE mand[c]]
       /\ held' \in {held, held \cup {b}}
  /\ UNCHANGED <<cfg, key, secret, hook, owed, done, backup, projectVars,
                 inbox, faults>>

\* registerProjectDeviceWipeBinding of a new request: the hook registers it,
\* the active binding of the device is retired, the new row is active.  The
\* answer may be lost.
RegisterBinding(u, i, r, k) ==
  /\ Registering
  /\ Repeated(u, k) = {}
  /\ NewRevision(u, i, r)
  /\ HooksInspected
  /\ reg' = reg \cup {<<i, r>>}
  /\ \E b \in NextBinding :
       /\ bind' = [c \in BindingIds |->
            IF c = b
            THEN [status |-> "active", user |-> u, device |-> i, revision |-> r,
                  idem |-> k, secret |-> secret, hook |-> hook]
            ELSE IF c \in Rows(i) THEN [bind[c] EXCEPT !.status = "retired"]
            ELSE bind[c]]
       /\ held' \in {held, held \cup {b}}
  /\ UNCHANGED <<cfg, key, mand, secret, hook, owed, done, backup, projectVars,
                 inbox, faults>>

-----------------------------------------------------------------------------
(* Mandates.                                                               *)

\* Mutant: acknowledged mandates are sent again before new ones are asked for.
Waiting_Any(b) == {d \in Deletions : mand[b][d].status # "none"}

\* The commands that are sent before anything new is asked for.
Waiting(b) == Mandates(b, "pending")

\* queryProjectDeviceWipeMandates with commands waiting: they are sent as
\* they were signed, whatever became of the hooks, and nothing else is asked.
QueryPending(b) ==
  /\ Serving /\ b \in held
  /\ Waiting(b) # {}
  /\ inbox' = inbox \cup {<<b, d>> : d \in Waiting(b)}
  /\ UNCHANGED <<coreVars, secret, schemaVars, backup, projectVars, held, faults>>

\* normalizeMandates
ListAccepted(list) ==
  /\ Cardinality(list) <= MaxList
  /\ \A o, p \in list : o.id = p.id => o = p
\* The entries of the answer that have no row yet.
Unmaterialized(b) == {o \in Listed(b) : mand[b][o.id].status = "none"}

\* queryProjectDeviceWipeMandates with none waiting: an active binding asks
\* the application; every wipe without a row becomes a command signed with
\* the active key.  A row whose scope the application has changed is a conflict.
QueryHook(b) ==
  /\ Serving /\ b \in held
  /\ Waiting(b) = {}
  /\ bind[b].status = "active"
  /\ SameContract(b)
  /\ ListAccepted(Listed(b))
  /\ \A o \in Listed(b) \ Unmaterialized(b) : mand[b][o.id].scope = o.scope
  /\ Unmaterialized(b) # {}
  /\ \E k \in ActiveKeys :
       mand' = [mand EXCEPT ![b] = [d \in Deletions |->
         IF \E o \in Unmaterialized(b) : o.id = d
         THEN [status |-> "pending", key |-> k, receipt |-> mand[b][d].receipt,
               scope |-> (CHOOSE o \in Unmaterialized(b) : o.id = d).scope]
         ELSE mand[b][d]]]
  /\ inbox' \in {inbox, inbox \cup {<<b, o.id>> : o \in Unmaterialized(b)}}
  /\ UNCHANGED <<cfg, key, bind, secret, schemaVars, backup, projectVars, held, faults>>

\* acknowledgeProjectDeviceWipeMandate of a pending command: the application
\* records the wipe in the same transaction.  (An accepted receipt is
\* answered again, a different one refused: no step.)
Acknowledge(b, d, receipt) ==
  /\ Serving /\ b \in held
  /\ <<b, d>> \in inbox
  /\ mand[b][d].status = "pending"
  /\ SameContract(b)
  /\ Acknowledges(b, d)
  /\ done' = done \cup {<<bind[b].device, d>>}
  /\ mand' = [mand EXCEPT ![b][d] =
       [status |-> "acknowledged", key |-> @.key, scope |-> @.scope, receipt |-> receipt]]
  /\ UNCHANGED <<cfg, key, bind, secret, hook, reg, owed, backup, projectVars,
                 deviceVars, faults>>

-----------------------------------------------------------------------------
(* The application and the deployment.                                     *)

\* The application owes a wipe to a device it knows.
ApplicationOwes(i, d, scope) ==
  /\ proj.schema
  /\ \E r \in Revisions : <<i, r>> \in reg
  /\ \A o \in owed : o.id # d
  \* a deletion id is never used twice, also not after a restore
  /\ \A b \in BindingIds : mand[b][d].status = "none"
  /\ \A o \in backup.owed : o.id # d
  /\ owed' = owed \cup {[device |-> i, id |-> d, scope |-> scope]}
  /\ UNCHANGED <<coreVars, secret, hook, reg, done, backup, projectVars,
                 deviceVars, faults>>

\* A migration of the application replaces, or repairs, the hook functions.
ApplicationMigrates ==
  /\ proj.schema /\ proj.user /\ Fault
  /\ hook' \in Hooks \ {hook}
  /\ UNCHANGED <<coreVars, secret, reg, owed, done, backup, projectVars, deviceVars>>

\* The API is restarted with other secrets, or with none.
SecretsReplaced ==
  /\ Fault
  /\ secret' \in (Secrets \cup {NoSecret}) \ {secret}
  /\ UNCHANGED <<coreVars, schemaVars, backup, projectVars, deviceVars>>

-----------------------------------------------------------------------------
(* Backup and restore of the project schema (backup.service.ts).           *)

Image == [hook |-> hook, reg |-> reg, owed |-> owed, done |-> done]
LoadImage(image) ==
  /\ reg' = image.reg /\ owed' = image.owed /\ done' = image.done

TakeBackup ==
  /\ proj.schema /\ rs = "idle" /\ Fault
  /\ backup' = Image
  /\ UNCHANGED <<coreVars, secret, schemaVars, projectVars, deviceVars>>

\* withProjectAuthProjectLock, its finally
Unlock(holder) == plock' = IF plock = holder THEN "free" ELSE plock

\* restoreBackup: the lock, then beginProjectRestoreGate.
RestoreBegins ==
  /\ rs = "idle" /\ plock = "free" /\ proj.row /\ proj.schema /\ Fault
  /\ plock' = "restore" /\ gate' = "restoring" /\ rs' = "restore"
  /\ UNCHANGED <<coreVars, secret, schemaVars, backup, dl, proj, deviceVars>>

\* restoreBackupUnlocked.  pg_restore runs with --no-owner: whether the hook
\* functions it creates again pass the inspection depends on the deployment.
RestoreData ==
  /\ rs = "restore"
  /\ LoadImage(backup)
  /\ hook' \in {backup.hook, NoHook}
  /\ rs' = "replay"
  /\ UNCHANGED <<coreVars, secret, backup, gate, plock, dl, proj, deviceVars, faults>>

\* inspectRestoredContracts, for every binding that was ever registered.
RestoredContracts == \A b \in Bound : HooksInspected /\ hook = bind[b].hook
\* replayProjectDeviceWipeRegistrations
ReplayedRegistrations == {<<bind[b].device, bind[b].revision>> : b \in Bound}
\* replayProjectDeviceWipeReceipts
ReplayedReceipts ==
  {<<bind[p[1]].device, p[2]>> :
     p \in {q \in BindingIds \X Deletions : mand[q[1]][q[2]].status = "acknowledged"}}

\* replayProjectAccountDeletionFences as far as it concerns the channel: in one
\* transaction registrations and receipts are handed to the application again
\* and the gate is removed.
ReplayCore ==
  /\ rs = "replay" /\ gate = "restoring"
  /\ RestoredContracts
  /\ \A b \in Bound : \A d \in Mandates(b, "acknowledged") : Acknowledges(b, d)
  /\ reg' = reg \cup ReplayedRegistrations
  /\ done' = done \cup ReplayedReceipts
  /\ gate' = "none"
  /\ rs' = "idle" /\ Unlock("restore")
  /\ UNCHANGED <<coreVars, secret, hook, owed, backup, dl, proj, deviceVars, faults>>

\* The replay is refused, or pg_restore or a hook breaks off.
RestoreBreaks ==
  /\ rs \in {"restore", "replay"}
  /\ rs' = "failed"
  /\ UNCHANGED <<coreVars, secret, schemaVars, backup, gate, plock, dl, proj,
                 deviceVars, faults>>

\* markProjectRestoreRecoveryRequired
RestoreFails ==
  /\ rs = "failed"
  /\ gate' = "recovery_required"
  /\ rs' = "idle" /\ Unlock("restore")
  /\ UNCHANGED <<coreVars, secret, schemaVars, backup, dl, proj, deviceVars, faults>>

\* The process ends in a restore: the gate stays as it is.
RestoreCrashes ==
  /\ rs # "idle" /\ Fault
  /\ rs' = "idle" /\ Unlock("restore")
  /\ UNCHANGED <<coreVars, secret, schemaVars, backup, gate, dl, proj, deviceVars>>

\* The database session that holds the lock of a restore ends.
LockSessionLost ==
  /\ plock = "restore" /\ Fault
  /\ plock' = "free"
  /\ UNCHANGED <<coreVars, secret, schemaVars, backup, gate, rs, dl, proj, deviceVars>>

-----------------------------------------------------------------------------
(* The project and its database user.                                      *)

\* assertProjectDeviceWipeProjectDeletionAllowed
DeletionAllowed == Bound = {} /\ \A b \in BindingIds : Mandates(b, "none") = Deletions

\* dropProjectDbUser: what the user owned goes to another owner, the hook
\* functions included.
DropUser ==
  /\ DeletionAllowed
  /\ proj' = [proj EXCEPT !.user = FALSE]
  /\ hook' = NoHook

DropProjectDbUser ==
  /\ plock = "free" /\ proj.row /\ proj.user /\ Fault
  /\ DropUser
  /\ UNCHANGED <<coreVars, secret, reg, owed, done, backup, gate, plock, rs, dl, deviceVars>>

\* createProjectDbUser takes no lock.
CreateProjectDbUser ==
  /\ proj.row /\ proj.schema /\ ~proj.user
  /\ proj' = [proj EXCEPT !.user = TRUE]
  /\ UNCHANGED <<coreVars, secret, schemaVars, backup, gate, plock, rs, dl,
                 deviceVars, faults>>

\* deleteProject: the lock, then the assertions on lifecycle records.
DeleteBegins ==
  /\ dl = "idle" /\ plock = "free" /\ proj.row /\ Fault
  /\ DeletionAllowed
  /\ plock' = "delete" /\ dl' = "checked"
  /\ UNCHANGED <<coreVars, secret, schemaVars, backup, gate, rs, proj, deviceVars>>

\* The database user first, on the connection that holds the lock.
DeleteUser ==
  /\ dl = "checked"
  /\ IF proj.user THEN DropUser ELSE UNCHANGED <<proj, hook>>
  /\ dl' = "no_user"
  /\ UNCHANGED <<coreVars, secret, reg, owed, done, backup, gate, plock, rs,
                 deviceVars, faults>>

\* Then the schemas of the environments and of the project, and the files.
DeleteSchema ==
  /\ dl = "no_user"
  /\ proj' = [proj EXCEPT !.schema = FALSE]
  /\ reg' = {} /\ owed' = {} /\ done' = {} /\ hook' = NoHook
  /\ dl' = "no_schema"
  /\ UNCHANGED <<coreVars, secret, backup, gate, plock, rs, deviceVars, faults>>

\* Last the row: configuration and keys go with it, bindings would forbid it.
DeleteRow ==
  /\ dl = "no_schema"
  /\ DeletionAllowed
  /\ proj' = [row |-> FALSE, user |-> FALSE, schema |-> FALSE]
  /\ cfg' = [enabled |-> FALSE, tag |-> NoTag]
  /\ key' = [k \in KeyIds |-> "none"]
  /\ gate' = "none"
  /\ dl' = "idle" /\ Unlock("delete")
  /\ UNCHANGED <<bind, mand, secret, schemaVars, backup, rs, deviceVars, faults>>

\* A step of the deletion fails, or the process ends: what was done stays done.
DeleteBreaks ==
  /\ dl # "idle" /\ Fault
  /\ dl' = "idle" /\ Unlock("delete")
  /\ UNCHANGED <<coreVars, secret, schemaVars, backup, gate, rs, proj, deviceVars>>

-----------------------------------------------------------------------------
(* The specification.                                                      *)

ManagementStep ==
  \/ \E on \in BOOLEAN : UpdateConfig(on)
  \/ RotateSigningKey
  \/ \E k \in KeyIds : RetireSigningKey(k)

RegistrationStep == \E u \in Users, i \in Devices, r \in Revisions, k \in IdemKeys :
  RepeatRegistration(u, i, r, k) \/ RegisterBinding(u, i, r, k)

Query(b) == QueryPending(b) \/ QueryHook(b)
Answer(b) == \E d \in Deletions, receipt \in Receipts : Acknowledge(b, d, receipt)
DeviceStep == \E b \in BindingIds : Query(b) \/ Answer(b)

ApplicationStep ==
  \/ \E i \in Devices, d \in Deletions, scope \in Scopes : ApplicationOwes(i, d, scope)
  \/ ApplicationMigrates \/ SecretsReplaced

RestoreStep ==
  \/ TakeBackup \/ RestoreBegins \/ RestoreData \/ ReplayCore
  \/ RestoreBreaks \/ RestoreFails \/ RestoreCrashes \/ LockSessionLost

ProjectStep ==
  \/ DropProjectDbUser \/ CreateProjectDbUser
  \/ DeleteBegins \/ DeleteUser \/ DeleteSchema \/ DeleteRow \/ DeleteBreaks

Next ==
  \/ ManagementStep \/ RegistrationStep \/ DeviceStep
  \/ ApplicationStep \/ RestoreStep \/ ProjectStep

Spec == Init /\ [][Next]_vars

\* A device keeps asking and answering.
FairSpec == Spec /\ \A b \in BindingIds : WF_vars(Query(b)) /\ WF_vars(Answer(b))

-----------------------------------------------------------------------------
(* Properties.                                                             *)

\* A command a device has yet to obey can be verified: the key it was signed
\* with is among the published ones, whatever was rotated and retired since.
PendingVerifiable ==
  \A b \in Bound : \A d \in Mandates(b, "pending") : mand[b][d].key \in Published

\* A device belongs to one user, has one credential that discovers new
\* wipes, and that is the one of its highest revision.  Replaced secrets make
\* no second device of it.
OneCredentialPerDevice ==
  \A b, c \in Bound : bind[b].device = bind[c].device =>
    /\ bind[b].user = bind[c].user
    /\ b # c => bind[b].revision # bind[c].revision
    /\ bind[b].status = "active" => bind[c].revision <= bind[b].revision

\* When the gate is open, the application knows every binding and every
\* receipt the API has on record, whatever backup was restored.
RestoreKeepsReceipts ==
  gate = "none" => /\ ReplayedRegistrations \subseteq reg
                   /\ ReplayedReceipts \subseteq done

\* Nothing removes the project, its database user or its signing key from
\* under a device that still has to be served.
RecordsOutliveProject ==
  Bound # {} => proj.row /\ proj.user /\ Cardinality(ActiveKeys) = 1

\* The records of the channel are sound: well typed, one credential for a device,
\* pending commands that can still be verified, receipts and registrations that
\* survive a restore, and a project that outlives its devices.
RecordsSound ==
  /\ TypeOK /\ OneCredentialPerDevice /\ PendingVerifiable
  /\ RestoreKeepsReceipts /\ RecordsOutliveProject

\* The abstract ledger, read off the mandate rows.
Commands(statuses) ==
  {<<bind[p[1]].device, p[1], p[2]>> :
     p \in {q \in BindingIds \X Deletions : mand[q[1]][q[2]].status \in statuses}}
Ledger == INSTANCE WipeLedger
  WITH Credentials <- BindingIds, Obligations <- Deletions,
       issued <- Commands({"pending", "acknowledged"}),
       confirmed <- Commands({"acknowledged"})

\* The channel implements the ledger: no command is withdrawn or confirmed
\* twice, and a wipe that a device has confirmed is not demanded of it again,
\* neither after a restore nor through a later revision of its binding.
ImplementsLedger == Ledger!LedgerSpec

\* The binding can be served: its credential is with the device, it is the
\* active one, the hooks are those it was registered with, the project is
\* open, and the application still knows what the device was told to do.
Serviceable(b) ==
  /\ Serving /\ b \in held /\ bind[b].status = "active" /\ SameContract(b)
  /\ ListAccepted(Listed(b))
  /\ \A d \in Mandates(b, "pending") : Acknowledges(b, d)

\* What the application owes to a device that stays serviceable is carried
\* out: pending commands do not keep the others from being asked for.
OwedIsCarriedOut ==
  \A b \in BindingIds :
    <>[]Serviceable(b) => []<>(Listed(b) = {} \/ ~Serviceable(b))
=============================================================================
