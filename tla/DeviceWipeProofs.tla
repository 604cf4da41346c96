-------------------------- MODULE DeviceWipeProofs --------------------------
(***************************************************************************)
(* What holds of the device wipe channel for every number of users,        *)
(* devices, revisions, deletions, keys, secrets and faults: its records    *)
(* are sound, and it implements the ledger of wipe commands.               *)
(***************************************************************************)
EXTENDS DeviceWipe, FiniteSetTheorems, TLAPS

-----------------------------------------------------------------------------
(* Type correctness.                                                       *)

\* The schema's variables have the types of a schema image's fields.
LEMMA ImageType ==
  [hook |-> hook, reg |-> reg, owed |-> owed, done |-> done] \in SchemaImage
    <=> /\ hook \in HookStates /\ reg \subseteq Devices \X Revisions
        /\ owed \subseteq [device : Devices, id : Deletions, scope : Scopes]
        /\ done \subseteq Devices \X Deletions
  BY DEF SchemaImage

LEMMA ImageTypeNext ==
  ([hook |-> hook, reg |-> reg, owed |-> owed, done |-> done] \in SchemaImage)'
    <=> /\ hook' \in HookStates /\ reg' \subseteq Devices \X Revisions
        /\ owed' \subseteq [device : Devices, id : Deletions, scope : Scopes]
        /\ done' \subseteq Devices \X Deletions
  BY DEF SchemaImage

\* A set of values that is not empty has the element AnyOf names.
LEMMA AnyOfType == ASSUME NEW S, S # {} PROVE AnyOf(S) \in S
  BY DEF AnyOf

LEMMA InitType == Init => TypeOK
  <1> SUFFICES ASSUME Init PROVE TypeOK
    OBVIOUS
  <1>1. /\ AnyOf(Users) \in Users /\ AnyOf(Devices) \in Devices
        /\ AnyOf(IdemKeys) \in IdemKeys /\ AnyOf(Secrets) \in Secrets
        /\ AnyOf(Hooks) \in Hooks /\ AnyOf(Scopes) \in Scopes
        /\ AnyOf(Receipts) \in Receipts
    BY AnyOfType, DeviceWipeAssumption
  <1>2. 1 \in Revisions /\ 1 \in KeyIds
    BY DeviceWipeAssumption DEF Revisions, KeyIds
  <1>3. bind \in [BindingIds -> BindingRow]
    BY <1>1, <1>2 DEF Init, BindingRow
  <1>4. mand \in [BindingIds -> [Deletions -> MandateRow]]
    BY <1>1, <1>2 DEF Init, MandateRow
  <1>5. backup \in SchemaImage
    BY <1>1 DEF Init, SchemaImage, HookStates
  <1>6. [hook |-> hook, reg |-> reg, owed |-> owed, done |-> done] \in SchemaImage
    BY <1>1, ImageType DEF Init, HookStates
  <1>7. faults \in 0..MaxFaults
    BY DeviceWipeAssumption DEF Init
  <1> QED
    BY <1>1, <1>3, <1>4, <1>5, <1>6, <1>7 DEF Init, TypeOK

\* What every step has to show of the variables it changes.
LEMMA TypeFromParts ==
  ASSUME TypeOK,
         cfg' \in [enabled : BOOLEAN, tag : Secrets \cup {NoTag}],
         key' \in [KeyIds -> {"none", "active", "verification_only", "retired"}],
         bind' \in [BindingIds -> BindingRow],
         mand' \in [BindingIds -> [Deletions -> MandateRow]],
         secret' \in Secrets \cup {NoSecret},
         hook' \in HookStates, reg' \subseteq Devices \X Revisions,
         owed' \subseteq [device : Devices, id : Deletions, scope : Scopes],
         done' \subseteq Devices \X Deletions,
         backup' \in SchemaImage,
         gate' \in {"none", "restoring", "recovery_required"},
         plock' \in {"free", "restore", "delete"},
         rs' \in {"idle", "restore", "replay", "failed"},
         dl' \in {"idle", "checked", "no_user", "no_schema"},
         proj' \in [row : BOOLEAN, user : BOOLEAN, schema : BOOLEAN],
         held' \subseteq BindingIds, inbox' \subseteq BindingIds \X Deletions,
         faults' \in 0..MaxFaults
  PROVE  TypeOK'
  BY ImageTypeNext DEF TypeOK

\* TypeOK with the schema's variables taken apart.
LEMMA TypeParts ==
  TypeOK => /\ hook \in HookStates /\ reg \subseteq Devices \X Revisions
            /\ owed \subseteq [device : Devices, id : Deletions, scope : Scopes]
            /\ done \subseteq Devices \X Deletions
  BY ImageType DEF TypeOK

LEMMA FaultType == TypeOK /\ Fault => faults' \in 0..MaxFaults
  BY DeviceWipeAssumption DEF TypeOK, Fault

LEMMA ManagementType == TypeOK /\ ManagementStep => TypeOK'
  <1> SUFFICES ASSUME TypeOK, ManagementStep PROVE TypeOK'
    OBVIOUS
  <1>0. ASSUME key' \in [KeyIds -> {"none", "active", "verification_only", "retired"}],
               cfg' \in [enabled : BOOLEAN, tag : Secrets \cup {NoTag}],
               UNCHANGED <<bind, mand, secret, schemaVars, backup, projectVars, deviceVars, faults>>
        PROVE  TypeOK'
    BY <1>0, TypeFromParts, TypeParts DEF TypeOK, schemaVars, projectVars, deviceVars
  <1>1. ASSUME NEW on \in BOOLEAN, UpdateConfig(on) PROVE TypeOK'
    <2>1. cfg' \in [enabled : BOOLEAN, tag : Secrets \cup {NoTag}]
      <3>1. CASE on
        <4>1. secret # NoSecret /\ cfg' = [enabled |-> TRUE, tag |-> secret]
          BY <1>1, <3>1, Zenon DEF UpdateConfig
        <4> QED
          BY <4>1 DEF TypeOK
      <3>2. CASE ~on
        <4>1. cfg' = [cfg EXCEPT !.enabled = FALSE]
          BY <1>1, <3>2, Zenon DEF UpdateConfig
        <4> QED
          BY <4>1 DEF TypeOK
      <3> QED
        BY <3>1, <3>2
    <2>2. key' \in [KeyIds -> {"none", "active", "verification_only", "retired"}]
      <3>1. CASE UNCHANGED key
        BY <3>1 DEF TypeOK
      <3>2. CASE \E k \in KeyIds : key' = [key EXCEPT ![k] = "active"]
        BY <3>2 DEF TypeOK
      <3> QED
        BY <1>1, <3>1, <3>2 DEF UpdateConfig, NextKey
    <2> QED
      BY <1>0, <1>1, <2>1, <2>2 DEF UpdateConfig
  <1>2. CASE RotateSigningKey
    BY <1>0, <1>2 DEF RotateSigningKey, TypeOK, NextKey
  <1>3. ASSUME NEW k \in KeyIds, RetireSigningKey(k) PROVE TypeOK'
    BY <1>0, <1>3 DEF RetireSigningKey, TypeOK
  <1> QED
    BY <1>1, <1>2, <1>3 DEF ManagementStep

LEMMA RegistrationType == TypeOK /\ RegistrationStep => TypeOK'
  <1> SUFFICES ASSUME TypeOK, NEW u \in Users, NEW i \in Devices, NEW r \in Revisions,
                      NEW k \in IdemKeys,
                      RepeatRegistration(u, i, r, k) \/ RegisterBinding(u, i, r, k)
               PROVE  TypeOK'
    BY DEF RegistrationStep
  <1>1. CASE RepeatRegistration(u, i, r, k)
    <2>1. held' \subseteq BindingIds
      BY <1>1 DEF RepeatRegistration, TypeOK, Repeated, Bound
    <2> QED
      BY <1>1, <2>1, TypeFromParts, TypeParts
         DEF RepeatRegistration, TypeOK, coreVars, schemaVars, projectVars
  <1>2. CASE RegisterBinding(u, i, r, k)
    <2> DEFINE row == [status |-> "active", user |-> u, device |-> i, revision |-> r,
                       idem |-> k, secret |-> secret, hook |-> hook]
    <2>1. row \in BindingRow
      <3>1. secret \in Secrets /\ hook \in Hooks
        BY <1>2, TypeParts DEF RegisterBinding, Registering, HooksInspected, HookStates, TypeOK
      <3> QED
        BY <3>1 DEF BindingRow
    <2>2. PICK b \in NextBinding :
            /\ bind' = [c \in BindingIds |->
                 IF c = b THEN row
                 ELSE IF c \in Rows(i) THEN [bind[c] EXCEPT !.status = "retired"]
                 ELSE bind[c]]
            /\ held' \in {held, held \cup {b}}
      BY <1>2 DEF RegisterBinding
    <2>3. \A c \in BindingIds : [bind[c] EXCEPT !.status = "retired"] \in BindingRow
      BY DEF TypeOK, BindingRow
    <2>4. bind' \in [BindingIds -> BindingRow]
      <3> HIDE DEF row
      <3> QED
        BY <2>1, <2>2, <2>3 DEF TypeOK
    <2>5. held' \subseteq BindingIds
      BY <2>2 DEF NextBinding, TypeOK
    <2>6. reg' \subseteq Devices \X Revisions
      BY <1>2, TypeParts DEF RegisterBinding
    <2> QED
      BY <1>2, <2>4, <2>5, <2>6, TypeFromParts, TypeParts DEF RegisterBinding, TypeOK, projectVars
  <1> QED
    BY <1>1, <1>2

LEMMA DeviceType == TypeOK /\ DeviceStep => TypeOK'
  <1> SUFFICES ASSUME TypeOK, NEW b \in BindingIds, Query(b) \/ Answer(b)
               PROVE  TypeOK'
    BY DEF DeviceStep
  <1>1. CASE QueryPending(b)
    <2>1. inbox' \subseteq BindingIds \X Deletions
      BY <1>1 DEF QueryPending, TypeOK, Waiting, Mandates
    <2> QED
      BY <1>1, <2>1, TypeFromParts, TypeParts
         DEF QueryPending, TypeOK, coreVars, schemaVars, projectVars
  <1>2. CASE QueryHook(b)
    <2>1. PICK k \in ActiveKeys :
            mand' = [mand EXCEPT ![b] = [d \in Deletions |->
              IF \E o \in Unmaterialized(b) : o.id = d
              THEN [status |-> "pending", key |-> k, receipt |-> mand[b][d].receipt,
                    scope |-> (CHOOSE o \in Unmaterialized(b) : o.id = d).scope]
              ELSE mand[b][d]]]
      BY <1>2 DEF QueryHook
    <2>2. Unmaterialized(b) \subseteq [device : Devices, id : Deletions, scope : Scopes]
      BY TypeParts DEF Unmaterialized, Listed
    <2>3. ASSUME NEW d \in Deletions, \E o \in Unmaterialized(b) : o.id = d
          PROVE  (CHOOSE o \in Unmaterialized(b) : o.id = d).scope \in Scopes
      BY <2>2, <2>3
    <2>4. k \in KeyIds
      BY DEF ActiveKeys
    <2>5. \A d \in Deletions : mand[b][d].receipt \in Receipts
      BY DEF TypeOK, MandateRow
    <2>6. [d \in Deletions |->
              IF \E o \in Unmaterialized(b) : o.id = d
              THEN [status |-> "pending", key |-> k, receipt |-> mand[b][d].receipt,
                    scope |-> (CHOOSE o \in Unmaterialized(b) : o.id = d).scope]
              ELSE mand[b][d]] \in [Deletions -> MandateRow]
      BY <2>3, <2>4, <2>5 DEF TypeOK, MandateRow
    <2>7. mand' \in [BindingIds -> [Deletions -> MandateRow]]
      BY <2>1, <2>6 DEF TypeOK
    <2>8. inbox' \subseteq BindingIds \X Deletions
      BY <1>2, <2>2 DEF QueryHook, TypeOK
    <2> QED
      BY <1>2, <2>7, <2>8, TypeFromParts, TypeParts
         DEF QueryHook, TypeOK, schemaVars, projectVars
  <1>3. ASSUME NEW d \in Deletions, NEW receipt \in Receipts, Acknowledge(b, d, receipt)
        PROVE  TypeOK'
    <2>1. mand' \in [BindingIds -> [Deletions -> MandateRow]]
      BY <1>3 DEF Acknowledge, TypeOK, MandateRow
    <2>2. done' \subseteq Devices \X Deletions
      BY <1>3, TypeParts DEF Acknowledge, TypeOK, BindingRow
    <2> QED
      BY <1>3, <2>1, <2>2, TypeFromParts, TypeParts
         DEF Acknowledge, TypeOK, projectVars, deviceVars
  <1> QED
    BY <1>1, <1>2, <1>3 DEF Query, Answer

LEMMA ApplicationType == TypeOK /\ ApplicationStep => TypeOK'
  <1> SUFFICES ASSUME TypeOK, ApplicationStep PROVE TypeOK'
    OBVIOUS
  <1>1. ASSUME NEW i \in Devices, NEW d \in Deletions, NEW scope \in Scopes,
               ApplicationOwes(i, d, scope)
        PROVE  TypeOK'
    BY <1>1, TypeFromParts, TypeParts
       DEF ApplicationOwes, TypeOK, coreVars, projectVars, deviceVars
  <1>2. CASE ApplicationMigrates
    BY <1>2, TypeFromParts, TypeParts, FaultType
       DEF ApplicationMigrates, TypeOK, coreVars, projectVars, deviceVars, HookStates
  <1>3. CASE SecretsReplaced
    BY <1>3, TypeFromParts, TypeParts, FaultType
       DEF SecretsReplaced, TypeOK, coreVars, schemaVars, projectVars, deviceVars
  <1> QED
    BY <1>1, <1>2, <1>3 DEF ApplicationStep

LEMMA RestoreType == TypeOK /\ RestoreStep => TypeOK'
  <1> SUFFICES ASSUME TypeOK, RestoreStep PROVE TypeOK'
    OBVIOUS
  <1>0. backup \in SchemaImage
    BY DEF TypeOK
  <1>1. CASE TakeBackup
    <2>1. backup' \in SchemaImage
      BY <1>1 DEF TakeBackup, TypeOK, Image
    <2> QED
      BY <1>1, <2>1, TypeFromParts, TypeParts, FaultType
         DEF TakeBackup, TypeOK, coreVars, schemaVars, projectVars, deviceVars
  <1>2. CASE RestoreBegins
    BY <1>2, TypeFromParts, TypeParts, FaultType
       DEF RestoreBegins, TypeOK, coreVars, schemaVars, deviceVars
  <1>3. CASE RestoreData
    <2>1. /\ backup.hook \in HookStates /\ backup.reg \subseteq Devices \X Revisions
          /\ backup.owed \subseteq [device : Devices, id : Deletions, scope : Scopes]
          /\ backup.done \subseteq Devices \X Deletions
      BY <1>0 DEF SchemaImage
    <2> QED
      BY <1>3, <2>1, TypeFromParts
         DEF RestoreData, LoadImage, TypeOK, coreVars, deviceVars, HookStates
  <1>4. CASE ReplayCore
    <2>1. ReplayedRegistrations \subseteq Devices \X Revisions
      BY DEF ReplayedRegistrations, Bound, TypeOK, BindingRow
    <2>2. ReplayedReceipts \subseteq Devices \X Deletions
      BY DEF ReplayedReceipts, TypeOK, BindingRow
    <2> QED
      BY <1>4, <2>1, <2>2, TypeFromParts, TypeParts
         DEF ReplayCore, Unlock, TypeOK, coreVars, deviceVars
  <1>5. CASE RestoreBreaks
    BY <1>5, TypeFromParts, TypeParts DEF RestoreBreaks, TypeOK, coreVars, schemaVars, deviceVars
  <1>6. CASE RestoreFails
    <2>1. plock' \in {"free", "restore", "delete"}
      BY <1>6 DEF RestoreFails, Unlock, TypeOK
    <2> QED
      BY <1>6, <2>1, TypeFromParts, TypeParts
         DEF RestoreFails, TypeOK, coreVars, schemaVars, deviceVars
  <1>7. CASE RestoreCrashes
    <2>1. plock' \in {"free", "restore", "delete"}
      BY <1>7 DEF RestoreCrashes, Unlock, TypeOK
    <2>2. faults' \in 0..MaxFaults /\ rs' \in {"idle", "restore", "replay", "failed"}
      BY <1>7, FaultType DEF RestoreCrashes
    <2>3. UNCHANGED <<coreVars, secret, schemaVars, backup, gate, dl, proj, deviceVars>>
      BY <1>7 DEF RestoreCrashes
    <2> QED
      BY <2>1, <2>2, <2>3, TypeFromParts, TypeParts
         DEF TypeOK, coreVars, schemaVars, deviceVars
  <1>8. CASE LockSessionLost
    BY <1>8, TypeFromParts, TypeParts, FaultType
       DEF LockSessionLost, TypeOK, coreVars, schemaVars, deviceVars
  <1> QED
    BY <1>1, <1>2, <1>3, <1>4, <1>5, <1>6, <1>7, <1>8 DEF RestoreStep

LEMMA ProjectType == TypeOK /\ ProjectStep => TypeOK'
  <1> SUFFICES ASSUME TypeOK, ProjectStep PROVE TypeOK'
    OBVIOUS
  <1>0. proj \in [row : BOOLEAN, user : BOOLEAN, schema : BOOLEAN] /\ NoHook \in HookStates
    BY DEF TypeOK, HookStates
  <1>1. CASE DropProjectDbUser
    BY <1>0, <1>1, TypeFromParts, TypeParts, FaultType
       DEF DropProjectDbUser, DropUser, TypeOK, coreVars, deviceVars
  <1>2. CASE CreateProjectDbUser
    <2>1. proj' \in [row : BOOLEAN, user : BOOLEAN, schema : BOOLEAN]
      BY <1>0, <1>2 DEF CreateProjectDbUser
    <2>2. UNCHANGED <<coreVars, secret, schemaVars, backup, gate, plock, rs, dl,
                      deviceVars, faults>>
      BY <1>2 DEF CreateProjectDbUser
    <2> QED
      BY <2>1, <2>2, TypeFromParts, TypeParts DEF TypeOK, coreVars, schemaVars, deviceVars
  <1>3. CASE DeleteBegins
    BY <1>3, TypeFromParts, TypeParts, FaultType
       DEF DeleteBegins, TypeOK, coreVars, schemaVars, deviceVars
  <1>4. CASE DeleteUser
    <2>1. proj' \in [row : BOOLEAN, user : BOOLEAN, schema : BOOLEAN] /\ hook' \in HookStates
      BY <1>0, <1>4, TypeParts DEF DeleteUser, DropUser
    <2> QED
      BY <1>4, <2>1, TypeFromParts, TypeParts DEF DeleteUser, TypeOK, coreVars, deviceVars
  <1>5. CASE DeleteSchema
    BY <1>0, <1>5, TypeFromParts, TypeParts DEF DeleteSchema, TypeOK, coreVars, deviceVars
  <1>6. CASE DeleteRow
    BY <1>6, TypeFromParts, TypeParts DEF DeleteRow, Unlock, TypeOK, schemaVars, deviceVars
  <1>7. CASE DeleteBreaks
    BY <1>7, TypeFromParts, TypeParts, FaultType
       DEF DeleteBreaks, Unlock, TypeOK, coreVars, schemaVars, deviceVars
  <1> QED
    BY <1>1, <1>2, <1>3, <1>4, <1>5, <1>6, <1>7 DEF ProjectStep

LEMMA NextType == TypeOK /\ [Next]_vars => TypeOK'
  <1> SUFFICES ASSUME TypeOK, [Next]_vars PROVE TypeOK'
    OBVIOUS
  <1>1. CASE UNCHANGED vars
    BY <1>1, TypeFromParts, TypeParts
       DEF TypeOK, vars, coreVars, schemaVars, projectVars, deviceVars
  <1> QED
    BY <1>1, ManagementType, RegistrationType, DeviceType, ApplicationType,
       RestoreType, ProjectType DEF Next

-----------------------------------------------------------------------------
(* The inductive invariant.                                                *)

\* Only a binding that was registered has mandates, a credential that reached
\* its device, and the HMACs of the secrets the project was set up with.
BindingsKnown ==
  /\ \A b \in BindingIds, d \in Deletions : mand[b][d].status # "none" => b \in Bound
  /\ held \subseteq Bound
  /\ \A b \in Bound : bind[b].secret = cfg.tag

\* One key signs, and there is one as long as something may have to be signed.
OneSigningKey ==
  /\ \A j, k \in ActiveKeys : j = k
  /\ cfg.enabled \/ Bound # {} => ActiveKeys # {}

\* A deletion under way holds the lock and has found no binding; a restore
\* under way has closed the gate, unless the project went with its gate.
LongStepsFenced ==
  /\ dl # "idle" => plock = "delete" /\ Bound = {}
  /\ rs # "idle" => gate # "none" \/ ~proj.row
  /\ Bound # {} => proj.row /\ proj.user

RecordsInv ==
  /\ TypeOK /\ BindingsKnown /\ OneCredentialPerDevice
  /\ OneSigningKey /\ PendingVerifiable
  /\ LongStepsFenced /\ RestoreKeepsReceipts

LEMMA InitRecords == Init => RecordsInv
  <1> SUFFICES ASSUME Init PROVE RecordsInv
    OBVIOUS
  <1>1. TypeOK
    BY InitType
  <1>2. Bound = {} /\ \A b \in BindingIds, d \in Deletions : mand[b][d].status = "none"
    BY DEF Init, Bound
  <1>3. ActiveKeys = {}
    BY DEF Init, ActiveKeys
  <1>4. ReplayedRegistrations = {} /\ ReplayedReceipts = {}
    BY <1>2 DEF ReplayedRegistrations, ReplayedReceipts
  <1>5. BindingsKnown /\ OneCredentialPerDevice
    BY <1>2 DEF Init, BindingsKnown, OneCredentialPerDevice
  <1>6. OneSigningKey /\ PendingVerifiable
    BY <1>2, <1>3 DEF Init, OneSigningKey, PendingVerifiable
  <1>7. LongStepsFenced /\ RestoreKeepsReceipts
    BY <1>2, <1>4 DEF Init, LongStepsFenced, RestoreKeepsReceipts
  <1> QED
    BY <1>1, <1>5, <1>6, <1>7 DEF RecordsInv

-----------------------------------------------------------------------------
(* What the steps that are not calls of the channel leave alone.           *)

LEMMA ApplicationFrame ==
  ApplicationStep => UNCHANGED <<cfg, key, bind, mand, held, inbox, backup, gate, plock, rs, dl, proj>>
                     /\ UNCHANGED <<reg, done>>
  BY DEF ApplicationStep, ApplicationOwes, ApplicationMigrates, SecretsReplaced,
         coreVars, schemaVars, projectVars, deviceVars

LEMMA RestoreFrame ==
  RestoreStep => UNCHANGED <<cfg, key, bind, mand, held, inbox, dl, proj>>
  BY DEF RestoreStep, TakeBackup, RestoreBegins, RestoreData, ReplayCore, RestoreBreaks,
         RestoreFails, RestoreCrashes, LockSessionLost,
         coreVars, schemaVars, projectVars, deviceVars

LEMMA ProjectFrame ==
  ProjectStep => /\ UNCHANGED <<bind, mand, held, inbox, rs>>
                 /\ UNCHANGED <<cfg, key, gate>> \/ DeleteRow
                 /\ UNCHANGED <<reg, done>> \/ DeleteSchema
  BY DEF ProjectStep, DropProjectDbUser, CreateProjectDbUser, DeleteBegins, DeleteUser,
         DeleteSchema, DeleteRow, DeleteBreaks, coreVars, schemaVars, deviceVars

\* Nothing is registered, and no command recorded, once a deletion is allowed.
LEMMA DeletionAllowedMeans ==
  TypeOK /\ DeletionAllowed =>
    Bound = {} /\ \A b \in BindingIds, d \in Deletions : mand[b][d].status = "none"
  BY DEF DeletionAllowed, Mandates

-----------------------------------------------------------------------------
(* The rows of the bindings.                                               *)

\* The row a registration adds, and those it retires.
LEMMA RegisteredRows ==
  ASSUME TypeOK, NEW u \in Users, NEW i \in Devices, NEW r \in Revisions, NEW k \in IdemKeys,
         RegisterBinding(u, i, r, k)
  PROVE  \E b \in BindingIds :
           /\ b \notin Bound /\ Bound' = Bound \cup {b}
           /\ held' \in {held, held \cup {b}}
           /\ bind'[b].status = "active" /\ bind'[b].user = u /\ bind'[b].device = i
           /\ bind'[b].revision = r /\ bind'[b].secret = secret
           /\ \A c \in Bound :
                /\ bind'[c].user = bind[c].user /\ bind'[c].device = bind[c].device
                /\ bind'[c].revision = bind[c].revision /\ bind'[c].secret = bind[c].secret
                /\ bind'[c].status = IF c \in Rows(i) THEN "retired" ELSE bind[c].status
  <1> DEFINE row == [status |-> "active", user |-> u, device |-> i, revision |-> r,
                     idem |-> k, secret |-> secret, hook |-> hook]
  <1>1. PICK b \in NextBinding :
          /\ bind' = [c \in BindingIds |->
               IF c = b THEN row
               ELSE IF c \in Rows(i) THEN [bind[c] EXCEPT !.status = "retired"]
               ELSE bind[c]]
          /\ held' \in {held, held \cup {b}}
    BY DEF RegisterBinding
  <1>2. b \in BindingIds /\ b \notin Bound
    BY DEF NextBinding
  <1>3. bind'[b] = row
    BY <1>1, <1>2
  <1>4. ASSUME NEW c \in BindingIds, c # b
        PROVE  bind'[c] = IF c \in Rows(i) THEN [bind[c] EXCEPT !.status = "retired"] ELSE bind[c]
    BY <1>1, <1>4
  <1>5. \A c \in BindingIds : bind[c] \in BindingRow
    BY DEF TypeOK
  <1>6. ASSUME NEW c \in Bound
        PROVE  /\ bind'[c].user = bind[c].user /\ bind'[c].device = bind[c].device
               /\ bind'[c].revision = bind[c].revision /\ bind'[c].secret = bind[c].secret
               /\ bind'[c].status = IF c \in Rows(i) THEN "retired" ELSE bind[c].status
    <2>1. c \in BindingIds /\ c # b
      BY <1>2, <1>6 DEF Bound
    <2>2. CASE c \in Rows(i)
      BY <1>4, <1>5, <2>1, <2>2 DEF BindingRow
    <2>3. CASE c \notin Rows(i)
      BY <1>4, <2>1, <2>3
    <2> QED
      BY <2>2, <2>3
  <1>7. ASSUME NEW c \in BindingIds, c # b
        PROVE  bind'[c].status # "none" <=> bind[c].status # "none"
    <2>1. CASE c \in Bound
      BY <1>6, <2>1 DEF Bound
    <2>2. CASE c \notin Bound
      BY <1>4, <1>7, <2>2 DEF Rows
    <2> QED
      BY <2>1, <2>2
  <1>8. Bound' = Bound \cup {b}
    <2>1. bind'[b].status = "active"
      BY <1>3
    <2> QED
      BY <1>2, <1>7, <2>1 DEF Bound
  <1> QED
    BY <1>1, <1>2, <1>3, <1>6, <1>8

LEMMA BindingsKept ==
  RecordsInv /\ [Next]_vars => BindingsKnown' /\ OneCredentialPerDevice'
  <1> SUFFICES ASSUME RecordsInv, [Next]_vars PROVE BindingsKnown' /\ OneCredentialPerDevice'
    OBVIOUS
  <1> USE DEF RecordsInv
  <1>a. TypeOK' /\ TypeOK
    BY NextType
  <1>0. ASSUME UNCHANGED <<bind, mand, held, cfg>>
        PROVE  BindingsKnown' /\ OneCredentialPerDevice'
    BY <1>0 DEF BindingsKnown, OneCredentialPerDevice, Bound
  <1>1. ASSUME NEW on \in BOOLEAN, UpdateConfig(on)
        PROVE  BindingsKnown' /\ OneCredentialPerDevice'
    <2>1. UNCHANGED <<bind, mand, held>>
      BY <1>1 DEF UpdateConfig, deviceVars
    <2>2. Bound = {} \/ cfg'.tag = cfg.tag
      <3>1. CASE on
        <4>1. cfg' = [enabled |-> TRUE, tag |-> secret] /\ (cfg.tag = NoTag \/ cfg.tag = secret)
          BY <1>1, <3>1, Zenon DEF UpdateConfig, SecretsMatch
        <4>2. cfg.tag = NoTag => Bound = {}
          BY DeviceWipeAssumption DEF BindingsKnown, TypeOK, BindingRow, Bound
        <4> QED
          BY <4>1, <4>2
      <3>2. CASE ~on
        <4>1. cfg' = [cfg EXCEPT !.enabled = FALSE]
          BY <1>1, <3>2, Zenon DEF UpdateConfig
        <4> QED
          BY <4>1 DEF TypeOK
      <3> QED
        BY <3>1, <3>2
    <2> QED
      BY <2>1, <2>2 DEF BindingsKnown, OneCredentialPerDevice, Bound
  <1>2. CASE RotateSigningKey \/ \E k \in KeyIds : RetireSigningKey(k)
    BY <1>0, <1>2 DEF RotateSigningKey, RetireSigningKey, deviceVars
  <1>3. ASSUME NEW u \in Users, NEW i \in Devices, NEW r \in Revisions, NEW k \in IdemKeys,
               RepeatRegistration(u, i, r, k)
        PROVE  BindingsKnown' /\ OneCredentialPerDevice'
    BY <1>3 DEF RepeatRegistration, BindingsKnown, OneCredentialPerDevice, Bound, Repeated, coreVars
  <1>4. ASSUME NEW u \in Users, NEW i \in Devices, NEW r \in Revisions, NEW k \in IdemKeys,
               RegisterBinding(u, i, r, k)
        PROVE  BindingsKnown' /\ OneCredentialPerDevice'
    <2>1. PICK b \in BindingIds :
           /\ b \notin Bound /\ Bound' = Bound \cup {b}
           /\ held' \in {held, held \cup {b}}
           /\ bind'[b].status = "active" /\ bind'[b].user = u /\ bind'[b].device = i
           /\ bind'[b].revision = r /\ bind'[b].secret = secret
           /\ \A c \in Bound :
                /\ bind'[c].user = bind[c].user /\ bind'[c].device = bind[c].device
                /\ bind'[c].revision = bind[c].revision /\ bind'[c].secret = bind[c].secret
                /\ bind'[c].status = IF c \in Rows(i) THEN "retired" ELSE bind[c].status
      BY <1>4, RegisteredRows
    <2>2. UNCHANGED <<mand, cfg>> /\ cfg.tag = secret /\ NewRevision(u, i, r)
      BY <1>4 DEF RegisterBinding, Registering, SecretsMatch
    <2>3. BindingsKnown'
      BY <2>1, <2>2 DEF BindingsKnown
    <2>4. \A c \in Bound : bind[c].device = i => c \in Rows(i)
      BY <2>2 DEF Rows, BindingsKnown
    <2>5. \A c \in Bound : bind[c].device = i => /\ bind'[c].status = "retired"
                                                 /\ bind[c].user = u /\ bind[c].revision < r
      BY <2>1, <2>2, <2>4 DEF NewRevision
    <2>6. r \in Int /\ \A c \in Bound : bind[c].revision \in Int
      BY DeviceWipeAssumption DEF Revisions, TypeOK, BindingRow, Bound
    <2>7. ASSUME NEW c \in Bound', NEW e \in Bound', bind'[c].device = bind'[e].device
          PROVE  /\ bind'[c].user = bind'[e].user
                 /\ c # e => bind'[c].revision # bind'[e].revision
                 /\ bind'[c].status = "active" => bind'[e].revision <= bind'[c].revision
      <3>1. CASE c = b /\ e = b
        BY <2>1, <2>6, <3>1
      <3>2. CASE c = b /\ e \in Bound
        BY <2>1, <2>5, <2>6, <2>7, <3>2
      <3>3. CASE c \in Bound /\ e = b
        BY <2>1, <2>5, <2>6, <2>7, <3>3
      <3>4. CASE c \in Bound /\ e \in Bound
        <4>1. bind[c].device = bind[e].device
          BY <2>1, <2>7, <3>4
        <4>2. bind'[c].status = "active" => bind[c].status = "active"
          BY <2>1, <3>4
        <4> QED
          BY <2>1, <3>4, <4>1, <4>2 DEF OneCredentialPerDevice
      <3> QED
        BY <2>1, <2>7, <3>1, <3>2, <3>3, <3>4
    <2> QED
      BY <2>3, <2>7 DEF OneCredentialPerDevice
  <1>5. ASSUME NEW b \in BindingIds, QueryPending(b)
        PROVE  BindingsKnown' /\ OneCredentialPerDevice'
    BY <1>0, <1>5 DEF QueryPending, coreVars
  <1>6. ASSUME NEW b \in BindingIds, NEW m, mand' = [mand EXCEPT ![b] = m], b \in held,
               UNCHANGED <<bind, held, cfg>>
        PROVE  BindingsKnown' /\ OneCredentialPerDevice'
    BY <1>6 DEF BindingsKnown, OneCredentialPerDevice, Bound, TypeOK
  <1>7. ASSUME NEW b \in BindingIds, QueryHook(b)
        PROVE  BindingsKnown' /\ OneCredentialPerDevice'
    BY <1>6, <1>7 DEF QueryHook
  <1>8. ASSUME NEW b \in BindingIds, NEW d \in Deletions, NEW receipt \in Receipts,
               Acknowledge(b, d, receipt)
        PROVE  BindingsKnown' /\ OneCredentialPerDevice'
    BY <1>6, <1>8 DEF Acknowledge, deviceVars
  <1>9. CASE ApplicationStep \/ RestoreStep
    BY <1>0, <1>9, ApplicationFrame, RestoreFrame
  <1>10. CASE ProjectStep
    <2>1. CASE UNCHANGED cfg
      BY <1>0, <1>10, <2>1, ProjectFrame
    <2>2. CASE DeleteRow
      BY <1>10, <2>2, ProjectFrame, DeletionAllowedMeans
         DEF DeleteRow, BindingsKnown, OneCredentialPerDevice, Bound
    <2> QED
      BY <1>10, <2>1, <2>2, ProjectFrame
  <1>11. CASE UNCHANGED vars
    BY <1>0, <1>11 DEF vars, coreVars, deviceVars
  <1> QED
    BY <1>1, <1>2, <1>3, <1>4, <1>5, <1>7, <1>8, <1>9, <1>10, <1>11
       DEF Next, ManagementStep, RegistrationStep, DeviceStep, Query, Answer

-----------------------------------------------------------------------------
(* The signing keys.                                                       *)

\* What a registration leaves of the keys' invariant: the new row has no
\* mandates, and an enabled channel has a key.
LEMMA KeysKept ==
  RecordsInv /\ [Next]_vars => OneSigningKey' /\ PendingVerifiable'
  <1> SUFFICES ASSUME RecordsInv, [Next]_vars PROVE OneSigningKey' /\ PendingVerifiable'
    OBVIOUS
  <1> USE DEF RecordsInv
  <1>a. TypeOK
    OBVIOUS
  <1>b. \A b \in BindingIds, d \in Deletions :
          mand[b][d].status = "pending" => mand[b][d].key \in Published
    BY DEF BindingsKnown, PendingVerifiable, Mandates, Bound
  <1>0. ASSUME UNCHANGED <<bind, mand, key>>, cfg'.enabled => cfg.enabled
        PROVE  OneSigningKey' /\ PendingVerifiable'
    BY <1>0 DEF OneSigningKey, PendingVerifiable, Bound, ActiveKeys, Published, Mandates
  <1>1. ASSUME NEW on \in BOOLEAN, UpdateConfig(on)
        PROVE  OneSigningKey' /\ PendingVerifiable'
    <2>1. UNCHANGED <<bind, mand>>
      BY <1>1 DEF UpdateConfig
    <2>2. CASE UNCHANGED key /\ ActiveKeys # {}
      BY <2>1, <2>2 DEF OneSigningKey, PendingVerifiable, Bound, ActiveKeys, Published, Mandates
    <2>3. CASE ~on
      <3>1. cfg' = [cfg EXCEPT !.enabled = FALSE] /\ UNCHANGED key
        BY <1>1, <2>3, Zenon DEF UpdateConfig
      <3> QED
        BY <1>0, <2>1, <3>1 DEF TypeOK
    <2>4. CASE ActiveKeys = {} /\ \E k \in NextKey : key' = [key EXCEPT ![k] = "active"]
      <3>1. PICK k \in NextKey : key' = [key EXCEPT ![k] = "active"]
        BY <2>4
      <3>2. k \in KeyIds /\ key[k] = "none"
        BY DEF NextKey
      <3>3. key' \in [KeyIds -> {"none", "active", "verification_only", "retired"}] /\ key'[k] = "active"
            /\ \A j \in KeyIds : j # k => key'[j] = key[j]
        BY <3>1, <3>2 DEF TypeOK
      <3>4. ActiveKeys' = {k} /\ Published \subseteq Published'
        BY <2>4, <3>2, <3>3 DEF ActiveKeys, Published
      <3> QED
        BY <2>1, <3>4 DEF OneSigningKey, PendingVerifiable, Bound, Mandates
    <2>5. on => \/ UNCHANGED key /\ ActiveKeys # {}
                \/ ActiveKeys = {} /\ \E k \in NextKey : key' = [key EXCEPT ![k] = "active"]
      BY <1>1, Zenon DEF UpdateConfig
    <2> QED
      BY <2>2, <2>3, <2>4, <2>5
  <1>2. CASE RotateSigningKey
    <2>1. PICK k \in NextKey :
            key' = [j \in KeyIds |-> IF j = k THEN "active"
                                     ELSE IF key[j] = "active" THEN "verification_only"
                                     ELSE key[j]]
      BY <1>2 DEF RotateSigningKey
    <2>2. k \in KeyIds /\ key[k] = "none"
      BY DEF NextKey
    <2>3. ActiveKeys' = {k} /\ Published \subseteq Published'
      BY <2>1, <2>2 DEF ActiveKeys, Published, TypeOK
    <2> QED
      BY <1>2, <2>3 DEF RotateSigningKey, OneSigningKey, PendingVerifiable, Bound, Mandates
  <1>3. ASSUME NEW k \in KeyIds, RetireSigningKey(k)
        PROVE  OneSigningKey' /\ PendingVerifiable'
    <2>1. ActiveKeys' = ActiveKeys /\ Published' = Published \ {k}
      BY <1>3 DEF RetireSigningKey, ActiveKeys, Published, TypeOK
    <2> QED
      BY <1>3, <2>1 DEF RetireSigningKey, RetireAllowed, OneSigningKey, PendingVerifiable,
                        Bound, Mandates
  <1>4. ASSUME NEW u \in Users, NEW i \in Devices, NEW r \in Revisions, NEW k \in IdemKeys,
               RepeatRegistration(u, i, r, k)
        PROVE  OneSigningKey' /\ PendingVerifiable'
    BY <1>0, <1>4 DEF RepeatRegistration, coreVars
  <1>5. ASSUME NEW u \in Users, NEW i \in Devices, NEW r \in Revisions, NEW k \in IdemKeys,
               RegisterBinding(u, i, r, k)
        PROVE  OneSigningKey' /\ PendingVerifiable'
    <2>1. Bound' \subseteq BindingIds
      BY DEF Bound
    <2>2. UNCHANGED <<cfg, key, mand>> /\ cfg.enabled
      BY <1>5 DEF RegisterBinding, Registering
    <2> QED
      BY <1>b, <2>1, <2>2 DEF OneSigningKey, PendingVerifiable, ActiveKeys, Published, Mandates
  <1>6. ASSUME NEW b \in BindingIds, QueryPending(b)
        PROVE  OneSigningKey' /\ PendingVerifiable'
    BY <1>0, <1>6 DEF QueryPending, coreVars
  <1>7. ASSUME NEW b \in BindingIds, NEW m, mand' = [mand EXCEPT ![b] = m],
               \A d \in Deletions : m[d].status = "pending" => m[d].key \in Published,
               UNCHANGED <<bind, key, cfg>>
        PROVE  OneSigningKey' /\ PendingVerifiable'
    <2>1. \A c \in BindingIds : mand'[c] = IF c = b THEN m ELSE mand[c]
      BY <1>7 DEF TypeOK
    <2>2. Bound' = Bound /\ Published' = Published /\ ActiveKeys' = ActiveKeys
          /\ Bound \subseteq BindingIds
      BY <1>7 DEF Bound, Published, ActiveKeys
    <2> QED
      BY <1>7, <2>1, <2>2 DEF OneSigningKey, PendingVerifiable, Mandates
  <1>8. ASSUME NEW b \in BindingIds, QueryHook(b)
        PROVE  OneSigningKey' /\ PendingVerifiable'
    <2>1. PICK k \in ActiveKeys :
            mand' = [mand EXCEPT ![b] = [d \in Deletions |->
              IF \E o \in Unmaterialized(b) : o.id = d
              THEN [status |-> "pending", key |-> k, receipt |-> mand[b][d].receipt,
                    scope |-> (CHOOSE o \in Unmaterialized(b) : o.id = d).scope]
              ELSE mand[b][d]]]
      BY <1>8 DEF QueryHook
    <2>2. k \in Published
      BY DEF ActiveKeys, Published
    <2> DEFINE m == [d \in Deletions |->
              IF \E o \in Unmaterialized(b) : o.id = d
              THEN [status |-> "pending", key |-> k, receipt |-> mand[b][d].receipt,
                    scope |-> (CHOOSE o \in Unmaterialized(b) : o.id = d).scope]
              ELSE mand[b][d]]
    <2>3. \A d \in Deletions : m[d].status = "pending" => m[d].key \in Published
      BY <1>b, <2>2
    <2>4. UNCHANGED <<bind, key, cfg>>
      BY <1>8 DEF QueryHook
    <2>5. mand' = [mand EXCEPT ![b] = m]
      BY <2>1
    <2> QED
      <3> HIDE DEF m
      <3> QED
        BY <1>7, <2>3, <2>4, <2>5
  <1>9. ASSUME NEW b \in BindingIds, NEW d \in Deletions, NEW receipt \in Receipts,
               Acknowledge(b, d, receipt)
        PROVE  OneSigningKey' /\ PendingVerifiable'
    <2>1. UNCHANGED <<bind, key, cfg>>
      BY <1>9 DEF Acknowledge
    <2>2. \A c \in BindingIds, e \in Deletions :
            mand'[c][e].status = "pending" => mand'[c][e] = mand[c][e]
      BY <1>9 DEF Acknowledge, TypeOK
    <2>3. Bound' = Bound /\ Published' = Published /\ ActiveKeys' = ActiveKeys
          /\ Bound \subseteq BindingIds
      BY <2>1 DEF Bound, Published, ActiveKeys
    <2> QED
      BY <1>b, <2>1, <2>2, <2>3 DEF OneSigningKey, PendingVerifiable, Mandates
  <1>10. CASE ApplicationStep \/ RestoreStep
    BY <1>0, <1>10, ApplicationFrame, RestoreFrame
  <1>11. CASE ProjectStep
    <2>1. CASE UNCHANGED <<cfg, key>>
      BY <1>0, <1>11, <2>1, ProjectFrame
    <2>2. CASE DeleteRow
      <3>1. Bound' = {} /\ ActiveKeys' = {} /\ ~cfg'.enabled
        BY <1>11, <2>2, ProjectFrame, DeletionAllowedMeans DEF DeleteRow, Bound, ActiveKeys
      <3> QED
        BY <3>1 DEF OneSigningKey, PendingVerifiable
    <2> QED
      BY <1>11, <2>1, <2>2, ProjectFrame
  <1>12. CASE UNCHANGED vars
    BY <1>0, <1>12 DEF vars, coreVars
  <1> QED
    BY <1>1, <1>2, <1>3, <1>4, <1>5, <1>6, <1>8, <1>9, <1>10, <1>11, <1>12
       DEF Next, ManagementStep, RegistrationStep, DeviceStep, Query, Answer

-----------------------------------------------------------------------------
(* The lock, the gate and the project.                                     *)

\* A call of the channel is a step of one transaction: it neither holds the
\* lock afterwards nor touches the gate or the project.
LEMMA ChannelFrame ==
  ManagementStep \/ RegistrationStep \/ DeviceStep =>
    /\ UNCHANGED <<gate, plock, rs, dl, proj>> /\ Serving
    /\ UNCHANGED bind \/ (HooksInspected /\ RegistrationStep)
  BY DEF ManagementStep, RegistrationStep, DeviceStep, Query, Answer, UpdateConfig,
         RotateSigningKey, RetireSigningKey, RepeatRegistration, RegisterBinding, QueryPending,
         QueryHook, Acknowledge, Registering, projectVars, coreVars

LEMMA LongStepsKept == RecordsInv /\ [Next]_vars => LongStepsFenced'
  <1> SUFFICES ASSUME RecordsInv, [Next]_vars PROVE LongStepsFenced'
    OBVIOUS
  <1> USE DEF RecordsInv
  <1>0. TypeOK
    OBVIOUS
  <1>1. CASE ManagementStep \/ RegistrationStep \/ DeviceStep
    BY <1>1, ChannelFrame DEF LongStepsFenced, Serving, HooksInspected, Bound
  <1>2. CASE ApplicationStep \/ UNCHANGED vars
    <2>1. UNCHANGED <<gate, plock, rs, dl, proj, bind>>
      BY <1>2, ApplicationFrame DEF vars, projectVars, coreVars
    <2> QED
      BY <2>1 DEF LongStepsFenced, Bound
  <1>3. CASE RestoreStep
    <2>1. UNCHANGED <<bind, dl, proj>>
      BY <1>3, RestoreFrame
    <2>2. /\ plock = "delete" => plock' = "delete"
          /\ plock = "free" \/ UNCHANGED plock \/ plock = "restore"
      BY <1>3 DEF RestoreStep, TakeBackup, RestoreBegins, RestoreData, ReplayCore,
         RestoreBreaks, RestoreFails, RestoreCrashes, LockSessionLost, Unlock, projectVars
    <2>3. rs' # "idle" => gate' # "none" \/ ~proj.row
      BY <1>3 DEF LongStepsFenced, RestoreStep, TakeBackup, RestoreBegins, RestoreData, ReplayCore,
         RestoreBreaks, RestoreFails, RestoreCrashes, LockSessionLost, projectVars
    <2> QED
      BY <2>1, <2>2, <2>3 DEF LongStepsFenced, Bound
  <1>4. CASE ProjectStep
    <2>1. UNCHANGED <<bind, rs>> /\ Bound' = Bound
      BY <1>4, ProjectFrame DEF Bound
    <2>2. CASE DropProjectDbUser
      <3>1. UNCHANGED <<gate, plock, dl>> /\ Bound = {} /\ proj' = [proj EXCEPT !.user = FALSE]
        BY <2>2, Zenon DEF DropProjectDbUser, DropUser, DeletionAllowed
      <3>2. proj'.row = proj.row
        BY <3>1 DEF TypeOK
      <3> QED
        BY <2>1, <3>1, <3>2 DEF LongStepsFenced
    <2>3. CASE CreateProjectDbUser
      <3>1. UNCHANGED <<gate, plock, dl>> /\ proj' = [proj EXCEPT !.user = TRUE]
        BY <2>3, Zenon DEF CreateProjectDbUser
      <3>2. proj'.row = proj.row /\ proj'.user
        BY <3>1 DEF TypeOK
      <3> QED
        BY <2>1, <3>1, <3>2 DEF LongStepsFenced
    <2>4. CASE DeleteBegins
      BY <2>1, <2>4 DEF DeleteBegins, DeletionAllowed, LongStepsFenced
    <2>5. CASE DeleteUser
      <3>1. UNCHANGED <<gate, plock>> /\ dl # "idle"
            /\ (UNCHANGED proj \/ proj' = [proj EXCEPT !.user = FALSE])
        BY <2>5, Zenon DEF DeleteUser, DropUser
      <3>2. proj'.row = proj.row
        BY <3>1 DEF TypeOK
      <3> QED
        BY <2>1, <3>1, <3>2 DEF LongStepsFenced
    <2>6. CASE DeleteSchema
      <3>1. UNCHANGED <<gate, plock>> /\ dl # "idle" /\ proj' = [proj EXCEPT !.schema = FALSE]
        BY <2>6, Zenon DEF DeleteSchema
      <3>2. proj'.row = proj.row
        BY <3>1 DEF TypeOK
      <3> QED
        BY <2>1, <3>1, <3>2 DEF LongStepsFenced
    <2>7. CASE DeleteRow
      BY <2>1, <2>7 DEF DeleteRow, DeletionAllowed, LongStepsFenced
    <2>8. CASE DeleteBreaks
      BY <2>1, <2>8 DEF DeleteBreaks, LongStepsFenced
    <2> QED
      BY <1>4, <2>2, <2>3, <2>4, <2>5, <2>6, <2>7, <2>8 DEF ProjectStep
  <1> QED
    BY <1>1, <1>2, <1>3, <1>4 DEF Next

-----------------------------------------------------------------------------
(* Receipts and registrations.                                             *)

LEMMA ReceiptsKept == RecordsInv /\ [Next]_vars => RestoreKeepsReceipts'
  <1> SUFFICES ASSUME RecordsInv, [Next]_vars, gate' = "none"
               PROVE  (ReplayedRegistrations \subseteq reg)' /\ (ReplayedReceipts \subseteq done)'
    BY DEF RestoreKeepsReceipts
  <1> USE DEF RecordsInv
  <1>a. TypeOK
    OBVIOUS
  <1>0. ASSUME gate = "none", UNCHANGED <<bind, mand, reg, done>>
        PROVE  (ReplayedRegistrations \subseteq reg)' /\ (ReplayedReceipts \subseteq done)'
    BY <1>0 DEF RestoreKeepsReceipts, ReplayedRegistrations, ReplayedReceipts, Bound
  <1>b. ASSUME UNCHANGED <<bind, mand>>, Bound = {}
        PROVE  (ReplayedRegistrations \subseteq reg)' /\ (ReplayedReceipts \subseteq done)'
    <2>1. Bound' = {} /\ \A b \in BindingIds, d \in Deletions : mand'[b][d].status = "none"
      BY <1>b DEF BindingsKnown, Bound
    <2> QED
      BY <2>1 DEF ReplayedRegistrations, ReplayedReceipts
  <1>1. CASE ManagementStep
    BY <1>0, <1>1, ChannelFrame
       DEF ManagementStep, UpdateConfig, RotateSigningKey, RetireSigningKey, schemaVars, Serving
  <1>2. ASSUME NEW u \in Users, NEW i \in Devices, NEW r \in Revisions, NEW k \in IdemKeys,
               RepeatRegistration(u, i, r, k)
        PROVE  (ReplayedRegistrations \subseteq reg)' /\ (ReplayedReceipts \subseteq done)'
    BY <1>0, <1>2 DEF RepeatRegistration, Registering, Serving, schemaVars, coreVars
  <1>3. ASSUME NEW u \in Users, NEW i \in Devices, NEW r \in Revisions, NEW k \in IdemKeys,
               RegisterBinding(u, i, r, k)
        PROVE  (ReplayedRegistrations \subseteq reg)' /\ (ReplayedReceipts \subseteq done)'
    <2>1. PICK b \in BindingIds :
           /\ b \notin Bound /\ Bound' = Bound \cup {b}
           /\ held' \in {held, held \cup {b}}
           /\ bind'[b].status = "active" /\ bind'[b].user = u /\ bind'[b].device = i
           /\ bind'[b].revision = r /\ bind'[b].secret = secret
           /\ \A c \in Bound :
                /\ bind'[c].user = bind[c].user /\ bind'[c].device = bind[c].device
                /\ bind'[c].revision = bind[c].revision /\ bind'[c].secret = bind[c].secret
                /\ bind'[c].status = IF c \in Rows(i) THEN "retired" ELSE bind[c].status
      BY <1>3, RegisteredRows
    <2>2. UNCHANGED <<mand, done>> /\ reg' = reg \cup {<<i, r>>} /\ gate = "none"
      BY <1>3 DEF RegisterBinding, Registering, Serving
    <2>3. ReplayedRegistrations' \subseteq ReplayedRegistrations \cup {<<i, r>>}
      BY <2>1 DEF ReplayedRegistrations
    <2>4. \A c \in BindingIds, d \in Deletions :
            mand[c][d].status = "acknowledged" => c \in Bound
      BY DEF BindingsKnown
    <2>5. ReplayedReceipts' \subseteq ReplayedReceipts
      BY <2>1, <2>2, <2>4 DEF ReplayedReceipts
    <2> QED
      BY <2>2, <2>3, <2>5 DEF RestoreKeepsReceipts
  <1>4. ASSUME NEW b \in BindingIds, QueryPending(b)
        PROVE  (ReplayedRegistrations \subseteq reg)' /\ (ReplayedReceipts \subseteq done)'
    BY <1>0, <1>4 DEF QueryPending, Serving, schemaVars, coreVars
  <1>5. ASSUME NEW b \in BindingIds, QueryHook(b)
        PROVE  (ReplayedRegistrations \subseteq reg)' /\ (ReplayedReceipts \subseteq done)'
    <2>1. UNCHANGED <<bind, reg, done>> /\ gate = "none"
      BY <1>5 DEF QueryHook, Serving, schemaVars
    <2>2. ASSUME NEW c \in BindingIds, NEW d \in Deletions, mand'[c][d].status = "acknowledged"
          PROVE  mand[c][d].status = "acknowledged"
      BY <1>5, <2>2 DEF QueryHook, TypeOK
    <2>3. ReplayedReceipts' \subseteq ReplayedReceipts
      BY <2>1, <2>2 DEF ReplayedReceipts
    <2> QED
      BY <2>1, <2>3 DEF RestoreKeepsReceipts, ReplayedRegistrations, Bound
  <1>6. ASSUME NEW b \in BindingIds, NEW d \in Deletions, NEW receipt \in Receipts,
               Acknowledge(b, d, receipt)
        PROVE  (ReplayedRegistrations \subseteq reg)' /\ (ReplayedReceipts \subseteq done)'
    <2>1. UNCHANGED <<bind, reg>> /\ gate = "none" /\ done' = done \cup {<<bind[b].device, d>>}
      BY <1>6 DEF Acknowledge, Serving
    <2>2. ASSUME NEW c \in BindingIds, NEW e \in Deletions, mand'[c][e].status = "acknowledged"
          PROVE  mand[c][e].status = "acknowledged" \/ (c = b /\ e = d)
      BY <1>6, <2>2 DEF Acknowledge, TypeOK
    <2>3. ReplayedReceipts' \subseteq ReplayedReceipts \cup {<<bind[b].device, d>>}
      BY <2>1, <2>2 DEF ReplayedReceipts
    <2> QED
      BY <2>1, <2>3 DEF RestoreKeepsReceipts, ReplayedRegistrations, Bound
  <1>7. CASE ApplicationStep
    BY <1>0, <1>7, ApplicationFrame
  <1>8. CASE RestoreStep
    <2>1. CASE ReplayCore
      BY <2>1 DEF ReplayCore, coreVars, ReplayedRegistrations, ReplayedReceipts, Bound
    <2>2. CASE RestoreData
      <3>1. Bound = {} /\ UNCHANGED <<bind, mand>>
        BY <2>2 DEF RestoreData, LongStepsFenced, coreVars
      <3> QED
        BY <1>b, <3>1
    <2>3. CASE TakeBackup \/ RestoreBegins \/ RestoreBreaks \/ RestoreFails
               \/ RestoreCrashes \/ LockSessionLost
      BY <1>0, <2>3 DEF TakeBackup, RestoreBegins, RestoreBreaks, RestoreFails,
         RestoreCrashes, LockSessionLost, coreVars, schemaVars, projectVars
    <2> QED
      BY <1>8, <2>1, <2>2, <2>3 DEF RestoreStep
  <1>9. CASE ProjectStep
    <2>1. UNCHANGED <<bind, mand>>
      BY <1>9, ProjectFrame
    <2>2. CASE DeleteRow \/ DeleteSchema
      <3>1. Bound = {}
        BY <2>2 DEF DeleteRow, DeleteSchema, DeletionAllowed, LongStepsFenced
      <3> QED
        BY <1>b, <2>1, <3>1
    <2>3. CASE ~(DeleteRow \/ DeleteSchema)
      BY <1>0, <1>9, <2>3, ProjectFrame
    <2> QED
      BY <2>2, <2>3
  <1>10. CASE UNCHANGED vars
    BY <1>0, <1>10 DEF vars, coreVars, schemaVars, projectVars
  <1> QED
    BY <1>1, <1>2, <1>3, <1>4, <1>5, <1>6, <1>7, <1>8, <1>9, <1>10
       DEF Next, RegistrationStep, DeviceStep, Query, Answer

-----------------------------------------------------------------------------
(* The records are sound.                                                  *)

LEMMA NextRecords == RecordsInv /\ [Next]_vars => RecordsInv'
  BY NextType, BindingsKept, KeysKept, LongStepsKept, ReceiptsKept DEF RecordsInv

LEMMA RecordsInvariant == Spec => []RecordsInv
  BY InitRecords, NextRecords, PTL DEF Spec

\* One signing key, counted.
LEMMA RecordsEnough == RecordsInv => RecordsSound
  <1> SUFFICES ASSUME RecordsInv PROVE RecordsSound
    OBVIOUS
  <1>1. ASSUME Bound # {} PROVE Cardinality(ActiveKeys) = 1
    <2>1. PICK k \in ActiveKeys : TRUE
      BY <1>1 DEF RecordsInv, OneSigningKey
    <2>2. ActiveKeys = {k}
      BY DEF RecordsInv, OneSigningKey
    <2> QED
      BY <2>2, FS_Singleton
  <1> QED
    BY <1>1 DEF RecordsInv, RecordsSound, RecordsOutliveProject, LongStepsFenced

\* Whatever users, operators, the application, restores and deletions do to a
\* project (project-device-wipe.service.ts, project-device-wipe-restore.service.ts,
\* backup.service.ts, project.service.ts), the records of its wipe channel stay
\* sound: a device has one credential that discovers wipes, pending commands can
\* be verified, an open gate means that the application knows every registration
\* and receipt, and the project, its database user and one signing key outlive
\* the bindings.
THEOREM ChannelRecords == Spec => []RecordsSound
  BY RecordsInvariant, RecordsEnough, PTL

-----------------------------------------------------------------------------
(* The channel implements the ledger.                                      *)

\* A command is a triple of a binding's device, the binding and a deletion
\* for which there is a row.
LEMMA CommandsAsTriples ==
  ASSUME TypeOK, NEW S
  PROVE  Commands(S) = {t \in Devices \X BindingIds \X Deletions :
                          t[1] = bind[t[2]].device /\ mand[t[2]][t[3]].status \in S}
  <1>1. \A b \in BindingIds : bind[b].device \in Devices
    BY DEF TypeOK, BindingRow
  <1>2. ASSUME NEW t \in Commands(S)
        PROVE  /\ t \in Devices \X BindingIds \X Deletions
               /\ t[1] = bind[t[2]].device /\ mand[t[2]][t[3]].status \in S
    BY <1>1 DEF Commands
  <1>3. ASSUME NEW t \in Devices \X BindingIds \X Deletions,
               t[1] = bind[t[2]].device, mand[t[2]][t[3]].status \in S
        PROVE  t \in Commands(S)
    <2>1. <<t[2], t[3]>> \in {q \in BindingIds \X Deletions : mand[q[1]][q[2]].status \in S}
      BY <1>3
    <2>2. t = <<bind[<<t[2], t[3]>>[1]].device, <<t[2], t[3]>>[1], <<t[2], t[3]>>[2]>>
      BY <1>3
    <2> QED
      BY <2>1, <2>2 DEF Commands
  <1> QED
    BY <1>2, <1>3

LEMMA CommandsMember ==
  ASSUME TypeOK, NEW S, NEW x, NEW b, NEW d
  PROVE  <<x, b, d>> \in Commands(S) <=>
           /\ b \in BindingIds /\ d \in Deletions
           /\ x = bind[b].device /\ mand[b][d].status \in S
  <1>1. b \in BindingIds => bind[b].device \in Devices
    BY DEF TypeOK, BindingRow
  <1> QED
    BY <1>1, CommandsAsTriples

\* The commands of a state and of its successor, compared row by row.
LEMMA CommandsNext ==
  ASSUME TypeOK, TypeOK', NEW S, NEW new,
         new \subseteq Devices \X BindingIds \X Deletions,
         \A b \in BindingIds, d \in Deletions :
           /\ mand[b][d].status \in S => mand'[b][d].status \in S /\ bind'[b].device = bind[b].device
           /\ mand'[b][d].status \in S =>
                \/ mand[b][d].status \in S
                \/ <<bind'[b].device, b, d>> \in new
           /\ \A x \in Devices : <<x, b, d>> \in new =>
                mand'[b][d].status \in S /\ x = bind'[b].device
  PROVE  Commands(S)' = Commands(S) \cup new
  <1> DEFINE Pre == {t \in Devices \X BindingIds \X Deletions :
                       t[1] = bind[t[2]].device /\ mand[t[2]][t[3]].status \in S}
             Post == {t \in Devices \X BindingIds \X Deletions :
                       t[1] = bind'[t[2]].device /\ mand'[t[2]][t[3]].status \in S}
  <1>1. Commands(S) = Pre
    BY CommandsAsTriples
  <1>2. Commands(S)' = Post
    <2>1. \A b \in BindingIds : bind'[b].device \in Devices
      BY DEF TypeOK, BindingRow
    <2>2. ASSUME NEW t \in Commands(S)'
          PROVE  t \in Post
      BY <2>1 DEF Commands
    <2>3. ASSUME NEW t \in Post PROVE t \in Commands(S)'
      <3>1. <<t[2], t[3]>> \in {q \in BindingIds \X Deletions : mand'[q[1]][q[2]].status \in S}
        BY <2>3
      <3>2. t = <<bind'[<<t[2], t[3]>>[1]].device, <<t[2], t[3]>>[1], <<t[2], t[3]>>[2]>>
        BY <2>3
      <3> QED
        BY <3>1, <3>2 DEF Commands
    <2> QED
      BY <2>2, <2>3
  <1>3. ASSUME NEW t \in Post PROVE t \in Pre \cup new
    BY <1>3
  <1>4. ASSUME NEW t \in Pre PROVE t \in Post
    BY <1>4
  <1>5. ASSUME NEW t \in new PROVE t \in Post
    <2>1. t \in Devices \X BindingIds \X Deletions
      BY <1>5
    <2>2. t[1] \in Devices /\ t[2] \in BindingIds /\ t[3] \in Deletions
          /\ t = <<t[1], t[2], t[3]>>
      BY <2>1
    <2>3. <<t[1], t[2], t[3]>> \in new
      BY <1>5, <2>2
    <2>4. mand'[t[2]][t[3]].status \in S /\ t[1] = bind'[t[2]].device
      <3>1. \A x \in Devices : <<x, t[2], t[3]>> \in new =>
              mand'[t[2]][t[3]].status \in S /\ x = bind'[t[2]].device
        BY <2>2
      <3> QED
        BY <2>2, <2>3, <3>1
    <2> QED
      BY <2>1, <2>4
  <1> HIDE DEF Pre, Post
  <1> QED
    BY <1>1, <1>2, <1>3, <1>4, <1>5

\* A step that leaves the mandates and the devices of bound rows alone leaves
\* the ledger alone.
LEMMA LedgerStutters ==
  ASSUME RecordsInv, TypeOK', UNCHANGED mand,
         \A b \in Bound : bind'[b].device = bind[b].device
  PROVE  UNCHANGED Ledger!ledgerVars
  <1>1. \A b \in BindingIds, d \in Deletions :
          mand[b][d].status # "none" => bind'[b].device = bind[b].device
    BY DEF RecordsInv, BindingsKnown
  <1>2. TypeOK
    BY DEF RecordsInv
  <1>3. Commands({"pending", "acknowledged"})' = Commands({"pending", "acknowledged"}) \cup {}
    BY <1>1, <1>2, CommandsNext
  <1>4. Commands({"acknowledged"})' = Commands({"acknowledged"}) \cup {}
    BY <1>1, <1>2, CommandsNext
  <1> QED
    BY <1>3, <1>4 DEF Ledger!ledgerVars

\* queryProjectDeviceWipeMandates issues what the device has not confirmed.
LEMMA QueryIssues ==
  ASSUME RecordsInv, TypeOK', NEW b \in BindingIds, QueryHook(b)
  PROVE  Ledger!LedgerNext
  <1>0. TypeOK /\ bind[b].device \in Devices
    BY DEF RecordsInv, TypeOK, BindingRow
  <1> DEFINE x == bind[b].device
             ids == {d \in Deletions : \E o \in Unmaterialized(b) : o.id = d}
             new == {<<x, b, d>> : d \in ids}
  <1>1. PICK k \in ActiveKeys :
          mand' = [mand EXCEPT ![b] = [d \in Deletions |->
            IF \E o \in Unmaterialized(b) : o.id = d
            THEN [status |-> "pending", key |-> k, receipt |-> mand[b][d].receipt,
                  scope |-> (CHOOSE o \in Unmaterialized(b) : o.id = d).scope]
            ELSE mand[b][d]]]
    BY DEF QueryHook
  <1>2. UNCHANGED bind /\ gate = "none"
    BY DEF QueryHook, Serving
  <1>3. \A c \in BindingIds, d \in Deletions :
          IF c = b /\ d \in ids THEN mand'[c][d].status = "pending"
                                ELSE mand'[c][d] = mand[c][d]
    BY <1>0, <1>1 DEF TypeOK
  <1>4. \A d \in ids : mand[b][d].status = "none"
    BY DEF Unmaterialized
  <1>5. Commands({"pending", "acknowledged"})' = Commands({"pending", "acknowledged"}) \cup new
    <2>1. new \subseteq Devices \X BindingIds \X Deletions
      BY <1>0
    <2>2. \A c \in BindingIds, d \in Deletions :
           /\ mand[c][d].status \in {"pending", "acknowledged"} =>
                mand'[c][d].status \in {"pending", "acknowledged"} /\ bind'[c].device = bind[c].device
           /\ mand'[c][d].status \in {"pending", "acknowledged"} =>
                \/ mand[c][d].status \in {"pending", "acknowledged"}
                \/ <<bind'[c].device, c, d>> \in new
           /\ \A y \in Devices : <<y, c, d>> \in new =>
                mand'[c][d].status \in {"pending", "acknowledged"} /\ y = bind'[c].device
      BY <1>2, <1>3, <1>4
    <2> HIDE DEF new
    <2> QED
      BY <1>0, <2>1, <2>2, CommandsNext
  <1>6. Commands({"acknowledged"})' = Commands({"acknowledged"}) \cup {}
    <2>1. \A c \in BindingIds, d \in Deletions :
           /\ mand[c][d].status \in {"acknowledged"} => mand'[c][d].status \in {"acknowledged"}
           /\ mand'[c][d].status \in {"acknowledged"} => mand[c][d].status \in {"acknowledged"}
      BY <1>3, <1>4
    <2> HIDE DEF ids
    <2> QED
      BY <1>0, <1>2, <2>1, CommandsNext
  <1>7. ids \in SUBSET (Deletions \ Ledger!Discharged(x))
    <2>1. ASSUME NEW d \in ids, NEW c \in BindingIds, <<x, c, d>> \in Commands({"acknowledged"})
          PROVE  FALSE
      <3>1. d \in Deletions /\ bind[c].device = x /\ mand[c][d].status = "acknowledged"
        BY <1>0, <2>1, CommandsMember
      <3>2. <<c, d>> \in {q \in BindingIds \X Deletions : mand[q[1]][q[2]].status = "acknowledged"}
        BY <3>1
      <3>3. <<bind[<<c, d>>[1]].device, <<c, d>>[2]>> \in ReplayedReceipts
        BY <3>2 DEF ReplayedReceipts
      <3>4. <<x, d>> \in done
        BY <1>2, <3>1, <3>3 DEF RecordsInv, RestoreKeepsReceipts
      <3>5. PICK o \in Unmaterialized(b) : o.id = d
        OBVIOUS
      <3> QED
        BY <3>4, <3>5 DEF Unmaterialized, Listed
    <2> QED
      BY <2>1 DEF Ledger!Discharged
  <1>8. \A d \in ids : <<x, b, d>> \notin Commands({"pending", "acknowledged"})
    BY <1>0, <1>4, CommandsMember
  <1>9. Ledger!Issue(x, b)
    <2> HIDE DEF ids
    <2> QED
      BY <1>5, <1>6, <1>7, <1>8 DEF Ledger!Issue
  <1> QED
    BY <1>0, <1>9 DEF Ledger!LedgerNext

\* acknowledgeProjectDeviceWipeMandate confirms one issued command.
LEMMA AcknowledgeConfirms ==
  ASSUME RecordsInv, TypeOK', NEW b \in BindingIds, NEW d \in Deletions, NEW receipt \in Receipts,
         Acknowledge(b, d, receipt)
  PROVE  Ledger!LedgerNext
  <1>0. TypeOK /\ bind[b].device \in Devices
    BY DEF RecordsInv, TypeOK, BindingRow
  <1> DEFINE x == bind[b].device
  <1>1. UNCHANGED bind /\ mand[b][d].status = "pending"
    BY DEF Acknowledge
  <1>2. \A c \in BindingIds, e \in Deletions :
          IF c = b /\ e = d THEN mand'[c][e].status = "acknowledged"
                            ELSE mand'[c][e] = mand[c][e]
    BY <1>0 DEF Acknowledge, TypeOK
  <1>3. Commands({"acknowledged"})' = Commands({"acknowledged"}) \cup {<<x, b, d>>}
    <2>1. {<<x, b, d>>} \subseteq Devices \X BindingIds \X Deletions
      BY <1>0
    <2>2. \A c \in BindingIds, e \in Deletions :
           /\ mand[c][e].status \in {"acknowledged"} =>
                mand'[c][e].status \in {"acknowledged"} /\ bind'[c].device = bind[c].device
           /\ mand'[c][e].status \in {"acknowledged"} =>
                \/ mand[c][e].status \in {"acknowledged"}
                \/ <<bind'[c].device, c, e>> \in {<<x, b, d>>}
           /\ \A y \in Devices : <<y, c, e>> \in {<<x, b, d>>} =>
                mand'[c][e].status \in {"acknowledged"} /\ y = bind'[c].device
      BY <1>1, <1>2
    <2> QED
      BY <1>0, <2>1, <2>2, CommandsNext
  <1>4. Commands({"pending", "acknowledged"})' = Commands({"pending", "acknowledged"}) \cup {}
    <2>1. \A c \in BindingIds, e \in Deletions :
            /\ mand'[c][e].status \in {"pending", "acknowledged"}
                 <=> mand[c][e].status \in {"pending", "acknowledged"}
            /\ bind'[c].device = bind[c].device
      BY <1>1, <1>2
    <2>2. {} \subseteq Devices \X BindingIds \X Deletions
      OBVIOUS
    <2> HIDE <1>1, <1>2
    <2> QED
      BY <1>0, <2>1, <2>2, CommandsNext
  <1>5. <<x, b, d>> \in Commands({"pending", "acknowledged"}) \ Commands({"acknowledged"})
    BY <1>0, <1>1, CommandsMember
  <1>6. Ledger!Confirm(x, b)
    <2> HIDE DEF x
    <2> QED
      BY <1>3, <1>4, <1>5 DEF Ledger!Confirm
  <1> QED
    BY <1>0, <1>6 DEF Ledger!LedgerNext

LEMMA StepRefines == RecordsInv /\ [Next]_vars => [Ledger!LedgerNext]_Ledger!ledgerVars
  <1> SUFFICES ASSUME RecordsInv, [Next]_vars PROVE Ledger!LedgerNext \/ UNCHANGED Ledger!ledgerVars
    OBVIOUS
  <1>0. TypeOK /\ TypeOK'
    BY NextType DEF RecordsInv
  <1>1. CASE UNCHANGED <<bind, mand>>
    BY <1>0, <1>1, LedgerStutters
  <1>2. ASSUME NEW u \in Users, NEW i \in Devices, NEW r \in Revisions, NEW k \in IdemKeys,
               RegisterBinding(u, i, r, k)
        PROVE  UNCHANGED Ledger!ledgerVars
    <2>1. \A c \in Bound : bind'[c].device = bind[c].device
      BY <1>0, <1>2, RegisteredRows
    <2>2. UNCHANGED mand
      BY <1>2 DEF RegisterBinding
    <2> QED
      BY <1>0, <2>1, <2>2, LedgerStutters
  <1>3. CASE RegistrationStep
    BY <1>1, <1>2, <1>3 DEF RegistrationStep, RepeatRegistration, coreVars
  <1>4. CASE DeviceStep
    BY <1>0, <1>1, <1>4, QueryIssues, AcknowledgeConfirms
       DEF DeviceStep, Query, Answer, QueryPending, coreVars
  <1>5. CASE ManagementStep
    BY <1>1, <1>5 DEF ManagementStep, UpdateConfig, RotateSigningKey, RetireSigningKey
  <1>6. CASE ApplicationStep \/ RestoreStep \/ ProjectStep
    BY <1>1, <1>6, ApplicationFrame, RestoreFrame, ProjectFrame
  <1>7. CASE UNCHANGED vars
    BY <1>1, <1>7 DEF vars, coreVars
  <1> QED
    BY <1>3, <1>4, <1>5, <1>6, <1>7 DEF Next

LEMMA InitRefines == Init => Ledger!LedgerInit
  BY DEF Init, Ledger!LedgerInit, Commands

\* The channel refines the ledger for every number of devices, revisions,
\* deletions and faults: no command is withdrawn or confirmed twice, and what a
\* device has confirmed is not demanded of it again, neither after a restore nor
\* through a later revision of its binding
\* (queryProjectDeviceWipeMandates, acknowledgeProjectDeviceWipeMandate,
\* replayProjectDeviceWipeReceipts).
THEOREM ChannelImplementsLedger == Spec => ImplementsLedger
  BY RecordsInvariant, InitRefines, StepRefines, PTL DEF Spec, ImplementsLedger, Ledger!LedgerSpec
=============================================================================
