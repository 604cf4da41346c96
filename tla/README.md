# druvia: specifications, checks and proofs

druvia is a multi-tenant backend-as-a-service: a Fastify API over PostgreSQL and
Hasura (`apps/api`), a release updater that runs beside it (`apps/updater`), an
admin interface (`apps/admin`), a Deno worker for user functions
(`docker/deno-worker`), a client SDK and an MCP server (`packages/`). This
directory holds TLA+ models of the parts whose correctness depends on the order
in which several processes act and on what survives a failure, the TLC runs that
check them, and TLAPS proofs about them. `PROJECT.json` is the index: components,
runs, the source lines behind each definition, hazards, findings, theorems.

To repeat a check, run in this directory

    tlc -workers 2 -config Updater.cfg MCUpdater
    tlapm UpdaterProofs.tla

with the module and configuration of the run.

## 1. The system

### Parts, their state and how they meet

| part | state it keeps | operations | meets |
|---|---|---|---|
| Release updater | `update-state.json`, the two active release files, staged files, one backup directory per operation | check, download, apply, restart, roll back, boot recovery, status poll | containers (docker), the finalizer container, PostgreSQL (gate, holder), the API |
| Rollback gate, mutation lock | row of the persistent gate, two-level advisory lock (global, project), detached holder session | activate, freeze, check, probe, close; shared lock of every Data Access mutation | updater and API through PostgreSQL only |
| Managed policies | one baseline row per table, operation rows with leases, Hasura metadata with a resource version | update, preview/apply of adoption, reconcile and grant extension, recover | Hasura over HTTP, mutation lock, projection |
| Data Access migration | migration rows, canary verification, metadata | plan, apply, verify, roll back | the same lock and metadata |
| Authorization projection | projection batches, operation rows, metadata | preview, apply, recover, fail closed | policies depend on it |
| Project identities and sessions | identity row, provider tokens, refresh tokens | login, refresh, revoke, notifications | Apple, account deletion |
| Account self-deletion | operation rows with lease and phase, fences, stored tokens, config | intent, confirm, executor phases, token revocation, resume | Apple, storage, cleanup function in the project schema |
| Backup and restore | dumps, backup rows, runtime gate | create, restore, replay of deletions and device wipes | project schema, both advisory locks |
| Device wipe | bindings, mandates, receipts, signing keys | register, mandate, acknowledge, retire key | account deletion, restore |
| Storage | object rows, provider bytes | upload, replace, delete, sign | account deletion |
| Functions and worker | deployments, environment, logs | deploy, invoke | worker over HTTP |
| Tables | DDL, outbox of table deletions | create, alter, delete, outbox recovery | Hasura, mutation lock |
| Rate limits | counters in Redis, memory fallback | admit | every request |
| Platform (projects, tenants, members, keys, settings, oauth) | single rows | CRUD | middleware |
| SDK | session, realtime channels | refresh, reconnect | API |
| Migration command | applied versions | up, down | PostgreSQL |
| Dashboards, OpenAPI, activity, admin interface, MCP server, deployment files | none of their own | reads | API |

### What is hard

* **Processes that share no lock.** The updater, the finalizer container and the
  API run in different containers. The updater and the finalizer rewrite one
  state file; the updater and the API meet in a database row and an advisory lock
  that dies with its session while its owner carries on.
* **Effects outside the transaction.** Hasura metadata, containers, files, Apple's
  tokens and the object storage are changed between two database transactions.
  A crash, a timeout or a lost answer in between leaves the two sides apart, and
  the next attempt must find out which side moved.
* **Late messages.** A metadata request that timed out may still be applied, an
  Apple notification may arrive after the subject has come back as another
  account, an executor may report after its lease went to another one.
* **Restores.** A project backup contains rows of users that were deleted since.
* **Recovery of recovery.** A rollback, a policy recovery and a restore may
  themselves be interrupted and must be repeatable.

### What makes each part correct

* Updater: when it accepts ordinary operations, files and containers are at the
  recorded version; an unfinished rollback leaves nothing running and names a
  backup to go on with; an old API never runs over data it does not understand.
* Gate: never left closed without an owner, never opened over a database that
  was mutated after the safety check.
* Policies: with no operation in flight, Hasura and the baseline agree, whatever
  timed out; nobody else's permissions are overwritten; an acknowledged update
  was committed, and once.
* Accounts: an accepted deletion is final, finishes, survives restores, and hits
  no later account of the same subject, whose return it must not prevent.
* Device wipe: a command is issued and confirmed once, can be verified as long as
  it waits, and is not repeated after a restore; what is owed is carried out.
* Migration: the mode of a project and its latest migration row agree unless a
  recovery is owed; an applied migration gives nobody more than before.
* Projection: one contract for all tables of a project; what is not recorded in a
  baseline is closed, and what is closed can be opened again; other projects'
  metadata survive the replacement of the whole document.
* Tables: a permission does not outlive the table it was granted for.
* Storage: a row has its bytes and bytes have their row, whatever failed; no user
  writes over another's object.
* SDK: a realtime channel is never connected as an earlier user, leaks no socket,
  makes up no change, and comes back after every failure that is not final.

## 2. Modules

| module | models | uses |
|---|---|---|
| `RollbackGate` | `compose.ts` (gate statements, holder), `data-access-mutation-lock.ts` as far as the gate goes | - |
| `Updater` | `update-service.ts`, `state.ts`, `finalizer.ts`, `compose.ts` | extends `RollbackGate` |
| `UpdaterProofs` | theorems about `Updater` | extends `Updater`, TLAPS |
| `ManagedPolicy` | the pure part of managed policies: snapshots, rules, recoverable prefixes, transition rules | - |
| `PolicyRegister` | abstract: what the operations on a managed policy promise, a register that each moves once or never | - |
| `PolicyOperation` | `data-access-policy-operation.service.ts`, its repository, the metadata bulk, the request client | extends `ManagedPolicy`, instantiates `PolicyRegister` |
| `PolicyOperationProofs` | theorems about `PolicyOperation`, the refinement included | extends `PolicyOperation`, TLAPS |
| `ProjectAccount` | `project-auth.service.ts` (Apple), `apple-lifecycle.service.ts`, the `project-account-deletion*` files, restore | - |
| `ProjectAccountProofs` | theorems about `ProjectAccount` | extends `ProjectAccount`, TLAPS |
| `WipeLedger` | abstract: what the device wipe channel promises | - |
| `DeviceWipe` | `project-device-wipe*.ts`, migration 026, the restore's replay, deletion of the project and its database user | instantiates `WipeLedger` |
| `DeviceWipeProofs` | theorems about `DeviceWipe`, the refinement included | extends `DeviceWipe`, TLAPS |
| `DataAccessMigration` | `data-access-migration*.ts`, migration 019 | - |
| `AuthorizationProjection` | `data-access-authorization-projection*.ts`, its repository, the runtime context | - |
| `AuthorizationProjectionProofs` | theorems about `AuthorizationProjection` | extends `AuthorizationProjection`, TLAPS |
| `TableDeletion` | `table.service.ts`, the outbox and its recovery, migration 024, SQL import, the tracking done by realtime | - |
| `TableDeletionProofs` | theorems about `TableDeletion` | extends `TableDeletion`, TLAPS |
| `StorageObjects` | `storage.service.ts`, its controllers and access rules, the storage calls of functions | - |
| `StorageObjectsProofs` | theorems about `StorageObjects` | extends `StorageObjects`, TLAPS |
| `RealtimeClient` | the SDK's `realtime.ts`, `realtime-token.ts`, `project-auth.ts`, and how `DruviaClient.ts` joins them | - |
| `RealtimeClientProofs` | theorems about `RealtimeClient` | extends `RealtimeClient`, TLAPS |
| `MC...` | values of constants and symmetry sets for TLC | the module of the name |

The modules that share a mechanism model it each from its own side: the mutation
lock appears as the two-level lock in `RollbackGate`, `PolicyOperation`,
`AuthorizationProjection` and `TableDeletion`; the restore as seen by accounts in
`ProjectAccount` and by devices in `DeviceWipe`; the account deletion executor's
storage phase is one step of `ProjectAccount` and a process of `StorageObjects`;
`PolicyOperation` sees the projection as `depOk`, and `AuthorizationProjection`
sees policy operations as `PolicyChange`.

### RollbackGate and Updater

`gateTable` tells whether migration 027 has run, `gate` whether its row is active,
`held` and `pending` are the holder sessions that own or wait for the global lock, `mut` is a
mutation of the API between its admission and its end, `v2` tells whether v2
authorization state exists. `thawed` and `lateHolder` are history: a mutation was
admitted since the safety check; a holder of an earlier attempt took the lock.

The updater is one process with a program counter: `pc` names the next awaited
effect of the background operation (`ap_...` for an apply, `rb_...` for a
rollback), so that a failure (`OperationFails`, `SwitchedApplyFails`,
`RollbackFails`) or a `Crash` can fall between any two. `state` is the state
file; `files`, `staged` and `backups` the directories; `svc` the running versions.
A copy that is interrupted leaves an `Empty` file. The 250 ms interval of the
rollback is the process `Watchdog`, with `draining` for a tick in flight when the
interval is cleared. `fin` is the finalizer container, which patches the state
file, replaces the updater (a crash of it) and writes the result. At boot
`RecoverInterruptedOperation` decides from the state and the files alone. Two
constants switch environment faults on: `AmbiguousLaunch` (`docker run -d` reports
an error for a started container) and `WriteFaults` (a write of the state file
fails, a later one succeeds).

### ManagedPolicy, PolicyRegister and PolicyOperation

One table of one project. A *snapshot* says for each of `NKeys` permission keys
which rule it has; `perms` and `version` are what Hasura enforces and its resource
version, `base` is the row in `druvia_data_access_managed_policies`, `ops` are the
operation rows, `caps` the columns of the table, `depOk` whether the authorization
projection the policy rests on is still the recorded one. A handler (`h[w]`) goes
through the awaited steps of a call: take the lock, load, decide, claim, renew the
lease, send, await, verify, commit, confirm an unknown commit, restore. A request
is a message in `wire`: Hasura may apply it, reject it for its resource version,
answer that the bulk is unsupported, or stop in the middle of a non-atomic bulk,
at any later time; the handler may give up waiting before. When the session of a
handler dies (`conn`), its lock and its statements are gone while its requests are
not. The constant `Calls` selects the entry points, `Policies` the snapshots of the
instance, `NonAtomic` whether the fallback bulk exists, `ReplayReconcile` whether
clients apply a reconcile that is no longer a ready preview.

`PolicyRegister` is what is left of this for a client: a value with a revision,
operations planned for a revision, each of which moves the value once, from that
revision to the next, or never, and acknowledgements. `ImplementsRegister` maps the
value and the revision to `base`, the plans to the rows there are (`Plans`), those
that moved it to the rows completed by a write or as an adoption (`Tracked`), and the
acknowledgements to `acked`. The run `policy_update` checks it for updates and
recoveries, the theorem shows it for every call. A step of the register may be a commit whose answer is
lost; then the acknowledgement is a step of its own, or never taken.

### ProjectAccount

The life of one Apple subject in one project. A transaction under the
project-auth lock is one step; executors and the restore hold the same lock
through a session (`plock`) and take many. `identity` is the subject's only
identity row; every sign-up creates a new user, so that the user's number also
names the identity and orders it in time. `del`, `fence`, `dtok` are the deletion
operations, their fences and stored tokens with their leases; `ev` Apple's
notifications and their rows; `gate` and `backup` the restore's side. Executors
(`ex`) claim, run a phase, and advance or retry, and nothing in a phase looks at
the lease, as in the code. Clocks are not modelled: an intent or a lease may run
out at any time once its holder no longer renews it, or is stalled.

### WipeLedger and DeviceWipe

`WipeLedger` has two variables, the commands `issued` and `confirmed`, and two
actions. `DeviceWipe` has the rows (`cfg`, `key`, `bind`, `mand`), the secrets the
process was started with, the project schema (`hook`, `reg`, `owed`, `done`), the
last `backup`, the runtime `gate`, and what reached a device (`held`, `inbox`).
Every call of the channel is one transaction under the project-auth lock and one
action; a restore and a project deletion hold that lock over several steps, may
lose it with their session, and may crash. `Ledger == INSTANCE WipeLedger WITH`
reads `issued` and `confirmed` off the mandate rows; `ImplementsLedger` is the
refinement.

### DataAccessMigration

`rows` are the migration rows, oldest first; `rules`, `extra`, `cols` and `mode`
are what a snapshot covers. `loc` is the handler that holds the project's lock,
with the place it has come to: each place is one awaited request, statement or
probe, in the order of the service. The commands of a bulk go out in the order the
plan gives them, and a bulk that is not atomic may stop after any of them or
arrive `late`. Role expressions are reduced to none, owner, all and custom.

### AuthorizationProjection

`meta` is the metadata of the deployment: the permission of each table, and
`foreign` for everything of other projects. `base` are the baselines, `ops` the
batches, `view` and `caps` the state of the database the batch rests on. Handlers,
sessions (`conn`), requests (`wire`) and answers (`resp`) are as in
`PolicyOperation`. Assumed: a batch whose request was definitively not applied is
only recorded as such after the drain window (30 s abort and 5 s margin), by when
the request has arrived or never will; a lease that runs out under a living
handler counts as a fault. The relationship and the tracking of the projection
view follow the constraint; preview and apply fold the lock and the first export.
The error of an apply decides between a plain failure and a recovery, as in
`markApplyFailure`, also when the export that verifies it is rejected after Hasura
has carried the replacement out (`ExportRejected`). `astray` and `misjudged` are
history: tables changed behind the records, by a console edit or by such a batch,
until a recovery takes them up; and tables that still enforce what such a batch put
in place.

### TableDeletion

Hasura knows a table by its name, so relations are numbered: `rel[n]` is the one
that stands under `n`, and `hasura[n].grant` and `policy[n]` name the relation they
were granted for. `outbox` are the pending rows. A request of any kind, a
synchronisation's replacement of the whole document included, can be answered,
refused, lost, or carried out after its sender has given up or died (`late`): the
client sets no time limit and the lock is given back with the sender. `restored` is
history: names that a late replacement gave a grant, until they are granted anew. A
transaction of the database user can be `open` while the platform drops the table
of the same name. Each operation asks for the lock the code asks for
(`LockMode`); the configuration of realtime outside prod asks for none.

### StorageObjects

`rows` and `bytes` are the two sides of an object; a path belongs to one object id
for ever. A handler receives a body (`body`), then runs its transaction with the
provider's call in the middle. The row lock of the bucket is shared by all of
them, the advisory lock is per name. `grants` are reads that were allowed and
whose bytes are fetched later. `interrupted` and `reassigned` are history: paths
whose writer was cut short, and paths a trusted write has given to another user.

### RealtimeClient

`rt` is the channel with its token requests and its sockets; `scoped` and `legacy`
are the two storage keys of a session, `calls` the sign-ins, refreshes and
sign-outs, which read and write them one awaited call at a time. The channel's
methods are functions of its state, and each event (a settled request, a socket
event, a timer) is one action, as JavaScript runs it. A method that calls the
application back gives the set of states it may end in, because the application
may unsubscribe, subscribe or remove the channel from there (`Reactions`); what
such a nested call reports is heard, but not reacted to once more. A generation counter is represented by its only bearer. `raced`,
`doubled`, `fabricated` and the `stale` fields are history.

## 3. Runs

| run | shows |
|---|---|
| `updater` | All interleavings of operations, watchdog, finalizer, holders, mutations, two failures or crashes. |
| `policy_update` | Updates and recoveries with late requests, lost sessions and commits, the non-atomic bulk; the baseline implements `PolicyRegister`. |
| `policy_preview` | Adoption, reconcile, grant extension: preview, drift, apply, recovery; the lock is always given back. |
| `account` | One subject, two accounts, two deletions, two handlers, two executors, a notification, a restore, two faults. |
| `account_liveness` | Every accepted deletion is completed or brought to an operator's attention. |
| `account_return` | Finding: a revocation during a deletion locks the subject out for good. |
| `device_wipe` | The channel implements its ledger through rotation, replaced secrets, migrated hooks, lost answers, a restore and the deletion of the project; what is owed to a serviceable device is carried out. |
| `data_access_migration` | Migrations, rollbacks and recoveries of three kinds of project, with two faults, late command lists and changes from outside. |
| `authorization_projection` | Two batches over two tables with lost sessions, timeouts, rejected exports, console edits and a change of another project. |
| `table_deletion` | Two tables of two projects: no grant outlives its table, what stands keeps its grants, deletions complete. |
| `storage_objects` | Every way into an object for two users, with one provider error, lost commit or crash. |
| `realtime_client` | One channel over a storage with a legacy session: tokens, sockets, timers, callbacks and two sign-ins or sign-outs in every order; it gets back to a live stream. |

What each property says stands above it in its module. Some properties are
conjunctions of named parts, each with its own comment: `ReleaseRecoverable` (files
and containers at the recorded version, a backup to go on with, evidence that is
older), `OperationsSound`, `AccountsSound`, `RecordsSound`, `HistorySound`,
`ProjectionsSound`, `DroppedIsForgotten`, `ObjectsSound`, `ChannelSound`; most of them include the
type invariant of their module. The ones that took most thought:

* `ReleaseRecoverable`, `FailClosed`: from the state file and the files alone the
  boot must tell an untouched release from a switched one.
* `FrozenUntilDisabled`, `OldApiNeverOverV2`: the lock, the gate row, the holder's
  own check and the waiting safety check each close a different window.
* `SettledAgrees`, `LateWriteHarmless`: every recovery moves the resource version,
  so that a request sent earlier can only be rejected. In `AuthorizationProjection`
  the third outcome is a closed table, and a batch misjudged as failed is excepted
  (`ProjectionRejected.cfg`), as it is from `EnforcedHasContext`; in
  `DataAccessMigration`, whose requests carry no version, the snapshot is put back command by command.
* `OperationsSound`: a commit whose answer was lost is looked up, never repeated.
* `ImplementsRegister`: an operation may be applied again by its client, taken up by a
  recovery while its first handler still waits, or restored; the baseline moves for it
  once all the same, and a client is told of success only while it holds its value.
* `AcceptedIsFinal`: the identity's status alone does not keep a deleted user out,
  because a revocation overwrites it; the operation row does.
* `NoResurrection`: holds because a restore replays deletions that are accepted or
  in progress as well as completed ones, before the gate opens.
* `AccountsSound`: what belongs to the old account of a subject, a notification or
  a token that is being revoked, cannot touch the next one.
* `PhaseNeverGoesBack`: a stalled executor's late report is dropped by its lease
  token.
* `ImplementsLedger`: a restore brings back what the application owed; the replay
  of the receipts keeps it from being demanded again, also through a later
  revision of the binding.
* `NothingWidened`: an owner rule beside a legacy rule on all rows must stay one.
* `ClosedCanReopen`: the provenance of a closing must survive later batches. It
  does until a newer batch that leaves the table out has completed or failed closed
  (`Overtaken`), as the code looks at the newest such batch of the project only.
  Without that exception the statement is `ClosedAlwaysReopens`, which fails
  (`ProjectionReopen.cfg`). A console edit that is still there also excuses a table:
  every managed table of a batch must be as the platform left it.
* `DroppedIsForgotten`: rests on three things at once, the outbox row in the same
  transaction as the drop, the event trigger that reserves the name, and a lock
  that looks at the outbox. A table an SQL import drops is outside of it: the
  import tells Hasura nothing. Excepted (`restored`) are the permissions that a late
  replacement of the document brings back after the deletion was cleared; without
  the exception it fails.
* `StandingGrantsKept`: an unversioned replacement of the whole document spares
  what was granted only while its sender holds the exclusive lock, which keeps every
  other writer out but the one that only tracks (realtime outside prod). Excepted
  are requests carried out after their sender gave up, an untracking of the name or
  a replacement; `TableLateSync.cfg` shows the second.
* `ObjectsSound`: cleaning up after a failed upload may only touch a path made for
  it, and the shared lock of the bucket must be held until the commit.
* `OwnershipRespected`: without a row there is nothing to lock, so the name is; the
  preset is read again under the lock of the bucket.
* `ChannelSound`: sign-ins write the storage and announce themselves in two steps,
  and may overtake each other; the socket is of the stored session all the same,
  because each announcement starts a new read.
* `Reconnects`: a renewal that fails relies on the close or the expiry of the old
  socket, and a reconnect timer on its own handle having been cleared.

Each property has a mutant: a definition changed as a plausible mistake would
change it (`..._Suffix`, next to the original), under which TLC finds the property
violated.

### Bounds

* Updater: three versions, five operations, two faults, two waiting holders.
  Migration 027 ships with version 2, so version 1 is an API without a gate. Five
  operations are check, download, apply and two rollbacks, or two updates in a
  row; two faults are a failure and one in its handling. Two holders are the one of
  this attempt and one left behind.
* Policies: two permission keys, the fewest that give a bulk an intermediate
  state; two handlers, one of which may be a zombie of a lost session; two
  operations, three requests, one fault and one change from outside.
* Accounts: two users (an account and the one after it), two deletions, two stored
  tokens, one notification, two further calls and two faults. A sign-up, an intent,
  a notification and the work of executors are not counted, so that a whole
  deletion with a return and a restore fits. Handlers and executors are
  symmetric; the symmetry set is used only where no liveness is checked.
* Device wipe: one device that two users claim, two revisions, two obligations, two
  pairs of secrets, two versions of the hooks, two signing keys and two faults.
  Two obligations let one hide the other, two revisions let a later credential
  meet what an earlier one confirmed. Users and idempotency keys are
  interchangeable, so the first registration is fixed (`FirstRegistration`, a
  constraint that, once true of a registration, stays true).
* Migration: three projects (historical rules, an owner rule, a tracked view), two
  rows, two faults, one edit: a migration and one after it, or a migration and its
  rollback, with a failure and one in its recovery.
* Projection: two tables, the fewest for a batch to be partial; two batches, one
  fault, one change from outside, one recovery of a completed batch.
* Tables: two projects with a table each, two relations under a name, one deletion,
  one synchronisation, one fault. The name is used again, the synchronisation
  of one schema meets a grant in the other, and the fault can leave its replacement
  for later.
* Storage: one name, two users, two requests at a time, three requests in all, two
  buckets of one name, two objects, one fault. With two names nothing more is
  shared, since locks and paths are per object.
* Realtime: two calls, two token requests and two sockets at a time (the current one
  and one that is late), two sessions, two failures or changes of session and four
  events with the application's calls. A channel of one table; a second one adds a
  snapshot entry and no order of events (two subscriptions of one table are
  `RealtimeSameTable.cfg`).
* `CHECK_DEADLOCK FALSE` everywhere: with all operations used up and everything
  settled the systems really stop.

### Fairness

* Updater: weak fairness of the process (Docker restarts it, `restart:
  unless-stopped`; its steps are awaited promises), the watchdog interval, the
  finalizer container, and PostgreSQL granting locks. Status polls are part of the
  process: the admin interface polls while an update is shown. Faults, losses of
  the holder and new operations have no fairness. `OperationEnds` excepts the
  hang that `UpdaterLateHolder.cfg` demonstrates.
* Policies: weak fairness of each handler and of Hasura's answer, which the request
  bounds by an abort after 30 s.
* Accounts: weak fairness of each executor (a `setInterval` loop, one cycle after
  the other), of leases running out and of a running restore. Nothing is assumed
  about clients, operators or Apple. The run has one worker: handlers only start
  deletions.
* Device wipe: weak fairness of the device asking and answering with a credential
  it has; nothing about operators, the application or restores, which is why
  `OwedIsCarriedOut` speaks of a binding that stays serviceable.
* Migration and projection: weak fairness of a running handler, of Hasura's answer
  and of time (leases, drain), and of an operator who calls recover for a row that
  is owed one; the code has no loop that would. `RecoveryEnds` says that such a
  call is enough, and that repeating it is.
* Tables: weak fairness of a running handler and strong fairness of the recovery
  loop for each pending row: it comes back every 30 s and tries the lock, which
  others hold for the time of one request.
* Storage: weak fairness of a running request, strong fairness of the executor,
  which comes back for a deletion that is not over.
* Realtime: weak fairness of the channel's progress: requests are answered, the
  current socket opens and is acknowledged, a superseded one closes, and the
  reconnect timer fires. `fetch` has no time limit in the code, so that requests are
  answered is an assumption about the platform. Nothing is assumed about the
  application, the user or failures, which are counted and end.

## 4. Findings

One run ends in a counterexample to what the repository's own documents say;
`PROJECT.json` quotes the sentence and its line. `account_return`: the cleanup
deletes the identity in `deletion_pending` only; a revocation, a refused login or a
consent-revoked notification after the acceptance moves it on, and the subject is
refused for ever.

Further configurations are kept beside the runs. Each ends in a counterexample to
the property it names:

| configuration | module | what TLC shows |
|---|---|---|
| `UpdaterTornBackup.cfg` | `MCUpdater` | A backup file that exists and is not yet filled differs from the active file, so the boot takes an untouched release for a switched one (`docs/agent/design-decisions.md:256` lets ordinary operations go on). |
| `UpdaterLostFinalizer.cfg` | `MCUpdater` | A launch reported as failed clears the operation id; the finalizer that runs anyway writes `finalizing` again, and the poll skips a state without an operation id (`docs/agent/playbooks.md:1576`). |
| `UpdaterLateHolder.cfg` | `MCUpdater` | The session of a first attempt whose ready wait timed out takes the lock after the retry has terminated the granted ones; the safety check waits for it without a timeout (`docs/agent/playbooks.md:1577`). |
| `UpdaterLostWrite.cfg` | `MCUpdater` | The `finalizing` write lies outside the `try` that rolls back; an error there is recorded as an ordinary failure, and the next check drops the stage that names the backup (`docs/agent/playbooks.md:1579`). |
| `PolicyReplayedReconcile.cfg` | `MCPolicyOperation` | `applyPolicyReconcile` accepts its operation in any status but `completed`; a second apply settles an unresolved one as failed over the target permissions. |
| `PolicyInterruptedRecovery.cfg` | `MCPolicyOperation` | The recoverable states are the prefixes of source-to-target; those of the way back are not among them, so a recovery that stops half-way cannot be recovered. |
| `ProjectionReopen.cfg` | `MCAuthorizationProjection` | A batch that failed closed counts only until any newer batch of the project completes, whatever its tables; a table closed before it was recorded in a baseline is then refused by every later preview (`docs/plans/2026-09-15-data-access-v2-authorization-projection.md:216` says a new preview and apply open it again). |
| `ProjectionRejected.cfg` | `MCAuthorizationProjection` | A definitive 4xx of the export that verifies an apply settles the batch as failed after its replacement was carried out (`data-access-authorization-projection.service.ts:749` goes by the error alone): Hasura enforces a select that no baseline records, no recovery is offered, and the runtime context can be disabled under it (`docs/plans/2026-09-15-data-access-v2-authorization-projection.md:210` says failed when the metadata did not change). |
| `TableLateSync.cfg` | `MCTableDeletion` | A synchronisation sends `replace_metadata` without a time limit of its own or a resource version and gives the lock back when it fails (`table.service.ts:782`). Carried out later, it takes away grants made since in any schema (`docs/agent/design-decisions.md:126` says a synchronisation does not create, overwrite or clear permissions), or brings back those of a table that was dropped and forgotten. |
| `TablePendingName.cfg` | `MCTableDeletion` | A transaction that made a table before the deletion was enqueued commits after it: the relation stands under a pending name, and the deletion stays pending until it is dropped (`docs/agent/playbooks.md:1326` says every attempt to use the name fails). |
| `StorageErased.cfg` | `MCStorageObjects` | An upload admitted before the account deletion commits after the storage phase: an object of the deleted user is left (`docs/plans/2026-09-09-project-account-self-deletion.md:484`). |
| `RealtimeHalted.cfg` | `MCRealtimeClient` | An operation error or a close with 4401 arrives while a renewal's token request is under way: the token is installed all the same, and the halted channel is connected again (`docs/plans/2026-08-17-project-data-access-realtime-token-exchange.md:742` closes it "without reconnecting"). |
| `RealtimeResubscribe.cfg` | `MCRealtimeClient` | A subscribe from inside the `CLOSED` callback registers a status callback that the interrupted unsubscribe then clears (`realtime.ts:410`). |
| `RealtimeLegacy.cfg` | `MCRealtimeClient` | The move of a legacy session writes the value it has read over a sign-in, or after a sign-out (`project-auth.ts:202`). |
| `RealtimeSameTable.cfg` | `MCRealtimeClient` | Two subscriptions of one channel on one table share a snapshot, so the results of one are compared with those of the other. |

Noted while reading and without a property:

* A late consent-revoked notification is not compared with the identity's age
  (`apple-lifecycle.service.ts:149`) and revokes the account that came later.
* A reauthentication token kept for compensation
  (`project-account-deletion.service.ts:794`) may be revoked after the subject has
  authorized the application again; no fence covers it.
* The replay inspects the cleanup function even when there is nothing to replay
  (`project-account-deletion-restore.service.ts:91`), and `pg_restore` recreates
  that function with another owner.
* The operation id of a restore is the id of its backup. Two restores of one backup,
  after the first has lost its session, cannot be told apart when the gate opens.

## 5. Proofs

TLC checks a property on the instance of its run; the theorems below hold for every
value of the constants: any number of users, tables, workers, operations and
faults. Each proof module extends the module it is about. It defines the inductive
invariant as a conjunction of named parts, states what each action changes and what
it leaves alone, and shows for every part that no action breaks it. The candidates
were checked by TLC as invariants of the module's instance before they were proved.
The proofs assume what the module's ASSUME says of the constants, which TLC
evaluates in every run of the module.

### Updater (`UpdaterProofs`)

* `TypeCorrect`: `Spec => [](TypeOK /\ BackupNamed)`. `TypeOK` alone is not
  inductive, because a rollback reads the backup that a local names; `BackupNamed`
  says that an apply or rollback on its way names the backup of an operation.
* `GateOwnership`: `Spec => []GateIsOwned`, and `FinalizerWritesAlone`:
  `Spec => []SingleWriter`, both if `~AmbiguousLaunch` and `~WriteFaults`. With
  either fault the statements fail (`UpdaterLostFinalizer.cfg`, `UpdaterLostWrite.cfg`). The invariant
  `OwnerInv` adds what the two do not say: which program counters owe a rollback,
  that no other one can see an active gate, and that the finalizer runs only in
  `finalizing`.
* `FrozenRollback`: `Spec => FrozenUntilDisabled`, without assumptions on faults.
  `FreezeInv` says that between the safety check and the start of the API nothing
  runs that could mutate, and from then on that a held lock has been held all
  along: once lost it cannot be regained, because no other holder is waiting. The
  exception `lateHolder` is the session of `UpdaterLateHolder.cfg`.
* `ReleaseRecovers`: `Spec => []ReleaseRecoverable`, and `FailedRollbackIsClosed`:
  `Spec => []FailClosed`, both if `~AmbiguousLaunch` and `~WriteFaults`, which break
  what is known of the state file. The invariant `ReleaseInv` follows files, containers and
  backups through every step of an apply and a rollback: `StateInv` what the state
  file says of them, `BackupInv` which backup each step may rely on, `EvidenceInv`
  what the other backup directories hold, `ApplyInv` and `RollbackInv` how far the
  switch has come and what the locals of the process name, `ClosedInv` that the
  services are down from the stop of a rollback to its restart, and stay down when it
  fails. `ReleaseRecoverable` alone is about states at
  rest, and says nothing that a step in between could be shown to preserve.
* `OldApiKeptAway`: `Spec => []OldApiNeverOverV2`, under the same two assumptions,
  from `ReleaseInv`, `FreezeInv` and `OldInv`: an API, or a release on disk, from
  before migration 027 has no v2 state under it and no mutation that could still
  write one.

### Managed policies (`PolicyOperationProofs`)

* `OperationsAreSound`: `Spec => []OperationsSound`; `ForeignRulesAreKept`:
  `Spec => ForeignRulesKept`. Both follow from `RecordsInv`: a handler's copy of the
  metadata with the current version is the metadata (`VersionAt`), so that a request
  Hasura still accepts drops exactly the rules that are there (`RequestsSound`), and
  those are rules the platform made (`SenderAt`); the lock is that of the one handler
  whose session lives (`SessionAt`), no row but its own is in flight, and that row and
  the columns are as it left or read them (`HeldAt`); a handler goes through the steps
  of its mode only (`PlacedAt`).
* `PermissionsAgree`: `Spec => []SettledAgrees`; `LateWritesAreHarmless`:
  `Spec => []LateWriteHarmless`, both if `~ReplayReconcile`. Without that they fail
  (`PolicyReplayedReconcile.cfg`). `SettledAgrees` is silent while an operation is in
  flight, so `WriteInv` says what is on its way: whatever is conditional on the current
  version belongs to an operation in flight, as a request or in the hands of a handler
  that may still send it (`AllLive`); the holder of the lock has read a version no
  older than any of these (`FencedAt`), alone writes for the operation it has claimed
  first (`SoleAt`), and settles a recovery only when the version it read is past
  (`PassedAt`); it knows what the metadata hold (`AgreesAt`), and an operation in
  flight was planned from the baseline (`BaseAgrees`).
* `PoliciesImplementRegister`: `Spec => ImplementsRegister`, the refinement of
  `PolicyRegister`, with no premise: whatever becomes of the metadata, the baseline is
  moved by the row of an operation or not at all. A step is a plan, a move, an
  acknowledgement, or leaves the register alone. Beside `RecordsInv` it needs
  `RegisterInv`: a handler past its claim works on a row that was claimed and that only
  a write can complete (`ClaimedAt`), a handler about to claim has a row (`NamedAt`), and
  nobody moves the baseline under an update that has nothing to do (`NoopAt`).

### Account self-deletion (`ProjectAccountProofs`)

* `AccountRecords`: `Spec => []AccountsSound`; `AcceptanceIsFinal`:
  `Spec => []AcceptedIsFinal`; `DeletedStaysDeleted`: `Spec => []NoResurrection`;
  `PhasesAdvance`: `Spec => PhaseNeverGoesBack`.
* `AccountInv` adds to the type invariant `RecordsInv` (status, phase and fence of a
  deletion agree, an open fence keeps everybody else from being the subject, and what
  the phases behind it have removed stays removed), `EventsInv` (a notification that
  waits is for an account older than it), `WorkersInv` and `ExecutorsInv` (an executor
  that still holds the lease is in the phase of the row, and what its phase had to
  remove is gone when it reports), and `RestoreSound` (the gate is closed while a
  restore is at work).
* `NoResurrection` excepts `late`, the writes of requests that were admitted before the
  acceptance, and says nothing while the gate is closed. The steps that need most are
  those of the restore: they bring users back, and the gate opens only after the
  replay of every deletion that was accepted.

### Device wipe (`DeviceWipeProofs`)

* `ChannelRecords`: `Spec => []RecordsSound`.
* `ChannelImplementsLedger`: `Spec => ImplementsLedger`, the refinement of
  `WipeLedger`: every step is a ledger's issue, confirmation or stutter. The step
  that needs the invariant is the issue of what the application lists as owed: after a
  restore the list may hold what was confirmed before, unless the receipts were
  replayed.
* `RecordsInv` has the parts of `RecordsSound` and what they rest on: `BindingsKnown`
  (mandates and credentials are those of registered bindings, made with the secrets
  the project was set up with), `OneSigningKey`, and `LongStepsFenced` (a deletion
  under way holds the lock and has found no binding, a restore under way has closed
  the gate).

### Storage (`StorageObjectsProofs`)

* `RowsAndBytes`: `Spec => []ObjectsSound`; `DirectRequestsKeepOwnership`:
  `Spec => OwnershipRespected`.
* `ObjectsInv` has the parts of `ObjectsSound`, and what a request between two of its
  steps may count on: nobody else works on its name or path (`HandlersApart`), the path
  it made is of no row yet (`PathInv`), the preset and the owner that allowed it are
  still there (`AccessInv`), so are the bytes it wrote (`BytesInv`).

### Tables (`TableDeletionProofs`)

* `DroppedTablesForgotten`: `Spec => []DroppedIsForgotten`; `StandingGrantsAreKept`:
  `Spec => StandingGrantsKept`. Both name what a late replacement of the document may
  do as an exception.
* `DeletionInv`: `Numbered` says that the relation under a name is its youngest and
  younger than the one dropped last, and that none is granted anything while its name
  is pending (so that untracking a pending name takes nothing that stands);
  `Forgotten` that the grant of a dropped one is
  under a pending name that nobody can use, `Alone` that the holder of the exclusive
  lock is the only handler at work, `CopyFit` that what a synchronisation is about to
  write brings back no grant of a dropped table and loses none of a relation that
  stands, `Cleared` that an outbox row is removed only when Hasura has no grant left
  (the last three but for names in `restored`), and `LateInv` that a document that may
  still be put in place has grants of relations that were made.

### Authorization projection (`AuthorizationProjectionProofs`)

* `RecordsAreSound`: `Spec => []ProjectionsSound`; `SettledTablesAgree`:
  `Spec => []SettledAgrees`; `ForeignChangesKept`: `Spec => ForeignMetadataKept`;
  `ClosedTablesReopen`: `Spec => []ClosedCanReopen`.
* `ProjectionInv` has four groups. `HandlersInv`: the lock is that of the one handler
  whose session lives, and a handler works on the contract of its row. `RowsInv`: at
  most one batch is open and it is newer than all that wrote a baseline, the newest
  one that wrote is what the baselines record, a batch that failed closed covers
  every table under a projection until a newer one writes. `RequestsInv`: a copy of
  the document at the current resource version is the document, so that only a
  request built from the document of the moment is ever applied; a request under way
  belongs to a batch in flight whose lease has not drained. `TablesInv`: a table
  enforces what is recorded, or is closed by a batch that says so, unless a batch in
  flight covers it (`KeptUnlessInFlight`); a batch not yet applied was made over such
  tables (`FreshSource`); what a handler has seen still holds (`Progress`).
* `SettledAgrees` is not inductive because it says nothing while a batch is in
  flight, when a late request may still close or open its tables. It excepts what is
  `astray`, and `EnforcedHasContext` what is `misjudged`: what can become
  of these tables is shown by `ProjectionRejected.cfg`.

### Realtime (`RealtimeClientProofs`)

* `ChannelIsSound`: `Spec => []ChannelSound`; `NothingIsFabricated`:
  `Spec => []NothingFabricated` if no two subscriptions of the channel are of one
  table (`OneEach`). Without that it fails (`RealtimeSameTable.cfg`).
* The methods are functions of the channel's state, so the proof goes method by
  method: a lemma for each says which fields it changes, and that it takes a sound
  channel to sound ones (`Sound`) which carry over nothing but what there was
  (`Carries`). The callbacks need most care, since an application may unsubscribe,
  subscribe again or remove the channel from any of them: after each the channel is as
  it was but for what the application heard, or everything it held is given up
  (`Emitted`, `GivenUp`), and what the interrupted method still does to it is sound in
  both cases. The steps of the specification then compose two or three methods each.
* `Sound` has the parts of `ChannelSound` and what they rest on: the request whose
  answer is awaited is not outdated (`TokenSound`), a timer is only armed in its phase
  of the handshake (`TimerSound`), and a live socket's snapshots are of its own results
  (`StreamSound`), from which `NothingFabricated` follows.
* `SessionInv` relates the channel to the storage: a socket, and a request that has
  read its session since the last announcement, have the session in force, unless a
  change is not announced yet or a race is on record (`SocketAgrees`,
  `RequestsAgree`). It needs that a move of a legacy session cannot end by changing
  the session in force (`DropIsHarmless`), although it may when it writes.

### What stays with TLC

* Liveness, which is out of the prover's reach: `OperationEnds`, `LockReleased`,
  `DeletionEnds`, `OwedIsCarriedOut`, `RecoveryEnds` (two modules),
  `DeletionCompletes`, `ErasureEnds`, `Reconnects`.
* The safety properties of `DataAccessMigration` (`HistorySound`, `SettledAgrees`,
  `NothingWidened`): their inductive invariants are not written yet.

## 6. What is not modelled

* Time is not measured: leases, deadlines and intents run out nondeterministically,
  which allows more behaviours than the code.
* Updater: contents of manifests and environment files beyond the version,
  registry logins, the database backup of an apply beyond success or failure, disk
  space.
* Policies: several tables in one operation, changes of schema identity, table
  tracking, the contents of an authorization projection (reduced to `depOk`).
* Accounts: other providers, trusted-backend sessions, logout, email events,
  several audiences per identity, several subjects. The restore of one project at
  a time; a second restore while the first has lost its session is left out.
  Connections of the pool are not counted.
* Device wipe: signatures and canonical encodings (reduced to the key and the party),
  rate limits, audit events, several devices at a time, the loss of the lock's session
  under the deletion of the project (that of a restore is modelled).
* Migration: the contents of expressions and column presets, several tables (one map
  of rules stands for all), the probes of the verifier beyond success or failure.
* Projection: the SQL of the projection view and its dependency closure (one
  Boolean), validation of contracts.
* Tables: `_meta_tables`, columns, foreign keys, relationships, and the loss of the
  lock's session under a creation or a synchronisation. The entry of a table that an
  SQL import drops is left to the next synchronisation, as in the code.
* Storage: public buckets (their URL goes by name), limits of size and type, the
  contents of tickets, the loss of the transaction's session under the provider's
  call. A trusted overwrite that is cut short leaves the new bytes under the old
  owner's row (`reassigned`); the executor is modelled as listing one row at a time.
* SDK: a repeated `connection_ack` on an open connection, a `socket.send` that throws,
  backoff and expiry times, several channels, the cached project token of HTTP
  requests, platform sign-in, and the query builder, storage and functions modules,
  which build single requests.
* The larger part of the repository's lines is the admin interface, the MCP server,
  dashboards and request parsing around single statements; they keep no
  state of their own and are listed as `not_modelled` in `PROJECT.json`, each with
  the reason.

## 7. Plan

Done: `RollbackGate`, `Updater`, `UpdaterProofs`; `ManagedPolicy`,
`PolicyRegister`, `PolicyOperation`, `PolicyOperationProofs`; `ProjectAccount`,
`ProjectAccountProofs`; `WipeLedger`, `DeviceWipe`, `DeviceWipeProofs`; `DataAccessMigration`; `AuthorizationProjection`,
`AuthorizationProjectionProofs`; `TableDeletion`, `TableDeletionProofs`;
`StorageObjects`, `StorageObjectsProofs`; `RealtimeClient`, `RealtimeClientProofs`.

Next, in this order:

1. Proofs about `DataAccessMigration`: `HistorySound`, `NothingWidened`.
2. An abstract specification of a deletion (a state that only goes forward).
3. Sessions: rotation of refresh tokens on the server with trusted sessions and
   logout; rate limits with their memory fallback; the migration command; the worker's deployments.
